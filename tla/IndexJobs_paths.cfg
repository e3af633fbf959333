SPECIFICATION Spec
CONSTANTS
  p1 = p1
  p2 = p2
  c1 = c1
  c2 = c2
  h1 = h1
  h2 = h2
  Paths <- TwoPaths
  Excluded <- SecondPath
  Sources <- TwoSources
  Absent = Absent
  Unreadable = Unreadable
  Handlers <- TwoHandlers
  NoTask = NoTask
  MaxJobs = 1
  MaxEdits = 2
  MaxSaves = 0
  Faults <- WriteFails
  Deletions = TRUE
  MixedBatches = FALSE
  Overtaking = FALSE
SYMMETRY Symmetry
PROPERTIES MarkClearedWhenPersisted
CHECK_DEADLOCK FALSE
