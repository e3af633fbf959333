SPECIFICATION FairSpec
CONSTANTS
  p1 = p1
  p2 = p2
  c1 = c1
  c2 = c2
  h1 = h1
  h2 = h2
  Paths <- OnePath
  Excluded <- NoPaths
  Sources <- OneSource
  Absent = Absent
  Unreadable = Unreadable
  Handlers <- TwoHandlers
  NoTask = NoTask
  MaxJobs = 2
  MaxEdits = 2
  MaxSaves = 0
  Faults <- NoFaults
  Deletions = TRUE
  MixedBatches = FALSE
  Overtaking = FALSE
PROPERTIES LatestJobInstalls CatchesUp MarksClear
CHECK_DEADLOCK FALSE
