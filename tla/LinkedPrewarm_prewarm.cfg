SPECIFICATION PrewarmFairSpec
CONSTANTS
  p1 = p1
  c1 = c1
  c2 = c2
  h1 = h1
  d1 = d1
  w1 = w1
  w2 = w2
  Paths <- OnePath
  Excluded <- NoPaths
  Sources <- OneSource
  Absent = Absent
  Unreadable = Unreadable
  Handlers <- OneHandler
  NoTask = NoTask
  MaxJobs = 1
  MaxEdits = 1
  MaxSaves = 0
  Faults <- NoFaults
  Deletions = TRUE
  MixedBatches = FALSE
  Overtaking = FALSE
  Documents <- OneDocument
  Warmers <- TwoWarmers
  MaxSchedules = 2
PROPERTIES NoPreloadLost NoLatePreload BothDrain
CHECK_DEADLOCK FALSE
