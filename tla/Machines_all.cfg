SPECIFICATION MachinesSpec
CONSTANTS
  s1 = s1
  s2 = s2
  i1 = i1
  i2 = i2
  workspace = workspace
  checkout = checkout
  packages = packages
  e1 = e1
  e2 = e2
  e3 = e3
  d1 = d1
  d2 = d2
  d3 = d3
  Scopes <- TwoScopes
  NoScope = NoScope
  Interpreters <- TwoInterpreters
  FirstScope = s1
  Roots <- ThreeRoots
  SageRoots <- WithSage
  PackageRoots <- SitePackages
  Folders <- OneFolder
  Nearby = {}
  Heuristic <- NothingFound
  Probe <- OneEach
  FolderSettings = FALSE
  NoDiscovery = NoDiscovery
  NoClient = NoClient
  MaxEvents = 4
  MaxJobs = 4
  MaxRefreshes = 2
  MaxReschedules = 2
  MaxSchedules = 3
  WorkersFail = FALSE
  Executions <- ThreeRuns
  Digests <- ThreeDatabases
  Sizes = {1, 2}
  MaxAge = 2
  MaxAgeDays = 2
  MaxTotalBytes = 3
  KeepLatestDatabases = 1
  OrphanMaxAgeDays = 2
  SizePruneMinAgeDays = 1
  k1 = k1
  k2 = k2
  project = project
  nested = nested
  library = library
  fa = fa
  fb = fb
  fl = fl
  q1 = q1
  Symbols <- TwoScopes
  Tasks <- TwoTasks
  NoTask = NoTask
  NoReply = NoReply
  MaxLines = 2
  SourceFiles <- ThreeFiles
  SourceRoots <- IndexedRoots
  Under <- Below
  Editable <- EditableRoots
  SageFiles <- LibraryFiles
  Contents <- PlainTexts
  PeerRows <- InPeers
  Peers <- OnePeer
  Missing = Missing
  AnyDamage = FALSE
  MaxIncidents = 2
  MaxRestarts = 1
INVARIANTS NoStaleRoots EveryRunCleaned CapRespected AnswersMatch InflightExact
INVARIANTS RefreshIsIncremental WarmCacheIsWhole
PROPERTIES AddedRootsReachClient RebuildWaitAnswers ScheduleIsServed ProcessFreed
CHECK_DEADLOCK FALSE
