SPECIFICATION Spec
CONSTANTS
  u1 = u1
  f1 = f1
  t1 = t1
  t2 = t2
  r1 = r1
  r2 = r2
  h1 = h1
  Uris <- OneUri
  Physical <- OwnFile
  Texts <- TwoTexts
  Requests <- TwoRequests
  Handlers <- OneHandler
  None = None
  Capacity = 2
  MaxVersion = 3
  MaxIndexes = 2
  Reopens = FALSE
SYMMETRY Symmetry
INVARIANTS TypeOK
PROPERTIES CacheIsInvisible
CHECK_DEADLOCK FALSE
