SPECIFICATION Spec
CONSTANTS
  all = all
  plotall = plotall
  point = point
  base = base
  lib = lib
  x = x
  y = y
  h = h
  GF = GF
  pointName = pointName
  C = C
  Graph = Graph
  Ring = Ring
  ownFile = ownFile
  sageFile = sageFile
  oneName = oneName
  oneKey = oneKey
  Modules <- FiveModules
  ExportModules <- ExportOnes
  SageModules <- SageOnes
  Submodule <- Packages
  Endings <- Packages
  Private <- Hidden
  Files <- SomeFiles
  CaseVariants <- Alike
  docs = docs
  MatrixConstructor = MatrixConstructor
  NoDoc = NoDoc
  NoFile = NoFile
  NoAll = NoAll
  NoClass = NoClass
  NoTarget = NoTarget
  NoSymbol = NoSymbol
  StaticExports <- BuiltInExports
  ClassOwner <- GraphClasses
  ModuleOwner <- RingModules
  StaticMethods <- BuiltInMethods
  MaxDepth = 8
  MaxPending = 2
  Paths <- TwoPaths
  EditablePaths <- OneEditable
  Opened <- OneEditable
  Material <- OneMaterial
  Identifiers <- OneName
  Key <- OneKey
  HotKeys <- Hot
  Texts <- SomeTexts
  Absent = Absent
  NoRow = NoRow
  TornCrash = FALSE
  MaxEvents = 0
  None = None
  Vocabularies <- AllVocabularies
  MaxLines = 1
  MaxIndent = 2
  Constructors <- SomeConstructors
  MethodReturn <- SomeReturns
  SageFile = TRUE
  FileOrder <- InOrder
  Mod <- SixModules
  Ext <- Extensions
  SageAll = "sage.all"
  SageAllModules = {"sage.all"}
  Editable <- OwnFiles
  MaxImports = 3
  Closed = Closed
  Scenarios <- EditScenario
INVARIANT RenameKeepsIdentity
CHECK_DEADLOCK FALSE
