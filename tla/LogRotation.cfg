SPECIFICATION Spec
CONSTANTS
  t1 = t1
  t2 = t2
  fileA = fileA
  fileB = fileB
  noDir = noDir
  core = core
  Threads <- MCThreads
  Modules <- MCModules
  Levels <- OneLevel
  Paths <- TwoFiles
  Openable <- TwoFiles
  EmptyPath = EmptyPath
  None = None
  MaxSize = 2
  MaxMessages = 4
  CloseRaces = FALSE
  RenameFails = FALSE
SYMMETRY Symmetry
INVARIANTS TypeOK SizeIsTracked FileMatchesConfig
PROPERTIES RotationReopens
