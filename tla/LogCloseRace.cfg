SPECIFICATION Spec
CONSTANTS
  t1 = t1
  t2 = t2
  fileA = fileA
  fileB = fileB
  noDir = noDir
  core = core
  Threads <- MCThreads
  Modules <- MCModules
  Levels <- TwoLevels
  Paths <- OneFile
  Openable <- OneFile
  EmptyPath = EmptyPath
  None = None
  MaxSize = 1
  MaxMessages = 1
  CloseRaces = TRUE
  RenameFails = FALSE
INVARIANTS ClosedStaysClosed
