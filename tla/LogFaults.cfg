SPECIFICATION FairSpec
CONSTANTS
  t1 = t1
  t2 = t2
  fileA = fileA
  fileB = fileB
  noDir = noDir
  core = core
  Threads <- MCThreads
  Modules <- MCModules
  Levels <- OneLevel
  Paths <- FaultyPaths
  Openable <- OneFile
  EmptyPath = EmptyPath
  None = None
  MaxSize = 2
  MaxMessages = 3
  CloseRaces = FALSE
  RenameFails = TRUE
INVARIANTS RetainedIsSuffix ClosedStaysClosed
PROPERTIES MutexReleased
