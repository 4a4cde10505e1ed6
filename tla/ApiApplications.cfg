SPECIFICATION MainSpec
CONSTANTS
  t1 = t1
  t2 = t2
  n1 = n1
  n2 = n2
  i1 = i1
  i2 = i2
  e1 = e1
  m1 = m1
  r1 = r1
  r2 = r2
  r3 = r3
  Threads <- MCThreads
  Networks <- MCNetworks
  Images <- MCImages
  Engines <- MCEngines
  Models <- MCModels
  Results <- MCResults
  Builds <- MCBuilds
  Batches <- MCBatches
  PathLists <- MCPaths
  Main = t1
  ModelFile = n1
  None = None
  Lost = Lost
INVARIANTS TypeOK Ownership NoUseAfterFree RunsOwnNetwork BatchInOrder MessageNotStale
  ExamplesGiveBack
PROPERTIES ApiSpec ExamplesEnd
