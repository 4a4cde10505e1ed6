SPECIFICATION FairSpec
CONSTANTS
  t1 = t1
  t2 = t2
  i1 = i1
  i2 = i2
  Threads <- MCThreads
  Images <- MCImages
  Dummy = Dummy
  None = None
  Backend = "tensorrt"
  ClientLock = TRUE
  Exceptions = FALSE
  MaxPending = 2
  MaxIterations = 2
INVARIANTS TypeOK PipelineInv ResultOfOwnCall TensorsReleased
PROPERTIES HostBufferStable ServiceSpec CallsReturn
