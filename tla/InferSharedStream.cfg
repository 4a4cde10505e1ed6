SPECIFICATION Spec
CONSTANTS
  t1 = t1
  t2 = t2
  i1 = i1
  i2 = i2
  Threads <- MCThreads
  Images <- MCImages
  Dummy = Dummy
  None = None
  Backend = "tensorrt"
  ClientLock = FALSE
  Exceptions = FALSE
  MaxPending = 3
  MaxIterations = 1
INVARIANTS OutputOfOwnImage
