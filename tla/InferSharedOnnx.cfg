SPECIFICATION Spec
CONSTANTS
  t1 = t1
  t2 = t2
  i1 = i1
  i2 = i2
  Threads <- MCThreads
  Images <- MCImages
  Dummy = Dummy
  None = None
  Backend = "onnxruntime"
  ClientLock = FALSE
  Exceptions = TRUE
  MaxPending = 1
  MaxIterations = 2
SYMMETRY Symmetry
INVARIANTS OutputOfOwnImage
