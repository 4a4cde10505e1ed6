SPECIFICATION Spec
CONSTANTS
  p1 = p1
  p2 = p2
  m1 = m1
  m2 = m2
  Procs <- OneProc
  Models <- OnePath
  None = None
  Corrupt = Corrupt
  MaxVersion = 1
  MaxLoads = 2
  OneModel = TRUE
  Exceptions = FALSE
  Crashes = FALSE
INVARIANTS NoLeak
