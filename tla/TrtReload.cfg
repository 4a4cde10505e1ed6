SPECIFICATION Spec
CONSTANTS
  p1 = p1
  p2 = p2
  m1 = m1
  m2 = m2
  Procs <- OneProc
  Models <- TwoPaths
  None = None
  Corrupt = Corrupt
  MaxVersion = 2
  MaxLoads = 3
  OneModel = TRUE
  Exceptions = TRUE
  Crashes = FALSE
INVARIANTS HandleUsable
