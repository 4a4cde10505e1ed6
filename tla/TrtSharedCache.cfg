SPECIFICATION FairSpec
CONSTANTS
  p1 = p1
  p2 = p2
  m1 = m1
  m2 = m2
  Procs <- TwoProcs
  Models <- TwoPaths
  None = None
  Corrupt = Corrupt
  MaxVersion = 2
  MaxLoads = 1
  OneModel = TRUE
  Exceptions = FALSE
  Crashes = TRUE
INVARIANTS TypeOK NoLeak HandleUsable CacheOfOwnModel
PROPERTIES LoadReturns
