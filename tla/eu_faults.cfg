SPECIFICATION FairSpec
CONSTANTS
  t1 = t1
  t2 = t2
  Requests = {t1, t2}
  Engines <- TwoEngines
  None = None
  StoreFails = TRUE
  MaxCrashes = 1
CHECK_DEADLOCK FALSE
INVARIANTS
  OneInstaller
  ShownIsInstalled
  PersistedIsShown
PROPERTIES
  AcceptedSettles
