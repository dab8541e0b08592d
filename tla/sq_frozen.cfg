SPECIFICATION FairSpec
CONSTANTS
  AsyncOps = {a1, a2}
  SyncOps = {s1}
  None = None
CHECK_DEADLOCK FALSE
PROPERTY CallReturns
