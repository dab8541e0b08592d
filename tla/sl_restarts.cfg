SPECIFICATION FairSpec
CONSTANTS
  Leases = {l1, l2}
  Runs = {r1}
  MaxCrashes = 2
INVARIANTS
  ActiveRowIsHeld
  WatchedIsLeased
PROPERTIES
  LeasedOrphanEnds
  AbandonedServerStops
