SPECIFICATION Spec
CONSTANTS
  Readers = {r1}
  MaxAttempt = 2
  RowsPerTurn = 2
  RingSize = 4
  QueueSize = 1
  MaxConnects = 2
  MaxCrashes = 1
  Rush = {}
CHECK_DEADLOCK FALSE
INVARIANTS
  SeenInOrder
  SeenIsComplete
  MirrorKeepsSeq
  EndedStreamIsComplete
