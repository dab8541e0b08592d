SPECIFICATION Spec
CONSTANTS
  Creates = {c1, c2}
  Resumes = {r1}
  Redriven = {d1, d2, d3}
  Failing = {c1, c2}
  MaxConcurrent = 2
  MaxQueueSize = 1
CHECK_DEADLOCK FALSE
SYMMETRY Interchangeable
INVARIANTS
  SlotConservation
  AtMostTwiceMaxConcurrent
  NoLostWakeup
  RunningCounted
  QueuedCounted
