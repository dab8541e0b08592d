SPECIFICATION FairSpec
CONSTANTS
  Creates = {c1, c2, c3, c4}
  Resumes = {r1}
  Redriven = {}
  Failing = {}
  MaxConcurrent = 2
  MaxQueueSize = 1
CHECK_DEADLOCK FALSE
INVARIANTS
  AtMostMaxConcurrent
PROPERTIES
  RejectOnlyWhenSaturated
  ScheduledJobRuns
  ImplementsSlotPool
