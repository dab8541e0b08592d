SPECIFICATION FairSpec
CONSTANTS
  Conversations = {"session", "session_timeout", "oneshot"}
  Faults = {"queue_full", "audit", "bundle"}
  Situations = {"cancel", "crash"}
  MaxRepairs = 2
  MaxAttempt = 3
  Replies = 2
  Polls = 1
  Cancels = 1
  MaxCrashes = 1
CHECK_DEADLOCK FALSE
INVARIANTS
  SingleOwner
  WaitingIsAnswerable
PROPERTIES
  RunSettles
  CancelStopsFurtherTurns
