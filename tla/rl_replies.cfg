SPECIFICATION FairSpec
CONSTANTS
  Conversations = {"session", "session_timeout", "oneshot"}
  Faults = {}
  Situations = {"calm", "eager"}
  MaxRepairs = 1
  MaxAttempt = 3
  Replies = 2
  Polls = 0
  Cancels = 0
  MaxCrashes = 0
CHECK_DEADLOCK FALSE
INVARIANTS
  StoresAgreeAtRest
  LiveTurnIsRunning
PROPERTIES
  ImplementsTurnTaking
  ImplementsStatechart
  AnswerDelivered
  WaitingResumes
