SPECIFICATION FairSpec
CONSTANTS
  RunLogins = {s1}
  UserLogins = {u1}
  Polls = 1
  Clients = 1
  LastLogin = 2
  LastShared = 1
  MaxTicket = 2
  MaxCrashes = 1
  Eager = FALSE
  Hasty = FALSE
  Stale = FALSE
  None = None
CHECK_DEADLOCK FALSE
INVARIANTS
  OneTurnPerAttempt
  WaitingIsActionable
  FailedRowIsOver
PROPERTIES
  ImplementsStatechart
  LoginResumes
