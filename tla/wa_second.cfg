SPECIFICATION Spec
CONSTANTS
  RunLogins = {s1}
  UserLogins = {}
  Polls = 1
  Clients = 1
  LastLogin = 2
  LastShared = 1
  MaxTicket = 3
  MaxCrashes = 0
  Eager = FALSE
  Hasty = FALSE
  Stale = TRUE
  None = None
CHECK_DEADLOCK FALSE
INVARIANT OneTurnPerAttempt
