SPECIFICATION Spec
CONSTANTS
  l1 = l1
  l2 = l2
  l3 = l3
  t1 = t1
  t2 = t2
  codex = codex
  opencode = opencode
  Logins <- MCLogins
  Terminals <- MCTerminals
  Scopes <- MCScopes
  None = None
SYMMETRY Symmetry
CHECK_DEADLOCK FALSE
INVARIANTS
  Exclusive
  GateIsOwned
  RedirectsExpected
PROPERTIES
  LateRedirectRefused
