SPECIFICATION Spec
CONSTANTS
  m1 = m1  m2 = m2  h1 = h1  h2 = h2
  Messages = {m1, m2}
  NoMessage = NoMessage
  Date <- MCDate
  Handlers = {h1, h2}
  Leeway = 1
  MaxNonces = 1
  MaxAttempts = 2
  Window = 3
  MaxTime = 7
  MaxRequests = 5
  MaxRestarts = 1
SYMMETRY Symmetry
CHECK_DEADLOCK FALSE
INVARIANTS AdmissionInv CarriedOutOnce AcceptableIsRemembered LockIsExact
