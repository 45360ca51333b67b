SPECIFICATION Spec
CONSTANTS
  service = service  screen = screen  reply = reply  loop = loop
  Clients = {service, screen}
  Replies = {reply}
  Pings = {loop}
  ClientsOf <- MCClientsOf
  MaxAttempts = 2
  MaxFaults = 2
  MaxRestarts = 1
CHECK_DEADLOCK FALSE
INVARIANTS SignedLinkInv NotPairedIsTrue RefusedOnlyIfRobbed
PROPERTY RepliesEnd
