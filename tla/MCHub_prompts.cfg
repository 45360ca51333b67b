SPECIFICATION Spec
CONSTANTS
  w1 = w1  w2 = w2  s1 = s1  s2 = s2  s3 = s3  r1 = r1  r2 = r2  r3 = r3
  Windows = {w1, w2}
  SessionIDs = {s1, NoSession}
  NoSession = NoSession
  Requests = {r1, r2, r3}
  NoRequest = NoRequest
  Parts = {1}
  Kinds <- PromptKinds
  Reports = {"busy"}
  Disconnects = TRUE
  RingSize = 2
  ConvSize = 2
  MaxSessions = 1
  MaxDecisions = 1
  MaxSeq = 5
  MaxConv = 5
  MaxDec = 2
  MaxUpstreams = 2
  MaxTime = 0
SYMMETRY RequestSymmetry
CHECK_DEADLOCK FALSE
INVARIANTS
  HubInv
  RefusalIsExact PollIsGapFree OneDecisionPerRequest
  SettledIsNotAdvertised DecisionsGoHome
PROPERTIES
  EchoedCursorYieldsOnlyNew
