SPECIFICATION Spec
CONSTANTS
  w1 = w1  w2 = w2  s1 = s1  s2 = s2  s3 = s3  r1 = r1  r2 = r2  r3 = r3
  Windows = {w1}
  SessionIDs = {s1, s2, s3}
  NoSession = NoSession
  Requests = {r1, r2}
  NoRequest = NoRequest
  Parts = {1}
  Kinds <- SessionKinds
  Reports = {"busy"}
  Disconnects = FALSE
  RingSize = 2
  ConvSize = 1
  MaxSessions = 2
  MaxDecisions = 1
  MaxSeq = 2
  MaxConv = 3
  MaxDec = 1
  MaxUpstreams = 1
  MaxTime = 1
SYMMETRY RequestAndSessionSymmetry
CHECK_DEADLOCK FALSE
PROPERTIES
  RegistryCapYieldsOnlyToPrompts ConversationChangesVisible
