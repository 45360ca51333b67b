SPECIFICATION TranscriptSpec
CONSTANTS
  p1 = p1  p2 = p2  r1 = r1
  Parts = {p1, p2}
  Requests = {r1}
  NoRequest = NoRequest
  QueueMax = 2
  RequeueMax = 2
  RingMax = 1
  ConvMax = 2
  MaxEdits = 3
  MaxCrashes = 1
  MaxViews = 1
CHECK_DEADLOCK FALSE
INVARIANT TranscriptInv
PROPERTY ViewConverges
