SPECIFICATION PluginSpec
CONSTANTS
  w1 = w1  w2 = w2  r1 = r1  r2 = r2
  Windows = {w1, w2}
  Requests = {r1, r2}
  Askers <- MCAskers
  NoWindow = NoWindow
  NoRequest = NoRequest
  CallsFail = FALSE
  MaxDecisions = 2
  MaxPrompts = 1
  MaxCrashes = 1
CHECK_DEADLOCK FALSE
INVARIANT PluginLinkInv
PROPERTIES AcceptedIsApplied Reconnects SettledIsRetracted
