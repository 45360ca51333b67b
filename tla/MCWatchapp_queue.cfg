SPECIFICATION Spec
CONSTANTS
  Ids = {a, b, c}
  NoMsg = NoMsg
  MaxQueue = 3
  Redelivers = TRUE
  MaxSent = 4
  MaxPresses = 4
  Microphone = TRUE
  SendErrors = TRUE
INVARIANTS WatchappInv StrongAnswersAreMeant
PROPERTIES DisplayIsStable OnlySettledPromptsLeave
SYMMETRY PromptSymmetry
