SPECIFICATION Spec
CONSTANTS
  RingSize = 2
  MaxMessages = 4
  MaxDaemonCrashes = 0
  MaxPhoneCrashes = 0
  MaxThrows = 0
CHECK_DEADLOCK FALSE
PROPERTY GapIsAccepted
