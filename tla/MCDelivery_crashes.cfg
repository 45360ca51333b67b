SPECIFICATION Spec
CONSTANTS
  RingSize = 3
  MaxMessages = 5
  MaxDaemonCrashes = 2
  MaxPhoneCrashes = 2
  MaxThrows = 1
CHECK_DEADLOCK FALSE
INVARIANT NothingVanishes
PROPERTIES ImplementsOutbox CatchesUp EverythingIsDelivered
