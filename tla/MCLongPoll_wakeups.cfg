SPECIFICATION WaitSpec
CONSTANTS
  p1 = p1  p2 = p2
  Pollers = {p1, p2}
  MaxSeq = 1
  MaxGen = 2
INVARIANT WakeInv
PROPERTIES NewsEndsTheWait DeletionEndsTheWait
