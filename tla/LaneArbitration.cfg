SPECIFICATION Spec
CONSTANTS
  MaxPending = 2
  MaxBurst = 6
INVARIANTS
  WaitIsBounded
