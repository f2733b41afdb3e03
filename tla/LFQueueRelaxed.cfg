SPECIFICATION RelaxedSpec
CONSTANTS
  Size = 3
  Null = Null
  MaxPush = 8
INVARIANTS
  PopsInOrder
CHECK_DEADLOCK FALSE
