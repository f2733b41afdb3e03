SPECIFICATION FairSpec
CONSTANTS
  Size = 3
  Null = Null
  MaxPush = 8
INVARIANTS
  TypeOK
  PopsInOrder
  SlotsHoldWindow
PROPERTIES
  ImplementsFifo
  Delivered
CHECK_DEADLOCK FALSE
