SPECIFICATION Spec
CONSTANTS
  PoolSize = 5
  Wild = {7}
  Null = Null
INVARIANTS
  TypeOK
  CursorAtFree
  OnlyCallersFail
PROPERTY
  ImplementsPool
CHECK_DEADLOCK FALSE
