SPECIFICATION Spec
CONSTANTS
  Threads = {main, engine}
  Main = main
  Size = 2
  Batch = 2
  MaxCalls = 3
  MaxSwitches = 1
INVARIANTS
  TypeOK
  LogInOrder
  CountRight
PROPERTIES
  Flushed
  ShutdownEnds
CHECK_DEADLOCK FALSE
