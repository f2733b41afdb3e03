SPECIFICATION Spec
CONSTANTS
  OrderPtr = {o1, o2, o3, o4}
  LevelPtr = {l1, l2, l3, l4}
  Null = Null
  MAX_PRICE_LEVELS = 4
  Clients = {c1}
  WildClients = {}
  OrderIds = {i1, i2, i3, i4}
  WildOrderIds = {i9}
  InputSides = {"BUY", "SELL"}
  Prices = {1, 2, 3, 4}
  Qtys = {0, 1}
  StackWords = {0}
  UniqueIds = TRUE
  AnyBlock = FALSE
  DeepTails = FALSE
  MaxMarketOid = 5
INVARIANTS
  SortedLevels
  LevelHoldsItsOrders
  Uncrossed
  PriceTimePriority
  OnlyKnownFaults
  Cancellable
CHECK_DEADLOCK FALSE
SYMMETRY IdSymmetry
