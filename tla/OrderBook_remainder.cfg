SPECIFICATION Spec
CONSTANTS
  OrderPtr = {o1, o2, o3, o4}
  LevelPtr = {l1, l2, l3, l4}
  Null = Null
  MAX_PRICE_LEVELS = 4
  Clients = {c1}
  WildClients = {}
  OrderIds = {i1, i2, i3, i4}
  WildOrderIds = {}
  InputSides = {"BUY", "SELL"}
  Prices = {1, 2, 3, 4}
  Qtys = {1,2}
  StackWords = {0}
  UniqueIds = TRUE
  AnyBlock = FALSE
  DeepTails = FALSE
  MaxMarketOid = 3
CHECK_DEADLOCK FALSE
SYMMETRY IdSymmetry
PROPERTY RemainderRests
