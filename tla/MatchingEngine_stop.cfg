SPECIFICATION EngineSpec
CONSTANTS
  OrderPtr = {o1}
  LevelPtr = {l1}
  Null = Null
  MAX_PRICE_LEVELS = 1
  Clients = {c1}
  WildClients = {}
  OrderIds = {i1}
  WildOrderIds = {}
  InputSides = {"BUY", "SELL"}
  Prices = {1}
  Qtys = {1}
  StackWords = {0}
  UniqueIds = FALSE
  AnyBlock = FALSE
  DeepTails = TRUE
  MaxMarketOid = 2
  QueueSize = 1
  MaxRequests = 2
CHECK_DEADLOCK FALSE
PROPERTY StopEndsLoop
