SPECIFICATION EngineSpec
CONSTANTS
  OrderPtr = {o1, o2, o3}
  LevelPtr = {l1, l2, l3}
  Null = Null
  MAX_PRICE_LEVELS = 3
  Clients = {c1}
  WildClients = {c9}
  OrderIds = {i1}
  WildOrderIds = {i9}
  InputSides = {"BUY", "SELL", "INVALID"}
  Prices = {1, 2, 3, 4}
  Qtys = {0, 1, 2}
  StackWords = {0}
  UniqueIds = FALSE
  AnyBlock = FALSE
  DeepTails = TRUE
  MaxMarketOid = 3
  QueueSize = 1
  MaxRequests = 3
INVARIANTS
  TypeOK
  OrderRings
  LevelRings
  ClientMapSound
  SearchSafe
  LevelBlockAvailable
  FeedMatchesBook
  AnswersHeardClients
PROPERTIES
  HandlerReturns
  FeedFollowsBook
  EveryRequestHandled
CHECK_DEADLOCK FALSE
