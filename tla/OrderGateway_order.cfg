SPECIFICATION Spec
CONSTANTS
  Sockets = {s1, s2}
  Null = Null
  Clients = {c1, c2}
  WildClients = {}
  SeqNos = {1}
  RequestPieces = 2
  BufferSize = 4
  MAX_EVENTS = 2
  MAX_PENDING_ORDER_REQUESTS = 2
  QueueSize = 2
  StableLimit = 16
  Kqueue = FALSE
  Stamps = TRUE
  PartialSends = FALSE
  MaxPieces = 4
  MaxResponses = 0
  MaxTime = 2
INVARIANT ReceiveOrder
CHECK_DEADLOCK FALSE
