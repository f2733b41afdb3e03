SPECIFICATION FairSpec
CONSTANTS
  Sockets = {s1, s2}
  Null = Null
  Clients = {c1, c2}
  WildClients = {w}
  SeqNos = {1}
  RequestPieces = 1
  BufferSize = 4
  MAX_EVENTS = 2
  MAX_PENDING_ORDER_REQUESTS = 1
  QueueSize = 2
  StableLimit = 16
  Kqueue = FALSE
  Stamps = FALSE
  PartialSends = TRUE
  MaxPieces = 2
  MaxResponses = 3
  MaxTime = 0
INVARIANTS
  SocketKnown
  RespondsInOrder
PROPERTIES
  Forwards
  SendsResponses
  StopReturns
CHECK_DEADLOCK FALSE
