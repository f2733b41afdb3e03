SPECIFICATION Spec
CONSTANTS
  Sockets = {s1, s2}
  Null = Null
  Clients = {c1, c2}
  WildClients = {}
  SeqNos = {1, 2}
  RequestPieces = 2
  BufferSize = 3
  MAX_EVENTS = 2
  MAX_PENDING_ORDER_REQUESTS = 2
  QueueSize = 1
  StableLimit = 1
  Kqueue = TRUE
  Stamps = TRUE
  PartialSends = FALSE
  MaxPieces = 4
  MaxResponses = 0
  MaxTime = 1
SYMMETRY Symmetry
INVARIANTS
  TypeOK
  Framed
  PublishedInOrder
  OneSocketPerClient
CHECK_DEADLOCK FALSE
