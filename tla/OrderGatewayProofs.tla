------------------------- MODULE OrderGatewayProofs -------------------------
(***************************************************************************)
(* Proofs about OrderGateway, for every number of sockets, clients, pieces *)
(* of a request and sizes of buffers and queues.                           *)
(***************************************************************************)
EXTENDS OrderGateway, FiniteSetTheorems, SequenceTheorems, TLAPS

-----------------------------------------------------------------------------
(* Types *)

\* What the server thread knows at each point of its loop: it is there once the
\* owner has started it and gone when the owner is done with it, the socket
\* being served is on its list, there is a request to publish.
LoopInv ==
    /\ owner = "new" => pc = "new"
    /\ owner \in {"stopped", "destroyed"} => pc = "exited"
    /\ pc = "rx" => turn <= Len(PassSockets)
    /\ pc = "publish" => pendingRequests # <<>>

\* A request under way lacks a piece.
HalfInv == \A s \in Sockets : half[s] # Null => half[s].part < RequestPieces

TypeInv == TypeOK /\ LoopInv /\ HalfInv

\* What a step leaves alone keeps its type.
LEMMA SameType ==
    ASSUME TypeOK
    PROVE  /\ UNCHANGED netVars => NetType'
           /\ UNCHANGED <<sockVars, bufVars, clientVars>> => SocketType'
           /\ UNCHANGED <<mapVars, pendingRequests, timely>> => MapType'
           /\ UNCHANGED queueVars => QueueType'
           /\ UNCHANGED <<loopVars, ownerVars>> => ThreadType'
<1>1. UNCHANGED netVars => NetType'
  BY DEF TypeOK, netVars, NetType
<1>2. UNCHANGED <<sockVars, bufVars, clientVars>> => SocketType'
  BY DEF TypeOK, sockVars, bufVars, clientVars, SocketType
<1>3. UNCHANGED <<mapVars, pendingRequests, timely>> => MapType'
  BY DEF TypeOK, mapVars, MapType
<1>4. UNCHANGED queueVars => QueueType'
  BY DEF TypeOK, queueVars, QueueType
<1>5. UNCHANGED <<loopVars, ownerVars>> => ThreadType'
  BY DEF TypeOK, loopVars, ownerVars, ThreadType
<1> QED BY <1>1, <1>2, <1>3, <1>4, <1>5

\* What a step of the thread or of its owner leaves alone keeps LoopInv.
LEMMA SameLoop ==
    ASSUME LoopInv, UNCHANGED <<loopVars, sockVars, owner, pendingRequests>>
    PROVE  LoopInv'
  BY DEF LoopInv, loopVars, sockVars, PassSockets

\* The gateway's start.
LEMMA InitTypeInv == ASSUME Init PROVE TypeInv
<1>1. NetType
  BY NumbersAssumption DEF Init, NetType
<1>2. SocketType /\ MapType
  BY DEF Init, SocketType, MapType
<1>3. QueueType
  <2>1. forwarded = <<>> /\ Len(forwarded) = 0 /\ taken = 0 /\ answers = 0
        /\ responses = <<>> /\ Len(responses) = 0 /\ lost = {}
    BY DEF Init
  <2> QED BY <2>1, NumbersAssumption DEF QueueType
<1>5. ThreadType
  <2>1. tRx \in 0 .. MaxTime /\ i \in Nat /\ turn \in Nat \ {0}
    BY NumbersAssumption DEF Init
  <2> QED BY <2>1 DEF Init, ThreadType
<1>4. LoopInv /\ HalfInv
  BY DEF Init, LoopInv, HalfInv
<1> QED BY <1>1, <1>2, <1>3, <1>4, <1>5 DEF TypeInv, TypeOK

\* The socket being served.
LEMMA ServedSocket ==
    ASSUME TypeInv, pc = "rx" \/ turn <= Len(PassSockets)
    PROVE  Socket \in Sockets
<1>1. PassSockets \in Seq(Sockets) /\ turn \in 1 .. Len(PassSockets)
  BY DEF TypeInv, TypeOK, SocketType, ThreadType, LoopInv, PassSockets
<1> QED BY <1>1 DEF Socket

\* A client connects.
LEMMA connectType == ASSUME TypeInv, NEW s \in Sockets, connect(s) PROVE TypeInv'
<1>1. NetType'
  BY DEF connect, TypeInv, TypeOK, NetType
<1>2. LoopInv' /\ HalfInv'
  BY SameLoop DEF connect, TypeInv, HalfInv, ownerVars
<1> QED BY <1>1, <1>2, SameType DEF connect, TypeInv, TypeOK

\* The engine pops a request.
LEMMA engineTakesType == ASSUME TypeInv, engineTakes PROVE TypeInv'
<1>1. QueueType'
  <2>1. forwarded \in Seq(Pending) /\ Len(forwarded) \in Nat
    BY DEF TypeInv, TypeOK, QueueType
  <2>2. taken' \in 0 .. Len(forwarded) /\ Len(forwarded) - taken' <= QueueSize
    BY <2>1, NumbersAssumption DEF engineTakes, TypeInv, TypeOK, QueueType
  <2> QED BY <2>2 DEF engineTakes, TypeInv, TypeOK, QueueType
<1>2. LoopInv' /\ HalfInv'
  BY SameLoop DEF engineTakes, TypeInv, HalfInv, ownerVars, netVars
<1> QED BY <1>1, <1>2, SameType DEF engineTakes, TypeInv, TypeOK

\* The engine answers a client whose request it has popped.
LEMMA engineAnswersType == ASSUME TypeInv, engineAnswers PROVE TypeInv'
<1>1. PICK k \in 1 .. taken :
         responses' = IF Len(responses) < QueueSize
                      THEN Append(responses, forwarded[k].clientId) ELSE responses
  BY DEF engineAnswers
<1>2. forwarded[k] \in Pending
  BY DEF TypeInv, TypeOK, QueueType
<1>3. forwarded[k].clientId \in Clients
  BY <1>2 DEF Pending
<1>4. responses' \in Seq(Clients) /\ Len(responses') <= QueueSize
  BY <1>1, <1>3, NumbersAssumption DEF TypeInv, TypeOK, QueueType
<1>5. answers' \in 0 .. MaxResponses
  BY NumbersAssumption DEF engineAnswers, TypeInv, TypeOK, QueueType
<1>6. QueueType'
  BY <1>4, <1>5 DEF engineAnswers, TypeInv, TypeOK, QueueType
<1>7. LoopInv' /\ HalfInv'
  BY SameLoop DEF engineAnswers, TypeInv, HalfInv, ownerVars, netVars
<1> QED BY <1>6, <1>7, SameType DEF engineAnswers, TypeInv, TypeOK

\* start, stop, join and the destructor.
LEMMA OwnerType == ASSUME TypeInv, Owner PROVE TypeInv'
<1>1. ThreadType'
  BY DEF Owner, start, stop, clearRunning, join, destroy, loopVars, TypeInv, TypeOK, ThreadType
<1>2. SocketType'
  <2>1. CASE destroy
    BY <2>1 DEF destroy, bufVars, clientVars, TypeInv, TypeOK, SocketType
  <2> QED BY <2>1, SameType DEF Owner, start, stop, join, TypeInv
<1>3. LoopInv'
  BY DEF Owner, start, stop, clearRunning, join, destroy, loopVars, sockVars, TypeInv, LoopInv,
         PassSockets
<1>4. UNCHANGED <<netVars, mapVars, pendingRequests, timely, queueVars>>
  BY DEF Owner, start, stop, join, destroy
<1>5. HalfInv'
  BY <1>4 DEF TypeInv, HalfInv, netVars
<1> QED BY <1>1, <1>2, <1>3, <1>4, <1>5, SameType DEF TypeInv, TypeOK

\* The piece that arrives: the next one of the request under way, or the first
\* one of a new request.
LEMMA arrivePiece ==
    ASSUME TypeInv, NEW s \in Sockets, arrive(s)
    PROVE  \E piece \in Request :
              /\ piece.at = clock'
              /\ kernel' = [kernel EXCEPT ![s] = Append(@, piece)]
              /\ half' = [half EXCEPT ![s] = IF piece.part < RequestPieces THEN piece ELSE Null]
              /\ half[s] = Null => piece.part = 1
              /\ half[s] # Null => /\ piece.part = half[s].part + 1
                                   /\ piece.clientId = half[s].clientId
                                   /\ piece.nSeq = half[s].nSeq
<1>1. PICK piece \in IF half[s] # Null
                     THEN {[half[s] EXCEPT !.part = @ + 1, !.at = clock']}
                     ELSE [clientId : Clients \cup WildClients, nSeq : SeqNos,
                           part : {1}, at : {clock'}] :
         /\ kernel' = [kernel EXCEPT ![s] = Append(@, piece)]
         /\ half' = [half EXCEPT ![s] = IF piece.part < RequestPieces THEN piece ELSE Null]
  BY DEF arrive
<1>2. clock' \in 0 .. MaxTime
  BY DEF arrive
<1>3. CASE half[s] = Null
  <2>1. piece \in Request /\ piece.part = 1 /\ piece.at = clock'
    BY <1>1, <1>2, <1>3, NumbersAssumption DEF Request
  <2> QED BY <1>1, <1>3, <2>1
<1>4. CASE half[s] # Null
  <2>1. half[s] \in Request /\ half[s].part < RequestPieces
    BY <1>4 DEF TypeInv, TypeOK, NetType, HalfInv
  <2>2. half[s].part + 1 \in 1 .. RequestPieces
    BY <2>1, NumbersAssumption DEF Request
  <2>3. /\ piece \in Request /\ piece.part = half[s].part + 1 /\ piece.at = clock'
        /\ piece.clientId = half[s].clientId /\ piece.nSeq = half[s].nSeq
    BY <1>1, <1>2, <1>4, <2>1, <2>2 DEF Request
  <2> QED BY <1>1, <1>4, <2>3
<1> QED BY <1>3, <1>4

\* A piece arrives.
LEMMA arriveType == ASSUME TypeInv, NEW s \in Sockets, arrive(s) PROVE TypeInv'
<1>1. PICK piece \in Request :
         /\ kernel' = [kernel EXCEPT ![s] = Append(@, piece)]
         /\ half' = [half EXCEPT ![s] = IF piece.part < RequestPieces THEN piece ELSE Null]
  BY arrivePiece
<1>2. kernel' \in [Sockets -> Seq(Request)] /\ half' \in [Sockets -> Request \cup {Null}]
  BY <1>1 DEF TypeInv, TypeOK, NetType
<1>3. HalfInv'
  BY <1>1 DEF TypeInv, TypeOK, NetType, HalfInv
<1>4. clock' \in 0 .. MaxTime
  BY DEF arrive
<1>5. pieces' \in 0 .. MaxPieces
  BY NumbersAssumption DEF arrive, TypeInv, TypeOK, NetType
<1>6. NetType'
  BY <1>2, <1>4, <1>5 DEF arrive, TypeInv, TypeOK, NetType
<1>7. LoopInv'
  BY SameLoop DEF arrive, TypeInv, ownerVars
<1>8. MapType'
  <2>1. timely' \in BOOLEAN
    BY Zenon DEF arrive
  <2>2. UNCHANGED <<mapVars, pendingRequests>>
    BY DEF arrive
  <2> QED BY <2>1, <2>2 DEF TypeInv, TypeOK, MapType, mapVars
<1> QED BY <1>3, <1>6, <1>7, <1>8, SameType DEF arrive, TypeInv, TypeOK

\* exit and poll.
LEMMA exitType == ASSUME TypeInv, exit PROVE TypeInv'
<1>1. ThreadType' /\ LoopInv' /\ HalfInv'
  BY DEF exit, At, TypeInv, TypeOK, ThreadType, LoopInv, HalfInv, ownerVars, netVars
<1> QED BY <1>1, SameType DEF exit, TypeInv, TypeOK

\* poll only ever appends sockets to the lists.
LEMMA pollType == ASSUME TypeInv, poll PROVE TypeInv'
<1>1. UNCHANGED <<kernel, half, clock, pieces, clientVars, bufVars, mapVars, pendingRequests, timely,
                  queueVars, isRunning, owner>> /\ pc = "top"
  BY DEF poll, At
<1>2. HalfInv'
  BY <1>1 DEF TypeInv, HalfInv
<1>3. CASE Len(receiveSockets) + Len(backlog) > MAX_EVENTS
  <2>1. status' = "nullptr" /\ UNCHANGED <<backlog, sockVars, loopVars>>
    BY <1>3 DEF poll
  <2>2. NetType' /\ SocketType'
    BY <1>1, <2>1, SameType DEF TypeInv, netVars
  <2>3. ThreadType' /\ LoopInv'
    BY <1>1, <2>1, SameLoop DEF TypeInv, TypeOK, ThreadType, loopVars
  <2> QED BY <1>1, <1>2, <2>2, <2>3, SameType DEF TypeInv, TypeOK
<1>4. CASE ~(Len(receiveSockets) + Len(backlog) > MAX_EVENTS)
  <2> DEFINE writable == {s \in ToSet(receiveSockets) : Kqueue /\ ~Contains(sendSockets, s)}
  <2>1. /\ receiveSockets' = receiveSockets \o backlog /\ backlog' = <<>>
        /\ BeginPass("receive") /\ UNCHANGED <<recv, i, tRx, status>>
    BY <1>4 DEF poll
  <2>2. PICK reported \in SeqOf(writable, Len(receiveSockets)) :
           sendSockets' = sendSockets \o reported
    BY <1>4 DEF poll
  <2>3. writable \subseteq Sockets
    BY DEF ToSet, TypeInv, TypeOK, SocketType
  <2>4. reported \in Seq(Sockets)
    <3>1. PICK n \in 0 .. Len(receiveSockets) : reported \in [1 .. n -> writable]
      BY DEF SeqOf
    <3>2. n \in Nat
      BY DEF TypeInv, TypeOK, SocketType
    <3>3. reported \in [1 .. n -> Sockets]
      BY <2>3, <3>1
    <3> HIDE DEF writable
    <3> QED BY <3>2, <3>3, SeqDef
  <2> HIDE DEF writable
  <2>5. receiveSockets' \in Seq(Sockets) /\ sendSockets' \in Seq(Sockets)
    BY <2>1, <2>2, <2>4 DEF TypeInv, TypeOK, NetType, SocketType
  <2>6. SocketType' /\ NetType'
    BY <1>1, <2>1, <2>5 DEF TypeInv, TypeOK, NetType, SocketType, bufVars, clientVars
  <2>7. ThreadType' /\ LoopInv'
    BY <1>1, <2>1 DEF BeginPass, TypeInv, TypeOK, ThreadType, LoopInv
  <2> QED BY <1>1, <1>2, <2>6, <2>7, SameType DEF TypeInv, TypeOK
<1> QED BY <1>3, <1>4

\* What recvmsg takes from the kernel of the socket it reads.
LEMMA recvmsgData ==
    ASSUME TypeInv, recvmsg
    PROVE  /\ Socket \in Sockets /\ pc = "socket"
           /\ \E n \in 0 .. Len(kernel[Socket]) :
                 /\ n = readSize(Socket) \/ (readSize(Socket) < 0 /\ n = 0)
                 /\ inboundData' = [inboundData EXCEPT ![Socket] = @ \o SubSeq(kernel[Socket], 1, n)]
                 /\ kernel' = [kernel EXCEPT ![Socket] = SubSeq(@, n + 1, Len(@))]
                 /\ \/ n = 0 /\ tRx' = 0 /\ timely' = timely
                    \/ n > 0 /\ tRx' = kernel[Socket][n].at /\ timely' = timely
                    \/ n > 0 /\ tRx' \in 0 .. MaxTime /\ timely' = FALSE
<1> DEFINE s == Socket
           q == kernel[s]
           n == IF readSize(s) < 0 THEN 0 ELSE readSize(s)
           data == SubSeq(q, 1, readSize(s))
<1>1. s \in Sockets /\ pc = "socket"
  BY ServedSocket DEF recvmsg, At
<1>2. q \in Seq(Request) /\ inboundData[s] \in Seq(Request)
  BY <1>1 DEF TypeInv, TypeOK, NetType, SocketType
<1>3. readSize(s) \in Int /\ readSize(s) <= Len(q)
  <2>1. Len(inboundData[s] \o q) = Len(inboundData[s]) + Len(q)
        /\ Len(inboundData[s]) \in Nat /\ Len(q) \in Nat
    BY <1>2
  <2>2. readSize(s) = IF Len(inboundData[s]) + Len(q) <= BufferSize THEN Len(q)
                      ELSE BufferSize - Len(inboundData[s])
    BY <2>1 DEF readSize
  <2> HIDE DEF q, s
  <2> QED BY <2>1, <2>2, NumbersAssumption
<1>4. n \in 0 .. Len(q) /\ (n = readSize(s) \/ (readSize(s) < 0 /\ n = 0))
  BY <1>2, <1>3
<1>5. data = SubSeq(q, 1, n)
  BY <1>3, SubSeqEmpty
<1>6. Len(data) = n /\ (n > 0 => data[n] = q[n] /\ data # <<>>) /\ (n = 0 => data = <<>>)
  <2>1. /\ Len(SubSeq(q, 1, n)) = n
        /\ \A k \in 1 .. n : SubSeq(q, 1, n)[k] = q[k]
    BY <1>2, <1>4, SubSeqProperties
  <2> HIDE DEF n, data, q
  <2> QED BY <1>4, <1>5, <2>1
<1>7. /\ inboundData' = [inboundData EXCEPT ![s] = @ \o data]
      /\ kernel' = [kernel EXCEPT ![s] = SubSeq(@, Len(data) + 1, Len(@))]
      /\ \/ data = <<>> /\ tRx' = 0 /\ timely' = timely
         \/ data # <<>> /\ tRx' = Last(data).at /\ timely' = timely
         \/ data # <<>> /\ tRx' \in 0 .. MaxTime /\ timely' = FALSE
  BY DEF recvmsg
<1> HIDE DEF n, data, s
<1>8. \/ n = 0 /\ tRx' = 0 /\ timely' = timely
      \/ n > 0 /\ tRx' = q[n].at /\ timely' = timely
      \/ n > 0 /\ tRx' \in 0 .. MaxTime /\ timely' = FALSE
  BY <1>4, <1>6, <1>7 DEF Last
<1> QED BY <1>1, <1>4, <1>5, <1>6, <1>7, <1>8 DEF s

\* recvmsg moves pieces from the kernel to the buffer.
LEMMA recvmsgType == ASSUME TypeInv, recvmsg PROVE TypeInv'
<1> DEFINE s == Socket
<1>1. s \in Sockets /\ kernel[s] \in Seq(Request) /\ inboundData[s] \in Seq(Request)
  BY recvmsgData DEF TypeInv, TypeOK, NetType, SocketType
<1>2. PICK n \in 0 .. Len(kernel[s]) :
         /\ inboundData' = [inboundData EXCEPT ![s] = @ \o SubSeq(kernel[s], 1, n)]
         /\ kernel' = [kernel EXCEPT ![s] = SubSeq(@, n + 1, Len(@))]
         /\ \/ n = 0 /\ tRx' = 0 /\ timely' = timely
            \/ n > 0 /\ tRx' = kernel[s][n].at /\ timely' = timely
            \/ n > 0 /\ tRx' \in 0 .. MaxTime /\ timely' = FALSE
  BY recvmsgData
<1>3. UNCHANGED <<backlog, half, clock, pieces, clientVars, sockVars, outboundData,
                  mapVars, pendingRequests, pass, queueVars, ownerVars>>
      /\ i' = 0 /\ pc' = "rx" /\ turn' = turn /\ recv' = received(s)
      /\ turn <= Len(PassSockets)
      /\ owner \notin {"new", "stopped", "destroyed"}
  BY DEF recvmsg, afterRead, At, TypeInv, LoopInv
<1> HIDE DEF s
<1>4. /\ SubSeq(kernel[s], 1, n) \in Seq(Request)
      /\ SubSeq(kernel[s], n + 1, Len(kernel[s])) \in Seq(Request)
      /\ n > 0 => kernel[s][n] \in Request
  BY <1>1
<1>5. inboundData[s] \o SubSeq(kernel[s], 1, n) \in Seq(Request)
  BY <1>1, <1>4
<1>6. NetType' /\ SocketType'
  BY <1>1, <1>2, <1>3, <1>4, <1>5 DEF TypeInv, TypeOK, NetType, SocketType, clientVars, sockVars
<1>7. tRx' \in 0 .. MaxTime
  BY <1>2, <1>4, NumbersAssumption DEF Request
<1>8. ThreadType'
  BY <1>3, <1>7 DEF TypeInv, TypeOK, ThreadType, ownerVars, received
<1>9. LoopInv' /\ HalfInv'
  BY <1>3 DEF TypeInv, LoopInv, HalfInv, PassSockets, sockVars, ownerVars
<1>10. MapType'
  <2>1. timely' \in BOOLEAN
    BY <1>2 DEF TypeInv, TypeOK, MapType
  <2> QED BY <1>3, <2>1 DEF TypeInv, TypeOK, MapType, mapVars
<1> QED BY <1>3, <1>6, <1>8, <1>9, <1>10, SameType DEF TypeInv, TypeOK

\* What rxCallback sees of the request it is at.
LEMMA RequestAt ==
    ASSUME TypeInv, HasRequest
    PROVE  /\ Socket \in Sockets /\ pc = "rx" /\ inboundData[Socket] \in Seq(Request)
           /\ Req \in Request /\ inboundData[Socket][i + RequestPieces] \in Request
           /\ i \in Nat /\ i + RequestPieces <= Len(inboundData[Socket])
<1>1. Socket \in Sockets /\ pc = "rx"
  BY ServedSocket DEF HasRequest, At
<1>2. inboundData[Socket] \in Seq(Request) /\ i \in Nat
  BY <1>1 DEF TypeInv, TypeOK, SocketType, ThreadType
<1>3. i + 1 \in 1 .. Len(inboundData[Socket])
      /\ i + RequestPieces \in 1 .. Len(inboundData[Socket])
  BY <1>2, NumbersAssumption DEF HasRequest
<1> QED BY <1>1, <1>2, <1>3 DEF Req, HasRequest

\* rxCallback remembers the socket of a client it hears of for the first time.
LEMMA SocketForType ==
    ASSUME TypeInv, Socket \in Sockets, NEW c \in Clients, recordSocket(c)
    PROVE  /\ mapClientToSocket' \in [Clients -> Sockets \cup {Null}]
           /\ mapClientToSocket'[c] = socketFor(c) /\ socketFor(c) \in Sockets
           /\ \A d \in Clients \ {c} : mapClientToSocket'[d] = mapClientToSocket[d]
  BY DEF recordSocket, socketFor, TypeInv, TypeOK, MapType

\* The thread stays in rxCallback.
LEMMA NextRequestType ==
    ASSUME TypeInv, NextRequest, MapType', pc = "rx"
    PROVE  TypeInv'
<1>1. UNCHANGED <<netVars, clientVars, sockVars, bufVars, pc, pass, turn, recv, tRx,
                  queueVars, ownerVars>> /\ i' = i + RequestPieces
  BY DEF NextRequest
<1>2. ThreadType'
  BY <1>1, NumbersAssumption DEF TypeInv, TypeOK, ThreadType, ownerVars
<1>3. LoopInv' /\ HalfInv'
  BY <1>1 DEF TypeInv, LoopInv, HalfInv, PassSockets, sockVars, ownerVars, netVars
<1> QED BY <1>1, <1>2, <1>3, SameType DEF TypeInv, TypeOK

\* A request that passes is pending.
LEMMA acceptRequestPending ==
    ASSUME TypeInv, acceptRequest
    PROVE  /\ Req.clientId \in Clients /\ Req.nSeq = mapClientToRxNSeq[Req.clientId]
           /\ \E r \in Pending :
                 /\ pendingRequests' = Append(pendingRequests, r)
                 /\ r.clientId = Req.clientId /\ r.nSeq = Req.nSeq /\ r.tRx = tRx
                 /\ r.socket = Socket /\ r.socket = mapClientToSocket'[r.clientId]
<1> DEFINE r == [clientId |-> Req.clientId, nSeq |-> Req.nSeq, tRx |-> tRx,
                 at |-> inboundData[Socket][i + RequestPieces].at, socket |-> Socket]
<1>1. Req.clientId \in Clients /\ Expected(Req) /\ HasRequest
  BY DEF acceptRequest
<1>2. r \in Pending
  BY <1>1, RequestAt DEF Pending, Request, TypeInv, TypeOK, ThreadType
<1>3. pendingRequests' = Append(pendingRequests, r)
  BY DEF acceptRequest, pushClientRequest
<1>4. Socket = mapClientToSocket'[Req.clientId]
  BY <1>1, RequestAt, SocketForType DEF acceptRequest, Expected
<1> QED BY <1>1, <1>2, <1>3, <1>4 DEF Expected

LEMMA acceptRequestType == ASSUME TypeInv, acceptRequest PROVE TypeInv'
<1>1. HasRequest /\ Req.clientId \in Clients /\ recordSocket(Req.clientId)
      /\ advanceRx(Req.clientId) /\ NextRequest
  BY DEF acceptRequest
<1>2. PICK r \in Pending : pendingRequests' = Append(pendingRequests, r)
  BY acceptRequestPending
<1>3. MapType'
  BY <1>1, <1>2, RequestAt, SocketForType
     DEF advanceRx, NextRequest, TypeInv, TypeOK, MapType
<1> QED BY <1>1, <1>3, RequestAt, NextRequestType

LEMMA dropRequestType == ASSUME TypeInv, dropRequest PROVE TypeInv'
<1>1. HasRequest /\ Req.clientId \in Clients /\ recordSocket(Req.clientId) /\ NextRequest
      /\ UNCHANGED <<mapClientToRxNSeq, pendingRequests>>
  BY DEF dropRequest
<1>2. MapType'
  BY <1>1, RequestAt, SocketForType DEF NextRequest, TypeInv, TypeOK, MapType
<1> QED BY <1>1, <1>2, RequestAt, NextRequestType

LEMMA failRequestType == ASSUME TypeInv, failRequest PROVE TypeInv'
<1>1. ThreadType'
  BY DEF failRequest, loopVars, TypeInv, TypeOK, ThreadType
<1>2. LoopInv' /\ HalfInv'
  BY SameLoop DEF failRequest, TypeInv, HalfInv, netVars
<1> QED BY <1>1, <1>2, SameType DEF failRequest, TypeInv, TypeOK

\* What flush does: the buffer loses what rxCallback went through, and the
\* kernel takes a part of the outbound data, or all of it.
LEMMA flushData ==
    ASSUME TypeInv, flush
    PROVE  /\ Socket \in Sockets /\ pc = "rx"
           /\ inboundData' = [inboundData EXCEPT ![Socket] = SubSeq(@, i + 1, Len(@))]
           /\ outboundData' = [outboundData EXCEPT ![Socket] = <<>>]
           /\ \E n \in 0 .. Len(outboundData[Socket]) :
                 /\ delivered' = [delivered EXCEPT ![Socket] =
                                     @ \o SubSeq(outboundData[Socket], 1, n)]
                 /\ cut' = [cut EXCEPT ![Socket] = @ \/ n < Len(outboundData[Socket])]
<1>1. Socket \in Sockets /\ pc = "rx"
  BY ServedSocket DEF flush, At
<1>2. outboundData[Socket] \in Seq(ResponsePiece)
  BY <1>1 DEF TypeInv, TypeOK, SocketType
<1>3. PICK n \in IF PartialSends THEN 0 .. Len(outboundData[Socket])
                 ELSE {Len(outboundData[Socket])} :
         /\ delivered' = [delivered EXCEPT ![Socket] = @ \o SubSeq(outboundData[Socket], 1, n)]
         /\ cut' = [cut EXCEPT ![Socket] = @ \/ n < Len(outboundData[Socket])]
  BY DEF flush
<1>4. n \in 0 .. Len(outboundData[Socket])
  BY <1>2, <1>3
<1>5. /\ inboundData' = [inboundData EXCEPT ![Socket] = SubSeq(@, i + 1, Len(@))]
      /\ outboundData' = [outboundData EXCEPT ![Socket] = <<>>]
  BY DEF flush, remainder
<1> QED BY <1>1, <1>3, <1>4, <1>5

LEMMA flushType == ASSUME TypeInv, flush PROVE TypeInv'
<1> DEFINE s == Socket
<1>1. /\ s \in Sockets /\ pc = "rx"
      /\ inboundData' = [inboundData EXCEPT ![s] = SubSeq(@, i + 1, Len(@))]
      /\ outboundData' = [outboundData EXCEPT ![s] = <<>>]
  BY flushData
<1>2. PICK n \in 0 .. Len(outboundData[s]) :
         /\ delivered' = [delivered EXCEPT ![s] = @ \o SubSeq(outboundData[s], 1, n)]
         /\ cut' = [cut EXCEPT ![s] = @ \/ n < Len(outboundData[s])]
  BY flushData
<1>3. UNCHANGED <<netVars, sockVars, mapVars, pendingRequests, timely, pass, recv, queueVars, ownerVars>>
      /\ turn' = turn + 1 /\ pc' = "socket" /\ i' = 0 /\ tRx' = 0
  BY DEF flush
<1>4. inboundData[s] \in Seq(Request) /\ outboundData[s] \in Seq(ResponsePiece)
      /\ delivered[s] \in Seq(ResponsePiece) /\ i \in Nat
  BY <1>1 DEF TypeInv, TypeOK, SocketType, ThreadType
<1> HIDE DEF s
<1>5. SubSeq(inboundData[s], i + 1, Len(inboundData[s])) \in Seq(Request)
      /\ SubSeq(outboundData[s], 1, n) \in Seq(ResponsePiece)
  BY <1>4
<1>6. delivered[s] \o SubSeq(outboundData[s], 1, n) \in Seq(ResponsePiece)
  BY <1>4, <1>5
<1>7. cut' \in [Sockets -> BOOLEAN]
  BY <1>1, <1>2 DEF TypeInv, TypeOK, SocketType
<1>8. SocketType'
  BY <1>1, <1>2, <1>3, <1>5, <1>6, <1>7 DEF TypeInv, TypeOK, SocketType, sockVars
<1>9. ThreadType'
  BY <1>3, NumbersAssumption DEF TypeInv, TypeOK, ThreadType, ownerVars
<1>10. LoopInv' /\ HalfInv'
  BY <1>1, <1>3 DEF TypeInv, LoopInv, HalfInv, netVars, ownerVars
<1> QED BY <1>3, <1>8, <1>9, <1>10, SameType DEF TypeInv, TypeOK

\* std::sort permutes the pending requests.
LEMMA sortedType ==
    ASSUME pendingRequests \in Seq(Pending), NEW p \in SortedOrders
    PROVE  /\ p \in [1 .. Len(pendingRequests) -> 1 .. Len(pendingRequests)]
           /\ sorted(p) \in Seq(Pending) /\ Len(sorted(p)) = Len(pendingRequests)
           /\ \A k \in 1 .. Len(pendingRequests) : sorted(p)[k] = pendingRequests[p[k]]
<1> DEFINE n == Len(pendingRequests)
<1>1. p \in [1 .. n -> 1 .. n] /\ n \in Nat
  BY DEF SortedOrders
<1>2. \A k \in 1 .. n : pendingRequests[p[k]] \in Pending
  BY <1>1
<1> HIDE DEF n
<1>3. sorted(p) = [k \in 1 .. n |-> pendingRequests[p[k]]]
  BY <1>1 DEF sorted
<1>4. sorted(p) \in Seq(Pending)
  BY <1>1, <1>2, <1>3
<1>5. Len(sorted(p)) = n
  BY <1>1, <1>3
<1> QED BY <1>1, <1>3, <1>4, <1>5 DEF n

LEMMA rxDoneType == ASSUME TypeInv, rxDone PROVE TypeInv'
<1>1. UNCHANGED <<netVars, clientVars, sockVars, bufVars, mapVars, recv, i, tRx, queueVars,
                  ownerVars>> /\ pc = "socket"
  BY DEF rxDone, At
<1>2. /\ pendingRequests' \in Seq(Pending) /\ timely' \in BOOLEAN
      /\ \/ pc' = "publish" /\ pendingRequests' # <<>> /\ UNCHANGED <<pass, turn>>
         \/ BeginPass("send")
  <2>1. CASE recv /\ pendingRequests # <<>>
    <3>1. PICK p \in SortedOrders : pendingRequests' = sorted(p)
      BY <2>1 DEF rxDone
    <3>2. pendingRequests \in Seq(Pending) /\ Len(pendingRequests) # 0
      BY <2>1 DEF TypeInv, TypeOK, MapType
    <3>3. pendingRequests' \in Seq(Pending) /\ Len(pendingRequests') # 0
      BY <3>1, <3>2, sortedType
    <3>4. pendingRequests' # <<>>
      BY <3>3
    <3> QED BY <2>1, <3>3, <3>4 DEF rxDone
  <2>2. CASE ~(recv /\ pendingRequests # <<>>)
    BY <2>2 DEF rxDone, TypeInv, TypeOK, MapType
  <2> QED BY <2>1, <2>2
<1>3. MapType'
  BY <1>1, <1>2 DEF TypeInv, TypeOK, MapType, mapVars
<1>4. ThreadType' /\ LoopInv' /\ HalfInv'
  BY <1>1, <1>2 DEF BeginPass, TypeInv, TypeOK, ThreadType, LoopInv, HalfInv, ownerVars, netVars
<1> QED BY <1>1, <1>3, <1>4, SameType DEF TypeInv, TypeOK

LEMMA publishType == ASSUME TypeInv, publish PROVE TypeInv'
<1>1. UNCHANGED <<netVars, clientVars, sockVars, bufVars, mapVars, recv, i, tRx, taken,
                  responses, answers, ownerVars>> /\ pc = "publish"
  BY DEF publish, At
<1>2. pendingRequests \in Seq(Pending) /\ pendingRequests # <<>>
  BY <1>1 DEF TypeInv, TypeOK, MapType, LoopInv
<1>3. Head(pendingRequests) \in Pending /\ Tail(pendingRequests) \in Seq(Pending)
  BY <1>2
<1>4. MapType'
  BY <1>1, <1>3 DEF publish, TypeInv, TypeOK, MapType, mapVars
<1>5. QueueType'
  <2>1. forwarded \in Seq(Pending) /\ Len(forwarded) \in Nat
    BY DEF TypeInv, TypeOK, QueueType
  <2>2. CASE canPush
    <3>1. forwarded' = Append(forwarded, Head(pendingRequests)) /\ lost' = lost
      BY <2>2 DEF publish
    <3>2. forwarded' \in Seq(Pending) /\ Len(forwarded') = Len(forwarded) + 1
      BY <1>3, <2>1, <3>1
    <3> QED BY <1>1, <2>1, <2>2, <3>1, <3>2, NumbersAssumption
            DEF canPush, TypeInv, TypeOK, QueueType
  <2>3. CASE ~canPush
    BY <1>1, <1>3, <2>3 DEF publish, TypeInv, TypeOK, QueueType
  <2> QED BY <2>2, <2>3
<1>6. ThreadType' /\ LoopInv' /\ HalfInv'
  BY <1>1, <1>2 DEF publish, BeginPass, TypeInv, TypeOK, ThreadType, LoopInv, HalfInv,
     ownerVars, netVars
<1> QED BY <1>1, <1>4, <1>5, <1>6, SameType DEF TypeInv, TypeOK

\* The two pieces of the response with number n to client c.
Piece(c, n, k) == [clientId |-> c, nSeq |-> n, part |-> k]

\* What respond does when the client has a socket with room.
Responds(c, s) ==
    /\ c \in Clients /\ s \in Sockets /\ mapClientToSocket[c] = s
    /\ outboundData' = [outboundData EXCEPT ![s] =
          Append(Append(@, Piece(c, mapClientToTxNSeq[c], 1)), Piece(c, mapClientToTxNSeq[c], 2))]
    /\ mapClientToTxNSeq' = [mapClientToTxNSeq EXCEPT ![c] = @ + 1]
    /\ responses' = Tail(responses)
    /\ status' = status

\* respond answers the client at the head of the queue, or ends the process.
LEMMA respondData ==
    ASSUME TypeInv, respond
    PROVE  /\ responses # <<>> /\ Head(responses) \in Clients
           /\ UNCHANGED <<netVars, clientVars, sockVars, inboundData, mapClientToSocket,
                          mapClientToRxNSeq, pendingRequests, timely, loopVars, forwarded, taken,
                          lost, answers, isRunning, owner>>
           /\ \/ Responds(Head(responses), mapClientToSocket[Head(responses)])
              \/ /\ UNCHANGED <<outboundData, mapClientToTxNSeq, responses>>
                 /\ \/ mapClientToSocket[Head(responses)] = Null /\ status' = "assertion"
                    \/ status' = "outOfBounds"
<1> DEFINE c == Head(responses)
           s == mapClientToSocket[c]
<1>1. responses \in Seq(Clients) /\ responses # <<>>
  BY DEF respond, TypeInv, TypeOK, QueueType
<1>2. c \in Clients
  BY <1>1
<1>3. s \in Sockets \cup {Null}
  BY <1>2 DEF TypeInv, TypeOK, MapType
<1>4. CASE s = Null \/ Len(outboundData[s]) + 2 > BufferSize
  BY <1>1, <1>2, <1>4 DEF respond
<1>5. CASE ~(s = Null \/ Len(outboundData[s]) + 2 > BufferSize)
  <2>1. Responds(c, s)
    BY <1>2, <1>3, <1>5 DEF respond, Responds, send, advanceTx, Piece
  <2> QED BY <1>1, <1>2, <2>1 DEF respond
<1> QED BY <1>4, <1>5

LEMMA respondType == ASSUME TypeInv, respond PROVE TypeInv'
<1> DEFINE c == Head(responses)
           s == mapClientToSocket[c]
<1>1. /\ responses # <<>>
      /\ UNCHANGED <<netVars, clientVars, sockVars, inboundData, mapClientToSocket,
                     mapClientToRxNSeq, pendingRequests, timely, loopVars, forwarded, taken,
                     lost, answers, isRunning, owner>>
  BY respondData
<1>2. LoopInv' /\ HalfInv'
  BY <1>1, SameLoop DEF TypeInv, HalfInv, netVars
<1>3. status' \in {status, "assertion", "outOfBounds"}
  BY respondData DEF Responds
<1>4. ThreadType'
  BY <1>1, <1>3 DEF TypeInv, TypeOK, ThreadType, loopVars
<1>5. CASE Responds(c, s)
  <2>1. c \in Clients /\ s \in Sockets /\ mapClientToTxNSeq[c] \in Nat
        /\ outboundData[s] \in Seq(ResponsePiece)
    BY <1>5 DEF Responds, TypeInv, TypeOK, MapType, SocketType
  <2>2. Piece(c, mapClientToTxNSeq[c], 1) \in ResponsePiece
        /\ Piece(c, mapClientToTxNSeq[c], 2) \in ResponsePiece
    BY <2>1 DEF Piece, ResponsePiece
  <2>6. outboundData' \in [Sockets -> Seq(ResponsePiece)]
        /\ mapClientToTxNSeq' \in [Clients -> Nat]
    BY <1>5, <2>1, <2>2 DEF Responds, TypeInv, TypeOK, SocketType, MapType
  <2>3. SocketType' /\ MapType'
    BY <1>1, <2>6 DEF TypeInv, TypeOK, SocketType, MapType, sockVars, clientVars
  <2>4. responses' \in Seq(Clients) /\ Len(responses') <= QueueSize
    BY <1>1, <1>5, NumbersAssumption DEF Responds, TypeInv, TypeOK, QueueType
  <2>5. QueueType'
    BY <1>1, <2>4 DEF TypeInv, TypeOK, QueueType
  <2> QED BY <1>1, <1>2, <1>4, <2>3, <2>5, SameType DEF TypeInv, TypeOK
<1>6. CASE UNCHANGED <<outboundData, mapClientToTxNSeq, responses>>
  <2>1. SocketType' /\ MapType' /\ QueueType'
    BY <1>1, <1>6, SameType DEF TypeInv, bufVars, mapVars, queueVars
  <2> QED BY <1>1, <1>2, <1>4, <2>1, SameType DEF TypeInv, TypeOK
<1> QED BY <1>5, <1>6, respondData

LEMMA respondDoneType == ASSUME TypeInv, respondDone PROVE TypeInv'
<1>1. ThreadType'
  <2>1. turn' \in Nat \ {0}
    BY DEF respondDone
  <2>2. recv' \in BOOLEAN
    BY DEF respondDone
  <2> QED BY <2>1, <2>2 DEF respondDone, TypeInv, TypeOK, ThreadType, ownerVars
<1>2. LoopInv'
  BY DEF respondDone, Responding, At, TypeInv, LoopInv, ownerVars
<1>3. HalfInv'
  BY DEF respondDone, TypeInv, HalfInv, netVars
<1> QED BY <1>1, <1>2, <1>3, SameType DEF respondDone, TypeInv, TypeOK

\* Every step of the gateway and of what is around it.
LEMMA NextTypeInv == ASSUME TypeInv, [Next]_vars PROVE TypeInv'
<1>1. CASE UNCHANGED vars
  <2>1. LoopInv' /\ HalfInv'
    BY <1>1, SameLoop DEF vars, TypeInv, HalfInv, ownerVars, netVars
  <2> QED BY <1>1, <2>1, SameType DEF vars, TypeInv, TypeOK
<1>2. CASE run
  BY <1>2, exitType, pollType, recvmsgType, acceptRequestType, dropRequestType,
     failRequestType, flushType, rxDoneType, publishType, respondType, respondDoneType DEF run
<1>3. CASE Network
  BY <1>3, connectType, arriveType DEF Network
<1> QED BY <1>1, <1>2, <1>3, OwnerType, engineTakesType, engineAnswersType DEF Next

\* The types, with what they need to be inductive.
THEOREM TypeInvariance == Spec => []TypeInv
<1>1. Init => TypeInv
  BY InitTypeInv
<1>2. TypeInv /\ [Next]_vars => TypeInv'
  BY NextTypeInv
<1> QED BY <1>1, <1>2, PTL DEF Spec

\* Every variable of the gateway has its type, whatever arrives in whatever
\* pieces: the socket and the request that the server thread works on are
\* there, and neither queue holds more than its slots.
THEOREM TypeCorrect == Spec => []TypeOK
<1>1. TypeInv => TypeOK
  BY DEF TypeInv
<1> QED BY <1>1, TypeInvariance, PTL

-----------------------------------------------------------------------------
(* One socket per client *)

\* Every response that waits has a socket to go to.
AnswersHaveSockets == \A k \in 1 .. Len(responses) : mapClientToSocket[responses[k]] # Null

\* Every request the engine was or will be given came over its client's socket.
RequestsBySocket ==
    /\ \A k \in 1 .. Len(forwarded) :
          forwarded[k].socket = mapClientToSocket[forwarded[k].clientId]
    /\ \A k \in 1 .. Len(pendingRequests) :
          pendingRequests[k].socket = mapClientToSocket[pendingRequests[k].clientId]
    /\ \A r \in lost : r.socket = mapClientToSocket[r.clientId]

SocketInv == RequestsBySocket /\ AnswersHaveSockets /\ SocketKnown

\* A step that touches neither requests nor responses.
LEMMA SameSockets ==
    ASSUME SocketInv, UNCHANGED <<mapClientToSocket, pendingRequests, forwarded, lost, responses>>,
           status' # "assertion"
    PROVE  SocketInv'
  BY DEF SocketInv, RequestsBySocket, AnswersHaveSockets, SocketKnown

\* The requests of all three collections are well-formed.
LEMMA RequestsTyped ==
    ASSUME TypeInv
    PROVE  /\ \A k \in 1 .. Len(forwarded) : forwarded[k] \in Pending
           /\ \A k \in 1 .. Len(pendingRequests) : pendingRequests[k] \in Pending
           /\ \A r \in lost : r \in Pending
           /\ \A k \in 1 .. Len(responses) : responses[k] \in Clients
  BY DEF TypeInv, TypeOK, MapType, QueueType

\* A client's socket is set once, before its first request is pending.
LEMMA recordSocketKeeps ==
    ASSUME TypeInv, Socket \in Sockets, NEW c \in Clients, recordSocket(c)
    PROVE  /\ \A d \in Clients :
                 mapClientToSocket[d] # Null => mapClientToSocket'[d] = mapClientToSocket[d]
           /\ \A r \in Pending : r.socket = mapClientToSocket[r.clientId] =>
                                    r.socket = mapClientToSocket'[r.clientId]
<1>1. \A r \in Pending : r.socket # Null /\ r.clientId \in Clients
  BY SocketsAssumption DEF Pending
<1>2. \A d \in Clients : mapClientToSocket[d] # Null => mapClientToSocket'[d] = mapClientToSocket[d]
  BY SocketForType DEF socketFor
<1> QED BY <1>1, <1>2

\* rxCallback looks at a request.
LEMMA requestSockets ==
    ASSUME TypeInv, SocketInv, acceptRequest \/ dropRequest
    PROVE  SocketInv'
<1>1. /\ HasRequest /\ Req.clientId \in Clients /\ recordSocket(Req.clientId)
      /\ UNCHANGED <<forwarded, lost, responses, status>>
  BY DEF acceptRequest, dropRequest, NextRequest, queueVars, ownerVars
<1>2. /\ \A d \in Clients :
            mapClientToSocket[d] # Null => mapClientToSocket'[d] = mapClientToSocket[d]
      /\ \A r \in Pending : r.socket = mapClientToSocket[r.clientId] =>
                               r.socket = mapClientToSocket'[r.clientId]
  BY <1>1, RequestAt, recordSocketKeeps
<1>3. /\ \A k \in 1 .. Len(forwarded) :
            forwarded[k].socket = mapClientToSocket'[forwarded[k].clientId]
      /\ \A k \in 1 .. Len(pendingRequests) :
            pendingRequests[k].socket = mapClientToSocket'[pendingRequests[k].clientId]
      /\ \A r \in lost : r.socket = mapClientToSocket'[r.clientId]
  BY <1>2, RequestsTyped DEF SocketInv, RequestsBySocket
<1>4. AnswersHaveSockets'
  BY <1>1, <1>2, RequestsTyped DEF SocketInv, AnswersHaveSockets
<1>5. \A k \in 1 .. Len(pendingRequests') :
         pendingRequests'[k].socket = mapClientToSocket'[pendingRequests'[k].clientId]
  <2>1. CASE dropRequest
    BY <1>3, <2>1 DEF dropRequest
  <2>2. CASE acceptRequest
    <3>1. PICK r \in Pending : /\ pendingRequests' = Append(pendingRequests, r)
                               /\ r.socket = mapClientToSocket'[r.clientId]
      BY <2>2, acceptRequestPending
    <3>2. pendingRequests \in Seq(Pending)
      BY DEF TypeInv, TypeOK, MapType
    <3> QED BY <1>3, <3>1, <3>2
  <2> QED BY <2>1, <2>2
<1> QED BY <1>1, <1>3, <1>4, <1>5 DEF SocketInv, RequestsBySocket, SocketKnown

\* The sort permutes the requests.
LEMMA rxDoneSockets == ASSUME TypeInv, SocketInv, rxDone PROVE SocketInv'
<1>1. UNCHANGED <<mapClientToSocket, forwarded, lost, responses, status>>
  BY DEF rxDone, mapVars, queueVars, ownerVars
<1>2. CASE recv /\ pendingRequests # <<>>
  <2>1. PICK p \in SortedOrders : pendingRequests' = sorted(p)
    BY <1>2 DEF rxDone
  <2>2. pendingRequests \in Seq(Pending)
    BY DEF TypeInv, TypeOK, MapType
  <2>3. \A k \in 1 .. Len(pendingRequests') :
           \E j \in 1 .. Len(pendingRequests) : pendingRequests'[k] = pendingRequests[j]
    BY <2>1, <2>2, sortedType
  <2> QED BY <1>1, <2>3 DEF SocketInv, RequestsBySocket, AnswersHaveSockets, SocketKnown
<1>3. CASE ~(recv /\ pendingRequests # <<>>)
  BY <1>1, <1>3, SameSockets DEF rxDone, SocketInv, SocketKnown
<1> QED BY <1>2, <1>3

\* A request moves from the sequencer to the queue, or is lost.
LEMMA publishSockets == ASSUME TypeInv, SocketInv, publish PROVE SocketInv'
<1>1. UNCHANGED <<mapClientToSocket, responses, status>> /\ pc = "publish"
  BY DEF publish, At, mapVars, ownerVars
<1>2. pendingRequests \in Seq(Pending) /\ pendingRequests # <<>> /\ forwarded \in Seq(Pending)
  BY <1>1 DEF TypeInv, TypeOK, MapType, QueueType, LoopInv
<1>3. Head(pendingRequests) = pendingRequests[1] /\ 1 \in 1 .. Len(pendingRequests)
      /\ pendingRequests[1] \in Pending
  BY <1>2
<1>4. \A k \in 1 .. Len(Tail(pendingRequests)) :
         k + 1 \in 1 .. Len(pendingRequests) /\ Tail(pendingRequests)[k] = pendingRequests[k + 1]
  BY <1>2
<1>5. pendingRequests' = Tail(pendingRequests)
      /\ \/ forwarded' = Append(forwarded, pendingRequests[1]) /\ lost' = lost
         \/ lost' = lost \cup {pendingRequests[1]} /\ forwarded' = forwarded
  BY <1>3 DEF publish
<1>6. \A k \in 1 .. Len(forwarded') :
         forwarded'[k].socket = mapClientToSocket[forwarded'[k].clientId]
  <2>1. CASE forwarded' = forwarded
    BY <2>1 DEF SocketInv, RequestsBySocket
  <2>2. CASE forwarded' = Append(forwarded, pendingRequests[1])
    <3> SUFFICES ASSUME NEW k \in 1 .. Len(forwarded')
                 PROVE  forwarded'[k].socket = mapClientToSocket[forwarded'[k].clientId]
      OBVIOUS
    <3>1. \/ k \in 1 .. Len(forwarded) /\ forwarded'[k] = forwarded[k]
          \/ forwarded'[k] = pendingRequests[1]
      BY <1>2, <1>3, <2>2
    <3> QED BY <1>3, <3>1 DEF SocketInv, RequestsBySocket
  <2> QED BY <1>5, <2>1, <2>2
<1> QED BY <1>1, <1>3, <1>4, <1>5, <1>6
        DEF SocketInv, RequestsBySocket, AnswersHaveSockets, SocketKnown

\* The engine answers clients whose requests it was given.
LEMMA engineAnswersSockets == ASSUME TypeInv, SocketInv, engineAnswers PROVE SocketInv'
<1>1. PICK k \in 1 .. taken :
         responses' = IF Len(responses) < QueueSize
                      THEN Append(responses, forwarded[k].clientId) ELSE responses
  BY DEF engineAnswers
<1>2. UNCHANGED <<mapClientToSocket, pendingRequests, forwarded, lost, status>>
  BY DEF engineAnswers, mapVars, ownerVars
<1>3. k \in 1 .. Len(forwarded) /\ responses \in Seq(Clients)
  BY DEF TypeInv, TypeOK, QueueType
<1>4. forwarded[k] \in Pending /\ forwarded[k].socket = mapClientToSocket[forwarded[k].clientId]
  BY <1>3, RequestsTyped DEF SocketInv, RequestsBySocket
<1>5. forwarded[k].clientId \in Clients /\ mapClientToSocket[forwarded[k].clientId] # Null
  BY <1>4, SocketsAssumption DEF Pending
<1>6. AnswersHaveSockets'
  BY <1>1, <1>2, <1>3, <1>5 DEF SocketInv, AnswersHaveSockets
<1> QED BY <1>2, <1>6 DEF SocketInv, RequestsBySocket, SocketKnown

\* The head of the response queue has a socket.
LEMMA respondSockets == ASSUME TypeInv, SocketInv, respond PROVE SocketInv'
<1>1. responses \in Seq(Clients) /\ responses # <<>>
  BY respondData DEF TypeInv, TypeOK, QueueType
<1>2. UNCHANGED <<mapClientToSocket, pendingRequests, forwarded, lost>>
  BY respondData
<1>3. mapClientToSocket[Head(responses)] # Null
  BY <1>1 DEF SocketInv, AnswersHaveSockets
<1>4. status' # "assertion"
  BY <1>3, respondData DEF Responds, SocketInv, SocketKnown
<1>5. \/ responses' = responses
      \/ responses' = Tail(responses)
  BY respondData DEF Responds
<1>6. AnswersHaveSockets'
  <2>1. \A k \in 1 .. Len(Tail(responses)) :
           k + 1 \in 1 .. Len(responses) /\ Tail(responses)[k] = responses[k + 1]
    BY <1>1
  <2> QED BY <1>2, <1>5, <2>1 DEF SocketInv, AnswersHaveSockets
<1> QED BY <1>2, <1>4, <1>6 DEF SocketInv, RequestsBySocket, SocketKnown

\* Every step.
LEMMA NextSockets == ASSUME TypeInv, SocketInv, [Next]_vars PROVE SocketInv'
<1>1. CASE \/ UNCHANGED vars \/ Network \/ Owner \/ engineTakes \/ exit \/ poll \/ recvmsg
           \/ failRequest \/ flush \/ respondDone
  <2>1. status # "assertion"
    BY DEF SocketInv, SocketKnown
  <2>2. /\ UNCHANGED <<mapClientToSocket, pendingRequests, forwarded, lost, responses>>
        /\ status' # "assertion"
    BY <1>1, <2>1 DEF vars, Network, connect, arrive, Owner, start, stop, join, destroy,
       engineTakes, exit, poll, recvmsg, failRequest, flush, respondDone, mapVars, queueVars,
       ownerVars
  <2> QED BY <2>2, SameSockets
<1> QED BY <1>1, requestSockets, rxDoneSockets, publishSockets, engineAnswersSockets,
           respondSockets DEF Next, run

\* Both, with what they need to be inductive.
THEOREM SocketInvariance == Spec => []SocketInv
<1>1. Init => SocketInv
  BY DEF Init, SocketInv, RequestsBySocket, AnswersHaveSockets, SocketKnown
<1>2. TypeInv /\ SocketInv /\ [Next]_vars => SocketInv'
  BY NextSockets
<1> QED BY <1>1, <1>2, TypeInvariance, PTL DEF Spec

\* rxCallback binds a client to the socket of its first request for good: the
\* engine never gets a request in the client's name from another connection,
\* and the response goes where the request came from.
THEOREM ClientsKeepSockets == Spec => []OneSocketPerClient
<1>1. TypeInv /\ SocketInv => OneSocketPerClient
  <2> SUFFICES ASSUME TypeInv, SocketInv,
                      NEW r \in ToSet(forwarded \o pendingRequests) \cup lost
               PROVE  r.socket = mapClientToSocket[r.clientId]
    BY DEF OneSocketPerClient
  <2>1. forwarded \in Seq(Pending) /\ pendingRequests \in Seq(Pending)
    BY DEF TypeInv, TypeOK, MapType, QueueType
  <2>2. CASE r \in ToSet(forwarded \o pendingRequests)
    <3>1. PICK k \in 1 .. Len(forwarded) + Len(pendingRequests) :
             r = (forwarded \o pendingRequests)[k]
      BY <2>1, <2>2 DEF ToSet
    <3>2. \/ k \in 1 .. Len(forwarded) /\ r = forwarded[k]
          \/ /\ k - Len(forwarded) \in 1 .. Len(pendingRequests)
             /\ r = pendingRequests[k - Len(forwarded)]
      BY <2>1, <3>1
    <3> QED BY <3>2 DEF SocketInv, RequestsBySocket
  <2> QED BY <2>2 DEF SocketInv, RequestsBySocket
<1> QED BY <1>1, TypeInvariance, SocketInvariance, PTL

\* The assertion of run, that a response's client has a socket, never fails:
\* the engine answers only clients whose request it got, and rxCallback
\* recorded the socket before it let that request through.
THEOREM AssertionHolds == Spec => []SocketKnown
<1>1. SocketInv => SocketKnown
  BY DEF SocketInv
<1> QED BY <1>1, SocketInvariance, PTL

-----------------------------------------------------------------------------
(* Framing *)

\* Positions in a stream of whole requests.
LEMMA PieceRange == ASSUME NEW n \in Nat PROVE n % RequestPieces \in 0 .. RequestPieces - 1
  BY NumbersAssumption

\* One piece on is the next piece of the request, or the first of the next one.
LEMMA PieceStep ==
    ASSUME NEW n \in Nat
    PROVE  (n + 1) % RequestPieces = IF n % RequestPieces = RequestPieces - 1 THEN 0
                                     ELSE (n % RequestPieces) + 1
<1> DEFINE r == n % RequestPieces
           d == n \div RequestPieces
<1>1. r \in 0 .. RequestPieces - 1 /\ d \in Nat /\ n = RequestPieces * d + r
  BY NumbersAssumption
<1> HIDE DEF r, d
<1>2. CASE r + 1 < RequestPieces
  <2>1. n + 1 = RequestPieces * d + (r + 1)
    BY <1>1, NumbersAssumption
  <2>2. (n + 1) % RequestPieces = r + 1
    BY <1>1, <1>2, <2>1, NumbersAssumption
  <2> QED BY <1>1, <1>2, <2>2, NumbersAssumption DEF r
<1>3. CASE r + 1 = RequestPieces
  <2>1. n + 1 = RequestPieces * (d + 1)
    BY <1>1, <1>3, NumbersAssumption
  <2>2. (n + 1) % RequestPieces = 0
    BY <1>1, <2>1, NumbersAssumption
  <2> QED BY <1>1, <1>3, <2>2, NumbersAssumption DEF r
<1> QED BY <1>1, <1>2, <1>3, NumbersAssumption

\* A number of whole requests further on is the same piece.
LEMMA PieceShift ==
    ASSUME NEW n \in Nat, NEW m \in Nat, m % RequestPieces = 0
    PROVE  (n + m) % RequestPieces = n % RequestPieces
<1> DEFINE r == n % RequestPieces
           d == n \div RequestPieces
           e == m \div RequestPieces
<1>1. /\ r \in 0 .. RequestPieces - 1 /\ d \in Nat /\ n = RequestPieces * d + r
      /\ e \in Nat /\ m = RequestPieces * e
  BY NumbersAssumption
<1> HIDE DEF r, d, e
<1>2. n + m = RequestPieces * (d + e) + r /\ d + e \in Nat
  BY <1>1, NumbersAssumption
<1>3. (n + m) % RequestPieces = r
  BY <1>1, <1>2, NumbersAssumption
<1> QED BY <1>3 DEF r

\* Whole requests one after another, at most the last one incomplete.
Whole(q) ==
    \A k \in 1 .. Len(q) :
        LET part == ((k - 1) % RequestPieces) + 1
        IN  /\ q[k].part = part
            /\ part > 1 => q[k].clientId = q[k - 1].clientId /\ q[k].nSeq = q[k - 1].nSeq

\* h is the last piece of the incomplete request at the end of q, if there is
\* one.
Open(q, h) ==
    IF Len(q) % RequestPieces = 0 THEN h = Null
    ELSE /\ h # Null /\ h.part = Len(q) % RequestPieces
         /\ h.clientId = q[Len(q)].clientId /\ h.nSeq = q[Len(q)].nSeq

\* What was received on a connection and not gone through yet.
Stream(s) == inboundData[s] \o kernel[s]

FrameInv ==
    /\ i % RequestPieces = 0
    /\ pc = "rx" => i <= Len(inboundData[Socket])
    /\ \A s \in Sockets : /\ Len(inboundData[s]) <= BufferSize
                          /\ Whole(Stream(s)) /\ Open(Stream(s), half[s])

\* One more piece of the request under way, or of a new one.
LEMMA AppendWhole ==
    ASSUME NEW q \in Seq(Request), NEW h, Whole(q), Open(q, h), NEW piece \in Request,
           h = Null => piece.part = 1,
           h # Null => /\ piece.part = h.part + 1
                       /\ piece.clientId = h.clientId /\ piece.nSeq = h.nSeq
    PROVE  /\ Whole(Append(q, piece))
           /\ Open(Append(q, piece), IF piece.part < RequestPieces THEN piece ELSE Null)
<1> DEFINE t == Append(q, piece)
           n == Len(q)
<1>1. /\ n \in Nat /\ Len(t) = n + 1 /\ t[n + 1] = piece /\ \A k \in 1 .. n : t[k] = q[k]
      /\ piece.part \in 1 .. RequestPieces
  BY DEF Request
<1> HIDE DEF t
<1>2. n % RequestPieces \in 0 .. RequestPieces - 1
  BY <1>1, PieceRange
<1>3. /\ piece.part = (n % RequestPieces) + 1
      /\ n % RequestPieces > 0 => /\ piece.clientId = q[n].clientId
                                  /\ piece.nSeq = q[n].nSeq
  BY <1>2 DEF Open
<1>4. ASSUME NEW k \in 1 .. n + 1
      PROVE  LET part == ((k - 1) % RequestPieces) + 1
             IN  /\ t[k].part = part
                 /\ part > 1 => t[k].clientId = t[k - 1].clientId /\ t[k].nSeq = t[k - 1].nSeq
  <2>1. CASE k \in 1 .. n
    <3>5. k - 1 \in Nat
      BY <1>1, <2>1
    <3>1. (k - 1) % RequestPieces \in 0 .. RequestPieces - 1
      BY <3>5, PieceRange
    <3>2. k = 1 => (k - 1) % RequestPieces = 0
      BY NumbersAssumption
    <3>3. k # 1 => t[k - 1] = q[k - 1]
      BY <1>1, <2>1
    <3>4. t[k] = q[k]
      BY <1>1, <2>1
    <3> QED BY <2>1, <3>1, <3>2, <3>3, <3>4 DEF Whole
  <2>2. CASE k = n + 1
    <3>1. n = 0 => n % RequestPieces = 0
      BY NumbersAssumption
    <3>2. n # 0 => t[n] = q[n]
      BY <1>1
    <3>3. k - 1 = n /\ t[k] = piece
      BY <1>1, <2>2
    <3> QED BY <1>2, <1>3, <3>1, <3>2, <3>3
  <2> QED BY <1>1, <2>1, <2>2
<1>5. Whole(t)
  BY <1>1, <1>4 DEF Whole
<1>6. (n + 1) % RequestPieces = IF n % RequestPieces = RequestPieces - 1 THEN 0
                                ELSE (n % RequestPieces) + 1
  BY <1>1, PieceStep
<1>7. Open(t, IF piece.part < RequestPieces THEN piece ELSE Null)
  BY <1>1, <1>2, <1>3, <1>6, NumbersAssumption, NullAssumption DEF Open
<1> QED BY <1>5, <1>7 DEF t

\* The stream without its first m pieces, if these are whole requests.
LEMMA DropWhole ==
    ASSUME NEW q \in Seq(Request), NEW h, Whole(q), Open(q, h), NEW m \in 0 .. Len(q),
           m % RequestPieces = 0
    PROVE  LET t == SubSeq(q, m + 1, Len(q)) IN Whole(t) /\ Open(t, h)
<1> DEFINE t == SubSeq(q, m + 1, Len(q))
           n == Len(q)
<1>1. /\ n \in Nat /\ m \in Nat /\ n - m \in Nat /\ Len(t) = n - m
      /\ \A k \in 1 .. n - m : t[k] = q[m + k]
  <2>1. \A k \in m + 1 .. n : q[k] \in Request
    OBVIOUS
  <2> QED BY <2>1, SubSeqProperties
<1> HIDE DEF t
<1>2. ASSUME NEW k \in 1 .. n - m
      PROVE  LET part == ((k - 1) % RequestPieces) + 1
             IN  /\ t[k].part = part
                 /\ part > 1 => t[k].clientId = t[k - 1].clientId /\ t[k].nSeq = t[k - 1].nSeq
  <2>1. ((k - 1) + m) % RequestPieces = (k - 1) % RequestPieces
    BY <1>1, PieceShift
  <2>2. ((m + k) - 1) % RequestPieces = (k - 1) % RequestPieces /\ m + k \in 1 .. n
    <3>1. (m + k) - 1 = (k - 1) + m
      BY <1>1
    <3> QED BY <1>1, <2>1, <3>1
  <2>3. k = 1 => (k - 1) % RequestPieces = 0
    BY NumbersAssumption
  <2>4. t[k] = q[m + k] /\ (k # 1 => t[k - 1] = q[(m + k) - 1])
    <3>1. t[k] = q[m + k]
      BY <1>1
    <3>2. k # 1 => k - 1 \in 1 .. n - m /\ m + (k - 1) = (m + k) - 1
      BY <1>1
    <3> QED BY <1>1, <3>1, <3>2
  <2>6. k - 1 \in Nat
    BY <1>1
  <2>5. (k - 1) % RequestPieces \in 0 .. RequestPieces - 1
    BY <2>6, PieceRange
  <2> QED BY <2>2, <2>3, <2>4, <2>5 DEF Whole
<1>3. Whole(t)
  BY <1>1, <1>2 DEF Whole
<1>4. ((n - m) + m) % RequestPieces = (n - m) % RequestPieces
  BY <1>1, PieceShift
<1>5. n % RequestPieces = (n - m) % RequestPieces
  <2>1. (n - m) + m = n
    BY <1>1
  <2> QED BY <1>4, <2>1
<1>6. n - m = 0 => (n - m) % RequestPieces = 0
  BY NumbersAssumption
<1>7. n - m # 0 => t[n - m] = q[n]
  BY <1>1
<1>8. Open(t, h)
  BY <1>1, <1>5, <1>6, <1>7 DEF Open
<1> QED BY <1>3, <1>8 DEF t

\* How the actions that touch the data of a connection change its stream.
LEMMA StreamGrows ==
    ASSUME NEW a \in Seq(Request), NEW b \in Seq(Request), NEW piece \in Request
    PROVE  a \o Append(b, piece) = Append(a \o b, piece)
<1>1. Append(b, piece) = b \o <<piece>> /\ Append(a \o b, piece) = (a \o b) \o <<piece>>
  BY AppendIsConcat, ConcatProperties
<1>2. <<piece>> \in Seq(Request)
  OBVIOUS
<1> QED BY <1>1, <1>2, ConcatAssociative

LEMMA OutGrows ==
    ASSUME NEW a \in Seq(ResponsePiece), NEW b \in Seq(ResponsePiece),
           NEW piece \in ResponsePiece
    PROVE  a \o Append(b, piece) = Append(a \o b, piece)
<1>1. Append(b, piece) = b \o <<piece>> /\ Append(a \o b, piece) = (a \o b) \o <<piece>>
  BY AppendIsConcat, ConcatProperties
<1>2. <<piece>> \in Seq(ResponsePiece)
  OBVIOUS
<1> QED BY <1>1, <1>2, ConcatAssociative

LEMMA StreamMoves ==
    ASSUME NEW a \in Seq(Request), NEW b \in Seq(Request), NEW n \in 0 .. Len(b)
    PROVE  (a \o SubSeq(b, 1, n)) \o SubSeq(b, n + 1, Len(b)) = a \o b
<1> DEFINE c == SubSeq(b, 1, n)
           d == SubSeq(b, n + 1, Len(b))
<1>1. c \in Seq(Request) /\ d \in Seq(Request)
  OBVIOUS
<1>2. 1 \in 1 .. Len(b) + 1 /\ n \in 1 - 1 .. Len(b) /\ Len(b) \in n .. Len(b)
  OBVIOUS
<1>3. c \o d = SubSeq(b, 1, Len(b))
  BY <1>2, ConcatAdjacentSubSeq
<1>4. SubSeq(b, 1, Len(b)) = b
  BY SubSeqFull
<1> HIDE DEF c, d
<1>5. (a \o c) \o d = a \o (c \o d)
  <2>1. ASSUME NEW x \in Seq(Request), NEW y \in Seq(Request), NEW z \in Seq(Request)
        PROVE  (x \o y) \o z = x \o (y \o z)
    BY ONLY <2>1, ConcatAssociative
  <2> QED BY <1>1, <2>1, Zenon
<1>6. (a \o c) \o d = a \o b
  BY <1>3, <1>4, <1>5
<1> QED BY <1>6 DEF c, d

LEMMA StreamShrinks ==
    ASSUME NEW a \in Seq(Request), NEW b \in Seq(Request), NEW m \in 0 .. Len(a)
    PROVE  SubSeq(a, m + 1, Len(a)) \o b = SubSeq(a \o b, m + 1, Len(a \o b))
<1> DEFINE c == SubSeq(a, m + 1, Len(a))
           t == a \o b
           d == SubSeq(t, m + 1, Len(t))
           e == c \o b
<1>1. /\ t \in Seq(Request) /\ Len(t) = Len(a) + Len(b) /\ Len(a) \in Nat /\ Len(b) \in Nat
      /\ \A k \in 1 .. Len(a) + Len(b) : t[k] = IF k <= Len(a) THEN a[k] ELSE b[k - Len(a)]
  BY ConcatProperties
<1>2. /\ c \in Seq(Request) /\ Len(c) = Len(a) - m
      /\ \A k \in 1 .. Len(a) - m : c[k] = a[m + k]
  <2>1. \A k \in m + 1 .. Len(a) : a[k] \in Request
    OBVIOUS
  <2> QED BY <1>1, <2>1, SubSeqProperties
<1> HIDE DEF t, c
<1>3. /\ d \in Seq(Request) /\ Len(d) = Len(t) - m
      /\ \A k \in 1 .. Len(t) - m : d[k] = t[m + k]
  <2>1. \A k \in m + 1 .. Len(t) : t[k] \in Request
    BY <1>1
  <2> QED BY <1>1, <2>1, SubSeqProperties
<1>4. /\ e \in Seq(Request) /\ Len(e) = Len(c) + Len(b)
      /\ \A k \in 1 .. Len(c) + Len(b) : e[k] = IF k <= Len(c) THEN c[k] ELSE b[k - Len(c)]
  BY <1>2, ConcatProperties
<1> HIDE DEF d, e
<1>5. Len(e) = Len(d)
  BY <1>1, <1>2, <1>3, <1>4
<1>6. ASSUME NEW k \in 1 .. Len(e) PROVE e[k] = d[k]
  <2>1. k \in Nat /\ k <= Len(t) - m /\ k >= 1 /\ m \in Nat /\ m <= Len(a)
    BY <1>1, <1>3, <1>5
  <2>2. d[k] = t[m + k] /\ m + k \in 1 .. Len(a) + Len(b)
    BY <1>1, <1>3, <2>1
  <2>3. CASE k <= Len(a) - m
    BY <1>1, <1>2, <1>4, <2>1, <2>2, <2>3
  <2>4. CASE k > Len(a) - m
    <3>1. e[k] = b[k - Len(c)]
      BY <1>1, <1>2, <1>4, <2>1, <2>4
    <3>2. t[m + k] = b[(m + k) - Len(a)]
      BY <1>1, <2>1, <2>2, <2>4
    <3>3. k - Len(c) = (m + k) - Len(a)
      BY <1>1, <1>2, <2>1
    <3> QED BY <2>2, <3>1, <3>2, <3>3
  <2> QED BY <1>1, <2>1, <2>3, <2>4
<1>7. e = d
  BY <1>3, <1>4, <1>5, <1>6, SeqEqual
<1> QED BY <1>7 DEF t, c, d, e

\* A step that leaves the data of the connections alone.
LEMMA SameFrames ==
    ASSUME FrameInv, UNCHANGED <<kernel, half, inboundData, i>>,
           UNCHANGED <<pc, pass, turn, sockVars>> \/ pc' # "rx"
    PROVE  FrameInv'
  BY DEF FrameInv, Stream, Socket, PassSockets, sockVars

LEMMA arriveFrames == ASSUME TypeInv, FrameInv, NEW s \in Sockets, arrive(s) PROVE FrameInv'
<1>1. PICK piece \in Request :
         /\ kernel' = [kernel EXCEPT ![s] = Append(@, piece)]
         /\ half' = [half EXCEPT ![s] = IF piece.part < RequestPieces THEN piece ELSE Null]
         /\ half[s] = Null => piece.part = 1
         /\ half[s] # Null => /\ piece.part = half[s].part + 1
                              /\ piece.clientId = half[s].clientId
                              /\ piece.nSeq = half[s].nSeq
  BY arrivePiece
<1>2. UNCHANGED <<sockVars, bufVars, loopVars>>
  BY DEF arrive
<1>3. kernel \in [Sockets -> Seq(Request)] /\ inboundData[s] \in Seq(Request)
      /\ half \in [Sockets -> Request \cup {Null}]
  BY DEF TypeInv, TypeOK, NetType, SocketType
<1>4. Stream(s) \in Seq(Request) /\ Stream(s)' = Append(Stream(s), piece)
  BY <1>1, <1>2, <1>3, StreamGrows, ConcatProperties DEF Stream, bufVars
<1>5. Whole(Stream(s)') /\ Open(Stream(s)', half'[s])
  <2>1. half'[s] = IF piece.part < RequestPieces THEN piece ELSE Null
    BY <1>1, <1>3
  <2> QED BY <1>1, <1>4, <2>1, AppendWhole DEF FrameInv
<1>6. \A x \in Sockets \ {s} : Stream(x)' = Stream(x) /\ half'[x] = half[x]
  BY <1>1, <1>2, <1>3 DEF Stream, bufVars
<1>7. \A x \in Sockets : /\ Len(inboundData'[x]) <= BufferSize
                         /\ Whole(Stream(x)') /\ Open(Stream(x)', half'[x])
  BY <1>2, <1>5, <1>6 DEF FrameInv, bufVars
<1>8. i' % RequestPieces = 0 /\ (pc' = "rx" => i' <= Len(inboundData'[Socket']))
  BY <1>2 DEF FrameInv, Socket, PassSockets, sockVars, bufVars, loopVars
<1> QED BY <1>7, <1>8 DEF FrameInv, Whole, Open

LEMMA recvmsgFrames == ASSUME TypeInv, FrameInv, recvmsg PROVE FrameInv'
<1>0. PICK s \in Sockets : s = Socket
  BY recvmsgData
<1>1. s \in Sockets /\ kernel[s] \in Seq(Request) /\ inboundData[s] \in Seq(Request)
  BY <1>0 DEF TypeInv, TypeOK, NetType, SocketType
<1>2. PICK n \in 0 .. Len(kernel[s]) :
         /\ n = readSize(s) \/ (readSize(s) < 0 /\ n = 0)
         /\ inboundData' = [inboundData EXCEPT ![s] = @ \o SubSeq(kernel[s], 1, n)]
         /\ kernel' = [kernel EXCEPT ![s] = SubSeq(@, n + 1, Len(@))]
  BY <1>0, recvmsgData
<1>3. half' = half /\ i' = 0
  BY DEF recvmsg
<1>4. /\ kernel'[s] = SubSeq(kernel[s], n + 1, Len(kernel[s]))
      /\ inboundData'[s] = inboundData[s] \o SubSeq(kernel[s], 1, n)
      /\ \A x \in Sockets \ {s} : kernel'[x] = kernel[x] /\ inboundData'[x] = inboundData[x]
  BY <1>1, <1>2 DEF TypeInv, TypeOK, NetType, SocketType
<1>5. \A x \in Sockets : Stream(x)' = Stream(x)
  <2>1. (inboundData[s] \o SubSeq(kernel[s], 1, n)) \o SubSeq(kernel[s], n + 1, Len(kernel[s]))
          = inboundData[s] \o kernel[s]
    BY <1>1, StreamMoves
  <2> QED BY <1>4, <2>1 DEF Stream
<1>6. Len(inboundData'[s]) <= BufferSize
  <2>1. Len(inboundData[s] \o kernel[s]) = Len(inboundData[s]) + Len(kernel[s])
        /\ Len(inboundData[s]) \in Nat /\ Len(kernel[s]) \in Nat
    BY <1>1
  <2>2. Len(SubSeq(kernel[s], 1, n)) = n /\ SubSeq(kernel[s], 1, n) \in Seq(Request)
    BY <1>1
  <2>3. Len(inboundData'[s]) = Len(inboundData[s]) + n
    <3>1. \A x, y \in Seq(Request) : Len(x \o y) = Len(x) + Len(y)
      BY ONLY ConcatProperties
    <3> QED BY <1>1, <1>4, <2>2, <3>1, Zenon
  <2>4. Len(inboundData[s]) <= BufferSize
    BY <1>1 DEF FrameInv
  <2>5. readSize(s) = IF Len(inboundData[s]) + Len(kernel[s]) <= BufferSize THEN Len(kernel[s])
                      ELSE BufferSize - Len(inboundData[s])
    BY <2>1 DEF readSize
  <2>6. n \in Nat /\ n <= Len(kernel[s])
    BY <1>2, <2>1
  <2>7. n = readSize(s) \/ (readSize(s) < 0 /\ n = 0)
    BY <1>2
  <2> DEFINE la == Len(inboundData[s])
             lk == Len(kernel[s])
             ln == Len(inboundData'[s])
             rs == readSize(s)
  <2>8. /\ ln = la + n /\ la \in Nat /\ lk \in Nat /\ la <= BufferSize /\ BufferSize \in Nat
        /\ n \in Nat /\ n <= lk /\ (n = rs \/ (rs < 0 /\ n = 0))
        /\ rs = IF la + lk <= BufferSize THEN lk ELSE BufferSize - la
    BY <2>1, <2>3, <2>4, <2>5, <2>6, <2>7, NumbersAssumption
  <2> HIDE DEF la, lk, ln, rs
  <2>9. ln <= BufferSize
    BY ONLY <2>8
  <2> QED BY <2>9 DEF ln
<1>7. i' % RequestPieces = 0
  BY <1>3, NumbersAssumption
<1>8. i' <= Len(inboundData'[Socket'])
  <2>1. Socket' = s
    BY <1>0 DEF recvmsg, afterRead, Socket, PassSockets, sockVars
  <2>2. Len(inboundData'[s]) \in Nat
    BY <1>1, recvmsgType DEF TypeInv, TypeOK, SocketType
  <2> QED BY <1>3, <2>1, <2>2
<1>9. \A x \in Sockets : /\ Len(inboundData'[x]) <= BufferSize
                         /\ Whole(Stream(x)') /\ Open(Stream(x)', half'[x])
  BY <1>3, <1>4, <1>5, <1>6 DEF FrameInv
<1> QED BY <1>7, <1>8, <1>9 DEF FrameInv, Whole, Open

\* acceptRequest, dropRequest: the offset moves on by a whole request.
LEMMA requestFrames ==
    ASSUME TypeInv, FrameInv, acceptRequest \/ dropRequest
    PROVE  FrameInv'
<1>1. HasRequest /\ NextRequest
  BY DEF acceptRequest, dropRequest
<1>2. i \in Nat /\ i + RequestPieces <= Len(inboundData[Socket])
  BY <1>1, RequestAt
<1>3. UNCHANGED <<netVars, bufVars, sockVars, pc, pass, turn>> /\ i' = i + RequestPieces
  BY <1>1 DEF NextRequest
<1>4. RequestPieces \in Nat /\ RequestPieces % RequestPieces = 0
  BY NumbersAssumption
<1>5. i' % RequestPieces = 0
  <2>1. (i + RequestPieces) % RequestPieces = i % RequestPieces
    BY <1>2, <1>4, PieceShift
  <2> QED BY <1>3, <2>1 DEF FrameInv
<1> QED BY <1>2, <1>3, <1>5
        DEF FrameInv, Stream, Socket, PassSockets, sockVars, netVars, bufVars

LEMMA flushFrames == ASSUME TypeInv, FrameInv, flush PROVE FrameInv'
<1>0. PICK s \in Sockets : s = Socket
  BY flushData
<1>1. pc = "rx" /\ inboundData' = [inboundData EXCEPT ![s] = SubSeq(@, i + 1, Len(@))]
  BY <1>0, flushData
<1>2. UNCHANGED netVars /\ i' = 0 /\ pc' = "socket"
  BY DEF flush
<1>3. inboundData[s] \in Seq(Request) /\ kernel[s] \in Seq(Request)
      /\ i \in 0 .. Len(inboundData[s]) /\ i % RequestPieces = 0
  BY <1>0, <1>1 DEF FrameInv, TypeInv, TypeOK, SocketType, NetType, ThreadType
<1>4. /\ inboundData'[s] = SubSeq(inboundData[s], i + 1, Len(inboundData[s]))
      /\ \A x \in Sockets \ {s} : inboundData'[x] = inboundData[x]
  BY <1>1 DEF TypeInv, TypeOK, SocketType
<1>5. Stream(s)' = SubSeq(Stream(s), i + 1, Len(Stream(s)))
  BY <1>2, <1>3, <1>4, StreamShrinks DEF Stream, netVars
<1>6. Stream(s) \in Seq(Request) /\ i \in 0 .. Len(Stream(s))
  <2>1. Stream(s) \in Seq(Request) /\ Len(Stream(s)) = Len(inboundData[s]) + Len(kernel[s])
        /\ Len(inboundData[s]) \in Nat /\ Len(kernel[s]) \in Nat
    BY <1>3, ConcatProperties DEF Stream
  <2>2. i \in Nat /\ i <= Len(inboundData[s])
    BY <1>3
  <2> DEFINE la == Len(inboundData[s])
             lk == Len(kernel[s])
             ls == Len(Stream(s))
  <2>3. ls = la + lk /\ la \in Nat /\ lk \in Nat /\ i \in Nat /\ i <= la
    BY <2>1, <2>2
  <2> HIDE DEF la, lk, ls
  <2>4. i \in 0 .. ls
    BY ONLY <2>3
  <2> QED BY <2>1, <2>4 DEF ls
<1>7. Whole(Stream(s)') /\ Open(Stream(s)', half[s])
  BY <1>1, <1>3, <1>5, <1>6, DropWhole DEF FrameInv
<1>8. Len(inboundData'[s]) <= BufferSize
  <2>1. Len(inboundData'[s]) = Len(inboundData[s]) - i /\ Len(inboundData[s]) \in Nat
    BY <1>3, <1>4
  <2>2. Len(inboundData[s]) <= BufferSize
    BY <1>1 DEF FrameInv
  <2> QED BY <1>3, <2>1, <2>2, NumbersAssumption
<1>9. \A x \in Sockets : /\ Len(inboundData'[x]) <= BufferSize
                         /\ Whole(Stream(x)') /\ Open(Stream(x)', half'[x])
  BY <1>2, <1>4, <1>7, <1>8 DEF FrameInv, Stream, netVars
<1>10. i' % RequestPieces = 0
  BY <1>2, NumbersAssumption
<1> QED BY <1>2, <1>9, <1>10 DEF FrameInv, Whole, Open

\* Every step.
LEMMA NextFrames == ASSUME TypeInv, FrameInv, [Next]_vars PROVE FrameInv'
<1>1. CASE \/ UNCHANGED vars \/ engineTakes \/ engineAnswers \/ stop \/ join \/ failRequest
           \/ respond \/ \E s \in Sockets : connect(s)
  BY <1>1, SameFrames DEF vars, engineTakes, engineAnswers, stop, join, failRequest, respond,
     connect, netVars, bufVars, loopVars
<1>2. CASE start \/ destroy \/ exit \/ poll \/ rxDone \/ publish \/ respondDone
  <2>1. UNCHANGED <<kernel, half, inboundData, i>>
    BY <1>2 DEF start, destroy, exit, poll, rxDone, publish, respondDone, netVars, bufVars,
       loopVars
  <2>2. pc' # "rx"
    BY <1>2 DEF start, destroy, exit, poll, rxDone, publish, respondDone, BeginPass, At,
       TypeInv, LoopInv, loopVars
  <2> QED BY <2>1, <2>2, SameFrames
<1> QED BY <1>1, <1>2, arriveFrames, recvmsgFrames, requestFrames, flushFrames
        DEF Next, run, Network, Owner

\* Framing, with what it needs to be inductive: the request under way in the
\* network continues the stream that the socket holds.
THEOREM FrameInvariance == Spec => []FrameInv
<1>1. Init => FrameInv
  BY NumbersAssumption DEF Init, FrameInv, Stream, Whole, Open
<1>2. TypeInv /\ FrameInv /\ [Next]_vars => FrameInv'
  BY NextFrames
<1> QED BY <1>1, <1>2, TypeInvariance, PTL DEF Spec

\* Wherever receives end and however small the buffer is, rxCallback only ever
\* looks at the first piece of a request and all its pieces are the request's
\* own: compacting the buffer after the callback loses and repeats nothing.
THEOREM RequestsStayFramed == Spec => []Framed
<1>1. FrameInv => Framed
  BY DEF FrameInv, Framed, Whole, Stream
<1> QED BY <1>1, FrameInvariance, PTL

-----------------------------------------------------------------------------
(* Responses *)

\* All that was sent on a connection, or waits in its buffer.
Out(s) == delivered[s] \o outboundData[s]

\* It is for clients of this socket, and each client's numbers grow, up to the
\* one to be given out next.
OutInOrder(q, s) ==
    \A k \in 1 .. Len(q) :
        /\ mapClientToSocket[q[k].clientId] = s
        /\ q[k].nSeq \in 1 .. mapClientToTxNSeq[q[k].clientId] - 1
        /\ \A j \in 1 .. k - 1 :
              q[j].clientId = q[k].clientId =>
                  2 * q[j].nSeq + q[j].part < 2 * q[k].nSeq + q[k].part

\* A body follows its number, and no number is missing.
OutComplete(q, s) ==
    /\ \A k \in 1 .. Len(q) :
          q[k].part = 2 => k > 1 /\ q[k - 1] = [q[k] EXCEPT !.part = 1]
    /\ \A c \in Clients : mapClientToSocket[c] = s =>
          \A n \in 1 .. mapClientToTxNSeq[c] - 1 :
              \E k \in 1 .. Len(q) : q[k].clientId = c /\ q[k].nSeq = n

\* The numbering starts when the client's socket is known.
TxInv ==
    \A c \in Clients : /\ mapClientToTxNSeq[c] >= 1
                       /\ mapClientToSocket[c] = Null => mapClientToTxNSeq[c] = 1

OutInv ==
    \A s \in Sockets : OutInOrder(Out(s), s) /\ (~cut[s] => OutComplete(Out(s), s))

RespInv == TxInv /\ OutInv

\* The pieces of a connection.
LEMMA OutType ==
    ASSUME TypeInv, NEW s \in Sockets
    PROVE  /\ Out(s) \in Seq(ResponsePiece)
           /\ \A k \in 1 .. Len(Out(s)) :
                 /\ Out(s)[k] \in ResponsePiece /\ Out(s)[k].clientId \in Clients
                 /\ Out(s)[k].nSeq \in Nat /\ Out(s)[k].part \in {1, 2}
<1>1. Out(s) \in Seq(ResponsePiece)
  BY ConcatProperties DEF Out, TypeInv, TypeOK, SocketType
<1>2. \A k \in 1 .. Len(Out(s)) : Out(s)[k] \in ResponsePiece
  BY <1>1
<1>3. \A x \in ResponsePiece : x.clientId \in Clients /\ x.nSeq \in Nat /\ x.part \in {1, 2}
  BY DEF ResponsePiece
<1> QED BY <1>1, <1>2, <1>3

\* A connection on which nothing was sent.
LEMMA SameOut ==
    ASSUME NEW s \in Sockets, Out(s)' = Out(s), cut'[s] = cut[s], OutInOrder(Out(s), s),
           ~cut[s] => OutComplete(Out(s), s),
           UNCHANGED <<mapClientToSocket, mapClientToTxNSeq>>
    PROVE  OutInOrder(Out(s), s)' /\ (~cut'[s] => OutComplete(Out(s), s)')
<1> DEFINE q == Out(s)
<1>1. q' = q
  OBVIOUS
<1> HIDE DEF q
<1>2. OutInOrder(q, s)'
  BY <1>1 DEF OutInOrder, q
<1>3. ~cut'[s] => OutComplete(q, s)'
  BY <1>1 DEF OutComplete, q
<1> QED BY <1>2, <1>3 DEF q

\* A step that leaves responses and sockets alone.
LEMMA SameResponses ==
    ASSUME RespInv, UNCHANGED <<delivered, cut, outboundData, mapClientToSocket,
                                mapClientToTxNSeq>>
    PROVE  RespInv'
<1>1. TxInv'
  BY DEF RespInv, TxInv
<1>2. \A s \in Sockets : Out(s)' = Out(s)
  BY DEF Out
<1>3. OutInv'
  BY <1>2, SameOut DEF RespInv, OutInv
<1> QED BY <1>1, <1>3 DEF RespInv

\* A client without a socket was sent nothing.
LEMMA requestResponses ==
    ASSUME TypeInv, RespInv, acceptRequest \/ dropRequest
    PROVE  RespInv'
<1>1. /\ HasRequest /\ Req.clientId \in Clients /\ recordSocket(Req.clientId)
      /\ UNCHANGED <<delivered, cut, outboundData, mapClientToTxNSeq>>
  BY DEF acceptRequest, dropRequest, NextRequest, clientVars, bufVars
<1>2. \A d \in Clients :
         \/ mapClientToSocket'[d] = mapClientToSocket[d]
         \/ mapClientToSocket[d] = Null /\ mapClientToSocket'[d] # Null
  BY <1>1, RequestAt, SocketForType, SocketsAssumption DEF socketFor
<1>3. TxInv'
  BY <1>1, <1>2 DEF RespInv, TxInv
<1>4. ASSUME NEW s \in Sockets PROVE OutInOrder(Out(s), s)' /\ (~cut[s] => OutComplete(Out(s), s)')
  <2> DEFINE q == Out(s)
  <2>1. q' = q
    BY <1>1 DEF Out
  <2>2. \A k \in 1 .. Len(q) : q[k].clientId \in Clients
    BY OutType
  <2>3. OutInOrder(q, s) /\ (~cut[s] => OutComplete(q, s)) /\ s # Null
    BY SocketsAssumption DEF RespInv, OutInv
  <2>4. \A c \in Clients : mapClientToSocket[c] = Null => mapClientToTxNSeq[c] = 1
    BY DEF RespInv, TxInv
  <2> HIDE DEF q
  <2>5. OutInOrder(q, s)'
    BY <1>1, <1>2, <2>1, <2>2, <2>3 DEF OutInOrder
  <2>6. ASSUME ~cut[s] PROVE OutComplete(q, s)'
    BY <1>1, <1>2, <2>1, <2>3, <2>4, <2>6 DEF OutComplete
  <2> QED BY <2>5, <2>6 DEF q
<1> QED BY <1>1, <1>3, <1>4 DEF RespInv, OutInv

\* The kernel takes all that is left, or the connection is cut.
LEMMA flushResponses == ASSUME TypeInv, RespInv, flush PROVE RespInv'
<1>0. PICK s \in Sockets : s = Socket
  BY flushData
<1>1. outboundData' = [outboundData EXCEPT ![s] = <<>>]
  BY <1>0, flushData
<1>2. PICK n \in 0 .. Len(outboundData[s]) :
         /\ delivered' = [delivered EXCEPT ![s] = @ \o SubSeq(outboundData[s], 1, n)]
         /\ cut' = [cut EXCEPT ![s] = @ \/ n < Len(outboundData[s])]
  BY <1>0, flushData
<1>3. UNCHANGED <<mapClientToSocket, mapClientToTxNSeq>>
  BY DEF flush, mapVars
<1> DEFINE a == delivered[s]
           b == outboundData[s]
<1>4. a \in Seq(ResponsePiece) /\ b \in Seq(ResponsePiece)
  BY DEF TypeInv, TypeOK, SocketType
<1>5. /\ outboundData'[s] = <<>> /\ delivered'[s] = a \o SubSeq(b, 1, n)
      /\ cut'[s] = (cut[s] \/ n < Len(b))
      /\ \A x \in Sockets \ {s} : /\ outboundData'[x] = outboundData[x]
                                  /\ delivered'[x] = delivered[x] /\ cut'[x] = cut[x]
  BY <1>1, <1>2 DEF TypeInv, TypeOK, SocketType
<1>6. /\ SubSeq(b, 1, n) \in Seq(ResponsePiece) /\ Len(SubSeq(b, 1, n)) = n
      /\ \A k \in 1 .. n : SubSeq(b, 1, n)[k] = b[k]
  BY <1>4, SubSeqProperties
<1>7. Out(s)' = a \o SubSeq(b, 1, n)
  BY <1>4, <1>5, <1>6, ConcatProperties, ConcatEmptySeq DEF Out
<1>8. /\ Len(Out(s)') = Len(a) + n /\ Len(Out(s)) = Len(a) + Len(b)
      /\ Len(Out(s)') <= Len(Out(s)) /\ Len(Out(s)') \in Nat /\ Len(Out(s)) \in Nat
      /\ \A k \in 1 .. Len(Out(s)') : Out(s)'[k] = Out(s)[k]
  <2>1. \A x, y \in Seq(ResponsePiece) :
           /\ Len(x \o y) = Len(x) + Len(y) /\ Len(x) \in Nat /\ Len(y) \in Nat
           /\ \A k \in 1 .. Len(x) + Len(y) : (x \o y)[k] = IF k <= Len(x) THEN x[k]
                                                            ELSE y[k - Len(x)]
    BY ONLY ConcatProperties
  <2>2. Out(s) = a \o b
    BY DEF Out
  <2> DEFINE c == SubSeq(b, 1, n)
             u == Out(s)
             v == a \o c
  <2> HIDE DEF a, b, c
  <2>3. /\ Len(v) = Len(a) + n /\ Len(a) \in Nat /\ n \in Nat
        /\ \A k \in 1 .. Len(a) + n : v[k] = IF k <= Len(a) THEN a[k] ELSE c[k - Len(a)]
    BY <1>4, <1>6, <2>1 DEF c
  <2>4. /\ Len(u) = Len(a) + Len(b) /\ Len(b) \in Nat /\ n <= Len(b)
        /\ \A k \in 1 .. Len(a) + Len(b) : u[k] = IF k <= Len(a) THEN a[k] ELSE b[k - Len(a)]
    BY <1>4, <2>1, <2>2 DEF b
  <2>5. \A k \in 1 .. n : c[k] = b[k]
    BY <1>6 DEF c
  <2> HIDE DEF u, v
  <2>6. \A k \in 1 .. Len(v) : v[k] = u[k]
    BY <2>3, <2>4, <2>5
  <2>7. Len(v) <= Len(u) /\ Len(v) \in Nat /\ Len(u) \in Nat
    BY <2>3, <2>4
  <2>8. Out(s)' = v
    BY <1>7 DEF v, c
  <2> QED BY <2>3, <2>4, <2>6, <2>7, <2>8 DEF u
<1>9. ~cut'[s] => ~cut[s] /\ Out(s)' = Out(s)
  <2> SUFFICES ASSUME ~cut'[s] PROVE ~cut[s] /\ Out(s)' = Out(s)
    OBVIOUS
  <2>1. ~cut[s] /\ ~(n < Len(b))
    BY <1>5
  <2>2. n = Len(b)
    BY <1>4, <2>1
  <2>3. SubSeq(b, 1, n) = b
    BY <1>4, <2>2, SubSeqFull
  <2> QED BY <1>7, <2>1, <2>3 DEF Out
<1>10. \A x \in Sockets \ {s} : Out(x)' = Out(x)
  BY <1>5 DEF Out
<1> HIDE DEF a, b
<1>11. ASSUME NEW x \in Sockets
       PROVE  OutInOrder(Out(x), x)' /\ (~cut'[x] => OutComplete(Out(x), x)')
  <2>1. OutInOrder(Out(x), x) /\ (~cut[x] => OutComplete(Out(x), x))
    BY DEF RespInv, OutInv
  <2>2. CASE x # s
    BY <1>3, <1>5, <1>10, <2>1, <2>2, SameOut
  <2>3. CASE x = s
    <3> DEFINE u == Out(s)
               v == Out(s)'
    <3>1. Len(v) <= Len(u) /\ Len(v) \in Nat /\ Len(u) \in Nat /\ \A k \in 1 .. Len(v) : v[k] = u[k]
      BY <1>8
    <3> HIDE DEF u, v
    <3>2. \A k \in 1 .. Len(v) : k \in 1 .. Len(u) /\ \A j \in 1 .. k - 1 : j \in 1 .. Len(v)
      BY <3>1
    <3>3. OutInOrder(Out(s), s)'
      BY <1>3, <2>1, <2>3, <3>1, <3>2 DEF OutInOrder, u, v
    <3>4. ~cut'[s] => OutComplete(Out(s), s)'
      BY <1>3, <1>9, <2>1, <2>3 DEF OutComplete
    <3> QED BY <2>3, <3>3, <3>4
  <2> QED BY <2>2, <2>3
<1>12. TxInv'
  BY <1>3 DEF RespInv, TxInv
<1> QED BY <1>11, <1>12 DEF RespInv, OutInv

\* Two more pieces for client c, with the number that is next.
LEMMA RespondsKeeps ==
    ASSUME TypeInv, RespInv, NEW c, NEW s, Responds(c, s),
           UNCHANGED <<delivered, cut, mapClientToSocket>>
    PROVE  RespInv'
<1> DEFINE n == mapClientToTxNSeq[c]
           p == Piece(c, n, 1)
           r == Piece(c, n, 2)
           q == Out(s)
           m == Len(q)
           t == Append(Append(q, p), r)
<1>1. c \in Clients /\ s \in Sockets /\ mapClientToSocket[c] = s /\ n \in Nat /\ n >= 1
  BY DEF Responds, TypeInv, TypeOK, MapType, RespInv, TxInv
<1>2. /\ p \in ResponsePiece /\ r \in ResponsePiece
      /\ p.clientId = c /\ p.nSeq = n /\ p.part = 1
      /\ r.clientId = c /\ r.nSeq = n /\ r.part = 2 /\ p = [r EXCEPT !.part = 1]
  BY <1>1 DEF Piece, ResponsePiece
<1>3. delivered[s] \in Seq(ResponsePiece) /\ outboundData[s] \in Seq(ResponsePiece)
      /\ outboundData \in [Sockets -> Seq(ResponsePiece)]
      /\ mapClientToTxNSeq \in [Clients -> Nat]
  BY <1>1 DEF TypeInv, TypeOK, SocketType, MapType
<1>4. /\ outboundData'[s] = Append(Append(outboundData[s], p), r)
      /\ \A x \in Sockets \ {s} : outboundData'[x] = outboundData[x]
      /\ mapClientToTxNSeq'[c] = n + 1
      /\ \A d \in Clients \ {c} : mapClientToTxNSeq'[d] = mapClientToTxNSeq[d]
  BY <1>1, <1>3 DEF Responds
<1> HIDE DEF p, r
<1>5. Out(s)' = t
  <2>1. Append(outboundData[s], p) \in Seq(ResponsePiece)
    BY <1>2, <1>3
  <2>2. delivered[s] \o Append(Append(outboundData[s], p), r)
          = Append(delivered[s] \o Append(outboundData[s], p), r)
    BY <1>2, <1>3, <2>1, OutGrows
  <2>3. delivered[s] \o Append(outboundData[s], p) = Append(delivered[s] \o outboundData[s], p)
    BY <1>2, <1>3, OutGrows
  <2> QED BY <1>4, <2>2, <2>3 DEF Out
<1>6. q \in Seq(ResponsePiece)
  BY <1>1, OutType
<1> HIDE DEF q
<1>7. /\ m \in Nat /\ Len(t) = m + 2 /\ t[m + 1] = p /\ t[m + 2] = r
      /\ \A k \in 1 .. m : t[k] = q[k]
  BY <1>2, <1>6
<1>8. \A k \in 1 .. m : /\ q[k].clientId \in Clients /\ q[k].nSeq \in Nat
                        /\ q[k].part \in {1, 2}
  BY <1>1, OutType DEF q
<1>9. OutInOrder(q, s) /\ (~cut[s] => OutComplete(q, s))
  BY <1>1 DEF RespInv, OutInv, q
<1> HIDE DEF t, m, n
<1>10. ASSUME NEW k \in 1 .. m + 2
       PROVE  /\ mapClientToSocket[t[k].clientId] = s
              /\ t[k].nSeq \in 1 .. mapClientToTxNSeq'[t[k].clientId] - 1
              /\ \A j \in 1 .. k - 1 : t[j].clientId = t[k].clientId =>
                     2 * t[j].nSeq + t[j].part < 2 * t[k].nSeq + t[k].part
  <2>1. CASE k \in 1 .. m
    <3>1. t[k] = q[k] /\ \A j \in 1 .. k - 1 : j \in 1 .. m /\ t[j] = q[j]
      BY <1>7, <2>1
    <3>2. /\ mapClientToSocket[q[k].clientId] = s
          /\ q[k].nSeq \in 1 .. mapClientToTxNSeq[q[k].clientId] - 1
          /\ \A j \in 1 .. k - 1 : q[j].clientId = q[k].clientId =>
                 2 * q[j].nSeq + q[j].part < 2 * q[k].nSeq + q[k].part
      BY <1>9, <2>1 DEF OutInOrder, m
    <3>3. mapClientToTxNSeq[q[k].clientId] \in Nat
          /\ mapClientToTxNSeq'[q[k].clientId] \in {mapClientToTxNSeq[q[k].clientId],
                                                  mapClientToTxNSeq[q[k].clientId] + 1}
      BY <1>3, <1>4, <1>8, <2>1 DEF n
    <3>4. q[k].nSeq \in 1 .. mapClientToTxNSeq'[q[k].clientId] - 1
      BY <3>2, <3>3
    <3> QED BY <3>1, <3>2, <3>4
  <2>2. CASE k \in {m + 1, m + 2}
    <3>1. /\ t[k].clientId = c /\ t[k].nSeq = n /\ t[k].part = k - m
      <4>1. CASE k = m + 1
        <5>1. t[k] = p /\ k - m = 1
          BY <1>7, <4>1
        <5> QED BY <1>2, <5>1
      <4>2. CASE k = m + 2
        <5>1. t[k] = r /\ k - m = 2
          BY <1>7, <4>2
        <5> QED BY <1>2, <5>1
      <4> QED BY <2>2, <4>1, <4>2
    <3>2. ASSUME NEW j \in 1 .. m, q[j].clientId = c
          PROVE  2 * q[j].nSeq + q[j].part < 2 * n + 1
      <4>1. q[j].nSeq \in 1 .. n - 1
        BY <1>9, <3>2 DEF OutInOrder, m, n
      <4>2. q[j].nSeq \in Nat /\ q[j].part \in {1, 2} /\ q[j].nSeq <= n - 1
        BY <1>1, <1>8, <4>1
      <4> QED BY <1>1, <4>2
    <3>3. \A j \in 1 .. k - 1 : t[j].clientId = c =>
             2 * t[j].nSeq + t[j].part < 2 * n + (k - m)
      <4> SUFFICES ASSUME NEW j \in 1 .. k - 1, t[j].clientId = c
                   PROVE  2 * t[j].nSeq + t[j].part < 2 * n + (k - m)
        OBVIOUS
      <4>1. CASE j \in 1 .. m
        <5>1. t[j] = q[j] /\ q[j].nSeq \in Nat /\ q[j].part \in Nat
          BY <1>7, <1>8, <4>1
        <5>2. 2 * q[j].nSeq + q[j].part < 2 * n + 1
          BY <3>2, <4>1, <5>1
        <5> QED BY <1>1, <1>7, <2>2, <5>1, <5>2
      <4>2. CASE j = m + 1
        <5>1. k = m + 2
          BY <1>7, <2>2, <4>2
        <5>2. t[j].nSeq = n /\ t[j].part = 1
          BY <1>2, <1>7, <4>2
        <5> QED BY <1>1, <1>7, <5>1, <5>2
      <4> QED BY <1>7, <2>2, <4>1, <4>2
    <3>4. n \in 1 .. mapClientToTxNSeq'[c] - 1
      BY <1>1, <1>4
    <3> QED BY <1>1, <3>1, <3>3, <3>4
  <2> QED BY <1>7, <2>1, <2>2
<1>11. ASSUME ~cut[s], NEW k \in 1 .. m + 2, t[k].part = 2
       PROVE  k > 1 /\ t[k - 1] = [t[k] EXCEPT !.part = 1]
  <2>1. CASE k \in 1 .. m
    <3>1. k > 1 /\ q[k - 1] = [q[k] EXCEPT !.part = 1]
      BY <1>7, <1>9, <1>11, <2>1 DEF OutComplete, m
    <3>2. t[k] = q[k] /\ t[k - 1] = q[k - 1]
      BY <1>7, <2>1, <3>1
    <3> QED BY <3>1, <3>2
  <2>2. CASE k = m + 1
    <3>1. t[k] = p
      BY <1>7, <2>2
    <3>2. t[k].part = 1
      BY <1>2, <3>1
    <3> QED BY <1>11, <3>2
  <2>3. CASE k = m + 2
    <3>1. k > 1 /\ k - 1 = m + 1
      BY <1>7, <2>3
    <3> QED BY <1>2, <1>7, <2>3, <3>1
  <2> QED BY <1>7, <2>1, <2>2, <2>3
<1>12. ASSUME ~cut[s], NEW d \in Clients, mapClientToSocket[d] = s,
              NEW j \in 1 .. mapClientToTxNSeq'[d] - 1
       PROVE  \E k \in 1 .. m + 2 : t[k].clientId = d /\ t[k].nSeq = j
  <2>1. CASE d = c /\ j = n
    <3>1. m + 1 \in 1 .. m + 2
      BY <1>7
    <3> QED BY <1>2, <1>7, <2>1, <3>1
  <2>2. CASE ~(d = c /\ j = n)
    <3>1. j \in 1 .. mapClientToTxNSeq[d] - 1
      <4>1. d = c => mapClientToTxNSeq'[d] = n + 1 /\ n = mapClientToTxNSeq[d]
        BY <1>4 DEF n
      <4> QED BY <1>1, <1>4, <2>2, <4>1
    <3>2. PICK k \in 1 .. m : q[k].clientId = d /\ q[k].nSeq = j
      BY <1>9, <1>12, <3>1 DEF OutComplete, m
    <3> QED BY <1>7, <3>2
  <2> QED BY <2>1, <2>2
<1>13. OutInOrder(Out(s), s)' /\ (~cut'[s] => OutComplete(Out(s), s)')
  <2>1. OutInOrder(Out(s), s)'
    BY <1>5, <1>7, <1>10 DEF OutInOrder
  <2>2. ~cut'[s] => OutComplete(Out(s), s)'
    BY <1>5, <1>7, <1>11, <1>12 DEF OutComplete
  <2> QED BY <2>1, <2>2
<1>14. ASSUME NEW x \in Sockets \ {s}
       PROVE  OutInOrder(Out(x), x)' /\ (~cut'[x] => OutComplete(Out(x), x)')
  <2> DEFINE u == Out(x)
  <2>1. u' = u
    BY <1>4 DEF Out
  <2>2. OutInOrder(u, x) /\ (~cut[x] => OutComplete(u, x))
    BY DEF RespInv, OutInv
  <2>3. \A k \in 1 .. Len(u) : u[k].clientId \in Clients
    BY OutType
  <2> HIDE DEF u
  <2>4. \A k \in 1 .. Len(u) : u[k].clientId # c
    BY <1>1, <2>2 DEF OutInOrder
  <2>5. OutInOrder(u, x)'
    BY <1>4, <2>1, <2>2, <2>3, <2>4 DEF OutInOrder
  <2>6. ~cut'[x] => OutComplete(u, x)'
    BY <1>1, <1>4, <2>1, <2>2 DEF OutComplete
  <2> QED BY <2>5, <2>6 DEF u
<1>15. TxInv'
  BY <1>1, <1>4, SocketsAssumption DEF RespInv, TxInv
<1> QED BY <1>1, <1>13, <1>14, <1>15 DEF RespInv, OutInv

\* Every step.
LEMMA NextResponses == ASSUME TypeInv, RespInv, [Next]_vars PROVE RespInv'
<1>1. CASE \/ UNCHANGED vars \/ Network \/ Owner \/ engineTakes \/ engineAnswers \/ exit \/ poll
           \/ recvmsg \/ failRequest \/ rxDone \/ publish \/ respondDone
  BY <1>1, SameResponses DEF vars, Network, connect, arrive, Owner, start, stop, join, destroy,
     engineTakes, engineAnswers, exit, poll, recvmsg, failRequest, rxDone, publish, respondDone,
     clientVars, bufVars, mapVars
<1>2. CASE respond
  <2>1. UNCHANGED <<delivered, cut, mapClientToSocket>>
    BY <1>2, respondData DEF clientVars
  <2>2. CASE Responds(Head(responses), mapClientToSocket[Head(responses)])
    BY <2>1, <2>2, RespondsKeeps
  <2>3. CASE UNCHANGED <<outboundData, mapClientToTxNSeq>>
    BY <2>1, <2>3, SameResponses
  <2> QED BY <1>2, <2>2, <2>3, respondData
<1> QED BY <1>1, <1>2, requestResponses, flushResponses DEF Next, run

\* The numbering of the responses, with what it needs to be inductive.
THEOREM ResponseInvariance == Spec => []RespInv
<1>1. Init => RespInv
  BY DEF Init, RespInv, TxInv, OutInv, Out, OutInOrder, OutComplete
<1>2. TypeInv /\ RespInv /\ [Next]_vars => RespInv'
  BY NextResponses
<1> QED BY <1>1, <1>2, TypeInvariance, PTL DEF Spec

\* The loop of run numbers each client's responses by themselves, and what
\* the client reads is 1, 2, 3 ... with the body behind its number, until the
\* kernel takes less than it was given; no other client's response comes over
\* its socket unless they share it.
THEOREM ResponsesInOrder == Spec => []RespondsInOrder
<1>1. TypeInv /\ RespInv => RespondsInOrder
  <2> SUFFICES ASSUME TypeInv, RespInv, NEW s \in Sockets
               PROVE  LET stream == Out(s)
                      IN  /\ \A k \in DOMAIN stream :
                                LET p == stream[k]
                                    before == {j \in 1 .. k - 1 : stream[j].clientId = p.clientId}
                                IN  /\ mapClientToSocket[p.clientId] = s
                                    /\ \A j \in before : 2 * stream[j].nSeq + stream[j].part
                                                            < 2 * p.nSeq + p.part
                                    /\ ~cut[s] /\ p.part = 2 =>
                                          k > 1 /\ stream[k - 1] = [p EXCEPT !.part = 1]
                          /\ ~cut[s] => \A c \in Clients : mapClientToSocket[c] = s =>
                                {p.nSeq : p \in {q \in ToSet(stream) : q.clientId = c}}
                                    = 1 .. mapClientToTxNSeq[c] - 1
    BY DEF RespondsInOrder, Out
  <2> DEFINE q == Out(s)
  <2>1. DOMAIN q = 1 .. Len(q)
    BY OutType
  <2>2. OutInOrder(q, s) /\ (~cut[s] => OutComplete(q, s))
    BY DEF RespInv, OutInv
  <2> HIDE DEF q
  <2>3. ASSUME ~cut[s], NEW c \in Clients, mapClientToSocket[c] = s
        PROVE  {p.nSeq : p \in {x \in ToSet(q) : x.clientId = c}} = 1 .. mapClientToTxNSeq[c] - 1
    <3>1. \A p \in ToSet(q) : p.clientId = c => p.nSeq \in 1 .. mapClientToTxNSeq[c] - 1
      BY <2>1, <2>2 DEF ToSet, OutInOrder
    <3>2. \A n \in 1 .. mapClientToTxNSeq[c] - 1 :
             \E p \in ToSet(q) : p.clientId = c /\ p.nSeq = n
      BY <2>1, <2>2, <2>3 DEF ToSet, OutComplete
    <3> QED BY <3>1, <3>2
  <2> QED BY <2>1, <2>2, <2>3 DEF q, OutInOrder, OutComplete
<1> QED BY <1>1, TypeInvariance, ResponseInvariance, PTL

-----------------------------------------------------------------------------
(* The order of the requests *)

\* rxCallback leaves less than a request in a buffer.
Residue ==
    \A s \in Sockets : (pc = "rx" /\ s = Socket) \/ Len(inboundData[s]) < RequestPieces

\* The kernel's times grow along a connection.
KernelTimes ==
    \A s \in Sockets :
        /\ \A k \in 1 .. Len(kernel[s]) : kernel[s][k].at <= clock
        /\ \A j, k \in 1 .. Len(kernel[s]) : j < k => kernel[s][j].at <= kernel[s][k].at

\* What is pending was received before what the kernel still holds.
PendingTimes ==
    /\ \A k \in 1 .. Len(pendingRequests) :
          LET r == pendingRequests[k]
          IN  /\ r.tRx <= clock
              /\ \A m \in 1 .. Len(kernel[r.socket]) : r.tRx <= kernel[r.socket][m].at
    /\ \A j, k \in 1 .. Len(pendingRequests) :
          j < k /\ pendingRequests[j].clientId = pendingRequests[k].clientId =>
              pendingRequests[j].tRx <= pendingRequests[k].tRx

\* So was what rxCallback is going through, and after all that is pending from
\* its socket if there is a request in it.
ReceiveTime ==
    /\ tRx <= clock
    /\ pc = "rx" =>
          /\ \A m \in 1 .. Len(kernel[Socket]) : tRx <= kernel[Socket][m].at
          /\ i + RequestPieces <= Len(inboundData[Socket]) =>
                \A k \in 1 .. Len(pendingRequests) :
                    pendingRequests[k].socket = Socket => pendingRequests[k].tRx <= tRx

TimeInv == Residue /\ KernelTimes /\ PendingTimes /\ ReceiveTime

\* The times are numbers.
LEMMA TimesTyped ==
    ASSUME TypeInv
    PROVE  /\ clock \in Nat /\ tRx \in Nat
           /\ \A k \in 1 .. Len(pendingRequests) :
                 /\ pendingRequests[k].tRx \in Nat /\ pendingRequests[k].socket \in Sockets
                 /\ pendingRequests[k].clientId \in Clients
                 /\ pendingRequests[k].nSeq \in Nat
           /\ \A s \in Sockets :
                 kernel[s] \in Seq(Request) /\
                 \A k \in 1 .. Len(kernel[s]) : kernel[s][k].at \in Nat
<1>1. clock \in Nat /\ tRx \in Nat
  BY NumbersAssumption DEF TypeInv, TypeOK, NetType, ThreadType
<1>2. \A r \in Pending : /\ r.tRx \in Nat /\ r.socket \in Sockets
                         /\ r.clientId \in Clients /\ r.nSeq \in Nat
  <2>1. \A r \in Pending : /\ r.tRx \in 0 .. MaxTime /\ r.socket \in Sockets
                           /\ r.clientId \in Clients /\ r.nSeq \in SeqNos
    BY DEF Pending
  <2>2. \A n \in 0 .. MaxTime : n \in Nat
    BY NumbersAssumption
  <2> QED BY <2>1, <2>2, NumbersAssumption
<1>3. \A r \in Request : r.at \in Nat
  BY NumbersAssumption DEF Request
<1>4. \A s \in Sockets : kernel[s] \in Seq(Request)
  BY DEF TypeInv, TypeOK, NetType
<1>5. \A s \in Sockets : \A k \in 1 .. Len(kernel[s]) : kernel[s][k] \in Request
  BY <1>4
<1> QED BY <1>1, <1>2, <1>3, <1>4, <1>5, RequestsTyped

\* A step that touches neither data nor requests.
LEMMA SameTimes ==
    ASSUME TimeInv, UNCHANGED <<kernel, clock, inboundData, pendingRequests, tRx>>,
           UNCHANGED <<i, pc, pass, turn, sockVars>> \/ (pc # "rx" /\ pc' # "rx")
    PROVE  TimeInv'
<1>1. KernelTimes' /\ PendingTimes'
  BY DEF TimeInv, KernelTimes, PendingTimes
<1>2. Residue' /\ ReceiveTime'
  <2>1. CASE UNCHANGED <<i, pc, pass, turn, sockVars>>
    <3>1. Socket' = Socket
      BY <2>1 DEF Socket, PassSockets, sockVars
    <3> QED BY <2>1, <3>1 DEF TimeInv, Residue, ReceiveTime
  <2>2. CASE pc # "rx" /\ pc' # "rx"
    BY <2>2 DEF TimeInv, Residue, ReceiveTime
  <2> QED BY <2>1, <2>2
<1> QED BY <1>1, <1>2 DEF TimeInv

\* A piece arrives now, after everything else, unless the clock was set back.
LEMMA arriveTimes ==
    ASSUME TypeInv, TimeInv, timely', NEW s \in Sockets, arrive(s) PROVE TimeInv'
<1>1. PICK piece \in Request : /\ piece.at = clock'
                               /\ kernel' = [kernel EXCEPT ![s] = Append(@, piece)]
  BY arrivePiece
<1>2. /\ UNCHANGED <<inboundData, pendingRequests, tRx, i, pc, pass, turn, sockVars>>
      /\ clock' \in Nat /\ clock <= clock'
  <2>1. UNCHANGED <<inboundData, pendingRequests, tRx, i, pc, pass, turn, sockVars>>
        /\ clock' \in 0 .. MaxTime
    BY DEF arrive, bufVars, loopVars
  <2>2. clock <= clock'
    BY Zenon DEF arrive
  <2> QED BY <2>1, <2>2
<1>3. Socket' = Socket
  BY <1>2 DEF Socket, PassSockets, sockVars
<1>4. kernel[s] \in Seq(Request) /\ kernel \in [Sockets -> Seq(Request)]
  BY DEF TypeInv, TypeOK, NetType
<1>5. /\ Len(kernel'[s]) = Len(kernel[s]) + 1 /\ Len(kernel[s]) \in Nat
      /\ \A k \in 1 .. Len(kernel[s]) : kernel'[s][k] = kernel[s][k]
      /\ kernel'[s][Len(kernel[s]) + 1].at = clock'
      /\ \A x \in Sockets \ {s} : kernel'[x] = kernel[x]
  BY <1>1, <1>4
<1>6. ASSUME NEW x \in Sockets, NEW k \in 1 .. Len(kernel'[x])
      PROVE  \/ k \in 1 .. Len(kernel[x]) /\ kernel'[x][k] = kernel[x][k]
             \/ kernel'[x][k].at = clock' /\ \A j \in 1 .. Len(kernel'[x]) : j <= k
  BY <1>5
<1>7. KernelTimes'
  <2>1. ASSUME NEW x \in Sockets, NEW k \in 1 .. Len(kernel'[x]) PROVE kernel'[x][k].at <= clock'
    <3>1. CASE k \in 1 .. Len(kernel[x]) /\ kernel'[x][k] = kernel[x][k]
      BY <1>2, <3>1, TimesTyped DEF TimeInv, KernelTimes
    <3> QED BY <1>2, <1>6, <3>1
  <2>2. ASSUME NEW x \in Sockets, NEW j \in 1 .. Len(kernel'[x]), NEW k \in 1 .. Len(kernel'[x]),
               j < k
        PROVE  kernel'[x][j].at <= kernel'[x][k].at
    <3>1. CASE k \in 1 .. Len(kernel[x]) /\ kernel'[x][k] = kernel[x][k]
      <4>1. j \in 1 .. Len(kernel[x])
        BY <2>2, <3>1, TimesTyped
      <4>2. kernel'[x][j] = kernel[x][j]
        BY <1>5, <4>1
      <4> QED BY <2>2, <3>1, <4>1, <4>2 DEF TimeInv, KernelTimes
    <3>2. CASE kernel'[x][k].at = clock'
      BY <2>1, <3>2
    <3> QED BY <1>6, <3>1, <3>2
  <2> QED BY <2>1, <2>2 DEF KernelTimes
<1>8. PendingTimes'
  <2>1. ASSUME NEW k \in 1 .. Len(pendingRequests)
        PROVE  LET r == pendingRequests[k]
               IN  /\ r.tRx <= clock'
                   /\ \A m \in 1 .. Len(kernel'[r.socket]) : r.tRx <= kernel'[r.socket][m].at
    <3> DEFINE r == pendingRequests[k]
    <3>1. /\ r.tRx \in Nat /\ r.socket \in Sockets /\ r.tRx <= clock
          /\ \A m \in 1 .. Len(kernel[r.socket]) : r.tRx <= kernel[r.socket][m].at
      BY TimesTyped DEF TimeInv, PendingTimes
    <3>2. r.tRx <= clock'
      BY <1>2, <3>1, TimesTyped
    <3> HIDE DEF r
    <3>3. ASSUME NEW m \in 1 .. Len(kernel'[r.socket]) PROVE r.tRx <= kernel'[r.socket][m].at
      <4>1. \/ m \in 1 .. Len(kernel[r.socket]) /\ kernel'[r.socket][m] = kernel[r.socket][m]
            \/ kernel'[r.socket][m].at = clock'
        BY <1>6, <3>1
      <4> QED BY <3>1, <3>2, <4>1
    <3> QED BY <3>1, <3>2, <3>3 DEF r
  <2> QED BY <1>2, <2>1 DEF TimeInv, PendingTimes
<1>9. ReceiveTime'
  <2>1. tRx <= clock'
    BY <1>2, TimesTyped DEF TimeInv, ReceiveTime
  <2>2. ASSUME pc = "rx", NEW m \in 1 .. Len(kernel'[Socket]) PROVE tRx <= kernel'[Socket][m].at
    <3>1. Socket \in Sockets
      BY <2>2, ServedSocket
    <3>2. \/ m \in 1 .. Len(kernel[Socket]) /\ kernel'[Socket][m] = kernel[Socket][m]
          \/ kernel'[Socket][m].at = clock'
      BY <1>6, <3>1
    <3> QED BY <2>1, <2>2, <3>2 DEF TimeInv, ReceiveTime
  <2> QED BY <1>2, <1>3, <2>1, <2>2 DEF TimeInv, ReceiveTime
<1>10. Residue'
  BY <1>2, <1>3 DEF TimeInv, Residue
<1> QED BY <1>7, <1>8, <1>9, <1>10 DEF TimeInv

\* What a sequence is after its first m elements.
LEMMA Suffix ==
    ASSUME NEW q \in Seq(Request), NEW m \in 0 .. Len(q)
    PROVE  LET t == SubSeq(q, m + 1, Len(q))
           IN  Len(t) = Len(q) - m /\ \A k \in 1 .. Len(q) - m : t[k] = q[m + k]
<1>1. \A k \in m + 1 .. Len(q) : q[k] \in Request
  OBVIOUS
<1> QED BY <1>1, SubSeqProperties

\* What is read came after all that is pending from the same socket, and before
\* what stays in the kernel.
LEMMA recvmsgTimes == ASSUME TypeInv, TimeInv, timely', recvmsg PROVE TimeInv'
<1>0. PICK s \in Sockets : s = Socket
  BY recvmsgData
<1>1. PICK n \in 0 .. Len(kernel[s]) :
         /\ inboundData' = [inboundData EXCEPT ![s] = @ \o SubSeq(kernel[s], 1, n)]
         /\ kernel' = [kernel EXCEPT ![s] = SubSeq(@, n + 1, Len(@))]
         /\ tRx' = IF n > 0 THEN kernel[s][n].at ELSE 0
  <2>1. PICK n \in 0 .. Len(kernel[s]) :
           /\ inboundData' = [inboundData EXCEPT ![s] = @ \o SubSeq(kernel[s], 1, n)]
           /\ kernel' = [kernel EXCEPT ![s] = SubSeq(@, n + 1, Len(@))]
           /\ \/ n = 0 /\ tRx' = 0 /\ timely' = timely
              \/ n > 0 /\ tRx' = kernel[s][n].at /\ timely' = timely
              \/ n > 0 /\ tRx' \in 0 .. MaxTime /\ timely' = FALSE
    BY <1>0, recvmsgData
  <2>2. \/ n = 0 /\ tRx' = 0
        \/ n > 0 /\ tRx' = kernel[s][n].at
    BY <2>1, Zenon
  <2>3. tRx' = IF n > 0 THEN kernel[s][n].at ELSE 0
    BY <2>2
  <2> QED BY <2>1, <2>3
<1>2. /\ UNCHANGED <<clock, sockVars, pendingRequests, pass, turn>>
      /\ i' = 0 /\ pc' = "rx" /\ pc = "socket"
  BY recvmsgData DEF recvmsg, afterRead
<1>3. Socket' = s
  BY <1>0, <1>2 DEF Socket, PassSockets, sockVars
<1> DEFINE q == kernel[s]
<1>4. /\ q \in Seq(Request) /\ Len(q) \in Nat /\ n \in Nat /\ n <= Len(q)
      /\ \A k \in 1 .. Len(q) : q[k].at \in Nat
  BY TimesTyped
<1>5. /\ kernel'[s] = SubSeq(q, n + 1, Len(q))
      /\ inboundData'[s] = inboundData[s] \o SubSeq(q, 1, n)
      /\ \A x \in Sockets \ {s} : kernel'[x] = kernel[x] /\ inboundData'[x] = inboundData[x]
  BY <1>1 DEF TypeInv, TypeOK, NetType, SocketType
<1>6. /\ Len(kernel'[s]) = Len(q) - n
      /\ \A k \in 1 .. Len(q) - n : kernel'[s][k] = q[n + k]
  BY <1>4, <1>5, Suffix
<1>7. ASSUME NEW x \in Sockets, NEW k \in 1 .. Len(kernel'[x])
      PROVE  \/ x = s /\ n + k \in 1 .. Len(kernel[x]) /\ kernel'[x][k] = kernel[x][n + k]
             \/ x # s /\ k \in 1 .. Len(kernel[x]) /\ kernel'[x][k] = kernel[x][k]
  <2>1. CASE x # s
    BY <1>5, <2>1
  <2>2. CASE x = s
    <3>1. k \in 1 .. Len(q) - n
      BY <1>6, <2>2
    <3>2. n + k \in 1 .. Len(q)
      BY <1>4, <3>1
    <3> QED BY <1>6, <2>2, <3>1, <3>2
  <2> QED BY <2>1, <2>2
<1> HIDE DEF q
<1>8. KernelTimes'
  <2>1. ASSUME NEW x \in Sockets, NEW k \in 1 .. Len(kernel'[x]) PROVE kernel'[x][k].at <= clock'
    BY <1>2, <1>7 DEF TimeInv, KernelTimes
  <2>2. ASSUME NEW x \in Sockets, NEW j \in 1 .. Len(kernel'[x]), NEW k \in 1 .. Len(kernel'[x]),
               j < k
        PROVE  kernel'[x][j].at <= kernel'[x][k].at
    <3>1. CASE x # s
      BY <1>7, <2>2, <3>1 DEF TimeInv, KernelTimes
    <3>2. CASE x = s
      <4>1. /\ n + j \in 1 .. Len(q) /\ n + k \in 1 .. Len(q) /\ n + j < n + k
            /\ kernel'[x][j] = q[n + j] /\ kernel'[x][k] = q[n + k]
        BY <1>4, <1>7, <2>2, <3>2, <1>6 DEF q
      <4> QED BY <4>1 DEF TimeInv, KernelTimes, q
    <3> QED BY <3>1, <3>2
  <2> QED BY <2>1, <2>2 DEF KernelTimes
<1>9. PendingTimes'
  <2>1. ASSUME NEW k \in 1 .. Len(pendingRequests),
               NEW m \in 1 .. Len(kernel'[pendingRequests[k].socket])
        PROVE  pendingRequests[k].tRx <= kernel'[pendingRequests[k].socket][m].at
    <3>1. pendingRequests[k].socket \in Sockets
      BY TimesTyped
    <3> QED BY <1>7, <3>1 DEF TimeInv, PendingTimes
  <2> QED BY <1>2, <2>1 DEF TimeInv, PendingTimes
<1>10. ReceiveTime'
  <2>1. tRx' <= clock'
    <3>1. n > 0 => kernel[s][n].at <= clock
      BY <1>4 DEF TimeInv, KernelTimes, q
    <3> QED BY <1>1, <1>2, <3>1, TimesTyped
  <2>2. ASSUME NEW m \in 1 .. Len(kernel'[s]) PROVE tRx' <= kernel'[s][m].at
    <3>1. n + m \in 1 .. Len(q) /\ kernel'[s][m] = q[n + m] /\ q[n + m].at \in Nat
      BY <1>4, <1>7 DEF q
    <3>2. n > 0 => q[n].at <= q[n + m].at
      <4>1. n > 0 => n \in 1 .. Len(q) /\ n < n + m
        BY <1>4, <1>6
      <4> QED BY <3>1, <4>1 DEF TimeInv, KernelTimes, q
    <3>3. tRx' = IF n > 0 THEN q[n].at ELSE 0
      BY <1>1 DEF q
    <3> QED BY <3>1, <3>2, <3>3
  <2>3. ASSUME RequestPieces <= Len(inboundData'[s]), NEW k \in 1 .. Len(pendingRequests),
               pendingRequests[k].socket = s
        PROVE  pendingRequests[k].tRx <= tRx'
    <3>1. n > 0
      <4> SUFFICES ASSUME n = 0 PROVE FALSE
        BY <1>4
      <4>1. SubSeq(q, 1, n) = <<>>
        BY SubSeqEmpty
      <4>2. inboundData[s] \in Seq(Request)
        BY DEF TypeInv, TypeOK, SocketType
      <4>3. inboundData'[s] = inboundData[s]
        BY <1>5, <4>1, <4>2, ConcatEmptySeq
      <4>4. Len(inboundData[s]) < RequestPieces /\ Len(inboundData[s]) \in Nat
        BY <1>2, <4>2 DEF TimeInv, Residue
      <4> QED BY <2>3, <4>3, <4>4, NumbersAssumption
    <3>2. pendingRequests[k].tRx <= kernel[s][n].at
      BY <1>4, <2>3, <3>1 DEF TimeInv, PendingTimes, q
    <3> QED BY <1>1, <3>1, <3>2
  <2>4. i' + RequestPieces = RequestPieces
    BY <1>2, NumbersAssumption
  <2> QED BY <1>2, <1>3, <2>1, <2>2, <2>3, <2>4 DEF ReceiveTime
<1>11. Residue'
  BY <1>2, <1>3, <1>5 DEF TimeInv, Residue
<1> QED BY <1>8, <1>9, <1>10, <1>11 DEF TimeInv

\* A request that passes joins the pending ones of its socket as the latest.
LEMMA acceptRequestTimes ==
    ASSUME TypeInv, TimeInv, SocketInv', acceptRequest
    PROVE  TimeInv'
<1>1. HasRequest /\ NextRequest
  BY DEF acceptRequest
<1>2. PICK r \in Pending :
         /\ pendingRequests' = Append(pendingRequests, r)
         /\ r.tRx = tRx /\ r.socket = Socket /\ r.socket = mapClientToSocket'[r.clientId]
  BY acceptRequestPending
<1>3. /\ UNCHANGED <<kernel, clock, inboundData, sockVars, pc, pass, turn, tRx>>
      /\ i' = i + RequestPieces /\ i \in Nat
      /\ pc = "rx" /\ i + RequestPieces <= Len(inboundData[Socket])
      /\ Socket \in Sockets
  BY <1>1, RequestAt DEF NextRequest, netVars, bufVars
<1>4. Socket' = Socket
  BY <1>3 DEF Socket, PassSockets, sockVars
<1> DEFINE P == pendingRequests
           n == Len(pendingRequests)
<1>5. /\ n \in Nat /\ Len(P') = n + 1 /\ P'[n + 1] = r
      /\ \A k \in 1 .. n : P'[k] = P[k]
  BY <1>2 DEF TypeInv, TypeOK, MapType
<1>6. \A k \in 1 .. n : P[k].socket = Socket => P[k].tRx <= tRx
  BY <1>3 DEF TimeInv, ReceiveTime
<1>7. \A k \in 1 .. n : P[k].clientId = r.clientId => P[k].socket = Socket
  <2>1. \A k \in 1 .. Len(P') : P'[k].socket = mapClientToSocket'[P'[k].clientId]
    BY DEF SocketInv, RequestsBySocket
  <2>2. \A k \in 1 .. n : k \in 1 .. Len(P')
    BY <1>5
  <2> QED BY <1>2, <1>5, <2>1, <2>2
<1>8. tRx \in Nat
  BY TimesTyped
<1>9. PendingTimes'
  <2>1. ASSUME NEW k \in 1 .. Len(P')
        PROVE  /\ P'[k].tRx <= clock
               /\ \A m \in 1 .. Len(kernel[P'[k].socket]) : P'[k].tRx <= kernel[P'[k].socket][m].at
    <3>1. CASE k \in 1 .. n
      <4>1. P'[k] = P[k]
        BY <1>5, <3>1
      <4> QED BY <3>1, <4>1 DEF TimeInv, PendingTimes
    <3>2. CASE k = n + 1
      <4>1. P'[k] = r
        BY <1>5, <3>2
      <4> QED BY <1>2, <1>3, <4>1 DEF TimeInv, ReceiveTime
    <3> QED BY <1>5, <3>1, <3>2
  <2>2. ASSUME NEW j \in 1 .. Len(P'), NEW k \in 1 .. Len(P'), j < k,
               P'[j].clientId = P'[k].clientId
        PROVE  P'[j].tRx <= P'[k].tRx
    <3>1. j \in 1 .. n /\ P'[j] = P[j]
      BY <1>5, <2>2
    <3>2. CASE k \in 1 .. n
      <4>1. P'[k] = P[k]
        BY <1>5, <3>2
      <4> QED BY <2>2, <3>1, <3>2, <4>1 DEF TimeInv, PendingTimes
    <3>3. CASE k = n + 1
      <4>1. P'[k] = r
        BY <1>5, <3>3
      <4> QED BY <1>2, <1>6, <1>7, <2>2, <3>1, <4>1
    <3> QED BY <1>5, <3>2, <3>3
  <2> QED BY <1>3, <2>1, <2>2 DEF PendingTimes
<1>10. ReceiveTime'
  <2>1. ASSUME NEW k \in 1 .. Len(P'), P'[k].socket = Socket PROVE P'[k].tRx <= tRx
    <3>1. CASE k \in 1 .. n
      BY <1>5, <1>6, <2>1, <3>1
    <3>2. CASE k = n + 1
      <4>1. P'[k].tRx = tRx
        BY <1>2, <1>5, <3>2
      <4> QED BY <1>8, <4>1
    <3> QED BY <1>5, <3>1, <3>2
  <2> QED BY <1>3, <1>4, <2>1 DEF TimeInv, ReceiveTime
<1>11. KernelTimes' /\ Residue'
  BY <1>3, <1>4 DEF TimeInv, KernelTimes, Residue
<1> QED BY <1>9, <1>10, <1>11 DEF TimeInv

LEMMA dropRequestTimes == ASSUME TypeInv, TimeInv, dropRequest PROVE TimeInv'
<1>1. HasRequest /\ NextRequest /\ pendingRequests' = pendingRequests
  BY DEF dropRequest
<1>2. /\ UNCHANGED <<kernel, clock, inboundData, sockVars, pc, pass, turn, tRx>>
      /\ pc = "rx" /\ i + RequestPieces <= Len(inboundData[Socket])
  BY <1>1, RequestAt DEF NextRequest, netVars, bufVars
<1>3. Socket' = Socket
  BY <1>2 DEF Socket, PassSockets, sockVars
<1>4. KernelTimes' /\ Residue' /\ PendingTimes'
  BY <1>1, <1>2, <1>3 DEF TimeInv, KernelTimes, Residue, PendingTimes
<1>5. ReceiveTime'
  BY <1>1, <1>2, <1>3 DEF TimeInv, ReceiveTime
<1> QED BY <1>4, <1>5 DEF TimeInv

\* What rxCallback leaves in the buffer is less than a request.
LEMMA flushTimes == ASSUME TypeInv, FrameInv, TimeInv, flush PROVE TimeInv'
<1>0. PICK s \in Sockets : s = Socket
  BY flushData
<1>1. pc = "rx" /\ inboundData' = [inboundData EXCEPT ![s] = SubSeq(@, i + 1, Len(@))]
  BY <1>0, flushData
<1>2. UNCHANGED <<kernel, clock, pendingRequests>> /\ tRx' = 0 /\ pc' = "socket"
  BY DEF flush, netVars
<1>3. inboundData[s] \in Seq(Request) /\ i \in 0 .. Len(inboundData[s])
      /\ ~(i + RequestPieces <= Len(inboundData[s]))
  BY <1>0, <1>1 DEF flush, FrameInv, TypeInv, TypeOK, SocketType, ThreadType
<1>4. /\ inboundData'[s] = SubSeq(inboundData[s], i + 1, Len(inboundData[s]))
      /\ \A x \in Sockets \ {s} : inboundData'[x] = inboundData[x]
  BY <1>1 DEF TypeInv, TypeOK, SocketType
<1>5. Len(inboundData'[s]) = Len(inboundData[s]) - i /\ Len(inboundData[s]) \in Nat
  BY <1>3, <1>4
<1>6. Len(inboundData'[s]) < RequestPieces
  BY <1>3, <1>5, NumbersAssumption
<1>7. Residue'
  BY <1>0, <1>4, <1>6 DEF TimeInv, Residue
<1>8. KernelTimes' /\ PendingTimes'
  BY <1>2 DEF TimeInv, KernelTimes, PendingTimes
<1>9. ReceiveTime'
  BY <1>2, TimesTyped DEF ReceiveTime
<1> QED BY <1>7, <1>8, <1>9 DEF TimeInv

\* What the sort does: every request is in one place of the result, by receive
\* time.
LEMMA sortedOrder ==
    ASSUME pendingRequests \in Seq(Pending), NEW p \in SortedOrders
    PROVE  LET n == Len(pendingRequests)
               T(k) == pendingRequests[k].tRx
           IN  /\ \A j, k \in 1 .. n : j < k =>
                     p[j] # p[k] /\ T(p[j]) <= T(p[k])
               /\ \A m \in 1 .. n : \E k \in 1 .. n : p[k] = m
<1> DEFINE n == Len(pendingRequests)
<1>1. /\ p \in [1 .. n -> 1 .. n] /\ n \in Nat
      /\ \A j, k \in 1 .. n : j < k =>
            p[j] # p[k] /\ pendingRequests[p[j]].tRx <= pendingRequests[p[k]].tRx
  BY DEF SortedOrders
<1> HIDE DEF n
<1>2. ASSUME NEW m \in 1 .. n, \A k \in 1 .. n : p[k] # m PROVE FALSE
  <2> DEFINE S == 1 .. n
             D == S \ {m}
  <2>1. p \in [S -> D]
    BY <1>1, <1>2
  <2>2. IsFiniteSet(S) /\ Cardinality(S) = n
    BY <1>1, FS_Interval
  <2>3. IsFiniteSet(D) /\ Cardinality(D) = n - 1
    BY <2>2, FS_RemoveElement
  <2>4. Cardinality(D) < Cardinality(S)
    BY <1>1, <2>2, <2>3
  <2> HIDE DEF S, D
  <2>5. \E j, k \in S : j # k /\ p[j] = p[k]
    BY <2>1, <2>2, <2>3, <2>4, FS_PigeonHole
  <2>6. PICK j \in 1 .. n, k \in 1 .. n : j # k /\ p[j] = p[k]
    BY <2>5 DEF S
  <2>7. j < k \/ k < j
    BY <1>1, <2>6
  <2> QED BY <1>1, <2>6, <2>7
<1> QED BY <1>1, <1>2 DEF n

\* The sort.
LEMMA rxDoneTimes == ASSUME TypeInv, TimeInv, rxDone PROVE TimeInv'
<1>1. UNCHANGED <<kernel, clock, inboundData, tRx>> /\ pc = "socket" /\ pc' # "rx"
  BY DEF rxDone, At, BeginPass, netVars, bufVars
<1>2. CASE recv /\ pendingRequests # <<>>
  <2> DEFINE P == pendingRequests
             n == Len(pendingRequests)
  <2>1. PICK p \in SortedOrders : pendingRequests' = sorted(p)
    BY <1>2 DEF rxDone
  <2>2. pendingRequests \in Seq(Pending)
    BY DEF TypeInv, TypeOK, MapType
  <2>3. /\ p \in [1 .. n -> 1 .. n] /\ Len(P') = n
        /\ \A k \in 1 .. n : P'[k] = P[p[k]]
    BY <2>1, <2>2, sortedType
  <2>4. \A j, k \in 1 .. n : j < k => P[p[j]].tRx <= P[p[k]].tRx
    BY <2>2, sortedOrder
  <2>5. PendingTimes'
    <3>1. ASSUME NEW k \in 1 .. Len(P')
          PROVE  /\ P'[k].tRx <= clock
                 /\ \A m \in 1 .. Len(kernel[P'[k].socket]) :
                       P'[k].tRx <= kernel[P'[k].socket][m].at
      <4>1. P'[k] = P[p[k]] /\ p[k] \in 1 .. Len(P)
        BY <2>3
      <4> QED BY <4>1 DEF TimeInv, PendingTimes
    <3>2. \A j, k \in 1 .. Len(P') : j < k => P'[j].tRx <= P'[k].tRx
      BY <2>3, <2>4
    <3> QED BY <1>1, <3>1, <3>2 DEF PendingTimes
  <2> QED BY <1>1, <2>5 DEF TimeInv, Residue, KernelTimes, ReceiveTime
<1>3. CASE ~(recv /\ pendingRequests # <<>>)
  <2>1. pendingRequests' = pendingRequests
    BY <1>3 DEF rxDone
  <2> QED BY <1>1, <2>1, SameTimes
<1> QED BY <1>2, <1>3

\* What publish does to the requests.
LEMMA publishData ==
    ASSUME TypeInv, publish
    PROVE  LET P == pendingRequests
               n == Len(P)
           IN  /\ n \in Nat \ {0} /\ P[1] \in Pending
               /\ pendingRequests' \in Seq(Pending) /\ Len(pendingRequests') = n - 1
               /\ \A k \in 1 .. n - 1 : k + 1 \in 1 .. n /\ pendingRequests'[k] = P[k + 1]
               /\ \/ forwarded' = Append(forwarded, P[1]) /\ lost' = lost
                  \/ lost' = lost \cup {P[1]} /\ forwarded' = forwarded
               /\ UNCHANGED <<kernel, clock, inboundData, tRx, mapClientToRxNSeq>>
               /\ pc # "rx" /\ pc' # "rx"
<1>1. UNCHANGED <<kernel, clock, inboundData, tRx, mapClientToRxNSeq>>
      /\ pc = "publish" /\ pc' # "rx"
  BY DEF publish, At, BeginPass, netVars, bufVars, mapVars
<1>2. pendingRequests \in Seq(Pending) /\ pendingRequests # <<>>
  BY <1>1 DEF TypeInv, TypeOK, MapType, LoopInv
<1>3. Len(pendingRequests) \in Nat \ {0} /\ Head(pendingRequests) = pendingRequests[1]
      /\ pendingRequests[1] \in Pending
  BY <1>2
<1>4. pendingRequests' = Tail(pendingRequests)
      /\ \/ forwarded' = Append(forwarded, pendingRequests[1]) /\ lost' = lost
         \/ lost' = lost \cup {pendingRequests[1]} /\ forwarded' = forwarded
  BY <1>3 DEF publish
<1>5. Tail(pendingRequests) \in Seq(Pending)
      /\ Len(Tail(pendingRequests)) = Len(pendingRequests) - 1
  BY <1>2, <1>3
<1>6. \A k \in 1 .. Len(pendingRequests) - 1 :
         k + 1 \in 1 .. Len(pendingRequests) /\ Tail(pendingRequests)[k] = pendingRequests[k + 1]
  BY <1>2, <1>3
<1> QED BY <1>1, <1>3, <1>4, <1>5, <1>6

LEMMA publishTimes == ASSUME TypeInv, TimeInv, publish PROVE TimeInv'
<1> DEFINE P == pendingRequests
           n == Len(pendingRequests)
<1>1. /\ n \in Nat \ {0} /\ Len(P') = n - 1
      /\ \A k \in 1 .. n - 1 : k + 1 \in 1 .. n /\ P'[k] = P[k + 1]
      /\ UNCHANGED <<kernel, clock, inboundData, tRx>> /\ pc # "rx" /\ pc' # "rx"
  BY publishData
<1>2. ASSUME NEW k \in 1 .. Len(P')
      PROVE  /\ P'[k].tRx <= clock
             /\ \A m \in 1 .. Len(kernel[P'[k].socket]) :
                   P'[k].tRx <= kernel[P'[k].socket][m].at
  <2>1. P'[k] = P[k + 1] /\ k + 1 \in 1 .. Len(P)
    BY <1>1
  <2> QED BY <2>1 DEF TimeInv, PendingTimes
<1>3. ASSUME NEW j \in 1 .. Len(P'), NEW k \in 1 .. Len(P'), j < k,
             P'[j].clientId = P'[k].clientId
      PROVE  P'[j].tRx <= P'[k].tRx
  <2>1. /\ P'[k] = P[k + 1] /\ k + 1 \in 1 .. Len(P)
        /\ P'[j] = P[j + 1] /\ j + 1 \in 1 .. Len(P) /\ j + 1 < k + 1
    BY <1>1, <1>3
  <2> QED BY <1>3, <2>1 DEF TimeInv, PendingTimes
<1>4. PendingTimes'
  BY <1>1, <1>2, <1>3 DEF PendingTimes
<1> QED BY <1>1, <1>4 DEF TimeInv, Residue, KernelTimes, ReceiveTime

\* Times that do not tell the order of receipt never do so again.
LEMMA TimelyBefore == ASSUME TypeInv, [Next]_vars PROVE timely' => timely
<1>1. CASE \E s \in Sockets : arrive(s)
  BY <1>1 DEF arrive
<1>2. CASE recvmsg
  BY <1>2, recvmsgData
<1>3. CASE rxDone
  <2>1. timely' = timely \/ \E p \in SortedOrders : timely' = (timely /\ Stable(p))
    BY <1>3 DEF rxDone
  <2> QED BY <2>1
<1>4. CASE \/ UNCHANGED vars \/ \E s \in Sockets : connect(s)
           \/ Owner \/ engineTakes \/ engineAnswers \/ exit \/ poll \/ acceptRequest
           \/ dropRequest \/ failRequest \/ flush \/ publish \/ respond \/ respondDone
  BY <1>4 DEF vars, connect, Owner, start, stop, join, destroy, engineTakes,
     engineAnswers, exit, poll, acceptRequest, dropRequest, NextRequest, failRequest, flush,
     publish, respond, respondDone
<1> QED BY <1>1, <1>2, <1>3, <1>4 DEF Next, Network, run

\* Every step.
LEMMA NextTimes ==
    ASSUME TypeInv, FrameInv, SocketInv', TimeInv, timely', [Next]_vars
    PROVE  TimeInv'
<1>1. CASE \/ UNCHANGED vars \/ \E s \in Sockets : connect(s)
           \/ stop \/ join \/ engineTakes \/ engineAnswers \/ failRequest \/ respond
  <2>1. UNCHANGED <<kernel, clock, inboundData, pendingRequests, tRx, i, pc, pass, turn, sockVars>>
    BY <1>1 DEF vars, connect, stop, join, engineTakes, engineAnswers, failRequest, respond,
       netVars, bufVars, loopVars
  <2> QED BY <2>1, SameTimes
<1>2. CASE start \/ destroy \/ exit \/ poll \/ respondDone
  <2>1. UNCHANGED <<kernel, clock, inboundData, pendingRequests, tRx>>
    BY <1>2 DEF start, destroy, exit, poll, respondDone, netVars, bufVars, loopVars
  <2>2. pc # "rx"
    BY <1>2 DEF start, destroy, exit, poll, respondDone, At, Responding, TypeInv, LoopInv
  <2>3. pc' # "rx"
    BY <1>2, <2>2 DEF start, destroy, exit, poll, respondDone, BeginPass, loopVars
  <2> QED BY <2>1, <2>2, <2>3, SameTimes
<1> QED BY <1>1, <1>2, arriveTimes, recvmsgTimes, acceptRequestTimes, dropRequestTimes, flushTimes,
           rxDoneTimes, publishTimes DEF Next, Network, Owner, run

\* The times, with what they need to be inductive.
THEOREM TimeInvariance == Spec => [](timely => TimeInv)
<1>1. Init => (timely => TimeInv)
  <2> SUFFICES ASSUME Init PROVE TimeInv
    OBVIOUS
  <2>1. /\ \A s \in Sockets : kernel[s] = <<>> /\ inboundData[s] = <<>>
        /\ pendingRequests = <<>> /\ tRx = 0 /\ clock = 0 /\ pc = "new"
    BY DEF Init
  <2>2. Residue
    BY <2>1, NumbersAssumption DEF Residue
  <2>3. KernelTimes /\ PendingTimes
    BY <2>1 DEF KernelTimes, PendingTimes
  <2> QED BY <2>1, <2>2, <2>3 DEF TimeInv, ReceiveTime
<1>2. TypeInv /\ FrameInv /\ SocketInv' /\ (timely => TimeInv) /\ [Next]_vars
         => (timely => TimeInv)'
  BY NextTimes, TimelyBefore
<1> QED BY <1>1, <1>2, TypeInvariance, FrameInvariance, SocketInvariance, PTL DEF Spec

\* Number m may go before number n: they differ, and are in order if the
\* receive times tell it, t.
Before(m, n, t) == m # n /\ (t => m < n)

\* Each client's requests in q differ in their numbers, and are in their order
\* if t.
InOrder(q, t) ==
    \A j, k \in 1 .. Len(q) :
        j < k /\ q[j].clientId = q[k].clientId => Before(q[j].nSeq, q[k].nSeq, t)

OrderInv ==
    /\ InOrder(forwarded, timely) /\ InOrder(pendingRequests, timely)
    /\ \A j \in 1 .. Len(forwarded), k \in 1 .. Len(pendingRequests) :
          forwarded[j].clientId = pendingRequests[k].clientId =>
              Before(forwarded[j].nSeq, pendingRequests[k].nSeq, timely)

\* The numbers expected next, rx, are past request r.
Passed(r, rx) == r.nSeq \in 1 .. rx[r.clientId] - 1

RangeInv ==
    /\ \A c \in Clients : mapClientToRxNSeq[c] >= 1
    /\ \A k \in 1 .. Len(forwarded) : Passed(forwarded[k], mapClientToRxNSeq)
    /\ \A k \in 1 .. Len(pendingRequests) : Passed(pendingRequests[k], mapClientToRxNSeq)
    /\ \A r \in lost : Passed(r, mapClientToRxNSeq)

\* Request r has number n of client c.
Is(r, c, n) == r.clientId = c /\ r.nSeq = n

Sent(c, n) == \/ \E k \in 1 .. Len(forwarded) : Is(forwarded[k], c, n)
              \/ \E k \in 1 .. Len(pendingRequests) : Is(pendingRequests[k], c, n)

Gone(c, n) == \E r \in lost : Is(r, c, n)

\* Every number that was let through is on its way to the engine or lost.
CoverInv ==
    \A c \in Clients : \A n \in 1 .. mapClientToRxNSeq[c] - 1 :
        (Sent(c, n) \/ Gone(c, n)) /\ ~(Sent(c, n) /\ Gone(c, n))

NumberInv == OrderInv /\ RangeInv /\ CoverInv

\* A step that touches no requests.
LEMMA SameNumbers ==
    ASSUME NumberInv, UNCHANGED <<forwarded, pendingRequests, lost, mapClientToRxNSeq>>,
           timely' => timely
    PROVE  NumberInv'
<1>1. OrderInv'
  BY DEF NumberInv, OrderInv, InOrder, Before
<1>2. RangeInv' /\ CoverInv'
  BY DEF NumberInv, RangeInv, Passed, CoverInv, Sent, Gone, Is
<1> QED BY <1>1, <1>2 DEF NumberInv

\* The fields of the requests.
LEMMA NumbersTyped ==
    ASSUME TypeInv
    PROVE  /\ \A r \in Pending : r.clientId \in Clients /\ r.nSeq \in Nat /\ r.tRx \in Nat
           /\ mapClientToRxNSeq \in [Clients -> Nat]
           /\ forwarded \in Seq(Pending) /\ pendingRequests \in Seq(Pending)
           /\ lost \in SUBSET Pending
           /\ \A k \in 1 .. Len(forwarded) : forwarded[k] \in Pending
           /\ \A k \in 1 .. Len(pendingRequests) : pendingRequests[k] \in Pending
<1>1. \A r \in Pending : r.clientId \in Clients /\ r.nSeq \in SeqNos /\ r.tRx \in 0 .. MaxTime
  BY DEF Pending
<1>2. \A r \in Pending : r.clientId \in Clients /\ r.nSeq \in Nat /\ r.tRx \in Nat
  <2>1. \A n \in 0 .. MaxTime : n \in Nat
    BY NumbersAssumption
  <2> QED BY <1>1, <2>1, NumbersAssumption
<1> QED BY <1>2, RequestsTyped DEF TypeInv, TypeOK, MapType, QueueType

\* A request that passes has the number after all those of its client.
LEMMA acceptRequestNumbers ==
    ASSUME TypeInv, NumberInv, acceptRequest
    PROVE  NumberInv'
<1> DEFINE P == pendingRequests
           n == Len(pendingRequests)
           R == mapClientToRxNSeq
<1>1. PICK r \in Pending : /\ P' = Append(P, r) /\ r.clientId \in Clients
                           /\ r.clientId = Req.clientId /\ r.nSeq = R[r.clientId]
  BY acceptRequestPending
<1>2. UNCHANGED <<forwarded, lost, timely>> /\ R' = [R EXCEPT ![r.clientId] = @ + 1]
  BY <1>1 DEF acceptRequest, advanceRx, NextRequest, queueVars
<1>3. /\ n \in Nat /\ Len(P') = n + 1 /\ P'[n + 1] = r
      /\ \A k \in 1 .. n : P'[k] = P[k]
  BY <1>1, NumbersTyped
<1>4. /\ R'[r.clientId] = r.nSeq + 1 /\ r.nSeq \in Nat /\ r.nSeq >= 1
      /\ \A c \in Clients \ {r.clientId} : R'[c] = R[c]
      /\ \A c \in Clients : R[c] \in Nat /\ R[c] >= 1
  BY <1>1, <1>2, NumbersTyped DEF NumberInv, RangeInv
<1>5. \A x \in Pending : Passed(x, R) =>
         Passed(x, R') /\ (x.clientId = r.clientId => x.nSeq < r.nSeq)
  <2> SUFFICES ASSUME NEW x \in Pending, Passed(x, R)
               PROVE  Passed(x, R') /\ (x.clientId = r.clientId => x.nSeq < r.nSeq)
    OBVIOUS
  <2>1. x.clientId \in Clients /\ x.nSeq \in 1 .. R[x.clientId] - 1
    BY NumbersTyped DEF Passed
  <2>2. CASE x.clientId = r.clientId
    <3>1. x.nSeq \in 1 .. r.nSeq - 1
      BY <1>1, <2>1, <2>2
    <3>2. x.nSeq \in 1 .. R'[x.clientId] - 1 /\ x.nSeq < r.nSeq
      BY <1>4, <2>2, <3>1
    <3> QED BY <3>2 DEF Passed
  <2>3. CASE x.clientId # r.clientId
    BY <1>4, <2>1, <2>3 DEF Passed
  <2> QED BY <2>2, <2>3
<1>0. /\ \A k \in 1 .. n : P[k] \in Pending /\ Passed(P[k], R)
      /\ \A k \in 1 .. Len(forwarded) : forwarded[k] \in Pending /\ Passed(forwarded[k], R)
      /\ \A x \in lost : x \in Pending /\ Passed(x, R)
  BY NumbersTyped DEF NumberInv, RangeInv
<1>6. RangeInv'
  <2>1. \A c \in Clients : R'[c] >= 1
    BY <1>4
  <2>2. Passed(r, R')
    BY <1>4 DEF Passed
  <2>3. \A k \in 1 .. Len(P') : Passed(P'[k], R')
    <3> SUFFICES ASSUME NEW k \in 1 .. Len(P') PROVE Passed(P'[k], R')
      OBVIOUS
    <3>1. CASE k \in 1 .. n
      BY <1>0, <1>3, <1>5, <3>1 DEF Passed
    <3>2. CASE k = n + 1
      BY <1>3, <2>2, <3>2
    <3> QED BY <1>3, <3>1, <3>2
  <2>4. (\A k \in 1 .. Len(forwarded) : Passed(forwarded[k], R')) /\ \A x \in lost : Passed(x, R')
    BY <1>0, <1>5 DEF Passed
  <2> QED BY <1>2, <2>1, <2>3, <2>4 DEF RangeInv, Passed
<1>7. OrderInv'
  <2>1. \A k \in 1 .. n : P[k].clientId = r.clientId => P[k].nSeq < r.nSeq
    BY <1>0, <1>5 DEF Passed
  <2>2. \A k \in 1 .. Len(forwarded) :
           forwarded[k].clientId = r.clientId => forwarded[k].nSeq < r.nSeq
    BY <1>0, <1>5 DEF Passed
  <2>3. InOrder(P', timely)
    <3> SUFFICES ASSUME NEW j \in 1 .. Len(P'), NEW k \in 1 .. Len(P'), j < k,
                        P'[j].clientId = P'[k].clientId
                 PROVE  Before(P'[j].nSeq, P'[k].nSeq, timely)
      BY DEF InOrder
    <3>1. j \in 1 .. n /\ P'[j] = P[j]
      BY <1>3
    <3>2. CASE k \in 1 .. n
      BY <1>3, <3>1, <3>2 DEF NumberInv, OrderInv, InOrder
    <3>3. CASE k = n + 1
      <4>1. P'[j].nSeq < P'[k].nSeq /\ P'[j].nSeq \in Nat /\ P'[k].nSeq \in Nat
        BY <1>0, <1>3, <1>4, <2>1, <3>1, <3>3, NumbersTyped
      <4> QED BY <4>1 DEF Before
    <3> QED BY <1>3, <3>2, <3>3
  <2>4. ASSUME NEW j \in 1 .. Len(forwarded), NEW k \in 1 .. Len(P'),
               forwarded[j].clientId = P'[k].clientId
        PROVE  Before(forwarded[j].nSeq, P'[k].nSeq, timely)
    <3>1. CASE k \in 1 .. n
      BY <1>3, <2>4, <3>1 DEF NumberInv, OrderInv
    <3>2. CASE k = n + 1
      <4>1. forwarded[j].nSeq < P'[k].nSeq /\ forwarded[j].nSeq \in Nat /\ P'[k].nSeq \in Nat
        BY <1>0, <1>3, <1>4, <2>2, <2>4, <3>2, NumbersTyped
      <4> QED BY <4>1 DEF Before
    <3> QED BY <1>3, <3>1, <3>2
  <2>5. InOrder(forwarded', timely)
    BY <1>2 DEF NumberInv, OrderInv
  <2> QED BY <1>2, <2>3, <2>4, <2>5 DEF OrderInv
<1>8. CoverInv'
  <2> SUFFICES ASSUME NEW c \in Clients, NEW m \in 1 .. R'[c] - 1
               PROVE  (Sent(c, m)' \/ Gone(c, m)') /\ ~(Sent(c, m)' /\ Gone(c, m)')
    BY DEF CoverInv
  <2>1. Gone(c, m)' <=> Gone(c, m)
    BY <1>2 DEF Gone, Is
  <2>2. Sent(c, m)' <=> Sent(c, m) \/ Is(r, c, m)
    <3>1. \A k \in 1 .. Len(P') : k \in 1 .. n \/ k = n + 1
      BY <1>3
    <3>2. n + 1 \in 1 .. Len(P') /\ \A k \in 1 .. n : k \in 1 .. Len(P')
      BY <1>3
    <3> QED BY <1>2, <1>3, <3>1, <3>2 DEF Sent, Is
  <2>3. CASE m \in 1 .. R[c] - 1
    <3>1. ~Is(r, c, m)
      BY <1>1, <1>4, <2>3 DEF Is
    <3> QED BY <2>1, <2>2, <2>3, <3>1 DEF NumberInv, CoverInv
  <2>4. CASE m \notin 1 .. R[c] - 1
    <3>1. c = r.clientId /\ m = r.nSeq
      BY <1>1, <1>4, <2>4
    <3>2. ~Gone(c, m)
      <4> SUFFICES ASSUME NEW x \in lost, x.clientId = r.clientId, x.nSeq = r.nSeq PROVE FALSE
        BY <3>1 DEF Gone, Is
      <4>1. x.nSeq < r.nSeq
        BY <1>0, <1>5 DEF Passed
      <4> QED BY <1>4, <4>1
    <3> QED BY <2>1, <2>2, <3>1, <3>2 DEF Is
  <2> QED BY <2>3, <2>4
<1> QED BY <1>6, <1>7, <1>8 DEF NumberInv

\* The sort leaves a client's requests in the order of their numbers: their
\* times already are.
LEMMA rxDoneNumbers ==
    ASSUME TypeInv, timely => TimeInv, NumberInv, rxDone
    PROVE  NumberInv'
<1>1. UNCHANGED <<forwarded, lost, mapClientToRxNSeq>>
  BY DEF rxDone, mapVars, queueVars
<1>2. CASE recv /\ pendingRequests # <<>>
  <2> DEFINE P == pendingRequests
             n == Len(pendingRequests)
  <2>1. PICK p \in SortedOrders : /\ pendingRequests' = sorted(p)
                                  /\ timely' = (timely /\ Stable(p))
    BY <1>2 DEF rxDone
  <2>2. pendingRequests \in Seq(Pending) /\ n \in Nat
    BY NumbersTyped
  <2>3. /\ p \in [1 .. n -> 1 .. n] /\ Len(P') = n
        /\ \A k \in 1 .. n : P'[k] = P[p[k]]
    BY <2>1, <2>2, sortedType
  <2>4. /\ \A j, k \in 1 .. n : j < k =>
              p[j] # p[k] /\ P[p[j]].tRx <= P[p[k]].tRx
        /\ \A m \in 1 .. n : \E k \in 1 .. n : p[k] = m
    BY <2>2, sortedOrder
  <2>5. ASSUME NEW j \in 1 .. n, NEW k \in 1 .. n, j < k,
               P[p[j]].clientId = P[p[k]].clientId
        PROVE  Before(P[p[j]].nSeq, P[p[k]].nSeq, timely')
    <3>1. p[j] \in 1 .. n /\ p[k] \in 1 .. n /\ p[j] # p[k]
      BY <2>3, <2>4, <2>5
    <3>2. P[p[j]].tRx \in Nat /\ P[p[k]].tRx \in Nat
      BY <3>1, NumbersTyped
    <3>3. P[p[j]].nSeq # P[p[k]].nSeq
      <4>1. p[j] < p[k] \/ p[k] < p[j]
        BY <3>1
      <4> QED BY <2>5, <3>1, <4>1 DEF NumberInv, OrderInv, InOrder, Before
    <3>4. ASSUME timely' PROVE P[p[j]].nSeq < P[p[k]].nSeq
      <4>1. timely /\ Stable(p)
        BY <2>1, <3>4
      <4>2. P[p[j]].tRx = P[p[k]].tRx => p[j] < p[k]
        BY <2>3, <2>5, <4>1 DEF Stable
      <4>3. P[p[j]].tRx <= P[p[k]].tRx
        BY <2>4, <2>5
      <4>4. p[k] < p[j] => P[p[k]].tRx <= P[p[j]].tRx
        BY <2>5, <3>1, <4>1 DEF TimeInv, PendingTimes
      <4>5. p[j] < p[k]
        BY <3>1, <3>2, <4>2, <4>3, <4>4
      <4> QED BY <2>5, <3>1, <4>1, <4>5 DEF NumberInv, OrderInv, InOrder, Before
    <3> QED BY <3>3, <3>4 DEF Before
  <2>6. OrderInv'
    <3>1. ASSUME NEW j \in 1 .. Len(forwarded), NEW k \in 1 .. n,
                 forwarded[j].clientId = P'[k].clientId
          PROVE  Before(forwarded[j].nSeq, P'[k].nSeq, timely')
      BY <2>1, <2>3, <3>1 DEF NumberInv, OrderInv, Before
    <3>2. InOrder(P', timely')
      BY <2>3, <2>5 DEF InOrder
    <3>3. InOrder(forwarded', timely')
      BY <1>1, <2>1 DEF NumberInv, OrderInv, InOrder, Before
    <3> QED BY <1>1, <2>3, <3>1, <3>2, <3>3 DEF OrderInv
  <2>7. RangeInv'
    <3>1. \A k \in 1 .. n : Passed(P'[k], mapClientToRxNSeq)
      BY <2>3 DEF NumberInv, RangeInv
    <3> QED BY <1>1, <2>3, <3>1 DEF NumberInv, RangeInv
  <2>8. ASSUME NEW c \in Clients, NEW m \in Nat
        PROVE  (Sent(c, m)' <=> Sent(c, m)) /\ (Gone(c, m)' <=> Gone(c, m))
    <3>1. (\E k \in 1 .. n : Is(P'[k], c, m)) <=> (\E k \in 1 .. n : Is(P[k], c, m))
      <4>1. \A k \in 1 .. n : p[k] \in 1 .. n
        BY <2>3
      <4>2. ASSUME NEW k \in 1 .. n, Is(P'[k], c, m) PROVE \E j \in 1 .. n : Is(P[j], c, m)
        BY <2>3, <4>1, <4>2 DEF Is
      <4>3. ASSUME NEW j \in 1 .. n, Is(P[j], c, m) PROVE \E k \in 1 .. n : Is(P'[k], c, m)
        <5>1. PICK k \in 1 .. n : p[k] = j
          BY <2>4
        <5> QED BY <2>3, <4>3, <5>1 DEF Is
      <4> QED BY <4>2, <4>3
    <3> QED BY <1>1, <2>3, <3>1 DEF Sent, Gone, Is
  <2>9. CoverInv'
    <3>1. \A c \in Clients : \A m \in 1 .. mapClientToRxNSeq[c] - 1 : m \in Nat
      BY NumbersTyped
    <3> QED BY <1>1, <2>8, <3>1 DEF NumberInv, CoverInv
  <2> QED BY <2>6, <2>7, <2>9 DEF NumberInv
<1>3. CASE ~(recv /\ pendingRequests # <<>>)
  BY <1>1, <1>3, SameNumbers DEF rxDone
<1> QED BY <1>2, <1>3

\* The first pending request moves to the end of the queue, or is lost.
LEMMA publishNumbers == ASSUME TypeInv, NumberInv, publish PROVE NumberInv'
<1> DEFINE P == pendingRequests
           n == Len(pendingRequests)
           F == forwarded
           f == Len(forwarded)
           R == mapClientToRxNSeq
<1>1. /\ n \in Nat \ {0} /\ P[1] \in Pending /\ Len(P') = n - 1
      /\ \A k \in 1 .. n - 1 : k + 1 \in 1 .. n /\ P'[k] = P[k + 1]
      /\ UNCHANGED <<mapClientToRxNSeq, timely>>
  BY publishData DEF publish
<1>2. \/ F' = Append(F, P[1]) /\ lost' = lost
      \/ lost' = lost \cup {P[1]} /\ F' = F
  BY publishData
<1>3. F \in Seq(Pending) /\ f \in Nat
  BY NumbersTyped
<1>4. /\ Len(F') \in {f, f + 1} /\ \A k \in 1 .. f : F'[k] = F[k]
      /\ Len(F') = f + 1 => F'[f + 1] = P[1] /\ lost' = lost
      /\ Len(F') = f => F' = F /\ lost' = lost \cup {P[1]}
  <2>1. CASE F' = Append(F, P[1]) /\ lost' = lost
    <3>1. Len(F') = f + 1 /\ F'[f + 1] = P[1] /\ \A k \in 1 .. f : F'[k] = F[k]
      BY <1>1, <1>3, <2>1
    <3> QED BY <1>3, <2>1, <3>1
  <2>2. CASE lost' = lost \cup {P[1]} /\ F' = F
    BY <1>3, <2>2
  <2> QED BY <1>2, <2>1, <2>2
<1>5. InOrder(P', timely)
  <2> SUFFICES ASSUME NEW j \in 1 .. n - 1, NEW k \in 1 .. n - 1, j < k,
                      P'[j].clientId = P'[k].clientId
               PROVE  Before(P'[j].nSeq, P'[k].nSeq, timely)
    BY <1>1 DEF InOrder
  <2>1. j + 1 \in 1 .. n /\ k + 1 \in 1 .. n /\ j + 1 < k + 1
        /\ P'[j] = P[j + 1] /\ P'[k] = P[k + 1]
    BY <1>1
  <2> QED BY <2>1 DEF NumberInv, OrderInv, InOrder
<1>6. InOrder(F', timely)
  <2> SUFFICES ASSUME NEW j \in 1 .. Len(F'), NEW k \in 1 .. Len(F'), j < k,
                      F'[j].clientId = F'[k].clientId
               PROVE  Before(F'[j].nSeq, F'[k].nSeq, timely)
    BY DEF InOrder
  <2>1. j \in 1 .. f /\ F'[j] = F[j]
    BY <1>3, <1>4
  <2>2. CASE k \in 1 .. f
    BY <1>4, <2>1, <2>2 DEF NumberInv, OrderInv, InOrder
  <2>3. CASE k = f + 1
    <3>1. F'[k] = P[1] /\ 1 \in 1 .. n
      BY <1>1, <1>3, <1>4, <2>3
    <3> QED BY <2>1, <3>1 DEF NumberInv, OrderInv
  <2> QED BY <1>3, <1>4, <2>2, <2>3
<1>7. ASSUME NEW j \in 1 .. Len(F'), NEW k \in 1 .. n - 1, F'[j].clientId = P'[k].clientId
      PROVE  Before(F'[j].nSeq, P'[k].nSeq, timely)
  <2>1. k + 1 \in 1 .. n /\ P'[k] = P[k + 1]
    BY <1>1
  <2>2. CASE j \in 1 .. f
    BY <1>4, <1>7, <2>1, <2>2 DEF NumberInv, OrderInv
  <2>3. CASE j = f + 1
    <3>1. F'[j] = P[1] /\ 1 \in 1 .. n /\ 1 < k + 1
      BY <1>1, <1>3, <1>4, <2>3
    <3> QED BY <1>7, <2>1, <3>1 DEF NumberInv, OrderInv, InOrder
  <2> QED BY <1>3, <1>4, <2>2, <2>3
<1>8. OrderInv'
  BY <1>1, <1>5, <1>6, <1>7 DEF OrderInv
<1>9. RangeInv'
  <2>0. 1 \in 1 .. n
    BY <1>1
  <2>1. \A k \in 1 .. n - 1 : Passed(P'[k], R)
    BY <1>1 DEF NumberInv, RangeInv
  <2>2. \A k \in 1 .. Len(F') : Passed(F'[k], R)
    <3>1. \A k \in 1 .. Len(F') : (k \in 1 .. f /\ F'[k] = F[k]) \/ F'[k] = P[1]
      BY <1>3, <1>4
    <3> QED BY <2>0, <3>1 DEF NumberInv, RangeInv
  <2>3. \A r \in lost' : Passed(r, R)
    BY <1>2, <2>0 DEF NumberInv, RangeInv
  <2> QED BY <1>1, <2>1, <2>2, <2>3 DEF NumberInv, RangeInv
<1>10. CoverInv'
  <2> SUFFICES ASSUME NEW c \in Clients, NEW m \in 1 .. R[c] - 1
               PROVE  (Sent(c, m)' \/ Gone(c, m)') /\ ~(Sent(c, m)' /\ Gone(c, m)')
    BY <1>1 DEF CoverInv
  <2>1. (\E k \in 1 .. n : Is(P[k], c, m)) <=>
           Is(P[1], c, m) \/ \E k \in 1 .. n - 1 : Is(P'[k], c, m)
    <3>1. \A k \in 1 .. n : k = 1 \/ (k - 1 \in 1 .. n - 1 /\ P'[k - 1] = P[k])
      BY <1>1
    <3>2. 1 \in 1 .. n
      BY <1>1
    <3> QED BY <1>1, <3>1, <3>2
  <2>2. CASE F' = Append(F, P[1]) /\ lost' = lost
    <3>1. (\E k \in 1 .. Len(F') : Is(F'[k], c, m)) <=>
             Is(P[1], c, m) \/ \E k \in 1 .. f : Is(F[k], c, m)
      <4>1. Len(F') = f + 1 /\ F'[f + 1] = P[1]
        BY <1>1, <1>3, <2>2
      <4>2. /\ \A k \in 1 .. Len(F') : k \in 1 .. f \/ k = f + 1
            /\ f + 1 \in 1 .. Len(F') /\ \A k \in 1 .. f : k \in 1 .. Len(F')
        BY <1>3, <4>1
      <4> QED BY <1>4, <4>1, <4>2
    <3>2. Sent(c, m)' <=> Sent(c, m)
      BY <1>1, <2>1, <3>1 DEF Sent, Is
    <3>3. Gone(c, m)' <=> Gone(c, m)
      BY <2>2 DEF Gone, Is
    <3> QED BY <3>2, <3>3 DEF NumberInv, CoverInv
  <2>3. CASE lost' = lost \cup {P[1]} /\ F' = F
    <3>1. Gone(c, m)' <=> Is(P[1], c, m) \/ Gone(c, m)
      BY <2>3 DEF Gone, Is
    <3>2. Sent(c, m) <=> Is(P[1], c, m) \/ Sent(c, m)'
      BY <1>1, <2>1, <2>3 DEF Sent, Is
    <3>3. ~(Is(P[1], c, m) /\ Sent(c, m)')
      <4> SUFFICES ASSUME P[1].clientId = c, P[1].nSeq = m, Sent(c, m)' PROVE FALSE
        BY DEF Is
      <4>0. 1 \in 1 .. n /\ m \in Int
        BY <1>1
      <4>1. ASSUME NEW k \in 1 .. f, F[k].clientId = c, F[k].nSeq = m PROVE FALSE
        BY <4>0, <4>1 DEF NumberInv, OrderInv, Before
      <4>2. ASSUME NEW k \in 1 .. n - 1, P'[k].clientId = c, P'[k].nSeq = m PROVE FALSE
        <5>1. k + 1 \in 1 .. n /\ P'[k] = P[k + 1] /\ 1 < k + 1
          BY <1>1
        <5> QED BY <4>0, <4>2, <5>1 DEF NumberInv, OrderInv, InOrder, Before
      <4> QED BY <1>1, <2>3, <4>1, <4>2 DEF Sent, Is
    <3> QED BY <3>1, <3>2, <3>3 DEF NumberInv, CoverInv
  <2> QED BY <1>2, <2>2, <2>3
<1> QED BY <1>8, <1>9, <1>10 DEF NumberInv

\* Every step.
LEMMA NextNumbers ==
    ASSUME TypeInv, timely => TimeInv, NumberInv, [Next]_vars
    PROVE  NumberInv'
<1>1. CASE \/ UNCHANGED vars \/ Network \/ Owner \/ engineTakes \/ engineAnswers \/ exit \/ poll
           \/ recvmsg \/ dropRequest \/ failRequest \/ flush \/ respond \/ respondDone
  <2>1. UNCHANGED <<forwarded, pendingRequests, lost, mapClientToRxNSeq>>
    BY <1>1 DEF vars, Network, connect, arrive, Owner, start, stop, join, destroy,
       engineTakes, engineAnswers, exit, poll, recvmsg, dropRequest, NextRequest, failRequest,
       flush, respond, respondDone, mapVars, queueVars
  <2> QED BY <2>1, SameNumbers, TimelyBefore
<1> QED BY <1>1, acceptRequestNumbers, rxDoneNumbers, publishNumbers DEF Next, run

\* The order of the requests, with what it needs to be inductive.
THEOREM NumberInvariance == Spec => []NumberInv
<1>1. Init => NumberInv
  <2> SUFFICES ASSUME Init PROVE NumberInv
    OBVIOUS
  <2>1. /\ forwarded = <<>> /\ pendingRequests = <<>> /\ lost = {}
        /\ \A c \in Clients : mapClientToRxNSeq[c] = 1
    BY DEF Init
  <2> QED BY <2>1 DEF NumberInv, OrderInv, InOrder, RangeInv, CoverInv
<1>2. TypeInv /\ (timely => TimeInv) /\ NumberInv /\ [Next]_vars => NumberInv'
  BY NextNumbers
<1> QED BY <1>1, <1>2, TypeInvariance, TimeInvariance, PTL DEF Spec

\* None of a client's requests is published twice, and none that rxCallback let
\* through is missing unless the full queue refused it; and as long as the clock
\* is not set back, all data comes with its time and std::sort happens to be
\* stable, the sort by receive time never turns a client's requests around,
\* however their pieces were read.
THEOREM RequestsInOrder == Spec => []PublishedInOrder
<1>1. TypeInv /\ NumberInv => PublishedInOrder
  <2> SUFFICES ASSUME TypeInv, NumberInv PROVE PublishedInOrder
    OBVIOUS
  <2> DEFINE F == forwarded
             P == pendingRequests
             f == Len(forwarded)
             n == Len(pendingRequests)
             list == forwarded \o pendingRequests
  <2>1. F \in Seq(Pending) /\ P \in Seq(Pending) /\ f \in Nat /\ n \in Nat
    BY NumbersTyped
  <2>2. /\ DOMAIN list = 1 .. f + n
        /\ \A k \in 1 .. f + n : list[k] = IF k <= f THEN F[k] ELSE P[k - f]
    BY <2>1
  <2> HIDE DEF list
  <2>3. ASSUME NEW j \in 1 .. f + n, NEW k \in 1 .. f + n, j < k,
               list[j].clientId = list[k].clientId
        PROVE  Before(list[j].nSeq, list[k].nSeq, timely)
    <3>1. CASE k <= f
      <4>1. list[j] = F[j] /\ list[k] = F[k] /\ j \in 1 .. f /\ k \in 1 .. f
        BY <2>1, <2>2, <2>3, <3>1
      <4> QED BY <2>3, <4>1 DEF NumberInv, OrderInv, InOrder
    <3>2. CASE j <= f /\ k > f
      <4>1. list[j] = F[j] /\ list[k] = P[k - f] /\ j \in 1 .. f /\ k - f \in 1 .. n
        BY <2>1, <2>2, <2>3, <3>2
      <4> QED BY <2>3, <4>1 DEF NumberInv, OrderInv
    <3>3. CASE j > f
      <4>1. /\ list[j] = P[j - f] /\ list[k] = P[k - f]
            /\ j - f \in 1 .. n /\ k - f \in 1 .. n /\ j - f < k - f
        BY <2>1, <2>2, <2>3, <3>3
      <4> QED BY <2>3, <4>1 DEF NumberInv, OrderInv, InOrder
    <3> QED BY <2>1, <2>3, <3>1, <3>2, <3>3
  <2>4. \A x : x \in ToSet(list) <=> \/ \E k \in 1 .. f : x = F[k]
                                     \/ \E k \in 1 .. n : x = P[k]
    <3>1. ToSet(list) = {list[k] : k \in 1 .. f + n}
      BY <2>2 DEF ToSet
    <3>2. \A k \in 1 .. f + n : \/ k \in 1 .. f /\ list[k] = F[k]
                                \/ k - f \in 1 .. n /\ list[k] = P[k - f]
      BY <2>1, <2>2
    <3>3. \A k \in 1 .. f : k \in 1 .. f + n /\ list[k] = F[k]
      BY <2>1, <2>2
    <3>4. \A k \in 1 .. n : f + k \in 1 .. f + n /\ list[f + k] = P[k]
      BY <2>1, <2>2
    <3>5. ASSUME NEW x \in ToSet(list)
          PROVE  (\E k \in 1 .. f : x = F[k]) \/ (\E k \in 1 .. n : x = P[k])
      <4>1. PICK k \in 1 .. f + n : x = list[k]
        BY <3>1
      <4> QED BY <3>2, <4>1
    <3>6. \A k \in 1 .. f : F[k] \in ToSet(list)
      BY <3>1, <3>3
    <3>7. ASSUME NEW k \in 1 .. n PROVE P[k] \in ToSet(list)
      BY <3>1, <3>4
    <3> HIDE DEF f, n, F, P
    <3> QED BY <3>5, <3>6, <3>7
  <2>5. ASSUME NEW c \in Clients
        PROVE  LET passed == Numbers(c, ToSet(list))
                   gone   == Numbers(c, lost)
               IN  /\ passed \cap gone = {}
                   /\ passed \cup gone = 1 .. mapClientToRxNSeq[c] - 1
    <3>1. \A m : m \in Numbers(c, ToSet(list)) <=> Sent(c, m)
      BY <2>4 DEF Numbers, Sent, Is
    <3>2. \A m : m \in Numbers(c, lost) <=> Gone(c, m)
      BY DEF Numbers, Gone, Is
    <3>3. \A m : Sent(c, m) \/ Gone(c, m) => m \in 1 .. mapClientToRxNSeq[c] - 1
      BY DEF Sent, Gone, Is, NumberInv, RangeInv, Passed
    <3>4. \A m \in 1 .. mapClientToRxNSeq[c] - 1 :
             (Sent(c, m) \/ Gone(c, m)) /\ ~(Sent(c, m) /\ Gone(c, m))
      BY DEF NumberInv, CoverInv
    <3> QED BY <3>1, <3>2, <3>3, <3>4
  <2> QED BY <2>2, <2>3, <2>5 DEF PublishedInOrder, Before, list
<1> QED BY <1>1, TypeInvariance, NumberInvariance, PTL
=============================================================================
