---------------------------- MODULE OrderGateway ----------------------------
(***************************************************************************)
(* Exchange::OrderGatewayServer with its FIFOSequencer (src/core/gateway)  *)
(* on top of TCPServer and TCPSocket (src/lib).  The server thread         *)
(* runs the loop of run(); around it are the clients and the network, the  *)
(* owner that starts and stops the thread, and the matching engine at the  *)
(* other end of the request and response queues, which are taken at the    *)
(* interface FifoSpec.                                                     *)
(*                                                                         *)
(* A request arrives in pieces, so that a receive can end in the middle    *)
(* of one.  A response leaves in two pieces, the sequence number and the   *)
(* body, because the code sends them separately.                           *)
(***************************************************************************)
EXTENDS Integers, Sequences, SequencesExt

CONSTANTS
    Sockets,        \* connections, each with the TCPSocket that serves it
    Null,           \* no socket
    Clients,        \* client ids inside the arrays of the gateway
    WildClients,    \* client ids outside of them
    SeqNos,         \* sequence numbers that requests carry
    RequestPieces,  \* sizeof(OGSClientRequest): the pieces of a request
    BufferSize,     \* TCPBufferSize, in pieces
    MAX_EVENTS,     \* sockets in the pool
    MAX_PENDING_ORDER_REQUESTS,
    QueueSize,      \* slots of each of the two queues
    StableLimit,    \* std::sort keeps equal elements in order up to this many
    Kqueue,         \* built for kqueue; otherwise for epoll
    Stamps,         \* received data comes with the kernel's time
    PartialSends,   \* ::send may take only a part of what it is given
    MaxPieces,      \* bound on the pieces of requests that arrive
    MaxResponses,   \* bound on the responses of the engine
    MaxTime         \* bound on the kernel's clock

ASSUME SocketsAssumption == Null \notin Sockets
ASSUME ClientsAssumption == Clients \cap WildClients = {}
ASSUME NumbersAssumption ==
    /\ SeqNos \subseteq Nat /\ RequestPieces \in Nat \ {0}
    /\ BufferSize \in Nat /\ RequestPieces <= BufferSize
    /\ MAX_EVENTS \in Nat /\ MAX_PENDING_ORDER_REQUESTS \in Nat
    /\ QueueSize \in Nat \ {0} /\ StableLimit \in Nat
    /\ MaxPieces \in Nat /\ MaxResponses \in Nat /\ MaxTime \in Nat
ASSUME SwitchAssumption ==
    Kqueue \in BOOLEAN /\ Stamps \in BOOLEAN /\ PartialSends \in BOOLEAN

VARIABLES
    \* The network
    backlog,            \* connections waiting for accept
    kernel,             \* per connection: received, not read yet
    half,               \* per connection: the last piece of a request under way
    clock, pieces,
    delivered,          \* per connection: what the client got
    cut,                \* history: a send on this connection was not complete
    \* TCPServer and TCPSocket
    receiveSockets, sendSockets, inboundData, outboundData,
    \* OrderGatewayServer
    mapClientToSocket, mapClientToRxNSeq, mapClientToTxNSeq, isRunning,
    \* FIFOSequencer
    pendingRequests,
    timely,             \* history: the receive times have told the order of receipt
    \* Where the server thread is
    pc, pass, turn,     \* in sendAndReceive: the list and the position in it
    recv,               \* something was received in this pass
    i, tRx,             \* rxCallback's offset and receive time
    \* The queues and the engine
    forwarded,          \* history: requests that were pushed
    taken,              \* how many of them the engine popped
    lost,               \* history: requests that push refused
    responses, answers,
    \* The owner of the gateway, and how the process fares
    owner, status

netVars    == <<backlog, kernel, half, clock, pieces>>
clientVars == <<delivered, cut>>
sockVars   == <<receiveSockets, sendSockets>>
bufVars    == <<inboundData, outboundData>>
mapVars    == <<mapClientToSocket, mapClientToRxNSeq, mapClientToTxNSeq>>
loopVars   == <<pc, pass, turn, recv, i, tRx>>
queueVars  == <<forwarded, taken, lost, responses, answers>>
ownerVars  == <<isRunning, owner, status>>
vars == <<netVars, clientVars, sockVars, bufVars, mapVars, pendingRequests,
          timely, loopVars, queueVars, ownerVars>>

Request == [clientId : Clients \cup WildClients, nSeq : SeqNos,
            part : 1 .. RequestPieces, at : 0 .. MaxTime]

ASSUME NullAssumption == Null \notin Request

Pending == [clientId : Clients, nSeq : SeqNos, at : 0 .. MaxTime,
            tRx : 0 .. MaxTime, socket : Sockets]

ResponsePiece == [clientId : Clients, nSeq : Nat, part : {1, 2}]

Init ==
    /\ backlog = <<>> /\ kernel = [s \in Sockets |-> <<>>]
    /\ half = [s \in Sockets |-> Null]
    /\ clock = 0 /\ pieces = 0
    /\ delivered = [s \in Sockets |-> <<>>] /\ cut = [s \in Sockets |-> FALSE]
    /\ receiveSockets = <<>> /\ sendSockets = <<>>
    /\ inboundData = [s \in Sockets |-> <<>>]
    /\ outboundData = [s \in Sockets |-> <<>>]
    /\ mapClientToSocket = [c \in Clients |-> Null]
    /\ mapClientToRxNSeq = [c \in Clients |-> 1]
    /\ mapClientToTxNSeq = [c \in Clients |-> 1]
    /\ pendingRequests = <<>> /\ timely = TRUE
    /\ pc = "new" /\ pass = "receive" /\ turn = 1 /\ recv = FALSE
    /\ i = 0 /\ tRx = 0
    /\ forwarded = <<>> /\ taken = 0 /\ lost = {}
    /\ responses = <<>> /\ answers = 0
    /\ isRunning = FALSE /\ owner = "new" /\ status = "ok"

-----------------------------------------------------------------------------
(* The network and the clients *)

\* A client connects.  The listener's backlog is taken to be long enough.
connect(s) ==
    /\ owner \notin {"new", "destroyed"} /\ status = "ok"
    /\ ~Contains(backlog \o receiveSockets, s)
    /\ backlog' = Append(backlog, s)
    /\ UNCHANGED <<kernel, half, clock, pieces, clientVars, sockVars, bufVars,
                   mapVars, pendingRequests, timely, loopVars, queueVars, ownerVars>>

\* The next piece of the byte stream of connection s arrives: the next one of
\* the request under way, or the first one of a new request.  Its time is that
\* of the wall clock, which may be set back.
arrive(s) ==
    /\ Contains(backlog \o receiveSockets, s) /\ status = "ok"
    /\ pieces < MaxPieces
    /\ pieces' = pieces + 1
    /\ clock' \in 0 .. MaxTime
    /\ timely' = (timely /\ clock <= clock')
    /\ \E piece \in IF half[s] # Null
                    THEN {[half[s] EXCEPT !.part = @ + 1, !.at = clock']}
                    ELSE [clientId : Clients \cup WildClients, nSeq : SeqNos,
                          part : {1}, at : {clock'}] :
          /\ kernel' = [kernel EXCEPT ![s] = Append(@, piece)]
          /\ half' = [half EXCEPT ![s] = IF piece.part < RequestPieces THEN piece ELSE Null]
    /\ UNCHANGED <<backlog, clientVars, sockVars, bufVars, mapVars, pendingRequests,
                   loopVars, queueVars, ownerVars>>

-----------------------------------------------------------------------------
(* The engine's end of the queues *)

\* pop of runMatchingEngine.
engineTakes ==
    /\ status = "ok" /\ taken < Len(forwarded)
    /\ taken' = taken + 1
    /\ UNCHANGED <<netVars, clientVars, sockVars, bufVars, mapVars, pendingRequests, timely,
                   loopVars, forwarded, lost, responses, answers, ownerVars>>

\* dispatchClientResponse: to a client whose request the engine has taken,
\* now or earlier (a resting order may be filled at any time).  A full queue
\* loses the response.
engineAnswers ==
    /\ status = "ok" /\ answers < MaxResponses
    /\ answers' = answers + 1
    /\ \E k \in 1 .. taken :
          responses' = IF Len(responses) < QueueSize
                       THEN Append(responses, forwarded[k].clientId)
                       ELSE responses
    /\ UNCHANGED <<netVars, clientVars, sockVars, bufVars, mapVars, pendingRequests, timely,
                   loopVars, forwarded, taken, lost, ownerVars>>

-----------------------------------------------------------------------------
(* The owner *)

\* The owner gets a thread that runs, or an ASSERT of listen ends the process:
\* always so after stop, which leaves the first listener bound to the port.
start ==
    /\ status = "ok" /\ owner \in {"new", "stopped"}
    /\ isRunning' = TRUE
    /\ \/ owner = "new" /\ owner' = "started" /\ pc' = "top" /\ UNCHANGED status
       \/ status' = "noListener" /\ UNCHANGED <<owner, pc>>
    /\ UNCHANGED <<netVars, clientVars, sockVars, bufVars, mapVars, pendingRequests, timely,
                   pass, turn, recv, i, tRx, queueVars>>

\* Mutant: the flag is not cleared.
clearRunning_Skipped == UNCHANGED isRunning

clearRunning == isRunning' = FALSE

\* stop, up to the join.  Before start there is no thread object to ask
\* whether it is joinable.
stop ==
    /\ status = "ok" /\ owner \in {"new", "started"}
    /\ clearRunning
    /\ IF owner = "new" THEN status' = "nullptr" /\ UNCHANGED owner
                        ELSE owner' = "joining" /\ UNCHANGED status
    /\ UNCHANGED <<netVars, clientVars, sockVars, bufVars, mapVars, pendingRequests, timely,
                   loopVars, queueVars>>

\* join returns.
join ==
    /\ status = "ok" /\ owner = "joining" /\ pc = "exited"
    /\ owner' = "stopped"
    /\ UNCHANGED <<netVars, clientVars, sockVars, bufVars, mapVars, pendingRequests, timely,
                   loopVars, queueVars, isRunning, status>>

\* ~OrderGatewayServer once the thread was joined: stop finds nothing to join,
\* and TCPServer::stop forgets the sockets.
destroy ==
    /\ status = "ok" /\ owner = "stopped"
    /\ owner' = "destroyed"
    /\ receiveSockets' = <<>> /\ sendSockets' = <<>>
    /\ UNCHANGED <<netVars, clientVars, bufVars, mapVars, pendingRequests, timely, loopVars,
                   queueVars, isRunning, status>>

-----------------------------------------------------------------------------
(* run *)

At(where) == status = "ok" /\ pc = where

\* The loop condition fails: the thread ends.
exit ==
    /\ At("top") /\ ~isRunning
    /\ pc' = "exited"
    /\ UNCHANGED <<netVars, clientVars, sockVars, bufVars, mapVars, pendingRequests, timely,
                   pass, turn, recv, i, tRx, queueVars, ownerVars>>

\* sendAndReceive goes through one of the two lists from its beginning.
BeginPass(list) ==
    /\ pc' = "socket" /\ pass' = list /\ turn' = 1

\* An iteration begins with poll: every waiting connection gets a socket of
\* the pool and joins receiveSockets_ for good.  Only kqueue reports that a socket can be
\* written to, in any order, which puts it into sendSockets_ for good too.
poll ==
    /\ At("top") /\ isRunning
    /\ IF Len(receiveSockets) + Len(backlog) > MAX_EVENTS
       THEN status' = "nullptr" /\ UNCHANGED <<backlog, sockVars, loopVars>>
       ELSE /\ receiveSockets' = receiveSockets \o backlog
            /\ backlog' = <<>>
            /\ LET writable == {s \in ToSet(receiveSockets) :
                                    Kqueue /\ ~Contains(sendSockets, s)}
               IN  \E reported \in SeqOf(writable, Len(receiveSockets)) :
                      /\ IsInjective(reported)
                      /\ sendSockets' = sendSockets \o reported
            /\ BeginPass("receive")
            /\ UNCHANGED <<recv, i, tRx, status>>
    /\ UNCHANGED <<kernel, half, clock, pieces, clientVars, bufVars, mapVars,
                   pendingRequests, timely, queueVars, isRunning, owner>>

\* The sockets of the pass under way.
PassSockets == IF pass = "receive" THEN receiveSockets ELSE sendSockets

\* The socket whose sendAndRecv is being called.
Socket == PassSockets[turn]

\* Mutant: the result for the last socket counts alone.
received_LastOnly(s) == pass = "receive" /\ kernel[s] # <<>>

received(s) == recv \/ (pass = "receive" /\ kernel[s] # <<>>)

\* Mutant: with nothing received there is nothing to do.
afterRead_Early(s) == IF kernel[s] = <<>> THEN pc' = "socket" /\ turn' = turn + 1
                                          ELSE pc' = "rx" /\ UNCHANGED turn

\* Whatever was read, the callback's loop and the send follow.
afterRead(s) == pc' = "rx" /\ UNCHANGED turn

\* How many pieces the receive returns: what there is, as far as it fits.
readSize(s) == IF Len(inboundData[s] \o kernel[s]) <= BufferSize THEN Len(kernel[s])
               ELSE BufferSize - Len(inboundData[s])

\* TCPSocket::sendAndRecv reads once.  Its time is that of the last piece
\* read.  Data that comes without one has no time that could be relied on:
\* the control buffer the code then looks at was never initialised.
recvmsg ==
    /\ At("socket") /\ turn <= Len(PassSockets)
    /\ LET s    == Socket
           data == SubSeq(kernel[s], 1, readSize(s))
       IN  /\ inboundData' = [inboundData EXCEPT ![s] = @ \o data]
           /\ kernel' = [kernel EXCEPT ![s] = SubSeq(@, Len(data) + 1, Len(@))]
           /\ recv' = received(s)
           /\ CASE data = <<>> -> tRx' = 0 /\ UNCHANGED timely
                [] data # <<>> /\ Stamps -> tRx' = Last(data).at /\ UNCHANGED timely
                [] OTHER -> tRx' \in 0 .. MaxTime /\ timely' = FALSE
           /\ afterRead(s)
    /\ i' = 0
    /\ UNCHANGED <<backlog, half, clock, pieces, clientVars, sockVars, outboundData,
                   mapVars, pendingRequests, pass, queueVars, ownerVars>>

-----------------------------------------------------------------------------
(* rxCallback: one action per request *)

HasRequest == At("rx") /\ i + RequestPieces <= Len(inboundData[Socket])

\* The request at offset i.
Req == inboundData[Socket][i + 1]

\* Mutant: the last socket heard from is the client's socket.
socketFor_Latest(c) == Socket

\* The socket of client c; its first request decides.
socketFor(c) == IF mapClientToSocket[c] = Null THEN Socket ELSE mapClientToSocket[c]

\* Mutant: the socket is not remembered.
recordSocket_Skipped(c) == UNCHANGED mapClientToSocket

recordSocket(c) == mapClientToSocket' = [mapClientToSocket EXCEPT ![c] = socketFor(c)]

\* Mutant: a number that was skipped is not missed.
Expected_NotBelow(r) == /\ socketFor(r.clientId) = Socket
                        /\ r.nSeq >= mapClientToRxNSeq[r.clientId]

\* The request comes on the client's socket with the number expected next.
Expected(r) == socketFor(r.clientId) = Socket /\ r.nSeq = mapClientToRxNSeq[r.clientId]

advanceRx(c) == mapClientToRxNSeq' = [mapClientToRxNSeq EXCEPT ![c] = @ + 1]

NextRequest ==
    /\ i' = i + RequestPieces
    /\ UNCHANGED <<netVars, clientVars, sockVars, bufVars, mapClientToTxNSeq, pc, pass,
                   turn, recv, tRx, timely, queueVars, ownerVars>>

\* The sequencer keeps the request with its receive time; when its last piece
\* arrived, and where, is history.
pushClientRequest(r) ==
    pendingRequests' = Append(pendingRequests,
        [clientId |-> r.clientId, nSeq |-> r.nSeq, tRx |-> tRx,
         at |-> inboundData[Socket][i + RequestPieces].at, socket |-> Socket])

\* The request passes the checks.
acceptRequest ==
    /\ HasRequest /\ Req.clientId \in Clients /\ Expected(Req)
    /\ Len(pendingRequests) < MAX_PENDING_ORDER_REQUESTS
    /\ recordSocket(Req.clientId)
    /\ advanceRx(Req.clientId)
    /\ pushClientRequest(Req)
    /\ NextRequest

\* A wrong socket or a wrong number: the request is dropped.
dropRequest ==
    /\ HasRequest /\ Req.clientId \in Clients /\ ~Expected(Req)
    /\ recordSocket(Req.clientId)
    /\ NextRequest
    /\ UNCHANGED <<mapClientToRxNSeq, pendingRequests>>

\* A client id past the end of the arrays, or one request more than the
\* sequencer can keep, which is FATAL.
failRequest ==
    /\ HasRequest
    /\ \/ Req.clientId \notin Clients /\ status' = "outOfBounds"
       \/ /\ Req.clientId \in Clients /\ Expected(Req)
          /\ ~(Len(pendingRequests) < MAX_PENDING_ORDER_REQUESTS)
          /\ status' = "fatal"
    /\ UNCHANGED <<netVars, clientVars, sockVars, bufVars, mapVars, pendingRequests, timely,
                   loopVars, queueVars, isRunning, owner>>

\* Mutant: what is left of an incomplete request is thrown away.
remainder_Dropped(data) == <<>>

\* What rxCallback leaves in the buffer.
remainder(data) == SubSeq(data, i + 1, Len(data))

\* The end of sendAndRecv: the buffer is compacted, and what was to be sent
\* is handed to the kernel and forgotten, however much of it was taken.
flush ==
    /\ At("rx") /\ ~(i + RequestPieces <= Len(inboundData[Socket]))
    /\ LET s   == Socket
           out == outboundData[s]
       IN  /\ inboundData' = [inboundData EXCEPT ![s] = remainder(@)]
           /\ outboundData' = [outboundData EXCEPT ![s] = <<>>]
           /\ \E n \in IF PartialSends THEN 0 .. Len(out) ELSE {Len(out)} :
                 /\ delivered' = [delivered EXCEPT ![s] = @ \o SubSeq(out, 1, n)]
                 /\ cut' = [cut EXCEPT ![s] = @ \/ n < Len(out)]
    /\ turn' = turn + 1 /\ pc' = "socket"
    /\ i' = 0 /\ tRx' = 0
    /\ UNCHANGED <<netVars, sockVars, mapVars, pendingRequests, timely, pass, recv, queueVars,
                   ownerVars>>

-----------------------------------------------------------------------------
(* rxDoneCallback and sequenceAndPublish *)

\* Order p of the pending requests keeps those of equal receive time as they
\* were pushed.
Stable(p) ==
    \A j, k \in DOMAIN p :
        j < k /\ pendingRequests[p[j]].tRx = pendingRequests[p[k]].tRx => p[j] < p[k]

\* The orders std::sort may leave the pending requests in.
SortedOrders ==
    LET n == Len(pendingRequests)
    IN  {p \in [1 .. n -> 1 .. n] :
            /\ \A j, k \in 1 .. n : j < k =>
                  p[j] # p[k] /\ pendingRequests[p[j]].tRx <= pendingRequests[p[k]].tRx
            /\ n <= StableLimit => Stable(p)}

sorted(p) == [k \in DOMAIN p |-> pendingRequests[p[k]]]

\* The first pass is over.  If it received anything, the requests that are
\* pending, if any, are sorted and published.
rxDone ==
    /\ At("socket") /\ pass = "receive" /\ turn > Len(PassSockets)
    /\ IF recv /\ pendingRequests # <<>>
       THEN /\ \E p \in SortedOrders : /\ pendingRequests' = sorted(p)
                                       /\ timely' = (timely /\ Stable(p))
            /\ pc' = "publish" /\ UNCHANGED <<pass, turn>>
       ELSE BeginPass("send") /\ UNCHANGED <<pendingRequests, timely>>
    /\ UNCHANGED <<netVars, clientVars, sockVars, bufVars, mapVars, recv, i, tRx,
                   queueVars, ownerVars>>

\* Mutant: one request too many.
canPush_OffByOne == Len(forwarded) - taken <= QueueSize

canPush == Len(forwarded) - taken < QueueSize

\* push into the request queue; nobody looks at what it returns.
publish ==
    /\ At("publish")
    /\ IF canPush
       THEN forwarded' = Append(forwarded, Head(pendingRequests)) /\ UNCHANGED lost
       ELSE lost' = lost \cup {Head(pendingRequests)} /\ UNCHANGED forwarded
    /\ pendingRequests' = Tail(pendingRequests)
    /\ IF pendingRequests' = <<>> THEN BeginPass("send") ELSE UNCHANGED <<pc, pass, turn>>
    /\ UNCHANGED <<netVars, clientVars, sockVars, bufVars, mapVars, timely, recv, i, tRx,
                   taken, responses, answers, ownerVars>>

-----------------------------------------------------------------------------
(* The responses *)

\* sendAndReceive has returned.
Responding == At("socket") /\ pass = "send" /\ turn > Len(PassSockets)

\* Mutant: one numbering for all clients of a socket.
advanceTx_All(c) == mapClientToTxNSeq' = [d \in Clients |-> mapClientToTxNSeq[d] + 1]

advanceTx(c) == mapClientToTxNSeq' = [mapClientToTxNSeq EXCEPT ![c] = @ + 1]

\* TCPSocket::send, which does not ask whether the buffer has room.
send(data, piece) == Append(data, piece)

\* One response is numbered and appended to the outbound data of the client's
\* socket, which must exist; more than the buffer holds is written past its end.
respond ==
    LET c == Head(responses)
        s == mapClientToSocket[c]
        piece(k) == [clientId |-> c, nSeq |-> mapClientToTxNSeq[c], part |-> k]
    IN  /\ Responding /\ responses # <<>>
        /\ IF s = Null \/ Len(outboundData[s]) + 2 > BufferSize
           THEN /\ status' = IF s = Null THEN "assertion" ELSE "outOfBounds"
                /\ UNCHANGED <<outboundData, mapClientToTxNSeq, responses>>
           ELSE /\ outboundData' =
                      [outboundData EXCEPT ![s] = send(send(@, piece(1)), piece(2))]
                /\ advanceTx(c)
                /\ responses' = Tail(responses)
                /\ UNCHANGED status
        /\ UNCHANGED <<netVars, clientVars, sockVars, inboundData, mapClientToSocket,
                       mapClientToRxNSeq, pendingRequests, timely, loopVars, forwarded, taken,
                       lost, answers, isRunning, owner>>

respondDone ==
    /\ Responding /\ responses = <<>>
    /\ pc' = "top" /\ pass' = "receive" /\ turn' = 1 /\ recv' = FALSE
    /\ UNCHANGED <<netVars, clientVars, sockVars, bufVars, mapVars, pendingRequests, timely,
                   i, tRx, queueVars, ownerVars>>

-----------------------------------------------------------------------------
(* Specification *)

run == \/ exit \/ poll \/ recvmsg \/ acceptRequest \/ dropRequest \/ failRequest
       \/ flush \/ rxDone \/ publish \/ respond \/ respondDone

Network == \E s \in Sockets : connect(s) \/ arrive(s)

Owner == start \/ stop \/ join \/ destroy

Next == Network \/ Owner \/ engineTakes \/ engineAnswers \/ run

Spec == Init /\ [][Next]_vars

\* The server thread is scheduled, and join returns once it may.
FairSpec == Spec /\ WF_vars(run) /\ WF_vars(join)

-----------------------------------------------------------------------------
(* Properties *)

NetType ==
    /\ backlog \in Seq(Sockets) /\ kernel \in [Sockets -> Seq(Request)]
    /\ half \in [Sockets -> Request \cup {Null}]
    /\ clock \in 0 .. MaxTime /\ pieces \in 0 .. MaxPieces

SocketType ==
    /\ receiveSockets \in Seq(Sockets) /\ sendSockets \in Seq(Sockets)
    /\ inboundData \in [Sockets -> Seq(Request)]
    /\ outboundData \in [Sockets -> Seq(ResponsePiece)]
    /\ delivered \in [Sockets -> Seq(ResponsePiece)] /\ cut \in [Sockets -> BOOLEAN]

MapType ==
    /\ mapClientToSocket \in [Clients -> Sockets \cup {Null}]
    /\ mapClientToRxNSeq \in [Clients -> Nat] /\ mapClientToTxNSeq \in [Clients -> Nat]
    /\ pendingRequests \in Seq(Pending) /\ timely \in BOOLEAN

QueueType ==
    /\ forwarded \in Seq(Pending) /\ lost \in SUBSET Pending
    /\ responses \in Seq(Clients) /\ Len(responses) <= QueueSize
    /\ taken \in 0 .. Len(forwarded) /\ Len(forwarded) - taken <= QueueSize
    /\ answers \in 0 .. MaxResponses

ThreadType ==
    /\ pc \in {"new", "top", "socket", "rx", "publish", "exited"}
    /\ pass \in {"receive", "send"} /\ turn \in Nat \ {0}
    /\ recv \in BOOLEAN /\ isRunning \in BOOLEAN
    /\ i \in Nat /\ tRx \in 0 .. MaxTime
    /\ owner \in {"new", "started", "joining", "stopped", "destroyed"}
    /\ status \in {"ok", "noListener", "nullptr", "outOfBounds", "fatal", "assertion"}

\* Every variable has its type.
TypeOK == NetType /\ SocketType /\ MapType /\ QueueType /\ ThreadType

\* Wherever receives end, in the stream or at the end of the buffer, the buffer
\* of a socket followed by what the kernel holds is a sequence of whole
\* requests, at most the last one incomplete, and rxCallback's offset is
\* between two of them: no request is ever read from the middle of two, and
\* the buffer never holds more than it can.
Framed ==
    /\ i % RequestPieces = 0
    /\ \A s \in Sockets :
          LET stream == inboundData[s] \o kernel[s]
          IN  Len(inboundData[s]) <= BufferSize /\ \A k \in 1 .. Len(stream) :
                 LET part == ((k - 1) % RequestPieces) + 1
                     r    == stream[k]
                 IN  /\ r.part = part
                     /\ part > 1 => /\ r.clientId = stream[k - 1].clientId
                                    /\ r.nSeq = stream[k - 1].nSeq

\* The sequence numbers of client c in a set of requests.
Numbers(c, requests) == {r.nSeq : r \in {q \in requests : q.clientId = c}}

\* Each request of a client goes to the engine at most once, and every number
\* the gateway has passed is in the queue, pending, or was refused by the full
\* queue, whatever the sort does.  And each client's requests go in the order
\* of their numbers, as long as the receive times tell the order of receipt:
\* the clock was not set back, no data came without a time, and no std::sort
\* exchanged requests of equal time, which it may do beyond StableLimit.
PublishedInOrder ==
    LET list == forwarded \o pendingRequests
    IN  /\ \A j, k \in DOMAIN list :
              j < k /\ list[j].clientId = list[k].clientId =>
                 /\ list[j].nSeq # list[k].nSeq
                 /\ timely => list[j].nSeq < list[k].nSeq
        /\ \A c \in Clients :
              LET passed == Numbers(c, ToSet(list))
                  gone   == Numbers(c, lost)
              IN  /\ passed \cap gone = {}
                  /\ passed \cup gone = 1 .. mapClientToRxNSeq[c] - 1

\* Everything the engine is given in a client's name came over one socket,
\* the one that the client's responses go to.
OneSocketPerClient ==
    \A r \in ToSet(forwarded \o pendingRequests) \cup lost :
        r.socket = mapClientToSocket[r.clientId]

\* The assertion of run holds: every response has a socket to go to.
SocketKnown == status # "assertion"

\* A client's responses are sent on its own socket, numbered in the order in
\* which they came from the engine; as long as the kernel took all that it was
\* given on that socket, the client gets every number from 1, each followed by
\* its body, also when several clients share the socket.
RespondsInOrder ==
    \A s \in Sockets :
        LET stream == delivered[s] \o outboundData[s]
        IN  /\ \A k \in DOMAIN stream :
                  LET p == stream[k]
                      before == {j \in 1 .. k - 1 : stream[j].clientId = p.clientId}
                  IN  /\ mapClientToSocket[p.clientId] = s
                      /\ \A j \in before : 2 * stream[j].nSeq + stream[j].part
                                              < 2 * p.nSeq + p.part
                      /\ ~cut[s] /\ p.part = 2 =>
                            k > 1 /\ stream[k - 1] = [p EXCEPT !.part = 1]
            /\ ~cut[s] => \A c \in Clients : mapClientToSocket[c] = s =>
                  {p.nSeq : p \in {q \in ToSet(stream) : q.clientId = c}}
                      = 1 .. mapClientToTxNSeq[c] - 1

\* A request that rxCallback let through reaches the queue, or is refused by
\* it; none stays with the sequencer, even if the gateway is being stopped.
Forwards ==
    \A c \in Clients, n \in SeqNos :
        mapClientToRxNSeq[c] > n ~>
            \/ status # "ok"
            \/ \E r \in ToSet(forwarded) \cup lost : r.clientId = c /\ r.nSeq = n

\* A response that was taken from the queue leaves the socket's buffer, unless
\* the gateway is stopped in between.
SendsResponses ==
    \A s \in Sockets :
        outboundData[s] # <<>> ~> outboundData[s] = <<>> \/ ~isRunning \/ status # "ok"

\* stop returns.
StopReturns == owner = "joining" ~> owner \in {"stopped", "destroyed"} \/ status # "ok"

\* Requests go to the engine in the order in which they were received, even if
\* only receive times that tell this order are looked at.
ReceiveOrder ==
    timely => \A j, k \in DOMAIN forwarded : j < k => forwarded[j].at <= forwarded[k].at
=============================================================================
