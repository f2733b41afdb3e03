------------------------ MODULE MatchingEngineProofs ------------------------
(***************************************************************************)
(* What the book publishes is what happens to it, and the engine answers   *)
(* only clients it has heard of: for every request sequence and every      *)
(* value of the constants, up to the step (if any) in which the process    *)
(* goes wrong.                                                             *)
(***************************************************************************)
EXTENDS MatchingEngine, OrderBookProofs

-----------------------------------------------------------------------------
(* The engine *)

\* Every client that the book may still answer was heard of.
OwnersHeard ==
    /\ \A o \in liveOrders : order[o].clientId \in heard
    /\ pc # "idle" => taker.clientId \in heard

EngineInv == IInv /\ FeedInv /\ FeedMatchesBook /\ AnswersHeardClients /\ OwnersHeard

\* A step of the book is one of OrderBook, or it leaves the book alone.
LEMMA EngineStep ==
    ASSUME IInv, EngineNext
    PROVE  \/ Next
           \/ /\ UNCHANGED <<bookVars, nextMarketOid, callVars>>
              /\ status' \in {status, "outOfBounds"}
              /\ updates' \in {updates, <<>>}
  BY DEF EngineNext, runMatchingEngine, takeRequest, handleClientRequest, handleNew, Next,
         ClientRequest, ignore, readsPastBooks, handleElsewhere, continueRequest,
         destroyEngine, enterLoop, forward, startMatchingEngine, stopMatchingEngine, vars, outVars

\* What the engine's thread does to the pointers of the book is what the book
\* allows.
LEMMA EngineKeepsBook ==
    ASSUME IInv, FeedInv, [EngineNext]_allVars PROVE IInv' /\ FeedInv'
<1>1. CASE Next
  BY <1>1, NextIInv, NextFeed DEF FeedKept
<1>2. CASE /\ UNCHANGED <<bookVars, nextMarketOid, callVars>>
           /\ status' \in {status, "outOfBounds"}
           /\ updates' \in {updates, <<>>}
  <2>1. IInv'
    BY <1>2, BookSame, CallSame DEF IInv, CallInv, CallType
  <2>2. FeedInv'
    BY <1>2 DEF FeedInv, IdsGrow, IdsDiffer, SearchSilent, UpdateShape, bookVars,
                orderVars, callVars
  <2> QED BY <2>1, <2>2
<1>3. CASE UNCHANGED allVars
  BY <1>2, <1>3 DEF allVars, vars, outVars
<1> QED BY <1>1, <1>2, <1>3, EngineStep

\* A subscriber that gets all updates of a step, or learns that one was lost,
\* keeps up with the book.
LEMMA PublishKeeps ==
    ASSUME FeedMatchesBook, UpdateShape', FeedStep, publishMarketUpdate(updates')
    PROVE  FeedMatchesBook'
<1>1. view' = Null \/ view' = ReceiveAll(view, updates')
  BY DEF publishMarketUpdate
<1>2. CASE updates' = <<>>
  <2>1. ReceiveAll(view, updates') = view
    BY <1>2 DEF ReceiveAll
  <2> QED BY <1>1, <1>2, <2>1 DEF FeedMatchesBook, FeedStep
<1>3. CASE Len(updates') = 1 /\ updates'[1].type # "TRADE"
  <2>1. ReceiveAll(view, updates') = Receive(view, updates'[1]) /\ updates' # <<>>
    BY <1>3 DEF ReceiveAll
  <2>2. BookView' = Apply(updates'[1], BookView)
    BY <1>3, <2>1 DEF FeedStep
  <2> QED BY <1>1, <1>3, <2>1, <2>2 DEF FeedMatchesBook, Receive
<1>4. CASE Len(updates') = 2 /\ updates'[1].type = "TRADE" /\ updates'[2].type # "TRADE"
  <2>1. /\ ReceiveAll(view, updates') = Receive(Receive(view, updates'[1]), updates'[2])
        /\ updates' # <<>>
    BY <1>4 DEF ReceiveAll
  <2>2. Receive(view, updates'[1]) = view
    BY <1>4 DEF Receive
  <2>3. BookView' = Apply(updates'[2], BookView)
    BY <1>4, <2>1 DEF FeedStep
  <2> QED BY <1>1, <1>4, <2>1, <2>2, <2>3 DEF FeedMatchesBook, Receive
<1> QED BY <1>2, <1>3, <1>4 DEF UpdateShape

\* Who is answered, as an action: whoever is told something in this step, and
\* whoever may be told something later, was heard of.
ClientsHeard == AnswersHeardClients' /\ OwnersHeard'

\* A step that changes no order and answers nobody.
LEMMA SilentHeard ==
    ASSUME OwnersHeard, heard \subseteq heard', UNCHANGED bookVars,
           UNCHANGED <<pc, taker>> \/ (pc # "idle" /\ taker' = taker) \/ pc' = "idle",
           responses' = <<>>
    PROVE  ClientsHeard
<1>1. SameOrders
  BY DEF bookVars, orderVars, SameOrders
<1>2. OwnersHeard'
  BY <1>1 DEF OwnersHeard, SameOrders
<1> QED BY <1>2 DEF ClientsHeard, AnswersHeardClients

\* addOrder accepts, and keeps its client for later.
LEMMA addOrderHeard ==
    ASSUME OwnersHeard, heard \subseteq heard', NEW client \in heard', NEW id, NEW side,
           NEW price, NEW qty, addOrder(client, id, side, price, qty)
    PROVE  ClientsHeard
<1>1. SameOrders /\ taker'.clientId = client
  BY DEF addOrder, bookVars, orderVars, SameOrders
<1>2. OwnersHeard'
  BY <1>1 DEF OwnersHeard, SameOrders
<1>3. \A k \in DOMAIN responses' : responses'[k].clientId = client
  BY <1>1 DEF addOrder, Response
<1> QED BY <1>2, <1>3 DEF ClientsHeard, AnswersHeardClients

\* cancelOrder answers the client that asks, or the owner of the order.
LEMMA cancelOrderHeard ==
    ASSUME IInv, OwnersHeard, heard \subseteq heard', NEW client \in heard',
           client \in Clients \cup WildClients, NEW id \in OrderIds \cup WildOrderIds,
           cancelOrder(client, id)
    PROVE  ClientsHeard
<1> DEFINE o == mapClientIdToOrder[<<client, id>>]
<1>1. UNCHANGED <<pc, taker>>
  BY DEF cancelOrder, callVars
<1>2. \/ UNCHANGED bookVars /\ responses' = <<>>
      \/ Reject(client, id)
      \/ client \in Clients /\ id \in OrderIds /\ Cancel(client, id)
  <2>1. CASE client \in WildClients
    BY <2>1, RangeAssumption DEF cancelOrder
  <2>2. CASE client \in Clients /\ id \in WildOrderIds
    BY <2>2, RangeAssumption DEF cancelOrder, CancelThrows
  <2>3. CASE client \in Clients /\ id \in OrderIds
    BY <2>3, RangeAssumption DEF cancelOrder
  <2> QED BY <2>1, <2>2, <2>3
<1>3. CASE UNCHANGED bookVars /\ responses' = <<>>
  BY <1>1, <1>3, SilentHeard
<1>4. CASE Reject(client, id)
  <2>1. SameOrders /\ \A k \in DOMAIN responses' : responses'[k].clientId = client
    BY <1>4 DEF Reject, Rejection, bookVars, orderVars, SameOrders
  <2> QED BY <1>1, <2>1 DEF ClientsHeard, AnswersHeardClients, OwnersHeard, SameOrders
<1>5. CASE client \in Clients /\ id \in OrderIds /\ Cancel(client, id)
  <2>1. o \in liveOrders
    BY <1>5 DEF Cancel, IInv, BookInv, ClientMapSound
  <2>2. OrderGone(o)
    BY <1>5, <2>1, RemoveOrders DEF Cancel, OrderGone
  <2>3. \A k \in DOMAIN responses' : responses'[k].clientId = order[o].clientId
    BY <1>5 DEF Cancel, Response
  <2> QED BY <1>1, <2>1, <2>2, <2>3
          DEF ClientsHeard, AnswersHeardClients, OwnersHeard, OrderGone
<1> QED BY <1>2, <1>3, <1>4, <1>5

\* A trade is told to both its sides.
LEMMA matchOrderHeard ==
    ASSUME IInv, OwnersHeard, heard \subseteq heard', matchOrder PROVE ClientsHeard
<1> DEFINE o == Candidate
           left == order[o].qty - min(taker.qty, order[o].qty)
<1>1. o \in liveOrders /\ order[o] \in Order /\ o \in OrderPtr
  BY LiveOrder DEF matchOrder, Crosses, Candidate, IInv, BookInv, LevelRings
<1>2. OrderGone(o) \/ OrderFilled(o, left)
  <2>1. CASE left = 0
    BY <1>1, <2>1, RemoveOrders DEF matchOrder, OrderGone
  <2>2. CASE left # 0
    BY <1>1, <2>2 DEF matchOrder, OrderFilled, IInv, BookInv, BookType
  <2> QED BY <2>1, <2>2
<1>3. pc = "match" /\ pc' = pc /\ taker'.clientId = taker.clientId
  BY DEF matchOrder, IInv, CallInv, CallType, Taker
<1>4. \A k \in DOMAIN responses' :
         responses'[k].clientId \in {taker.clientId, order[o].clientId}
  BY DEF matchOrder, Response
<1> HIDE DEF o, left
<1>5. \A x \in liveOrders' : x \in liveOrders /\ order'[x].clientId = order[x].clientId
  BY <1>1, <1>2 DEF OrderGone, OrderFilled, Order
<1> QED BY <1>1, <1>3, <1>4, <1>5 DEF ClientsHeard, AnswersHeardClients, OwnersHeard

\* An order that rests is its client's.
LEMMA PlaceHeard ==
    ASSUME IInv, OwnersHeard, heard \subseteq heard', pc # "idle",
           NEW o \in OrderPtr \ liveOrders, Place(o)
    PROVE  ClientsHeard
<1>1. OrderRests(o)
  BY DEF Place, OrderRests, IInv, BookInv, BookType
<1>2. Resting.clientId = taker.clientId /\ pc' = "idle" /\ responses' = <<>>
  BY DEF Place, Return, Resting
<1> QED BY <1>1, <1>2 DEF ClientsHeard, AnswersHeardClients, OwnersHeard, OrderRests

\* The rest of an addOrder call.
LEMMA ContinueHeard ==
    ASSUME IInv, OwnersHeard, AnswersHeardClients, heard' = heard, Continue
    PROVE  ClientsHeard
<1>1. CASE matchOrder
  BY <1>1, matchOrderHeard
<1>2. CASE Discard \/ BeginSeek
  BY <1>2, SilentHeard DEF Discard, BeginSeek, NeedsLevel, CanRest, Matched, Return
<1>3. CASE SeekNext
  <2>1. SameOrders /\ UNCHANGED <<pc, taker, responses>>
    BY <1>3 DEF SeekNext, bookVars, orderVars, outVars, SameOrders
  <2> QED BY <2>1 DEF ClientsHeard, AnswersHeardClients, OwnersHeard, SameOrders
<1>4. CASE Rests
  BY <1>4, RestsPlaces, PlaceHeard
<1>5. CASE Fault
  BY <1>5, SilentHeard DEF Fault, Crash, callVars
<1> QED BY <1>1, <1>2, <1>3, <1>4, <1>5 DEF Continue, Rests

\* A step that does not concern the book.
LEMMA AsideKeeps ==
    ASSUME EngineInv, UNCHANGED <<bookVars, nextMarketOid, callVars, heard, view>>,
           responses' \in {responses, <<>>}, updates' \in {updates, <<>>}
    PROVE  FeedMatchesBook' /\ AnswersHeardClients' /\ OwnersHeard'
<1>1. SameOrders /\ UNCHANGED <<pc, taker>>
  BY DEF bookVars, orderVars, callVars, SameOrders
<1>2. FeedMatchesBook'
  BY <1>1, ViewSame DEF EngineInv, FeedMatchesBook
<1>3. AnswersHeardClients' /\ OwnersHeard'
  BY <1>1 DEF EngineInv, AnswersHeardClients, OwnersHeard, SameOrders
<1> QED BY <1>2, <1>3

\* A request is taken from the queue, and handled up to its first loop.
LEMMA takeRequestKeeps == ASSUME EngineInv, takeRequest PROVE EngineInv'
<1>1. PICK r \in ClientRequest : heard' = heard \cup {r.clientId} /\ handleClientRequest(r)
  BY DEF takeRequest
<1>2. publishMarketUpdate(updates')
  BY DEF takeRequest
<1>3. /\ r.clientId \in heard' /\ heard \subseteq heard'
      /\ r.clientId \in Clients \cup WildClients /\ r.orderId \in OrderIds \cup WildOrderIds
  BY <1>1 DEF ClientRequest
<1>4. IInv' /\ FeedInv'
  BY EngineKeepsBook DEF EngineInv, EngineNext, runMatchingEngine
<1>5. FeedStep /\ ClientsHeard
  <2>1. CASE handleNew(r)
    <3>1. PICK side \in InputSides, price \in Prices, qty \in Qtys :
                addOrder(r.clientId, r.orderId, side, price, qty)
      BY <2>1 DEF handleNew
    <3> QED BY <1>3, <3>1, addOrderFeed, addOrderHeard DEF EngineInv, FeedKept
  <2>2. CASE cancelOrder(r.clientId, r.orderId)
    BY <1>3, <2>2, cancelOrderFeed, cancelOrderHeard DEF EngineInv, FeedKept
  <2>3. CASE handleElsewhere(r)
    <3>1. SameOrders /\ UNCHANGED <<pc, taker>> /\ updates' = <<>>
      BY <2>3 DEF handleElsewhere, bookVars, orderVars, callVars, SameOrders
    <3>2. \A k \in DOMAIN responses' : responses'[k].clientId = r.clientId
      BY <2>3 DEF handleElsewhere
    <3>3. FeedStep
      BY <3>1, ViewSame DEF FeedStep
    <3> QED BY <1>3, <3>1, <3>2, <3>3
            DEF EngineInv, ClientsHeard, AnswersHeardClients, OwnersHeard, SameOrders
  <2>4. CASE ignore \/ readsPastBooks
    <3>1. /\ SameOrders /\ UNCHANGED bookVars /\ UNCHANGED <<pc, taker>>
          /\ updates' = <<>> /\ responses' = <<>>
      BY <2>4 DEF ignore, readsPastBooks, bookVars, orderVars, callVars, SameOrders
    <3> QED BY <1>3, <3>1, ViewSame, SilentHeard DEF FeedStep, EngineInv
  <2> QED BY <1>1, <2>1, <2>2, <2>3, <2>4 DEF handleClientRequest
<1>6. FeedMatchesBook'
  BY <1>2, <1>4, <1>5, PublishKeeps DEF EngineInv, FeedInv
<1> QED BY <1>4, <1>5, <1>6 DEF EngineInv, ClientsHeard

\* Every step of the engine, of its owner and of the gateway.
LEMMA EngineNextInv == ASSUME EngineInv, [EngineNext]_allVars PROVE EngineInv'
<1>1. IInv' /\ FeedInv'
  BY EngineKeepsBook DEF EngineInv
<1>2. CASE takeRequest
  BY <1>2, takeRequestKeeps
<1>3. CASE continueRequest
  <2>1. Continue /\ publishMarketUpdate(updates') /\ heard' = heard
    BY <1>3 DEF continueRequest
  <2>2. FeedStep
    BY <2>1, ContinueFeed DEF EngineInv, FeedKept
  <2>3. ClientsHeard
    BY <2>1, ContinueHeard DEF EngineInv
  <2>4. FeedMatchesBook'
    BY <1>1, <2>1, <2>2, PublishKeeps DEF EngineInv, FeedInv
  <2> QED BY <1>1, <2>3, <2>4 DEF EngineInv, ClientsHeard
<1>4. CASE forward \/ startMatchingEngine \/ stopMatchingEngine \/ enterLoop
           \/ destroyEngine \/ UNCHANGED allVars
  <2>1. /\ UNCHANGED <<bookVars, nextMarketOid, callVars, heard, view>>
        /\ responses' \in {responses, <<>>} /\ updates' \in {updates, <<>>}
    BY <1>4 DEF forward, startMatchingEngine, stopMatchingEngine, enterLoop, destroyEngine,
                destroy, Crash, engineVars, allVars, vars, outVars
  <2> QED BY <1>1, <2>1, AsideKeeps DEF EngineInv
<1> QED BY <1>2, <1>3, <1>4 DEF EngineNext, runMatchingEngine

\* The engine's invariant.
THEOREM EngineInvariance == EngineSpec => []EngineInv
<1>1. EngineInit => EngineInv
  BY InitIInv, InitFeed
     DEF EngineInit, Init, EngineInv, FeedMatchesBook, BookView, AnswersHeardClients,
         OwnersHeard
<1>2. EngineInv /\ [EngineNext]_allVars => EngineInv'
  BY EngineNextInv
<1> QED BY <1>1, <1>2, PTL DEF EngineSpec

\* A subscriber that applies every update publishMarketUpdate pushed, and lost
\* none to a full queue, holds exactly the resting orders of the book, at any
\* time and after any requests.
THEOREM SubscribersFollow == EngineSpec => []FeedMatchesBook
<1>1. EngineInv => FeedMatchesBook
  BY DEF EngineInv
<1> QED BY <1>1, EngineInvariance, PTL

\* dispatchClientResponse is only ever called for a client that the engine has
\* taken a request from, which is what the gateway's assertion relies on.
THEOREM AnswersOnlyHeard == EngineSpec => []AnswersHeardClients
<1>1. EngineInv => AnswersHeardClients
  BY DEF EngineInv
<1> QED BY <1>1, EngineInvariance, PTL
=============================================================================
