--------------------------- MODULE MatchingEngine ---------------------------
(***************************************************************************)
(* MatchingEngine::MatchingEngine (src/core/matching_engine): the thread   *)
(* that takes requests from the gateway's queue, applies them to the order *)
(* books, and pushes responses and market updates into two further queues. *)
(* The books are those of OrderBook, one in full; the others share nothing *)
(* with it but the queues, and of a request for one of them only the       *)
(* answer to the client is kept.                                           *)
(*                                                                         *)
(* The thread is the only one that touches the books.  What runs besides   *)
(* it is the gateway, which forwards requests, the consumers of the two    *)
(* output queues, and the owner, who starts and stops the thread.  What a  *)
(* request says matters when it is taken, so it is chosen then; how full   *)
(* an output queue is depends on its consumer, so a push may always find   *)
(* it full.                                                                *)
(***************************************************************************)
EXTENDS OrderBook

CONSTANTS
    QueueSize,    \* slots of rxRequests_
    MaxRequests   \* bound on the requests that are forwarded

ASSUME RequestsAssumption == QueueSize \in Nat \ {0} /\ MaxRequests \in Nat

VARIABLES
    forwarded,    \* requests pushed into rxRequests_
    taken,        \* how many of them the engine has popped
    heard,        \* history: the clients they came from
    isRunning,
    thread,       \* "none", "created" (not in the loop yet) or "loop"
    owner,        \* "new", "started", or "joining" in stopMatchingEngine
    view          \* the book of a subscriber that applies every update of this
                  \* ticker; Null once the full queue lost one

engineVars == <<forwarded, taken, heard, isRunning, thread, owner, view>>
allVars    == <<vars, engineVars>>

\* What a request may say.  NONE stands for every other value of its type;
\* "own" is the ticker of the book above, "other" one of another book, and
\* "wild" one past the last book.
ClientRequest ==
    [type : {"NEW", "CANCEL", "NONE"}, tickerId : {"own", "other", "wild"},
     clientId : Clients \cup WildClients, orderId : OrderIds \cup WildOrderIds]

EngineInit ==
    /\ Init
    /\ forwarded = 0 /\ taken = 0 /\ heard = {}
    /\ isRunning = FALSE /\ thread = "none" /\ owner = "new"
    /\ view = {}

-----------------------------------------------------------------------------
(* The gateway and the owner *)

\* The gateway pushes a request that fits into the queue.
forward ==
    /\ status = "ok" /\ forwarded < MaxRequests
    /\ forwarded - taken < QueueSize
    /\ forwarded' = forwarded + 1
    /\ UNCHANGED <<vars, taken, heard, isRunning, thread, owner, view>>

\* It returns as soon as the thread exists.
startMatchingEngine ==
    /\ status = "ok" /\ owner = "new"
    /\ owner' = "started" /\ thread' = "created"
    /\ UNCHANGED <<vars, forwarded, taken, heard, isRunning, view>>

\* request_stop, which the loop does not look at, and then join.  Nothing
\* clears isRunning_, so the loop goes on and join has no step in which it
\* returns.
stopMatchingEngine ==
    /\ status = "ok" /\ owner = "started"
    /\ owner' = "joining"
    /\ UNCHANGED <<vars, forwarded, taken, heard, isRunning, thread, view>>

\* ~MatchingEngine of an engine that was never started: there is no thread to
\* stop, and the books are destroyed.
destroyEngine ==
    /\ owner = "new"
    /\ destroy
    /\ UNCHANGED engineVars

-----------------------------------------------------------------------------
(* The outputs *)

\* The subscriber's book after update u.  A TRADE says nothing about resting
\* orders.
Receive(v, u) == IF v = Null \/ u.type = "TRADE" THEN v ELSE Apply(u, v)

\* Mutant: of several updates only the first is pushed.
publishMarketUpdate_First(us) == view' = IF us = <<>> THEN view ELSE Receive(view, Head(us))

\* The subscriber's book after the updates of a step, of which there are at
\* most two.
ReceiveAll(v, us) ==
    CASE Len(us) = 0 -> v
      [] Len(us) = 1 -> Receive(v, us[1])
      [] OTHER       -> Receive(Receive(v, us[1]), us[2])

\* publishMarketUpdate, for each update of a step: it is pushed, or dropped by
\* the full queue.
publishMarketUpdate(us) ==
    \E full \in SUBSET DOMAIN us :
        view' = IF \E k \in full : us[k].type # "TRADE" THEN Null ELSE ReceiveAll(view, us)

-----------------------------------------------------------------------------
(* handleClientRequest *)

\* Mutant: the client and its order id are passed the wrong way round.
handleNew_Swapped(r) ==
    \E side \in InputSides, price \in Prices, qty \in Qtys :
        addOrder(r.orderId, r.clientId, side, price, qty)

handleNew(r) ==
    \E side \in InputSides, price \in Prices, qty \in Qtys :
        addOrder(r.clientId, r.orderId, side, price, qty)

\* A request for another book, answered to its client.
handleElsewhere(r) ==
    /\ responses' = <<[type |-> "ELSEWHERE", clientId |-> r.clientId]>>
    /\ updates' = <<>>
    /\ UNCHANGED <<bookVars, nextMarketOid, callVars, status>>

\* The type is neither NEW nor CANCEL: a line in the log.
ignore ==
    /\ responses' = <<>> /\ updates' = <<>>
    /\ UNCHANGED <<bookVars, nextMarketOid, callVars, status>>

\* orderBookForTicker_[tickerId] past its end.
readsPastBooks ==
    /\ status' = "outOfBounds"
    /\ responses' = <<>> /\ updates' = <<>>
    /\ UNCHANGED <<bookVars, nextMarketOid, callVars>>

handleClientRequest(r) ==
    \/ r.type = "NONE" /\ ignore
    \/ r.type # "NONE" /\ r.tickerId = "wild" /\ readsPastBooks
    \/ r.type # "NONE" /\ r.tickerId = "other" /\ handleElsewhere(r)
    \/ r.type = "NEW" /\ r.tickerId = "own" /\ handleNew(r)
    \/ r.type = "CANCEL" /\ r.tickerId = "own" /\ cancelOrder(r.clientId, r.orderId)

-----------------------------------------------------------------------------
(* runMatchingEngine *)

\* Mutant: the flag stays as the constructor left it.
storeRunning_Skipped == UNCHANGED isRunning

storeRunning == isRunning' = TRUE

\* The new thread sets isRunning_ itself and enters the loop.
enterLoop ==
    /\ status = "ok" /\ thread = "created"
    /\ storeRunning
    /\ thread' = "loop"
    /\ UNCHANGED <<vars, forwarded, taken, heard, owner, view>>

\* pop, and the request up to its first loop.
takeRequest ==
    /\ status = "ok" /\ thread = "loop" /\ isRunning /\ pc = "idle"
    /\ taken < forwarded
    /\ taken' = taken + 1
    /\ \E r \in ClientRequest :
          /\ heard' = heard \cup {r.clientId}
          /\ handleClientRequest(r)
    /\ publishMarketUpdate(updates')
    /\ UNCHANGED <<forwarded, isRunning, thread, owner>>

\* The rest of addOrder.
continueRequest ==
    /\ Continue
    /\ publishMarketUpdate(updates')
    /\ UNCHANGED <<forwarded, taken, heard, isRunning, thread, owner>>

-----------------------------------------------------------------------------
(* Specification *)

runMatchingEngine == enterLoop \/ takeRequest \/ continueRequest

EngineNext == \/ forward \/ startMatchingEngine \/ stopMatchingEngine
              \/ destroyEngine \/ runMatchingEngine

\* The engine's thread is scheduled.  A fill that could fault may always get by
\* with a word of the stack, so no progress is owed to the fault.
EngineSpec == /\ EngineInit /\ [][EngineNext]_allVars
              /\ WF_allVars(runMatchingEngine /\ status' # "stackRead")

-----------------------------------------------------------------------------
(* Properties *)

\* As long as the queue lost no update, a subscriber that applies all that
\* was published since the start holds exactly the resting orders, over any
\* sequence of requests and in the middle of each.
FeedMatchesBook == view = Null \/ view = BookView

\* Responses go only to clients that the engine has taken a request from:
\* what the gateway needs to know a socket for each of them.
AnswersHeardClients == \A k \in DOMAIN responses : responses[k].clientId \in heard

\* The engine catches up: as long as it is started, not told to stop, and the
\* process lives, it comes time and again to where every request that reached
\* its queue, those from before the thread ran too, is handled to its end.
EveryRequestHandled ==
    []<>(owner = "started" /\ status = "ok" => taken = forwarded /\ pc = "idle")

-----------------------------------------------------------------------------
(* What the documentation says of the engine and the code does not do *)

\* matching_engine.h of stopMatchingEngine: "Stops the matching thread."  Once
\* it is called, the thread's loop finds its condition false and ends, so that
\* the join in stopMatchingEngine can return.
StopEndsLoop == owner = "joining" ~> (thread = "loop" /\ ~isRunning) \/ status # "ok"
=============================================================================
