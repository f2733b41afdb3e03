------------------------------ MODULE OrderBook ------------------------------
(***************************************************************************)
(* The limit order book of one ticker                                      *)
(* (src/core/matching_engine/order_book.{h,cpp}), at the level of its      *)
(* pointers: orders are nodes of one circular list per price level, price  *)
(* levels are nodes of one circular list per side, and two arrays map a    *)
(* price index to a level and a (client, client order id) to an order.     *)
(*                                                                         *)
(* The book is owned by the matching-engine thread, so a request runs to   *)
(* its end before the next one starts.  addOrder contains two loops        *)
(* (findMatch and the search of addPriceLevel); each iteration is a step,  *)
(* and pc says which loop the call in progress is in.                      *)
(*                                                                         *)
(* The two memory pools are taken at the interface PoolSpec, which         *)
(* MemoryPool implements: allocate returns some free block, or nullptr if  *)
(* there is none.                                                          *)
(***************************************************************************)
EXTENDS Integers, Sequences, FiniteSets, SortedRing

CONSTANTS
    OrderPtr,         \* the blocks of orderPool_ (MAX_ORDER_IDS of them)
    LevelPtr,         \* the blocks of ordersAtPricePool_
    Null,             \* nullptr
    MAX_PRICE_LEVELS, \* length of mapPriceToPriceLevel_
    Clients,          \* client ids below MAX_N_CLIENTS
    WildClients,      \* client ids a request may carry that are not
    OrderIds,         \* client order ids below MAX_ORDER_IDS
    WildOrderIds,     \* client order ids a request may carry that are not
    InputSides,       \* the sides a request may carry
    Prices,           \* the prices a request may carry
    Qtys,             \* the quantities a request may carry
    StackWords,       \* what an out-of-bounds read of a Qty may return
    UniqueIds,        \* TRUE: no client reuses the id of a resting order
    AnyBlock,         \* TRUE: a pool may return any of its free blocks
    DeepTails,        \* FALSE: no request opens a worst level behind two others
    MaxMarketOid      \* bound on the number of addOrder calls

ASSUME PointerAssumption == Null \notin OrderPtr \cup LevelPtr
ASSUME IndexAssumption   == MAX_PRICE_LEVELS \in Nat \ {0}
ASSUME PoolAssumption    == /\ IsFiniteSet(LevelPtr)
                            /\ Cardinality(LevelPtr) = MAX_PRICE_LEVELS
ASSUME PriceAssumption   == Prices \subseteq Int
ASSUME QtyAssumption     == Qtys \subseteq Nat /\ StackWords \subseteq Nat
ASSUME SideAssumption    == InputSides \subseteq {"BUY", "SELL", "INVALID"}
ASSUME RangeAssumption   == /\ Clients \cap WildClients = {}
                            /\ OrderIds \cap WildOrderIds = {}
ASSUME EnvAssumption     == {UniqueIds, DeepTails, AnyBlock} \subseteq BOOLEAN
ASSUME BoundAssumption   == MaxMarketOid \in Nat

VARIABLES
    liveOrders,           \* blocks of orderPool_ in use
    order,                \* their Order fields, links excepted
    onext, oprev,         \* Order::next_, Order::prev_
    liveLevels,           \* blocks of ordersAtPricePool_ in use
    level,                \* OrdersAtPrice::side_ and price_
    order0,               \* OrdersAtPrice::order0_
    lnext, lprev,         \* OrdersAtPrice::next_, OrdersAtPrice::prev_
    best,                 \* bidsByPrice_ and asksByPrice_
    mapPriceToPriceLevel,
    mapClientIdToOrder,
    nextMarketOid,
    pc,                   \* "idle", "match" (findMatch) or "seek" (addPriceLevel)
    taker,                \* the arguments of the addOrder call in progress
    target,               \* addPriceLevel's cursor
    responses, updates,   \* what the last step dispatched and published
    status                \* "ok", or how the process went wrong

orderVars == <<liveOrders, order, onext, oprev>>
levelVars == <<liveLevels, level, lnext, lprev, best, mapPriceToPriceLevel>>
callVars  == <<pc, taker, target>>
outVars   == <<responses, updates>>
bookVars  == <<orderVars, levelVars, order0, mapClientIdToOrder>>
vars      == <<bookVars, nextMarketOid, callVars, outVars, status>>

-----------------------------------------------------------------------------
(* Data *)

Side == {"BUY", "SELL", "INVALID"}

Order == [clientId : Clients, clientOrderId : OrderIds, marketOrderId : Nat,
          side : Side, price : Int, qty : Nat, priority : Nat]

OrdersAtPrice == [side : Side, price : Int]

\* addOrder's arguments, the market order id it drew, and (history) what it
\* has traded so far.
Taker == [clientId : Clients \cup WildClients,
          clientOrderId : OrderIds \cup WildOrderIds, marketOrderId : Nat,
          side : Side, price : Int, qty : Nat, filled : Nat]

\* The code computes the remainder in an unsigned type whose range is a
\* multiple of MAX_PRICE_LEVELS, so it is never negative.
priceToIndex(price) == price % MAX_PRICE_LEVELS

Index == 0 .. MAX_PRICE_LEVELS - 1

getLevelForPrice(price) == mapPriceToPriceLevel[priceToIndex(price)]

\* Everything but BUY is kept with the asks.
BookOf(side) == IF side = "BUY" THEN "bids" ELSE "asks"

\* The side findMatch trades against; an INVALID side trades with nobody.
Opposite(side) == IF side = "BUY" THEN "asks" ELSE "bids"

\* shouldAddAfter of addPriceLevel.
ShouldAddAfter(side, price, other) ==
    IF side = "SELL" THEN price > other ELSE price < other

\* Mutant: only a new bid can become the best level.
BecomesBest_BuyOnly(side, price, other) == side = "BUY" /\ price > other

\* A new level before the best one becomes the best one.
BecomesBest(side, price, other) ==
    \/ side = "BUY" /\ price > other
    \/ side = "SELL" /\ price < other

\* Mutant: an order at the very price of the best level does not trade.
Reaches_Strict(side, price, other) ==
    IF side = "BUY" THEN price > other ELSE price < other

\* Mutant: only bids trade on arrival.
Reaches_BuyOnly(side, price, other) == side = "BUY" /\ price >= other

\* findMatch does not break: the price reaches the opposite order's.
Reaches(side, price, other) ==
    IF side = "BUY" THEN price >= other ELSE price <= other

\* The blocks MemoryPool::allocate may return when those in free are free.
allocate(free) == IF AnyBlock THEN free ELSE {CHOOSE b \in free : TRUE}

min(a, b) == IF b < a THEN b ELSE a

\* Mutant: priorities count down.
getNextPriority_Descending(price) ==
    LET l == getLevelForPrice(price)
    IN  IF l = Null THEN 1 ELSE order[oprev[order0[l]]].priority - 1

getNextPriority(price) ==
    LET l == getLevelForPrice(price)
    IN  IF l = Null THEN 1 ELSE order[oprev[order0[l]]].priority + 1

-----------------------------------------------------------------------------
(* Messages, without the ticker id (there is one ticker).                    *)

INVALID == -1   \* Qty_INVALID and Priority_INVALID

Response(type, o, price, execQty, leavesQty) ==
    [type |-> type, clientId |-> o.clientId, clientOrderId |-> o.clientOrderId,
     marketOrderId |-> o.marketOrderId, side |-> o.side, price |-> price,
     execQty |-> execQty, leavesQty |-> leavesQty]

Rejection(client, id) ==
    [type |-> "CANCEL_REJECTED", clientId |-> client, clientOrderId |-> id]

MarketUpdate(type, o, qty, priority) ==
    [type |-> type, marketOrderId |-> o.marketOrderId, side |-> o.side,
     price |-> o.price, qty |-> qty, priority |-> priority]

\* Mutant: the price of the request is published, not the one traded at.
Trade_TakerPrice(side, price, qty) ==
    [type |-> "TRADE", side |-> side, price |-> taker.price, qty |-> qty]

Trade(side, price, qty) ==
    [type |-> "TRADE", side |-> side, price |-> price, qty |-> qty]

-----------------------------------------------------------------------------
(* Removal *)

\* Mutant: the best pointer stays on the removed level.
newBest_Stays(b, l) == IF lnext[l] = l THEN Null ELSE best[b]

\* Mutant: the best pointer moves the wrong way.
newBest_Backwards(b, l) ==
    IF lnext[l] = l THEN Null ELSE IF best[b] = l THEN lprev[l] ELSE best[b]

\* The best pointer of book b once level l is unlinked.
newBest(b, l) ==
    IF lnext[l] = l THEN Null ELSE IF best[b] = l THEN lnext[l] ELSE best[b]

\* Mutant: the price map keeps the freed level.
clearPriceCell_Keeps(price) == UNCHANGED mapPriceToPriceLevel

clearPriceCell(price) ==
    mapPriceToPriceLevel' = [mapPriceToPriceLevel EXCEPT ![priceToIndex(price)] = Null]

\* Mutant: the level's block is never given back.
deallocateLevel_Leaks(l) == UNCHANGED liveLevels

deallocateLevel(l) == liveLevels' = liveLevels \ {l}

unlinkLevel(l) ==
    /\ lnext' = [lnext EXCEPT ![lprev[l]] = lnext[l], ![l] = Null]
    /\ lprev' = [lprev EXCEPT ![lnext[l]] = lprev[l], ![l] = Null]

\* removePriceLevel: unlink the level its price indexes and free it.  The
\* best pointer that moves is the one of the ORDER's side.
removePriceLevel(side, price) ==
    LET l == getLevelForPrice(price)
    IN  /\ best' = [best EXCEPT ![BookOf(side)] = newBest(BookOf(side), l)]
        /\ unlinkLevel(l)
        /\ clearPriceCell(price)
        /\ deallocateLevel(l)
        /\ level' = [level EXCEPT ![l] = Null]
        /\ order0' = [order0 EXCEPT ![l] = Null]

\* Mutant: the level keeps the removed order as its first.
newFirst_Stays(l, o) == order0[l]

\* The first order of level l once order o is unlinked.
newFirst(l, o) == IF order0[l] = o THEN onext[o] ELSE order0[l]

\* Mutant: the client map keeps the freed order.
clearClientCell_Keeps(o) == UNCHANGED mapClientIdToOrder

clearClientCell(o) ==
    mapClientIdToOrder' = [mapClientIdToOrder EXCEPT
                              ![<<order[o].clientId, order[o].clientOrderId>>] = Null]

removeOrderFromBook(o) ==
    LET l == getLevelForPrice(order[o].price)
    IN  /\ IF oprev[o] = o
           THEN removePriceLevel(order[o].side, order[o].price)
           ELSE /\ order0' = [order0 EXCEPT ![l] = newFirst(l, o)]
                /\ UNCHANGED levelVars
        /\ onext' = [onext EXCEPT ![oprev[o]] = onext[o], ![o] = Null]
        /\ oprev' = [oprev EXCEPT ![onext[o]] = oprev[o], ![o] = Null]
        /\ clearClientCell(o)
        /\ liveOrders' = liveOrders \ {o}
        /\ order' = [order EXCEPT ![o] = Null]

-----------------------------------------------------------------------------
(* addOrder *)

\* What the environment constants rule out, if anything.
AdmissibleId(client, id) ==
    UniqueIds => ~\E o \in liveOrders : /\ order[o].clientId = client
                                        /\ order[o].clientOrderId = id

AdmissiblePrice(side, price) ==
    LET b == best[BookOf(side)]
    IN  ~DeepTails /\ b # Null /\ lnext[b] # b =>
            \E l \in liveLevels : /\ BookOf(level[l].side) = BookOf(side)
                                  /\ ~ShouldAddAfter(side, price, level[l].price)

addOrder(client, id, side, price, qty) ==
    /\ status = "ok" /\ pc = "idle"
    /\ nextMarketOid <= MaxMarketOid
    /\ AdmissibleId(client, id) /\ AdmissiblePrice(side, price)
    /\ nextMarketOid' = nextMarketOid + 1
    /\ taker' = [clientId |-> client, clientOrderId |-> id,
                 marketOrderId |-> nextMarketOid, side |-> side,
                 price |-> price, qty |-> qty, filled |-> 0]
    /\ pc' = "match"
    /\ responses' = <<Response("ACCEPTED", taker', price, 0, qty)>>
    /\ updates' = <<>>
    /\ UNCHANGED <<bookVars, target, status>>

\* Mutant: the loop of findMatch does not look at the remaining quantity.
SeesOpposite_AnyQty == taker.side \in {"BUY", "SELL"} /\ best[Opposite(taker.side)] # Null

\* findMatch looks at the opposite side at all.
SeesOpposite == /\ taker.side \in {"BUY", "SELL"} /\ taker.qty # 0
                /\ best[Opposite(taker.side)] # Null

\* The order findMatch compares the taker with: the first of the best level.
Candidate == order0[best[Opposite(taker.side)]]

\* The loop condition of findMatch holds and its break is not taken.
Crosses == /\ SeesOpposite
           /\ best[Opposite(taker.side)] \in liveLevels
           /\ Reaches(taker.side, taker.price, order[Candidate].price)

\* One iteration of findMatch's loop.  matchOrder decrements its own copy of
\* the POINTER to the remaining quantity: the caller's quantity stays what
\* it was, and the quantity reported as left is read out of bounds.  That
\* read finds some word of the stack, here, or faults (ReadsOffStack).
matchOrder ==
    LET o    == Candidate
        fill == min(taker.qty, order[o].qty)
        left == order[o].qty - fill
    IN  /\ status = "ok" /\ pc = "match" /\ Crosses
        /\ \E word \in StackWords :
              responses' = <<Response("FILLED", taker, order[o].price, fill, word),
                             Response("FILLED", order[o], order[o].price, fill, left)>>
        /\ updates' = <<Trade(taker.side, order[o].price, fill),
                        IF left = 0
                        THEN MarketUpdate("CANCEL", order[o], fill, INVALID)
                        ELSE MarketUpdate("MODIFY", order[o], left, order[o].priority)>>
        /\ IF left = 0
           THEN removeOrderFromBook(o)
           ELSE /\ order' = [order EXCEPT ![o].qty = left]
                /\ UNCHANGED <<liveOrders, onext, oprev, levelVars, order0,
                               mapClientIdToOrder>>
        /\ taker' = [taker EXCEPT !.filled = @ + fill]
        /\ UNCHANGED <<nextMarketOid, pc, target, status>>

\* findMatch has returned.
Matched == /\ status = "ok" /\ pc = "match" /\ ~Crosses
           /\ SeesOpposite => best[Opposite(taker.side)] \in liveLevels

Return == pc' = "idle" /\ taker' = Null /\ target' = Null

\* Nothing to rest: a request for zero.
Discard ==
    /\ Matched /\ taker.qty = 0
    /\ Return
    /\ responses' = <<>> /\ updates' = <<>>
    /\ UNCHANGED <<bookVars, nextMarketOid, status>>

\* The pools have the blocks that resting the taker needs.
HasBlocks == /\ liveOrders # OrderPtr
             /\ getLevelForPrice(taker.price) = Null => liveLevels # LevelPtr

\* The client map has a cell for the taker.
HasCell == taker.clientId \in Clients /\ taker.clientOrderId \in OrderIds

CanRest == Matched /\ taker.qty # 0 /\ HasBlocks /\ HasCell

\* The order that allocate constructs.
Resting == [clientId |-> taker.clientId, clientOrderId |-> taker.clientOrderId,
            marketOrderId |-> taker.marketOrderId, side |-> taker.side,
            price |-> taker.price, qty |-> taker.qty,
            priority |-> getNextPriority(taker.price)]

\* Mutant: the order is not entered in the client map.
setClientCell_Skipped(o) == UNCHANGED mapClientIdToOrder

setClientCell(o) ==
    mapClientIdToOrder' =
        [mapClientIdToOrder EXCEPT ![<<taker.clientId, taker.clientOrderId>>] = o]

\* The effects of resting that do not depend on where the order goes.
Place(o) ==
    /\ liveOrders' = liveOrders \cup {o}
    /\ order' = [order EXCEPT ![o] = Resting]
    /\ setClientCell(o)
    /\ updates' = <<MarketUpdate("ADD", Resting, taker.qty, Resting.priority)>>
    /\ responses' = <<>>
    /\ Return
    /\ UNCHANGED <<nextMarketOid, status>>

\* addOrderToBook, existing level: append before order0_.
AppendToLevel ==
    LET l     == getLevelForPrice(taker.price)
        first == order0[l]
        last  == oprev[first]
    IN  /\ CanRest /\ l # Null
        /\ \E o \in allocate(OrderPtr \ liveOrders) :
              /\ Place(o)
              /\ onext' = [onext EXCEPT ![o] = first, ![last] = o]
              /\ oprev' = [oprev EXCEPT ![o] = last, ![first] = o]
        /\ UNCHANGED <<levelVars, order0>>

\* addOrderToBook, new level l holding only order o.
NewLevel(o, l) ==
    /\ Place(o)
    /\ onext' = [onext EXCEPT ![o] = o]
    /\ oprev' = [oprev EXCEPT ![o] = o]
    /\ liveLevels' = liveLevels \cup {l}
    /\ level' = [level EXCEPT ![l] = [side |-> taker.side, price |-> taker.price]]
    /\ order0' = [order0 EXCEPT ![l] = o]
    /\ mapPriceToPriceLevel' =
          [mapPriceToPriceLevel EXCEPT ![priceToIndex(taker.price)] = l]

\* The side's best level, seen from the call in progress.
Best == best[BookOf(taker.side)]

\* Mutant: a level is opened for a price whose index has one.
NeedsLevel_Always == CanRest

NeedsLevel == CanRest /\ getLevelForPrice(taker.price) = Null

\* addPriceLevel on an empty side.
OpenSide ==
    /\ NeedsLevel /\ Best = Null
    /\ \E o \in allocate(OrderPtr \ liveOrders),
         l \in allocate(LevelPtr \ liveLevels) :
          /\ NewLevel(o, l)
          /\ lnext' = [lnext EXCEPT ![l] = l]
          /\ lprev' = [lprev EXCEPT ![l] = l]
          /\ best' = [best EXCEPT ![BookOf(taker.side)] = l]

\* The new level goes after the level t.
After(t) == ShouldAddAfter(taker.side, taker.price, level[t].price)

\* addPriceLevel's search starts at the best level, or at the one after it.
\* The search only reads the list; the writes made before it are part of the
\* step that inserts.
BeginSeek ==
    /\ NeedsLevel /\ Best \in liveLevels
    /\ target' = IF After(Best) THEN lnext[Best] ELSE Best
    /\ pc' = "seek"
    /\ responses' = <<>> /\ updates' = <<>>
    /\ UNCHANGED <<bookVars, nextMarketOid, taker, status>>

Seeking == status = "ok" /\ pc = "seek"

\* One more iteration of the search.
SeekNext ==
    /\ Seeking /\ After(target) /\ target # Best
    /\ target' = lnext[target]
    /\ UNCHANGED <<bookVars, nextMarketOid, pc, taker, outVars, status>>

\* The search came back to the best level: the new level is linked after it.
InsertAfter ==
    /\ Seeking /\ After(target) /\ target = Best
    /\ \E o \in allocate(OrderPtr \ liveOrders),
         l \in allocate(LevelPtr \ liveLevels) :
          /\ NewLevel(o, l)
          /\ lprev' = [lprev EXCEPT ![l] = target, ![lnext[target]] = l]
          /\ lnext' = [lnext EXCEPT ![l] = lnext[target], ![target] = l]
    /\ UNCHANGED best

InsertBefore ==
    /\ Seeking /\ ~After(target)
    /\ \E o \in allocate(OrderPtr \ liveOrders),
         l \in allocate(LevelPtr \ liveLevels) :
          /\ NewLevel(o, l)
          /\ lnext' = [lnext EXCEPT ![l] = target, ![lprev[target]] = l]
          /\ lprev' = [lprev EXCEPT ![l] = lprev[target], ![target] = l]
          /\ best' = [best EXCEPT ![BookOf(taker.side)] =
                         IF BecomesBest(taker.side, taker.price, level[@].price)
                         THEN l ELSE @]

-----------------------------------------------------------------------------
(* cancelOrder *)

Cancel(client, id) ==
    LET o == mapClientIdToOrder[<<client, id>>]
    IN  /\ o # Null
        /\ responses' = <<Response("CANCELLED", order[o], order[o].price,
                                   INVALID, order[o].qty)>>
        /\ updates' = <<MarketUpdate("CANCEL", order[o], 0, order[o].priority)>>
        /\ removeOrderFromBook(o)
        /\ UNCHANGED status

Reject(client, id) ==
    /\ responses' = <<Rejection(client, id)>>
    /\ updates' = <<>>
    /\ UNCHANGED <<bookVars, status>>

\* An order id out of range: at() throws in a noexcept function.
CancelThrows ==
    /\ status' = "outOfRange"
    /\ responses' = <<>> /\ updates' = <<>>
    /\ UNCHANGED bookVars

cancelOrder(client, id) ==
    /\ status = "ok" /\ pc = "idle"
    /\ CASE client \in WildClients -> Reject(client, id)
         [] client \in Clients /\ id \in WildOrderIds -> CancelThrows
         [] OTHER -> \/ Cancel(client, id)
                     \/ /\ mapClientIdToOrder[<<client, id>>] = Null
                        /\ Reject(client, id)
    /\ UNCHANGED <<nextMarketOid, callVars>>

-----------------------------------------------------------------------------
(* How the process goes wrong.  These are the ends of a behaviour: nothing   *)
(* is claimed of what the code does after it used a bad pointer.             *)

Crash(how) ==
    /\ status' = how
    /\ responses' = <<>> /\ updates' = <<>>
    /\ UNCHANGED <<bookVars, nextMarketOid, callVars>>

\* The other outcome of matchOrder's read: the pointer, moved by as many words
\* as the fill has units, has left the mapped stack.  Any fill can end so,
\* before it has dispatched anything.
ReadsOffStack == status = "ok" /\ pc = "match" /\ Crosses

\* A best pointer that findMatch or addPriceLevel follows has been freed.
FollowsDangling ==
    /\ status = "ok" /\ pc = "match"
    /\ IF Matched THEN NeedsLevel /\ Best \notin liveLevels \cup {Null}
                  ELSE ~Crosses

\* allocate returned nullptr and its caller follows it.
FollowsNull == Matched /\ taker.qty # 0 /\ ~HasBlocks

\* addOrderToBook writes outside the client map.
WritesOutOfBounds == Matched /\ taker.qty # 0 /\ HasBlocks /\ ~HasCell

GoesWrong(how) == \/ how = "stackRead" /\ ReadsOffStack
                  \/ how = "dangling" /\ FollowsDangling
                  \/ how = "nullptr" /\ FollowsNull
                  \/ how = "outOfBounds" /\ WritesOutOfBounds

\* addOrder, or a function it calls, uses a bad pointer.
Fault == \E how \in {"stackRead", "dangling", "nullptr", "outOfBounds"} :
            GoesWrong(how) /\ Crash(how)

-----------------------------------------------------------------------------
(* ~OrderBook: toString(false, true) walks both sides from their best level  *)
(* and throws when the prices are not strictly monotone, which a destructor  *)
(* turns into std::terminate.                                                *)

\* The levels toString visits, starting at level b and following the next
\* pointers of levels in use: the least set that these do not leave.
Walk(b) ==
    {l \in LevelPtr :
        \A visited \in SUBSET LevelPtr :
            b \in visited /\ (\A x \in visited \cap liveLevels : lnext[x] \in visited)
               => l \in visited}

\* The validity check on one side.
PrintsSorted(book) ==
    best[book] # Null =>
        \A l \in Walk(best[book]) :
            lnext[l] # best[book] =>
                IF book = "asks" THEN level[l].price < level[lnext[l]].price
                                 ELSE level[l].price > level[lnext[l]].price

\* How printing one side ends.
PrintSide(book) ==
    IF best[book] # Null /\ ~(Walk(best[book]) \subseteq liveLevels)
    THEN "dangling"
    ELSE IF PrintsSorted(book) THEN "destroyed" ELSE "terminated"

\* The asks are printed first.
destroy ==
    /\ status = "ok" /\ pc = "idle"
    /\ Crash(IF PrintSide("asks") # "destroyed" THEN PrintSide("asks")
                                               ELSE PrintSide("bids"))

-----------------------------------------------------------------------------
(* Specification *)

Init ==
    /\ liveOrders = {} /\ liveLevels = {}
    /\ order = [o \in OrderPtr |-> Null]
    /\ onext = [o \in OrderPtr |-> Null] /\ oprev = [o \in OrderPtr |-> Null]
    /\ level = [l \in LevelPtr |-> Null] /\ order0 = [l \in LevelPtr |-> Null]
    /\ lnext = [l \in LevelPtr |-> Null] /\ lprev = [l \in LevelPtr |-> Null]
    /\ best = [b \in {"bids", "asks"} |-> Null]
    /\ mapPriceToPriceLevel = [i \in Index |-> Null]
    /\ mapClientIdToOrder = [k \in Clients \X OrderIds |-> Null]
    /\ nextMarketOid = 1
    /\ pc = "idle" /\ taker = Null /\ target = Null
    /\ responses = <<>> /\ updates = <<>>
    /\ status = "ok"

\* The rest of an addOrder call.
Continue == \/ matchOrder \/ Discard
            \/ AppendToLevel \/ OpenSide
            \/ BeginSeek \/ SeekNext \/ InsertAfter \/ InsertBefore
            \/ Fault

Next == \/ \E client \in Clients \cup WildClients,
              id \in OrderIds \cup WildOrderIds :
              \/ \E side \in InputSides, price \in Prices, qty \in Qtys :
                    addOrder(client, id, side, price, qty)
              \/ cancelOrder(client, id)
        \/ Continue
        \/ destroy

Spec == Init /\ [][Next]_vars

-----------------------------------------------------------------------------
(* Invariants that hold for every request sequence, up to a crash *)

BookType ==
    /\ liveOrders \subseteq OrderPtr /\ liveLevels \subseteq LevelPtr
    /\ order \in [OrderPtr -> Order \cup {Null}]
    /\ onext \in [OrderPtr -> OrderPtr \cup {Null}]
    /\ oprev \in [OrderPtr -> OrderPtr \cup {Null}]
    /\ level \in [LevelPtr -> OrdersAtPrice \cup {Null}]
    /\ order0 \in [LevelPtr -> OrderPtr \cup {Null}]
    /\ lnext \in [LevelPtr -> LevelPtr \cup {Null}]
    /\ lprev \in [LevelPtr -> LevelPtr \cup {Null}]
    /\ best \in [{"bids", "asks"} -> LevelPtr \cup {Null}]
    /\ mapPriceToPriceLevel \in [Index -> LevelPtr \cup {Null}]
    /\ mapClientIdToOrder \in [Clients \X OrderIds -> OrderPtr \cup {Null}]

CallType ==
    /\ nextMarketOid \in Nat \ {0}
    /\ pc \in {"idle", "match", "seek"}
    /\ pc # "idle" => taker \in Taker
    /\ target \in LevelPtr \cup {Null}
    /\ status \in {"ok", "stackRead", "dangling", "nullptr", "outOfBounds",
                   "outOfRange", "terminated", "destroyed"}

\* Every variable has its type; a call in progress has its arguments.
TypeOK == BookType /\ CallType

\* The level a resting order belongs to, its rank there, and the first order
\* of each level.
OrderIndex == [o \in liveOrders |-> priceToIndex(order[o].price)]

OrderPriority == [o \in liveOrders |-> order[o].priority]

FirstAt == [i \in Index |-> IF mapPriceToPriceLevel[i] = Null THEN Null
                            ELSE order0[mapPriceToPriceLevel[i]]]

\* The orders of one price index form ONE circular list, linked both ways,
\* that starts at the level's order0_ and is sorted by priority, with no two
\* priorities equal: what removeOrderFromBook's test "prev_ == order" and
\* getNextPriority's "order0_->prev_" rely on.
OrderRings ==
    /\ \A o \in liveOrders : order[o] \in Order
    /\ Ring(liveOrders, onext, oprev, OrderIndex, OrderPriority, FirstAt)

\* Price levels: the price map holds exactly the levels in use, each under
\* its own index and with at least one order, and their links are mutually
\* inverse and never lead to a freed level.
LevelRings ==
    /\ \A l \in liveLevels :
          /\ level[l] \in OrdersAtPrice /\ getLevelForPrice(level[l].price) = l
          /\ order0[l] \in liveOrders
          /\ getLevelForPrice(order[order0[l]].price) = l
    /\ \A i \in Index : mapPriceToPriceLevel[i] # Null =>
          /\ mapPriceToPriceLevel[i] \in liveLevels
          /\ priceToIndex(level[mapPriceToPriceLevel[i]].price) = i
    /\ \A o \in liveOrders : getLevelForPrice(order[o].price) # Null
    /\ Linked(liveLevels, lnext, lprev)

\* A cell of the client map is null or points to a resting order of that
\* client with that id: cancelOrder never follows a freed order, and never
\* cancels an order of somebody else.
ClientMapSound ==
    \A client \in Clients, id \in OrderIds :
        LET o == mapClientIdToOrder[<<client, id>>]
        IN  o # Null => /\ o \in liveOrders
                        /\ order[o].clientId = client /\ order[o].clientOrderId = id

\* While addPriceLevel searches, its cursor is on a level in use, the price
\* still has no level, and the blocks and the client cell that inserting will
\* need are there: no step of the search follows a freed level.
SearchSafe ==
    pc = "seek" => /\ target \in liveLevels
                   /\ getLevelForPrice(taker.price) = Null
                   /\ HasBlocks /\ HasCell

\* An index without a level always finds a free level block: the level pool,
\* as long as the price map, cannot run out before the map does.
LevelBlockAvailable ==
    (\E i \in Index : mapPriceToPriceLevel[i] = Null) => liveLevels # LevelPtr

-----------------------------------------------------------------------------
(* The market data feed *)

\* What a subscriber is told of a resting order.
Entry(o) == [marketOrderId |-> order[o].marketOrderId, side |-> order[o].side,
             price |-> order[o].price, qty |-> order[o].qty,
             priority |-> order[o].priority]

BookView == {Entry(o) : o \in liveOrders}

\* A subscriber's book after update u.
Apply(u, view) ==
    CASE u.type = "ADD"    -> view \cup {[marketOrderId |-> u.marketOrderId, side |-> u.side,
                                         price |-> u.price, qty |-> u.qty,
                                         priority |-> u.priority]}
      [] u.type = "CANCEL" -> {e \in view : e.marketOrderId # u.marketOrderId}
      [] u.type = "MODIFY" -> {[e EXCEPT !.qty = IF e.marketOrderId = u.marketOrderId
                                                 THEN u.qty ELSE @] : e \in view}

\* What a step publishes is exactly what it does to the book: a subscriber
\* that applies the ADD, CANCEL and MODIFY updates in order holds the resting
\* orders, and a TRADE precedes the update of the order it traded with, for
\* the quantity that order loses and the quantity its owner is told.
FeedStep ==
    IF updates' = <<>> THEN BookView' = BookView
    ELSE LET u == updates'[Len(updates')]
         IN  /\ BookView' = Apply(u, BookView)
             /\ Len(updates') = 2 =>
                   \E e \in BookView :
                       /\ e.marketOrderId = u.marketOrderId
                       /\ updates'[1].qty = responses'[2].execQty
                       /\ updates'[1].price = e.price
                       /\ responses'[2].leavesQty = e.qty - updates'[1].qty
                       /\ responses'[2].leavesQty =
                             IF u.type = "MODIFY" THEN u.qty ELSE 0

\* The published updates reproduce the book, step by step.
FeedFollowsBook == [][FeedStep]_vars

-----------------------------------------------------------------------------
(* Liveness *)

\* Time and again no request is in progress, so each that was started ends:
\* findMatch's loop and addPriceLevel's search terminate on every book the code
\* can build, once the engine's thread is scheduled.
HandlerReturns == []<>(pc = "idle" \/ status # "ok")

-----------------------------------------------------------------------------
(* What makes the book a correct price-time book.  These hold when no two    *)
(* prices share an index, sides are BUY or SELL, and no request opens a      *)
(* worst level behind two others (DeepTails = FALSE).                        *)

\* The best price is first and prices get worse along the list: the check of
\* toString, and every level in use is on the list of its side.
SortedLevels ==
    status = "ok" =>
        /\ PrintsSorted("bids") /\ PrintsSorted("asks")
        /\ \A l \in liveLevels : l \in Walk(best[BookOf(level[l].side)])

\* A level holds the orders of one side and one price, its own.
LevelHoldsItsOrders ==
    \A o \in liveOrders :
        LET l == getLevelForPrice(order[o].price)
        IN  level[l].side = order[o].side /\ level[l].price = order[o].price

Bids == {o \in liveOrders : order[o].side = "BUY"}
Asks == {o \in liveOrders : order[o].side = "SELL"}

\* Between requests no resting bid reaches a resting ask.
Uncrossed ==
    pc = "idle" => \A b \in Bids, a \in Asks : order[b].price < order[a].price

\* The order findMatch looks at next has the best price of its side and,
\* at that price, came first.
PriceTimePriority ==
    status = "ok" /\ pc = "match" /\ SeesOpposite =>
        \A o \in IF taker.side = "BUY" THEN Asks ELSE Bids :
            LET c == order[Candidate] IN
            /\ IF taker.side = "BUY" THEN c.price <= order[o].price
                                     ELSE c.price >= order[o].price
            /\ c.price = order[o].price => c.marketOrderId <= order[o].marketOrderId

\* What can end the process badly is the out-of-bounds read of a fill, an id out
\* of range, and nullptr followed when as many orders rest as orderPool_ has
\* blocks.  Nothing else can: no freed level is followed, the level pool never
\* runs out first, and the destructor finds the book sorted.
OnlyKnownFaults ==
    /\ status \notin {"dangling", "terminated"}
    /\ status = "nullptr" => liveOrders = OrderPtr
    /\ status = "outOfBounds" => ~HasCell

\* With ids that are unique among a client's resting orders, every resting
\* order can be cancelled by its id.
Cancellable ==
    \A o \in liveOrders :
        mapClientIdToOrder[<<order[o].clientId, order[o].clientOrderId>>] = o

-----------------------------------------------------------------------------
(* What the documentation says of the book and the code does not do *)

\* order_book.h: addOrder "matches with existing orders and places the
\* remainder into the book".
RemainderStep ==
    updates' # <<>> /\ updates'[1].type = "ADD" /\ updates' # updates =>
        updates'[1].qty = taker.qty - taker.filled

\* The ADD published for an order that traded carries what is left of it.
RemainderRests == [][RemainderStep]_vars
=============================================================================
