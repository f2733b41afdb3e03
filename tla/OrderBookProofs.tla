-------------------------- MODULE OrderBookProofs --------------------------
(***************************************************************************)
(* The pointer structures of the book stay intact, for every request       *)
(* sequence, any number of clients, orders, levels and prices, up to the   *)
(* step (if any) in which the process goes wrong.                          *)
(*                                                                         *)
(* The inductive invariant is BookInv (types, the two kinds of lists, the  *)
(* maps) together with the state of the call in progress.  Each way in     *)
(* which an action changes the book has a lemma.                           *)
(***************************************************************************)
EXTENDS OrderBook, SortedRingProofs, FiniteSetTheorems

BookInv == BookType /\ OrderRings /\ LevelRings /\ ClientMapSound

CallInv == CallType /\ SearchSafe

IInv == BookInv /\ CallInv

-----------------------------------------------------------------------------

\* The price map has a cell for every price.
LEMMA IndexInRange == \A price \in Int : priceToIndex(price) \in Index
  BY IndexAssumption DEF priceToIndex, Index

\* What is known of a resting order and of its level.
LEMMA LiveOrder ==
    ASSUME BookInv, NEW x \in liveOrders
    PROVE  /\ x \in OrderPtr /\ order[x] \in Order
           /\ OrderIndex[x] = priceToIndex(order[x].price)
           /\ OrderPriority[x] = order[x].priority
           /\ OrderIndex[x] \in Index /\ OrderPriority[x] \in Nat
           /\ mapPriceToPriceLevel[OrderIndex[x]] \in liveLevels
           /\ FirstAt[OrderIndex[x]] = order0[mapPriceToPriceLevel[OrderIndex[x]]]
<1>1. x \in OrderPtr /\ order[x] \in Order
  BY DEF BookInv, BookType, OrderRings
<1>2. OrderIndex[x] = priceToIndex(order[x].price) /\ OrderPriority[x] = order[x].priority
  BY DEF OrderIndex, OrderPriority
<1>3. order[x].price \in Int /\ order[x].priority \in Nat
  BY <1>1 DEF Order
<1>4. OrderIndex[x] \in Index
  BY <1>2, <1>3, IndexInRange
<1>5. mapPriceToPriceLevel[OrderIndex[x]] # Null
  BY <1>2 DEF BookInv, LevelRings, getLevelForPrice
<1>6. mapPriceToPriceLevel[OrderIndex[x]] \in liveLevels
  BY <1>4, <1>5 DEF BookInv, LevelRings
<1>7. FirstAt[OrderIndex[x]] = order0[mapPriceToPriceLevel[OrderIndex[x]]]
  BY <1>4, <1>5 DEF FirstAt
<1> QED BY <1>1, <1>2, <1>3, <1>4, <1>6, <1>7

\* Two levels in use are under two indices.
LEMMA LevelIndex ==
    ASSUME BookInv, NEW l \in liveLevels
    PROVE  /\ l \in LevelPtr /\ level[l] \in OrdersAtPrice
           /\ priceToIndex(level[l].price) \in Index
           /\ \A i \in Index : mapPriceToPriceLevel[i] = l
                                  <=> i = priceToIndex(level[l].price)
<1>1. l \in LevelPtr /\ level[l] \in OrdersAtPrice /\ l # Null
  BY PointerAssumption DEF BookInv, BookType, LevelRings
<1>2. level[l].price \in Int
  BY <1>1 DEF OrdersAtPrice
<1>3. priceToIndex(level[l].price) \in Index
  BY <1>2, IndexInRange
<1> QED BY <1>1, <1>3 DEF BookInv, LevelRings, getLevelForPrice

-----------------------------------------------------------------------------
(* removeOrderFromBook *)

\* The types after a removal.
LEMMA RemoveType ==
    ASSUME BookInv, NEW o \in liveOrders, removeOrderFromBook(o)
    PROVE  BookType'
<1> DEFINE l == getLevelForPrice(order[o].price)
<1>1. /\ o \in OrderPtr /\ l \in liveLevels /\ l \in LevelPtr
      /\ order[o] \in Order
  BY LiveOrder DEF getLevelForPrice, BookInv, BookType
<1>2. onext[o] \in OrderPtr \cup {Null} /\ oprev[o] \in OrderPtr \cup {Null}
  BY <1>1 DEF BookInv, BookType
<1>3. /\ liveOrders' \subseteq OrderPtr
      /\ order' \in [OrderPtr -> Order \cup {Null}]
      /\ onext' \in [OrderPtr -> OrderPtr \cup {Null}]
      /\ oprev' \in [OrderPtr -> OrderPtr \cup {Null}]
  BY <1>1, <1>2 DEF removeOrderFromBook, BookInv, BookType
<1>4. mapClientIdToOrder' \in [Clients \X OrderIds -> OrderPtr \cup {Null}]
  BY DEF removeOrderFromBook, clearClientCell, BookInv, BookType
<1>5. CASE oprev[o] = o
  <2>1. lnext[l] \in LevelPtr /\ lprev[l] \in LevelPtr
    BY <1>1 DEF BookInv, BookType, LevelRings, Linked
  <2>2. /\ liveLevels' \subseteq LevelPtr
        /\ level' \in [LevelPtr -> OrdersAtPrice \cup {Null}]
        /\ order0' \in [LevelPtr -> OrderPtr \cup {Null}]
        /\ lnext' \in [LevelPtr -> LevelPtr \cup {Null}]
        /\ lprev' \in [LevelPtr -> LevelPtr \cup {Null}]
        /\ mapPriceToPriceLevel' \in [Index -> LevelPtr \cup {Null}]
    BY <1>1, <1>5, <2>1 DEF removeOrderFromBook, removePriceLevel, unlinkLevel,
       clearPriceCell, deallocateLevel, BookInv, BookType
  <2>3. best' \in [{"bids", "asks"} -> LevelPtr \cup {Null}]
    <3>1. PICK b \in {"bids", "asks"} : best' = [best EXCEPT ![b] = newBest(b, l)]
      BY <1>5 DEF removeOrderFromBook, removePriceLevel, BookOf
    <3>2. newBest(b, l) \in LevelPtr \cup {Null}
      BY <2>1 DEF newBest, BookInv, BookType
    <3> QED BY <3>1, <3>2 DEF BookInv, BookType
  <2> QED BY <1>3, <1>4, <2>2, <2>3 DEF BookType
<1>6. CASE oprev[o] # o
  <2>1. order0' \in [LevelPtr -> OrderPtr \cup {Null}]
    BY <1>1, <1>2, <1>6 DEF removeOrderFromBook, newFirst, BookInv, BookType
  <2>2. UNCHANGED levelVars
    BY <1>6 DEF removeOrderFromBook
  <2> QED BY <1>3, <1>4, <2>1, <2>2 DEF BookType, BookInv, levelVars
<1> QED BY <1>5, <1>6
\* The orders' data that survive a removal, and the map cells.
LEMMA RemoveFrame ==
    ASSUME BookInv, NEW o \in liveOrders, removeOrderFromBook(o)
    PROVE  /\ liveOrders' = liveOrders \ {o}
           /\ \A x \in liveOrders \ {o} :
                 /\ order'[x] = order[x]
                 /\ OrderIndex'[x] = OrderIndex[x]
                 /\ OrderPriority'[x] = OrderPriority[x]
           /\ onext' = [onext EXCEPT ![oprev[o]] = onext[o], ![o] = Null]
           /\ oprev' = [oprev EXCEPT ![onext[o]] = oprev[o], ![o] = Null]
<1>1. /\ liveOrders' = liveOrders \ {o}
      /\ order' = [order EXCEPT ![o] = Null]
      /\ onext' = [onext EXCEPT ![oprev[o]] = onext[o], ![o] = Null]
      /\ oprev' = [oprev EXCEPT ![onext[o]] = oprev[o], ![o] = Null]
  BY DEF removeOrderFromBook
<1>2. \A x \in liveOrders \ {o} : order'[x] = order[x]
  BY <1>1 DEF BookInv, BookType
<1>3. \A x \in liveOrders \ {o} : /\ OrderIndex'[x] = OrderIndex[x]
                                  /\ OrderPriority'[x] = OrderPriority[x]
  BY <1>1, <1>2 DEF OrderIndex, OrderPriority
<1> QED BY <1>1, <1>2, <1>3

\* Removing an order that is alone removes its level.
LEMMA RemoveLastKeeps ==
    ASSUME BookInv, NEW o \in liveOrders, removeOrderFromBook(o), oprev[o] = o
    PROVE  OrderRings' /\ LevelRings'
<1> DEFINE i == OrderIndex[o]
           l == mapPriceToPriceLevel[i]
<1>1. /\ o \in OrderPtr /\ order[o] \in Order /\ i = priceToIndex(order[o].price)
      /\ i \in Index /\ l \in liveLevels /\ l \in LevelPtr
      /\ l = getLevelForPrice(order[o].price)
  BY LiveOrder DEF getLevelForPrice, BookInv, BookType
<1>2. /\ liveLevels' = liveLevels \ {l}
      /\ mapPriceToPriceLevel' = [mapPriceToPriceLevel EXCEPT ![i] = Null]
      /\ level' = [level EXCEPT ![l] = Null]
      /\ order0' = [order0 EXCEPT ![l] = Null]
      /\ lnext' = [lnext EXCEPT ![lprev[l]] = lnext[l], ![l] = Null]
      /\ lprev' = [lprev EXCEPT ![lnext[l]] = lprev[l], ![l] = Null]
  BY <1>1 DEF removeOrderFromBook, removePriceLevel, unlinkLevel, clearPriceCell,
     deallocateLevel
<1>3. \A x \in liveOrders : OrderPriority[x] \in Int
  BY LiveOrder
<1>4. \A x \in liveOrders \ {o} : OrderIndex[x] # i
  BY <1>3, RingAlone DEF BookInv, OrderRings
<1>5. \A k \in Index \ {i} : mapPriceToPriceLevel'[k] = mapPriceToPriceLevel[k]
                             /\ mapPriceToPriceLevel[k] # l
  BY <1>1, <1>2, LevelIndex DEF BookInv, BookType
<1>6. \A m \in liveLevels \ {l} : level'[m] = level[m] /\ order0'[m] = order0[m]
  BY <1>2 DEF BookInv, BookType
<1>7. mapPriceToPriceLevel'[i] = Null
  BY <1>1, <1>2 DEF BookInv, BookType
<1> HIDE DEF i, l
<1>8. OrderRings'
  <2>1. \A x \in liveOrders \ {o} : FirstAt'[OrderIndex[x]] = FirstAt[OrderIndex[x]]
    <3> SUFFICES ASSUME NEW x \in liveOrders \ {o}
                 PROVE  FirstAt'[OrderIndex[x]] = FirstAt[OrderIndex[x]]
      OBVIOUS
    <3>1. OrderIndex[x] \in Index \ {i} /\ mapPriceToPriceLevel[OrderIndex[x]] \in liveLevels
      BY <1>4, LiveOrder
    <3>2. /\ mapPriceToPriceLevel'[OrderIndex[x]] = mapPriceToPriceLevel[OrderIndex[x]]
          /\ mapPriceToPriceLevel[OrderIndex[x]] \in liveLevels \ {l}
      BY <1>5, <3>1
    <3> QED BY <1>6, <3>1, <3>2 DEF FirstAt
  <2>2. Ring(liveOrders', onext', oprev', OrderIndex', OrderPriority', FirstAt')
    BY <1>1, <1>3, <2>1, RemoveFrame, RingRemoveLast, PointerAssumption
       DEF BookInv, BookType, OrderRings
  <2>3. \A x \in liveOrders' : order'[x] \in Order
    BY RemoveFrame DEF BookInv, OrderRings
  <2> QED BY <2>2, <2>3 DEF OrderRings
<1>9. LevelRings'
  <2>1. ASSUME NEW m \in liveLevels'
        PROVE  /\ level'[m] \in OrdersAtPrice /\ mapPriceToPriceLevel'[priceToIndex(level'[m].price)] = m
               /\ order0'[m] \in liveOrders'
               /\ mapPriceToPriceLevel'[priceToIndex(order'[order0'[m]].price)] = m
    <3>1. m \in liveLevels /\ m # l
      BY <1>2
    <3>2. /\ level[m] \in OrdersAtPrice /\ mapPriceToPriceLevel[priceToIndex(level[m].price)] = m
          /\ order0[m] \in liveOrders
          /\ mapPriceToPriceLevel[priceToIndex(order[order0[m]].price)] = m
      BY <3>1 DEF BookInv, LevelRings, getLevelForPrice
    <3>3. order0[m] # o
      BY <1>1, <3>1, <3>2 DEF l
    <3>4. priceToIndex(level[m].price) \in Index \ {i}
      BY <3>1, <3>2, LevelIndex DEF l
    <3>5. priceToIndex(order[order0[m]].price) \in Index \ {i}
      BY <1>4, <3>2, <3>3, LiveOrder
    <3> QED BY <1>5, <1>6, <3>1, <3>2, <3>3, <3>4, <3>5, RemoveFrame
  <2>2. ASSUME NEW k \in Index, mapPriceToPriceLevel'[k] # Null
        PROVE  /\ mapPriceToPriceLevel'[k] \in liveLevels'
               /\ priceToIndex(level'[mapPriceToPriceLevel'[k]].price) = k
    <3>1. k # i
      BY <1>7, <2>2
    <3>2. /\ mapPriceToPriceLevel'[k] = mapPriceToPriceLevel[k]
          /\ mapPriceToPriceLevel[k] \in liveLevels \ {l}
          /\ priceToIndex(level[mapPriceToPriceLevel[k]].price) = k
      BY <1>5, <2>2, <3>1 DEF BookInv, LevelRings
    <3> QED BY <1>2, <1>6, <3>2
  <2>3. ASSUME NEW x \in liveOrders'
        PROVE  mapPriceToPriceLevel'[priceToIndex(order'[x].price)] # Null
    <3>1. x \in liveOrders \ {o}
      BY RemoveFrame
    <3>2. OrderIndex[x] \in Index \ {i} /\ mapPriceToPriceLevel[OrderIndex[x]] \in liveLevels
      BY <1>4, <3>1, LiveOrder
    <3>3. priceToIndex(order'[x].price) = OrderIndex[x]
      BY <3>1, LiveOrder, RemoveFrame
    <3> QED BY <1>5, <3>2, <3>3, PointerAssumption DEF BookInv, BookType
  <2>4. Linked(liveLevels', lnext', lprev')
    BY <1>1, <1>2, LinkedRemove, PointerAssumption DEF BookInv, BookType, LevelRings
  <2> QED BY <2>1, <2>2, <2>3, <2>4 DEF LevelRings, getLevelForPrice
<1> QED BY <1>8, <1>9
\* Removing an order that is not alone keeps its level.
LEMMA RemoveOneKeeps ==
    ASSUME BookInv, NEW o \in liveOrders, removeOrderFromBook(o), oprev[o] # o
    PROVE  OrderRings' /\ LevelRings'
<1> DEFINE i == OrderIndex[o]
           l == mapPriceToPriceLevel[i]
<1>1. /\ o \in OrderPtr /\ order[o] \in Order /\ i = priceToIndex(order[o].price)
      /\ i \in Index /\ l \in liveLevels /\ l \in LevelPtr
      /\ l = getLevelForPrice(order[o].price) /\ FirstAt[i] = order0[l]
  BY LiveOrder DEF getLevelForPrice, BookInv, BookType
<1>2. /\ order0' = [order0 EXCEPT ![l] = IF order0[l] = o THEN onext[o] ELSE order0[l]]
      /\ UNCHANGED <<liveLevels, level, lnext, lprev, best, mapPriceToPriceLevel>>
  BY <1>1 DEF removeOrderFromBook, newFirst, levelVars
<1>3. \A x \in liveOrders : OrderPriority[x] \in Int
  BY LiveOrder
<1>4. \A k \in Index : mapPriceToPriceLevel[k] = l => k = i
  BY <1>1, LevelIndex
<1>5. /\ onext[o] \in liveOrders \ {o} /\ OrderIndex[onext[o]] = i
  BY DEF BookInv, OrderRings, Ring
<1>6. \A m \in liveLevels : order0'[m] = IF m = l /\ order0[m] = o THEN onext[o]
                                         ELSE order0[m]
  BY <1>2 DEF BookInv, BookType
<1> HIDE DEF i, l
<1>7. OrderRings'
  <2>1. \A x \in liveOrders \ {o} :
            FirstAt'[OrderIndex[x]] = IF OrderIndex[x] = i /\ FirstAt[i] = o
                                      THEN onext[o] ELSE FirstAt[OrderIndex[x]]
    <3> SUFFICES ASSUME NEW x \in liveOrders \ {o}
                 PROVE  FirstAt'[OrderIndex[x]] = IF OrderIndex[x] = i /\ FirstAt[i] = o
                                      THEN onext[o] ELSE FirstAt[OrderIndex[x]]
      OBVIOUS
    <3> DEFINE m == mapPriceToPriceLevel[OrderIndex[x]]
    <3>1. OrderIndex[x] \in Index /\ m \in liveLevels /\ FirstAt[OrderIndex[x]] = order0[m]
      BY LiveOrder
    <3>2. m # Null
      BY <3>1, PointerAssumption DEF BookInv, BookType
    <3>3. FirstAt'[OrderIndex[x]] = order0'[m]
      BY <1>2, <3>1, <3>2 DEF FirstAt
    <3>4. m = l <=> OrderIndex[x] = i
      BY <1>4, <3>1 DEF l
    <3> HIDE DEF m
    <3> QED BY <1>1, <1>6, <3>1, <3>3, <3>4
  <2>2. Ring(liveOrders', onext', oprev', OrderIndex', OrderPriority', FirstAt')
    <3>1. /\ Null \notin OrderPtr /\ liveOrders \in SUBSET OrderPtr
          /\ onext \in [OrderPtr -> OrderPtr \cup {Null}]
          /\ oprev \in [OrderPtr -> OrderPtr \cup {Null}]
          /\ Ring(liveOrders, onext, oprev, OrderIndex, OrderPriority, FirstAt)
      BY PointerAssumption DEF BookInv, BookType, OrderRings
    <3>2. \A x \in liveOrders \ {o} :
             /\ OrderIndex[x] = OrderIndex[o] /\ FirstAt[OrderIndex[o]] = o
                   => FirstAt'[OrderIndex[x]] = onext[o]
             /\ OrderIndex[x] # OrderIndex[o] \/ FirstAt[OrderIndex[o]] # o
                   => FirstAt'[OrderIndex[x]] = FirstAt[OrderIndex[x]]
      BY <2>1 DEF i
    <3>3. \A x \in liveOrders \ {o} : OrderIndex'[x] = OrderIndex[x]
                                       /\ OrderPriority'[x] = OrderPriority[x]
      BY RemoveFrame
    <3> HIDE DEF OrderIndex, OrderPriority, FirstAt
    <3>4. Ring(liveOrders \ {o}, [onext EXCEPT ![oprev[o]] = onext[o], ![o] = Null],
               [oprev EXCEPT ![onext[o]] = oprev[o], ![o] = Null],
               OrderIndex, OrderPriority, FirstAt')
      BY ONLY <1>3, <3>1, <3>2, oprev[o] # o, o \in liveOrders, RingUnlink
    <3>5. Ring(liveOrders', onext', oprev', OrderIndex, OrderPriority, FirstAt')
      BY <3>4, RemoveFrame
    <3>6. \A x \in liveOrders' : OrderIndex'[x] = OrderIndex[x]
                                 /\ OrderPriority'[x] = OrderPriority[x]
      BY <3>3, RemoveFrame
    <3> QED BY ONLY <3>5, <3>6, RingSame
  <2>3. \A x \in liveOrders' : order'[x] \in Order
    BY RemoveFrame DEF BookInv, OrderRings
  <2> QED BY <2>2, <2>3 DEF OrderRings
<1>8. LevelRings'
  <2>1. ASSUME NEW m \in liveLevels
        PROVE  /\ order0'[m] \in liveOrders'
               /\ mapPriceToPriceLevel[priceToIndex(order'[order0'[m]].price)] = m
    <3>1. order0[m] \in liveOrders /\ mapPriceToPriceLevel[priceToIndex(order[order0[m]].price)] = m
      BY DEF BookInv, LevelRings, getLevelForPrice
    <3>2. CASE order0[m] = o
      <4>1. m = l
        BY <1>1, <3>1, <3>2 DEF l
      <4>2. order0'[m] = onext[o]
        BY <1>6, <3>2, <4>1
      <4>3. order'[onext[o]] = order[onext[o]] /\ priceToIndex(order[onext[o]].price) = i
        BY <1>5, RemoveFrame, LiveOrder
      <4> QED BY <1>5, <4>1, <4>2, <4>3, RemoveFrame DEF l
    <3>3. CASE order0[m] # o
      BY <1>6, <3>1, <3>3, RemoveFrame
    <3> QED BY <3>2, <3>3
  <2>2. ASSUME NEW x \in liveOrders'
        PROVE  mapPriceToPriceLevel[priceToIndex(order'[x].price)] # Null
    BY RemoveFrame DEF BookInv, LevelRings, getLevelForPrice
  <2> QED BY <1>2, <2>1, <2>2 DEF BookInv, LevelRings, getLevelForPrice
<1> QED BY <1>7, <1>8

\* removeOrderFromBook keeps every structure, whether or not the level goes.
LEMMA RemoveKeeps ==
    ASSUME BookInv, NEW o \in liveOrders, removeOrderFromBook(o)
    PROVE  BookInv'
<1>1. OrderRings' /\ LevelRings'
  BY RemoveLastKeeps, RemoveOneKeeps
<1>2. ClientMapSound'
  <2>1. order[o] \in Order
    BY LiveOrder
  <2>2. order[o].clientId \in Clients /\ order[o].clientOrderId \in OrderIds
    BY <2>1 DEF Order
  <2> SUFFICES ASSUME NEW c \in Clients, NEW id \in OrderIds,
                      mapClientIdToOrder'[<<c, id>>] # Null
               PROVE  LET x == mapClientIdToOrder'[<<c, id>>]
                      IN  x \in liveOrders' /\ order'[x].clientId = c
                          /\ order'[x].clientOrderId = id
    BY DEF ClientMapSound
  <2>3. mapClientIdToOrder'[<<c, id>>] = mapClientIdToOrder[<<c, id>>]
        /\ <<c, id>> # <<order[o].clientId, order[o].clientOrderId>>
    BY <2>2 DEF removeOrderFromBook, clearClientCell, BookInv, BookType
  <2>4. LET x == mapClientIdToOrder[<<c, id>>]
        IN  x \in liveOrders /\ order[x].clientId = c /\ order[x].clientOrderId = id
    BY <2>3 DEF BookInv, ClientMapSound
  <2> QED BY <2>3, <2>4, RemoveFrame
<1> QED BY <1>1, <1>2, RemoveType DEF BookInv

\* A partial fill changes nothing but one quantity.
LEMMA FillKeeps ==
    ASSUME BookInv, NEW o \in liveOrders, NEW left \in Nat,
           order' = [order EXCEPT ![o].qty = left],
           UNCHANGED <<liveOrders, onext, oprev, levelVars, order0, mapClientIdToOrder>>
    PROVE  BookInv'
<1>1. o \in OrderPtr /\ order[o] \in Order
  BY LiveOrder
<1>2. UNCHANGED <<liveOrders, onext, oprev, liveLevels, level, lnext, lprev, best,
                  mapPriceToPriceLevel, order0, mapClientIdToOrder>>
  BY DEF levelVars
<1>3. order' \in [OrderPtr -> Order \cup {Null}]
  BY <1>1 DEF BookInv, BookType, Order
<1>4. BookType'
  BY <1>2, <1>3 DEF BookInv, BookType
<1>5. ASSUME NEW x \in liveOrders
      PROVE  /\ order'[x] \in Order
             /\ order'[x].price = order[x].price /\ order'[x].priority = order[x].priority
             /\ order'[x].clientId = order[x].clientId
             /\ order'[x].clientOrderId = order[x].clientOrderId
  <2>1. order[x] \in Order /\ x \in OrderPtr
    BY LiveOrder
  <2>2. CASE x = o
    <3>1. order'[x] = [order[o] EXCEPT !.qty = left]
      BY <1>1, <2>2 DEF BookInv, BookType
    <3> QED BY <1>1, <2>2, <3>1 DEF Order
  <2>3. CASE x # o
    BY <2>1, <2>3 DEF BookInv, BookType
  <2> QED BY <2>2, <2>3
<1>6. OrderIndex' = OrderIndex /\ OrderPriority' = OrderPriority /\ FirstAt' = FirstAt
  BY <1>2, <1>5 DEF OrderIndex, OrderPriority, FirstAt
<1>7. OrderRings'
  BY <1>2, <1>5, <1>6 DEF BookInv, OrderRings
<1>8. LevelRings'
  BY <1>2, <1>5 DEF BookInv, LevelRings, getLevelForPrice
<1>9. ClientMapSound'
  BY <1>2, <1>5 DEF BookInv, ClientMapSound
<1> QED BY <1>4, <1>7, <1>8, <1>9 DEF BookInv
-----------------------------------------------------------------------------
(* addOrderToBook *)

\* A pool that is not full returns one of its free blocks.
LEMMA AllocateFree ==
    ASSUME NEW free, free # {} PROVE allocate(free) \subseteq free
  BY DEF allocate

\* What resting an order does to the orders already there and to the client
\* map, wherever the order goes.
LEMMA PlaceFrame ==
    ASSUME BookInv, taker \in Taker, HasCell, NEW o \in OrderPtr \ liveOrders,
           Place(o), Resting.priority \in Nat
    PROVE  /\ liveOrders' = liveOrders \cup {o}
           /\ order' \in [OrderPtr -> Order \cup {Null}]
           /\ \A x \in liveOrders' : order'[x] \in Order
           /\ \A x \in liveOrders : /\ order'[x] = order[x]
                                    /\ OrderIndex'[x] = OrderIndex[x]
                                    /\ OrderPriority'[x] = OrderPriority[x]
           /\ order'[o].price = taker.price
           /\ OrderIndex'[o] = priceToIndex(taker.price)
           /\ OrderPriority'[o] = Resting.priority
           /\ mapClientIdToOrder' \in [Clients \X OrderIds -> OrderPtr \cup {Null}]
           /\ ClientMapSound'
<1>1. Resting \in Order /\ Resting.price = taker.price
      /\ Resting.clientId = taker.clientId /\ Resting.clientOrderId = taker.clientOrderId
  BY DEF Resting, Order, Taker, HasCell
<1> HIDE DEF Resting
<1>2. liveOrders' = liveOrders \cup {o} /\ order' = [order EXCEPT ![o] = Resting]
  BY DEF Place
<1>3. order' \in [OrderPtr -> Order \cup {Null}] /\ order'[o] = Resting
  BY <1>1, <1>2 DEF BookInv, BookType
<1>4. \A x \in liveOrders : order'[x] = order[x] /\ order[x] \in Order
  BY <1>2 DEF BookInv, BookType, OrderRings
<1>5. /\ \A x \in liveOrders : /\ OrderIndex'[x] = OrderIndex[x]
                               /\ OrderPriority'[x] = OrderPriority[x]
      /\ OrderIndex'[o] = priceToIndex(taker.price)
      /\ OrderPriority'[o] = Resting.priority
  BY <1>1, <1>2, <1>3, <1>4 DEF OrderIndex, OrderPriority
<1> DEFINE key == <<taker.clientId, taker.clientOrderId>>
<1>6. mapClientIdToOrder' = [mapClientIdToOrder EXCEPT ![key] = o]
  BY DEF Place, setClientCell
<1>7. mapClientIdToOrder' \in [Clients \X OrderIds -> OrderPtr \cup {Null}]
  BY <1>6 DEF BookInv, BookType
<1>8. ClientMapSound'
  <2> SUFFICES ASSUME NEW c \in Clients, NEW id \in OrderIds,
                      mapClientIdToOrder'[<<c, id>>] # Null
               PROVE  LET x == mapClientIdToOrder'[<<c, id>>]
                      IN  x \in liveOrders' /\ order'[x].clientId = c
                          /\ order'[x].clientOrderId = id
    BY DEF ClientMapSound
  <2>1. CASE <<c, id>> = key
    <3>1. mapClientIdToOrder'[<<c, id>>] = o
      BY <1>6, <2>1 DEF BookInv, BookType
    <3> QED BY <1>1, <1>2, <1>3, <2>1, <3>1
  <2>2. CASE <<c, id>> # key
    <3>1. mapClientIdToOrder'[<<c, id>>] = mapClientIdToOrder[<<c, id>>]
      BY <1>6, <2>2 DEF BookInv, BookType
    <3>2. LET x == mapClientIdToOrder[<<c, id>>]
          IN  x \in liveOrders /\ order[x].clientId = c /\ order[x].clientOrderId = id
      BY <3>1 DEF BookInv, ClientMapSound
    <3> QED BY <1>2, <1>4, <3>1, <3>2
  <2> QED BY <2>1, <2>2
<1> QED BY <1>1, <1>2, <1>3, <1>4, <1>5, <1>7, <1>8

\* Appending to an existing level.
LEMMA AppendKeeps ==
    ASSUME BookInv, taker \in Taker, HasCell, NEW o \in OrderPtr \ liveOrders,
           NEW l, l = getLevelForPrice(taker.price), l # Null, Place(o),
           onext' = [onext EXCEPT ![o] = order0[l], ![oprev[order0[l]]] = o],
           oprev' = [oprev EXCEPT ![o] = oprev[order0[l]], ![order0[l]] = o],
           UNCHANGED <<levelVars, order0>>
    PROVE  BookInv'
<1> DEFINE i == priceToIndex(taker.price)
           f == order0[l]
<1>1. i \in Index /\ l = mapPriceToPriceLevel[i]
  <2>1. taker.price \in Int
    BY DEF Taker
  <2> QED BY <2>1, IndexInRange DEF getLevelForPrice
<1>2. l \in liveLevels /\ l \in LevelPtr /\ i = priceToIndex(level[l].price)
  BY <1>1 DEF BookInv, BookType, LevelRings
<1>3. f \in liveOrders /\ mapPriceToPriceLevel[OrderIndex[f]] = l
  BY <1>2, LiveOrder DEF BookInv, LevelRings, getLevelForPrice
<1>4. OrderIndex[f] = i
  BY <1>1, <1>2, <1>3, LiveOrder, LevelIndex
<1>5. f = FirstAt[i]
  BY <1>1 DEF FirstAt
<1>6. oprev[f] \in liveOrders
  BY <1>3 DEF BookInv, OrderRings, Ring
<1>7. Resting.priority = OrderPriority[oprev[f]] + 1 /\ Resting.priority \in Nat
  <2>1. OrderPriority[oprev[f]] = order[oprev[f]].priority /\ OrderPriority[oprev[f]] \in Nat
    BY <1>6, LiveOrder
  <2>2. Resting.priority = order[oprev[f]].priority + 1
    BY DEF Resting, getNextPriority
  <2> QED BY <2>1, <2>2
<1>8. UNCHANGED <<liveLevels, level, lnext, lprev, best, mapPriceToPriceLevel, order0>>
  BY DEF levelVars
<1> HIDE DEF i, f
<1>9. BookType'
  <2>1. f \in OrderPtr /\ oprev[f] \in OrderPtr
    BY <1>3, <1>6 DEF BookInv, BookType
  <2>2. /\ onext' \in [OrderPtr -> OrderPtr \cup {Null}]
        /\ oprev' \in [OrderPtr -> OrderPtr \cup {Null}]
    BY <2>1 DEF BookInv, BookType, f
  <2>3. liveOrders' \subseteq OrderPtr
    BY <1>7, PlaceFrame DEF BookInv, BookType
  <2> QED BY <1>7, <1>8, <2>2, <2>3, PlaceFrame DEF BookInv, BookType
<1>10. OrderRings'
  <2>1. /\ Null \notin OrderPtr /\ liveOrders \in SUBSET OrderPtr
        /\ onext \in [OrderPtr -> OrderPtr \cup {Null}]
        /\ oprev \in [OrderPtr -> OrderPtr \cup {Null}]
        /\ Ring(liveOrders, onext, oprev, OrderIndex, OrderPriority, FirstAt)
    BY PointerAssumption DEF BookInv, BookType, OrderRings
  <2>2. FirstAt' = FirstAt
    BY <1>8 DEF FirstAt
  <2>3. \A x \in liveOrders : OrderPriority[x] \in Int
    BY LiveOrder
  <2>4. /\ \A x \in liveOrders : /\ OrderIndex'[x] = OrderIndex[x]
                                 /\ OrderPriority'[x] = OrderPriority[x]
                                 /\ FirstAt'[OrderIndex[x]] = FirstAt[OrderIndex[x]]
        /\ OrderIndex'[o] = OrderIndex[f] /\ OrderPriority'[o] = OrderPriority[oprev[f]] + 1
    BY <1>4, <1>7, <2>2, PlaceFrame DEF i
  <2>5. f = FirstAt[OrderIndex[f]]
    BY <1>4, <1>5
  <2>6. Ring(liveOrders \cup {o}, [onext EXCEPT ![o] = f, ![oprev[f]] = o],
             [oprev EXCEPT ![o] = oprev[f], ![f] = o],
             OrderIndex', OrderPriority', FirstAt')
    <3>1. Ring(liveOrders, onext, oprev, OrderIndex', OrderPriority', FirstAt')
      BY ONLY <2>1, <2>4, RingSame
    <3>2. \A x \in liveOrders : OrderPriority'[x] \in Int
      BY <2>3, <2>4
    <3>3. /\ f = FirstAt'[OrderIndex'[f]] /\ OrderIndex'[o] = OrderIndex'[f]
          /\ OrderPriority'[o] = OrderPriority'[oprev[f]] + 1
      BY <1>3, <1>6, <2>4, <2>5
    <3>4. OrderPriority'[o] \in Int /\ OrderPriority'[oprev[f]] < OrderPriority'[o]
      BY <1>6, <3>2, <3>3
    <3> QED BY ONLY <1>3, <2>1, <3>1, <3>2, <3>3, <3>4, o \in OrderPtr \ liveOrders, RingAppend
  <2> QED BY <1>7, <2>6, PlaceFrame DEF OrderRings, f
<1>11. LevelRings'
  <2>1. order'[o].price = taker.price /\ \A x \in liveOrders : order'[x] = order[x]
    BY <1>7, PlaceFrame
  <2>2. liveOrders' = liveOrders \cup {o}
    BY <1>7, PlaceFrame
  <2>3. \A m \in liveLevels :
           /\ order0[m] \in liveOrders'
           /\ mapPriceToPriceLevel[priceToIndex(order'[order0[m]].price)] = m
    BY <2>1, <2>2 DEF BookInv, LevelRings, getLevelForPrice
  <2>4. \A x \in liveOrders' : mapPriceToPriceLevel[priceToIndex(order'[x].price)] # Null
    BY <1>1, <2>1, <2>2 DEF BookInv, LevelRings, getLevelForPrice, i
  <2> QED BY <1>8, <2>3, <2>4 DEF BookInv, LevelRings, getLevelForPrice
<1> QED BY <1>7, <1>9, <1>10, <1>11, PlaceFrame DEF BookInv
\* A new level that holds only the new order, wherever its side's list takes it.
LEMMA NewLevelKeeps ==
    ASSUME BookInv, taker \in Taker, HasCell, getLevelForPrice(taker.price) = Null,
           NEW o \in OrderPtr \ liveOrders, NEW l \in LevelPtr \ liveLevels,
           NewLevel(o, l),
           lnext' \in [LevelPtr -> LevelPtr \cup {Null}],
           lprev' \in [LevelPtr -> LevelPtr \cup {Null}],
           best' \in [{"bids", "asks"} -> LevelPtr \cup {Null}],
           Linked(liveLevels \cup {l}, lnext', lprev')
    PROVE  BookInv'
<1> DEFINE i == priceToIndex(taker.price)
<1>1. taker.price \in Int /\ i \in Index /\ mapPriceToPriceLevel[i] = Null
  <2>1. taker.price \in Int
    BY DEF Taker
  <2> QED BY <2>1, IndexInRange DEF getLevelForPrice
<1>2. /\ Place(o)
      /\ onext' = [onext EXCEPT ![o] = o] /\ oprev' = [oprev EXCEPT ![o] = o]
      /\ liveLevels' = liveLevels \cup {l}
      /\ level' = [level EXCEPT ![l] = [side |-> taker.side, price |-> taker.price]]
      /\ order0' = [order0 EXCEPT ![l] = o]
      /\ mapPriceToPriceLevel' = [mapPriceToPriceLevel EXCEPT ![i] = l]
  BY DEF NewLevel
<1>3. Resting.priority \in Nat
  BY DEF Resting, getNextPriority
<1>4. /\ liveOrders' = liveOrders \cup {o}
      /\ \A x \in liveOrders : /\ order'[x] = order[x]
                               /\ OrderIndex'[x] = OrderIndex[x]
                               /\ OrderPriority'[x] = OrderPriority[x]
      /\ order'[o].price = taker.price /\ OrderIndex'[o] = i
      /\ OrderPriority'[o] \in Nat
  BY <1>2, <1>3, PlaceFrame
<1>5. \A x \in liveOrders : /\ OrderIndex[x] \in Index \ {i}
                            /\ mapPriceToPriceLevel[OrderIndex[x]] \in liveLevels
  BY <1>1, LiveOrder, PointerAssumption DEF BookInv, BookType
<1>6. /\ mapPriceToPriceLevel'[i] = l
      /\ \A k \in Index \ {i} : mapPriceToPriceLevel'[k] = mapPriceToPriceLevel[k]
  BY <1>1, <1>2 DEF BookInv, BookType
<1>7. /\ level'[l] = [side |-> taker.side, price |-> taker.price] /\ order0'[l] = o
      /\ \A m \in liveLevels : level'[m] = level[m] /\ order0'[m] = order0[m]
  BY <1>2 DEF BookInv, BookType
<1>8. level'[l] \in OrdersAtPrice /\ level'[l].price = taker.price
  BY <1>7 DEF OrdersAtPrice, Taker
<1>9. BookType'
  <2>1. level' \in [LevelPtr -> OrdersAtPrice \cup {Null}]
    BY <1>2, <1>7, <1>8 DEF BookInv, BookType
  <2>2. /\ liveOrders' \subseteq OrderPtr /\ liveLevels' \subseteq LevelPtr
        /\ onext' \in [OrderPtr -> OrderPtr \cup {Null}]
        /\ oprev' \in [OrderPtr -> OrderPtr \cup {Null}]
        /\ order0' \in [LevelPtr -> OrderPtr \cup {Null}]
        /\ mapPriceToPriceLevel' \in [Index -> LevelPtr \cup {Null}]
    BY <1>1, <1>2, <1>4 DEF BookInv, BookType
  <2> QED BY <1>2, <1>3, <2>1, <2>2, PlaceFrame DEF BookType
<1> HIDE DEF i
<1>10. OrderRings'
  <2>1. /\ Null \notin OrderPtr /\ liveOrders \in SUBSET OrderPtr
        /\ onext \in [OrderPtr -> OrderPtr \cup {Null}]
        /\ oprev \in [OrderPtr -> OrderPtr \cup {Null}]
        /\ Ring(liveOrders, onext, oprev, OrderIndex, OrderPriority, FirstAt)
    BY PointerAssumption DEF BookInv, BookType, OrderRings
  <2>2. \A x \in liveOrders : FirstAt'[OrderIndex[x]] = FirstAt[OrderIndex[x]]
    BY <1>5, <1>6, <1>7 DEF FirstAt
  <2>3. Ring(liveOrders, onext, oprev, OrderIndex', OrderPriority', FirstAt')
    <3>1. \A x \in liveOrders : /\ OrderIndex'[x] = OrderIndex[x]
                                /\ OrderPriority'[x] = OrderPriority[x]
      BY <1>4
    <3> QED BY ONLY <2>1, <2>2, <3>1, RingSame
  <2>4. FirstAt'[OrderIndex'[o]] = o
    <3>1. l # Null
      BY PointerAssumption
    <3> QED BY <1>1, <1>4, <1>6, <1>7, <3>1 DEF FirstAt
  <2>5. OrderPriority'[o] \in Int /\ \A x \in liveOrders : OrderIndex'[x] # OrderIndex'[o]
    BY <1>4, <1>5
  <2>6. Ring(liveOrders \cup {o}, [onext EXCEPT ![o] = o], [oprev EXCEPT ![o] = o],
             OrderIndex', OrderPriority', FirstAt')
    BY ONLY <2>1, <2>3, <2>4, <2>5, o \in OrderPtr \ liveOrders, RingNew
  <2>7. \A x \in liveOrders' : order'[x] \in Order
    BY <1>2, <1>3, PlaceFrame
  <2> QED BY <1>2, <1>4, <2>6, <2>7 DEF OrderRings
<1>11. LevelRings'
  <2>1. ASSUME NEW m \in liveLevels'
        PROVE  /\ level'[m] \in OrdersAtPrice
               /\ mapPriceToPriceLevel'[priceToIndex(level'[m].price)] = m
               /\ order0'[m] \in liveOrders'
               /\ mapPriceToPriceLevel'[priceToIndex(order'[order0'[m]].price)] = m
    <3>1. CASE m = l
      BY <1>4, <1>6, <1>7, <1>8, <3>1 DEF i
    <3>2. CASE m \in liveLevels
      <4>1. /\ level[m] \in OrdersAtPrice
            /\ mapPriceToPriceLevel[priceToIndex(level[m].price)] = m
            /\ order0[m] \in liveOrders
            /\ mapPriceToPriceLevel[priceToIndex(order[order0[m]].price)] = m
        BY <3>2 DEF BookInv, LevelRings, getLevelForPrice
      <4>2. priceToIndex(level[m].price) \in Index \ {i}
        BY <1>1, <3>2, <4>1, LevelIndex, PointerAssumption DEF BookInv, BookType
      <4>3. priceToIndex(order[order0[m]].price) \in Index \ {i}
        BY <1>5, <4>1, LiveOrder
      <4> QED BY <1>4, <1>6, <1>7, <3>2, <4>1, <4>2, <4>3
    <3> QED BY <1>2, <3>1, <3>2
  <2>2. ASSUME NEW k \in Index, mapPriceToPriceLevel'[k] # Null
        PROVE  /\ mapPriceToPriceLevel'[k] \in liveLevels'
               /\ priceToIndex(level'[mapPriceToPriceLevel'[k]].price) = k
    <3>1. CASE k = i
      BY <1>2, <1>6, <1>8, <3>1 DEF i
    <3>2. CASE k # i
      <4>1. /\ mapPriceToPriceLevel'[k] = mapPriceToPriceLevel[k]
            /\ mapPriceToPriceLevel[k] \in liveLevels
            /\ priceToIndex(level[mapPriceToPriceLevel[k]].price) = k
        BY <1>6, <2>2, <3>2 DEF BookInv, LevelRings
      <4> QED BY <1>2, <1>7, <4>1
    <3> QED BY <3>1, <3>2
  <2>3. ASSUME NEW x \in liveOrders'
        PROVE  mapPriceToPriceLevel'[priceToIndex(order'[x].price)] # Null
    <3>1. CASE x = o
      BY <1>4, <1>6, <3>1, PointerAssumption DEF i
    <3>2. CASE x \in liveOrders
      <4>1. priceToIndex(order'[x].price) = OrderIndex[x]
        BY <1>4, <3>2, LiveOrder
      <4> QED BY <1>5, <1>6, <3>2, <4>1, PointerAssumption DEF BookInv, BookType
    <3> QED BY <1>4, <3>1, <3>2
  <2> QED BY <1>2, <2>1, <2>2, <2>3 DEF LevelRings, getLevelForPrice
<1> QED BY <1>2, <1>3, <1>9, <1>10, <1>11, PlaceFrame DEF BookInv
-----------------------------------------------------------------------------
(* The actions *)

\* A step that leaves the book alone.
LEMMA BookSame ==
    ASSUME BookInv, UNCHANGED bookVars PROVE BookInv'
<1>1. UNCHANGED <<liveOrders, order, onext, oprev, liveLevels, level, lnext, lprev,
                  best, mapPriceToPriceLevel, order0, mapClientIdToOrder>>
  BY DEF bookVars, orderVars, levelVars
<1>2. OrderIndex' = OrderIndex /\ OrderPriority' = OrderPriority /\ FirstAt' = FirstAt
  BY <1>1 DEF OrderIndex, OrderPriority, FirstAt
<1>3. OrderRings' /\ LevelRings'
  BY <1>1, <1>2 DEF BookInv, OrderRings, LevelRings, getLevelForPrice
<1> QED BY <1>1, <1>3 DEF BookInv, BookType, ClientMapSound

\* A call that ends, and a step between calls, have nothing to search.
LEMMA CallEnds ==
    ASSUME CallType, pc' = "idle", target' \in LevelPtr \cup {Null},
           nextMarketOid' = nextMarketOid,
           status' \in {"ok", "stackRead", "dangling", "nullptr", "outOfBounds", "outOfRange", "terminated",
                        "destroyed"}
    PROVE  CallInv'
  BY DEF CallInv, CallType, SearchSafe

\* A step that only sets the status.
LEMMA CallSame ==
    ASSUME CallInv, UNCHANGED <<bookVars, nextMarketOid, callVars>>,
           status' \in {"ok", "stackRead", "dangling", "nullptr", "outOfBounds", "outOfRange", "terminated",
                        "destroyed"}
    PROVE  CallInv'
<1>1. UNCHANGED <<liveOrders, liveLevels, mapPriceToPriceLevel, nextMarketOid, pc,
                  taker, target>>
  BY DEF bookVars, orderVars, levelVars, callVars
<1>2. CallType'
  BY <1>1 DEF CallInv, CallType
<1>3. SearchSafe'
  BY <1>1 DEF CallInv, SearchSafe, getLevelForPrice, HasBlocks, HasCell
<1> QED BY <1>2, <1>3 DEF CallInv

\* addOrder up to findMatch draws an id and keeps its arguments.
LEMMA addOrderKeeps ==
    ASSUME IInv, NEW client \in Clients \cup WildClients,
           NEW id \in OrderIds \cup WildOrderIds, NEW side \in InputSides,
           NEW price \in Prices, NEW qty \in Qtys,
           addOrder(client, id, side, price, qty)
    PROVE  IInv'
<1>1. BookInv'
  BY BookSame DEF IInv, addOrder
<1>2. taker' \in Taker
  BY PriceAssumption, QtyAssumption, SideAssumption
     DEF IInv, CallInv, CallType, addOrder, Taker, Side
<1>3. CallInv'
  BY <1>2 DEF IInv, CallInv, CallType, SearchSafe, addOrder
<1> QED BY <1>1, <1>3 DEF IInv

\* An iteration of findMatch fills an order in part, or removes it.
LEMMA matchOrderKeeps == ASSUME IInv, matchOrder PROVE IInv'
<1> DEFINE o    == Candidate
           fill == min(taker.qty, order[o].qty)
           left == order[o].qty - fill
<1>1. o \in liveOrders /\ order[o] \in Order
  BY LiveOrder DEF matchOrder, Crosses, Candidate, IInv, BookInv, LevelRings
<1>2. taker \in Taker
  BY DEF matchOrder, IInv, CallInv, CallType
<1>3. taker.qty \in Nat /\ order[o].qty \in Nat /\ taker.filled \in Nat
  BY <1>1, <1>2 DEF Order, Taker
<1>4. fill \in Nat /\ left \in Nat
  BY <1>3 DEF min
<1>5. /\ IF left = 0
         THEN removeOrderFromBook(o)
         ELSE /\ order' = [order EXCEPT ![o].qty = left]
              /\ UNCHANGED <<liveOrders, onext, oprev, levelVars, order0,
                             mapClientIdToOrder>>
      /\ taker' = [taker EXCEPT !.filled = @ + fill]
      /\ UNCHANGED <<nextMarketOid, pc, target, status>>
      /\ pc = "match"
  BY DEF matchOrder
<1> HIDE DEF o, left, fill
<1>6. BookInv'
  <2>1. CASE left = 0
    BY <1>1, <1>5, <2>1, RemoveKeeps DEF IInv
  <2>2. CASE left # 0
    BY <1>1, <1>4, <1>5, <2>2, FillKeeps DEF IInv
  <2> QED BY <2>1, <2>2
<1>7. taker' \in Taker
  BY <1>2, <1>3, <1>4, <1>5 DEF Taker
<1>8. CallInv'
  BY <1>5, <1>7 DEF IInv, CallInv, CallType, SearchSafe
<1> QED BY <1>6, <1>8 DEF IInv

\* addOrder with nothing to rest.
LEMMA DiscardKeeps == ASSUME IInv, Discard PROVE IInv'
<1>1. BookInv'
  BY BookSame DEF IInv, Discard
<1>2. CallInv'
  BY CallEnds DEF IInv, CallInv, CallType, Discard, Return
<1> QED BY <1>1, <1>2 DEF IInv

\* addOrderToBook on an existing level.
LEMMA AppendToLevelKeeps == ASSUME IInv, AppendToLevel PROVE IInv'
<1> DEFINE l == getLevelForPrice(taker.price)
<1>1. /\ CanRest /\ l # Null
      /\ UNCHANGED <<levelVars, order0>>
  BY DEF AppendToLevel
<1>2. PICK o \in allocate(OrderPtr \ liveOrders) :
         /\ Place(o)
         /\ onext' = [onext EXCEPT ![o] = order0[l], ![oprev[order0[l]]] = o]
         /\ oprev' = [oprev EXCEPT ![o] = oprev[order0[l]], ![order0[l]] = o]
  BY DEF AppendToLevel
<1>3. OrderPtr \ liveOrders # {} /\ HasCell /\ pc = "match"
  BY <1>1 DEF CanRest, HasBlocks, Matched, IInv, BookInv, BookType
<1>4. o \in OrderPtr \ liveOrders
  BY <1>2, <1>3, AllocateFree
<1>5. taker \in Taker
  BY <1>3 DEF IInv, CallInv, CallType
<1>6. BookInv'
  BY <1>1, <1>2, <1>3, <1>4, <1>5, AppendKeeps DEF IInv
<1>7. CallInv'
  BY <1>2, CallEnds DEF Place, Return, IInv, CallInv, CallType
<1> QED BY <1>6, <1>7 DEF IInv

\* What NeedsLevel and SearchSafe give the three actions that open a level.
LEMMA FreeBlocks ==
    ASSUME IInv, HasBlocks, getLevelForPrice(taker.price) = Null,
           NEW o \in allocate(OrderPtr \ liveOrders),
           NEW l \in allocate(LevelPtr \ liveLevels)
    PROVE  o \in OrderPtr \ liveOrders /\ l \in LevelPtr \ liveLevels
<1>1. OrderPtr \ liveOrders # {} /\ LevelPtr \ liveLevels # {}
  BY DEF HasBlocks, IInv, BookInv, BookType
<1> QED BY <1>1, AllocateFree

\* addPriceLevel on an empty side.
LEMMA OpenSideKeeps == ASSUME IInv, OpenSide PROVE IInv'
<1>1. /\ CanRest /\ getLevelForPrice(taker.price) = Null
      /\ HasBlocks /\ HasCell /\ pc = "match"
  BY DEF OpenSide, NeedsLevel, CanRest, Matched
<1>2. taker \in Taker
  BY <1>1 DEF IInv, CallInv, CallType
<1>3. PICK o \in allocate(OrderPtr \ liveOrders), l \in allocate(LevelPtr \ liveLevels) :
         /\ NewLevel(o, l)
         /\ lnext' = [lnext EXCEPT ![l] = l] /\ lprev' = [lprev EXCEPT ![l] = l]
         /\ best' = [best EXCEPT ![BookOf(taker.side)] = l]
  BY DEF OpenSide
<1>4. o \in OrderPtr \ liveOrders /\ l \in LevelPtr \ liveLevels
  BY <1>1, FreeBlocks
<1>5. /\ lnext' \in [LevelPtr -> LevelPtr \cup {Null}]
      /\ lprev' \in [LevelPtr -> LevelPtr \cup {Null}]
      /\ best' \in [{"bids", "asks"} -> LevelPtr \cup {Null}]
  BY <1>3, <1>4 DEF IInv, BookInv, BookType, BookOf
<1>6. Linked(liveLevels \cup {l}, lnext', lprev')
  BY <1>3, <1>4, LinkedNew, PointerAssumption DEF IInv, BookInv, BookType, LevelRings
<1>7. BookInv'
  BY <1>1, <1>2, <1>3, <1>4, <1>5, <1>6, NewLevelKeeps DEF IInv
<1>8. CallInv'
  BY <1>3, CallEnds DEF NewLevel, Place, Return, IInv, CallInv, CallType
<1> QED BY <1>7, <1>8 DEF IInv

\* The search of addPriceLevel starts on a level in use.
LEMMA BeginSeekKeeps == ASSUME IInv, BeginSeek PROVE IInv'
<1>1. BookInv'
  BY BookSame DEF IInv, BeginSeek
<1>2. UNCHANGED <<liveOrders, liveLevels, mapPriceToPriceLevel, nextMarketOid, taker, status>>
  BY DEF BeginSeek, bookVars, orderVars, levelVars
<1>3. target' \in liveLevels
  BY DEF BeginSeek, IInv, BookInv, LevelRings, Linked
<1>4. taker \in Taker
  BY DEF BeginSeek, NeedsLevel, CanRest, Matched, IInv, CallInv, CallType
<1>5. CallType'
  BY <1>2, <1>3, <1>4 DEF BeginSeek, IInv, BookInv, BookType, CallInv, CallType
<1>6. SearchSafe'
  BY <1>2, <1>3 DEF BeginSeek, NeedsLevel, CanRest, SearchSafe, getLevelForPrice,
     HasBlocks, HasCell
<1> QED BY <1>1, <1>5, <1>6 DEF IInv, CallInv

\* The search moves on to a level in use.
LEMMA SeekNextKeeps == ASSUME IInv, SeekNext PROVE IInv'
<1>1. BookInv'
  BY BookSame DEF IInv, SeekNext
<1>2. UNCHANGED <<liveOrders, liveLevels, mapPriceToPriceLevel, nextMarketOid, pc, taker, status>>
  BY DEF SeekNext, bookVars, orderVars, levelVars
<1>3. target' \in liveLevels
  BY DEF SeekNext, Seeking, SearchSafe, IInv, CallInv, BookInv, LevelRings, Linked
<1>4. CallType'
  BY <1>2, <1>3 DEF IInv, BookInv, BookType, CallInv, CallType
<1>5. SearchSafe'
  BY <1>2, <1>3 DEF IInv, CallInv, SearchSafe, getLevelForPrice, HasBlocks, HasCell
<1> QED BY <1>1, <1>4, <1>5 DEF IInv, CallInv

\* addPriceLevel links the new level after its target.
LEMMA InsertAfterKeeps == ASSUME IInv, InsertAfter PROVE IInv'
<1>1. /\ pc = "seek" /\ target \in liveLevels /\ getLevelForPrice(taker.price) = Null
      /\ HasBlocks /\ HasCell
  BY DEF InsertAfter, Seeking, IInv, CallInv, SearchSafe
<1>2. taker \in Taker
  BY <1>1 DEF IInv, CallInv, CallType
<1>3. PICK o \in allocate(OrderPtr \ liveOrders), l \in allocate(LevelPtr \ liveLevels) :
         /\ NewLevel(o, l)
         /\ lprev' = [lprev EXCEPT ![l] = target, ![lnext[target]] = l]
         /\ lnext' = [lnext EXCEPT ![l] = lnext[target], ![target] = l]
  BY DEF InsertAfter
<1>4. o \in OrderPtr \ liveOrders /\ l \in LevelPtr \ liveLevels
  BY <1>1, FreeBlocks
<1>5. lnext[target] \in liveLevels
  BY <1>1 DEF IInv, BookInv, LevelRings, Linked
<1>6. /\ lnext' \in [LevelPtr -> LevelPtr \cup {Null}]
      /\ lprev' \in [LevelPtr -> LevelPtr \cup {Null}]
      /\ lnext'[l] = lnext[target] /\ lprev'[l] = target
      /\ \A x \in liveLevels : /\ lnext'[x] = IF x = target THEN l ELSE lnext[x]
                               /\ lprev'[x] = IF x = lnext[target] THEN l ELSE lprev[x]
  BY <1>1, <1>3, <1>4, <1>5 DEF IInv, BookInv, BookType
<1>7. Linked(liveLevels \cup {l}, lnext', lprev')
  <2>1. /\ Null \notin LevelPtr /\ liveLevels \in SUBSET LevelPtr
        /\ lnext \in [LevelPtr -> LevelPtr \cup {Null}]
        /\ lprev \in [LevelPtr -> LevelPtr \cup {Null}]
        /\ Linked(liveLevels, lnext, lprev)
    BY PointerAssumption DEF IInv, BookInv, BookType, LevelRings
  <2> QED BY ONLY <1>1, <1>4, <1>5, <1>6, <2>1, LinkedInsert
<1>8. best' \in [{"bids", "asks"} -> LevelPtr \cup {Null}]
  BY DEF InsertAfter, IInv, BookInv, BookType
<1>9. BookInv'
  BY <1>1, <1>2, <1>3, <1>4, <1>6, <1>7, <1>8, NewLevelKeeps DEF IInv
<1>10. CallInv'
  BY <1>3, CallEnds DEF NewLevel, Place, Return, IInv, CallInv, CallType
<1> QED BY <1>9, <1>10 DEF IInv

\* addPriceLevel links the new level before its target.
LEMMA InsertBeforeKeeps == ASSUME IInv, InsertBefore PROVE IInv'
<1>1. /\ pc = "seek" /\ target \in liveLevels /\ getLevelForPrice(taker.price) = Null
      /\ HasBlocks /\ HasCell
  BY DEF InsertBefore, Seeking, IInv, CallInv, SearchSafe
<1>2. taker \in Taker
  BY <1>1 DEF IInv, CallInv, CallType
<1>3. PICK o \in allocate(OrderPtr \ liveOrders), l \in allocate(LevelPtr \ liveLevels) :
         /\ NewLevel(o, l)
         /\ lnext' = [lnext EXCEPT ![l] = target, ![lprev[target]] = l]
         /\ lprev' = [lprev EXCEPT ![l] = lprev[target], ![target] = l]
         /\ best' = [best EXCEPT ![BookOf(taker.side)] =
                        IF BecomesBest(taker.side, taker.price, level[@].price)
                        THEN l ELSE @]
  BY DEF InsertBefore
<1>4. o \in OrderPtr \ liveOrders /\ l \in LevelPtr \ liveLevels
  BY <1>1, FreeBlocks
<1>5. lprev[target] \in liveLevels /\ lnext[lprev[target]] = target
  BY <1>1 DEF IInv, BookInv, LevelRings, Linked
<1>6. /\ lnext' \in [LevelPtr -> LevelPtr \cup {Null}]
      /\ lprev' \in [LevelPtr -> LevelPtr \cup {Null}]
      /\ lnext'[l] = target /\ lprev'[l] = lprev[target]
      /\ \A x \in liveLevels : /\ lnext'[x] = IF x = lprev[target] THEN l ELSE lnext[x]
                               /\ lprev'[x] = IF x = target THEN l ELSE lprev[x]
  BY <1>1, <1>3, <1>4, <1>5 DEF IInv, BookInv, BookType
<1>7. Linked(liveLevels \cup {l}, lnext', lprev')
  <2>1. /\ Null \notin LevelPtr /\ liveLevels \in SUBSET LevelPtr
        /\ lnext \in [LevelPtr -> LevelPtr \cup {Null}]
        /\ lprev \in [LevelPtr -> LevelPtr \cup {Null}]
        /\ Linked(liveLevels, lnext, lprev)
    BY PointerAssumption DEF IInv, BookInv, BookType, LevelRings
  <2> QED BY ONLY <1>1, <1>4, <1>5, <1>6, <2>1, LinkedInsert
<1>8. best' \in [{"bids", "asks"} -> LevelPtr \cup {Null}]
  BY <1>3, <1>4 DEF IInv, BookInv, BookType, BookOf
<1>9. BookInv'
  BY <1>1, <1>2, <1>3, <1>4, <1>6, <1>7, <1>8, NewLevelKeeps DEF IInv
<1>10. CallInv'
  BY <1>3, CallEnds DEF NewLevel, Place, Return, IInv, CallInv, CallType
<1> QED BY <1>9, <1>10 DEF IInv
\* cancelOrder removes the order its map cell points to, or nothing.
LEMMA cancelOrderKeeps ==
    ASSUME IInv, NEW client \in Clients \cup WildClients,
           NEW id \in OrderIds \cup WildOrderIds, cancelOrder(client, id)
    PROVE  IInv'
<1>1. pc = "idle" /\ status = "ok" /\ UNCHANGED <<nextMarketOid, pc, taker, target>>
  BY DEF cancelOrder, callVars
<1>2. \/ UNCHANGED bookVars /\ status' \in {"ok", "outOfRange"}
      \/ /\ client \in Clients /\ id \in OrderIds /\ status' = "ok"
         /\ mapClientIdToOrder[<<client, id>>] # Null
         /\ removeOrderFromBook(mapClientIdToOrder[<<client, id>>])
  <2>1. CASE client \in WildClients
    BY <1>1, <2>1, RangeAssumption DEF cancelOrder, Reject
  <2>2. CASE client \in Clients /\ id \in WildOrderIds
    BY <1>1, <2>2, RangeAssumption DEF cancelOrder, CancelThrows
  <2>3. CASE client \in Clients /\ id \in OrderIds
    BY <1>1, <2>3, RangeAssumption DEF cancelOrder, Cancel, Reject
  <2> QED BY <2>1, <2>2, <2>3
<1>3. BookInv'
  <2>1. CASE UNCHANGED bookVars
    BY <2>1, BookSame DEF IInv
  <2>2. CASE /\ client \in Clients /\ id \in OrderIds
             /\ mapClientIdToOrder[<<client, id>>] # Null
             /\ removeOrderFromBook(mapClientIdToOrder[<<client, id>>])
    <3>1. mapClientIdToOrder[<<client, id>>] \in liveOrders
      BY <2>2 DEF IInv, BookInv, ClientMapSound
    <3> QED BY <2>2, <3>1, RemoveKeeps DEF IInv
  <2> QED BY <1>2, <2>1, <2>2
<1>4. CallInv'
  BY <1>1, <1>2, CallEnds DEF IInv, CallInv, CallType
<1> QED BY <1>3, <1>4 DEF IInv

\* The step in which the process goes wrong is the last and changes no list.
LEMMA CrashKeeps ==
    ASSUME IInv, NEW how \in {"stackRead", "dangling", "nullptr", "outOfBounds", "outOfRange", "terminated",
                              "destroyed"}, Crash(how)
    PROVE  IInv'
<1>1. BookInv'
  BY BookSame DEF IInv, Crash
<1>2. CallInv'
  BY CallSame DEF IInv, Crash
<1> QED BY <1>1, <1>2 DEF IInv

-----------------------------------------------------------------------------

\* The empty book has the invariant.
LEMMA InitIInv == ASSUME Init PROVE IInv
<1>1. BookType
  BY DEF Init, BookType
<1>2. OrderRings /\ LevelRings /\ ClientMapSound
  BY DEF Init, OrderRings, Ring, LevelRings, Linked, ClientMapSound
<1>3. CallInv
  BY DEF Init, CallInv, CallType, SearchSafe
<1> QED BY <1>1, <1>2, <1>3 DEF IInv, BookInv

\* Every step keeps it.
LEMMA NextIInv == ASSUME IInv, [Next]_vars PROVE IInv'
<1>1. CASE \E client \in Clients \cup WildClients, id \in OrderIds \cup WildOrderIds :
              \/ \E side \in InputSides, price \in Prices, qty \in Qtys :
                    addOrder(client, id, side, price, qty)
              \/ cancelOrder(client, id)
  BY <1>1, addOrderKeeps, cancelOrderKeeps
<1>2. CASE Continue
  <2>1. CASE Fault
    BY <2>1, CrashKeeps DEF Fault
  <2> QED BY <1>2, <2>1, matchOrderKeeps, DiscardKeeps, AppendToLevelKeeps,
             OpenSideKeeps, BeginSeekKeeps, SeekNextKeeps, InsertAfterKeeps,
             InsertBeforeKeeps DEF Continue
<1>3. CASE destroy
  <2>1. PICK how \in {"destroyed", "terminated", "dangling"} : Crash(how)
    BY <1>3 DEF destroy, PrintSide
  <2> QED BY <2>1, CrashKeeps
<1>4. CASE UNCHANGED vars
  <2>1. UNCHANGED <<bookVars, nextMarketOid, callVars, status>>
    BY <1>4 DEF vars
  <2>2. status' \in {"ok", "stackRead", "dangling", "nullptr", "outOfBounds", "outOfRange", "terminated",
                     "destroyed"}
    BY <2>1 DEF IInv, CallInv, CallType
  <2> QED BY <2>1, <2>2, BookSame, CallSame DEF IInv
<1> QED BY <1>1, <1>2, <1>3, <1>4 DEF Next

\* The inductive invariant of the book.
THEOREM Invariance == Spec => []IInv
<1>1. Init => IInv
  BY InitIInv
<1>2. IInv /\ [Next]_vars => IInv'
  BY NextIInv
<1> QED BY <1>1, <1>2, PTL DEF Spec

\* Every field, pointer and map cell of the book has its type, for every
\* request sequence, including out-of-range ids, INVALID sides and prices
\* that share an index.
THEOREM TypeCorrect == Spec => []TypeOK
<1>1. IInv => TypeOK
  BY DEF IInv, BookInv, CallInv, TypeOK
<1> QED BY <1>1, Invariance, PTL

\* addOrderToBook and removeOrderFromBook keep the orders of each price index
\* one circular list that starts at order0_ and is sorted by priority, so the
\* orders of a level trade in the order in which they came.
THEOREM OrderListsIntact == Spec => []OrderRings
<1>1. IInv => OrderRings
  BY DEF IInv, BookInv
<1> QED BY <1>1, Invariance, PTL

\* addPriceLevel and removePriceLevel keep the price map and the level lists
\* in step: the map holds exactly the levels in use and no link leads out.
THEOREM LevelListsIntact == Spec => []LevelRings
<1>1. IInv => LevelRings
  BY DEF IInv, BookInv
<1> QED BY <1>1, Invariance, PTL

\* cancelOrder never follows a freed order, nor cancels another client's.
THEOREM CancelsOwnOrders == Spec => []ClientMapSound
<1>1. IInv => ClientMapSound
  BY DEF IInv, BookInv
<1> QED BY <1>1, Invariance, PTL

\* The search of addPriceLevel never stands on a freed level.
THEOREM SearchOnLiveLevels == Spec => []SearchSafe
<1>1. IInv => SearchSafe
  BY DEF IInv, CallInv
<1> QED BY <1>1, Invariance, PTL
-----------------------------------------------------------------------------
(* What a step does to the resting orders *)

\* A removed order leaves the others as they were.
LEMMA RemoveOrders ==
    ASSUME IInv, NEW o \in liveOrders, removeOrderFromBook(o)
    PROVE  /\ liveOrders' = liveOrders \ {o}
           /\ \A x \in liveOrders' : order'[x] = order[x]
  BY DEF IInv, BookInv, BookType, removeOrderFromBook

\* The resting orders stay as they are.
SameOrders == liveOrders' = liveOrders /\ \A x \in liveOrders : order'[x] = order[x]

\* Order o is gone.
OrderGone(o) == /\ o \in liveOrders /\ liveOrders' = liveOrders \ {o}
                /\ \A x \in liveOrders' : order'[x] = order[x]

\* Order o has less quantity than before.
OrderFilled(o, left) ==
    /\ o \in liveOrders /\ liveOrders' = liveOrders
    /\ order'[o] = [order[o] EXCEPT !.qty = left]
    /\ \A x \in liveOrders \ {o} : order'[x] = order[x]

\* Order o is new.
OrderRests(o) ==
    /\ o \in OrderPtr \ liveOrders /\ liveOrders' = liveOrders \cup {o}
    /\ order'[o] = Resting /\ \A x \in liveOrders : order'[x] = order[x]

\* The four ways in which addOrder ends with an order that rests.
Rests == AppendToLevel \/ OpenSide \/ InsertAfter \/ InsertBefore

\* They all place a free block.
LEMMA RestsPlaces ==
    ASSUME IInv, Rests PROVE pc # "idle" /\ \E o \in OrderPtr \ liveOrders : Place(o)
<1>1. CASE AppendToLevel \/ OpenSide
  <2>1. PICK o \in allocate(OrderPtr \ liveOrders) : Place(o)
    BY <1>1 DEF AppendToLevel, OpenSide, NewLevel
  <2>2. pc # "idle" /\ OrderPtr \ liveOrders # {}
    BY <1>1 DEF AppendToLevel, OpenSide, NeedsLevel, CanRest, Matched, HasBlocks, IInv,
                BookInv, BookType
  <2> QED BY <2>1, <2>2, AllocateFree
<1>2. CASE InsertAfter \/ InsertBefore
  <2>1. PICK o \in allocate(OrderPtr \ liveOrders) : Place(o)
    BY <1>2 DEF InsertAfter, InsertBefore, NewLevel
  <2>2. pc = "seek"
    BY <1>2 DEF InsertAfter, InsertBefore, Seeking
  <2>3. OrderPtr \ liveOrders # {}
    BY <2>2 DEF IInv, CallInv, SearchSafe, HasBlocks, BookInv, BookType
  <2> QED BY <2>1, <2>2, <2>3, AllocateFree
<1> QED BY <1>1, <1>2 DEF Rests

-----------------------------------------------------------------------------
(* The book's own feed *)

\* Market order ids grow: those of the resting orders are below the one of the
\* call in progress, and that one is below the next.
IdsGrow ==
    /\ pc # "idle" => taker.marketOrderId < nextMarketOid
    /\ \A o \in liveOrders :
          order[o].marketOrderId < IF pc = "idle" THEN nextMarketOid ELSE taker.marketOrderId

\* No two resting orders have the same market order id.
IdsDiffer ==
    \A o, p \in liveOrders : order[o].marketOrderId = order[p].marketOrderId => o = p

\* addPriceLevel's search publishes nothing.
SearchSilent == pc = "seek" => updates = <<>>

\* A step publishes one update of an order, after the trade that caused it, if
\* any.
UpdateShape ==
    \/ updates = <<>>
    \/ Len(updates) = 1 /\ updates[1].type # "TRADE"
    \/ Len(updates) = 2 /\ updates[1].type = "TRADE" /\ updates[2].type # "TRADE"

FeedInv == IdsGrow /\ IdsDiffer /\ SearchSilent /\ UpdateShape

\* No order was changed, and none was published.
LEMMA ViewSame ==
    ASSUME SameOrders PROVE BookView' = BookView
  BY DEF SameOrders, BookView, Entry

\* What CANCEL tells a subscriber.
LEMMA ViewGone ==
    ASSUME IdsDiffer, NEW o, OrderGone(o), NEW qty, NEW priority
    PROVE  BookView' = Apply(MarketUpdate("CANCEL", order[o], qty, priority), BookView)
<1>1. Apply(MarketUpdate("CANCEL", order[o], qty, priority), BookView)
        = {e \in BookView : e.marketOrderId # order[o].marketOrderId}
  BY DEF Apply, MarketUpdate
<1>2. ASSUME NEW x \in liveOrders
      PROVE  Entry(x).marketOrderId = order[o].marketOrderId <=> x = o
  BY DEF Entry, IdsDiffer, OrderGone
<1>3. ASSUME NEW x \in liveOrders'
      PROVE  Entry(x)' = Entry(x) /\ x \in liveOrders /\ x # o
  BY DEF Entry, OrderGone
<1> QED BY <1>1, <1>2, <1>3 DEF BookView, OrderGone

\* What MODIFY tells a subscriber.
LEMMA ViewFilled ==
    ASSUME IdsDiffer, NEW o, NEW left, OrderFilled(o, left), order[o] \in Order, NEW priority
    PROVE  BookView' = Apply(MarketUpdate("MODIFY", order[o], left, priority), BookView)
<1> DEFINE Told(e) == [e EXCEPT !.qty = IF e.marketOrderId = order[o].marketOrderId
                                        THEN left ELSE @]
<1>1. Apply(MarketUpdate("MODIFY", order[o], left, priority), BookView)
        = {Told(e) : e \in BookView}
  BY DEF Apply, MarketUpdate
<1>2. ASSUME NEW x \in liveOrders
      PROVE  Entry(x)' = Told(Entry(x))
  <2>1. CASE x = o
    BY <2>1 DEF Entry, OrderFilled, Order
  <2>2. CASE x # o
    BY <2>2 DEF Entry, OrderFilled, IdsDiffer
  <2> QED BY <2>1, <2>2
<1> QED BY <1>1, <1>2 DEF BookView, OrderFilled

\* What ADD tells a subscriber.
LEMMA ViewRests ==
    ASSUME NEW o, OrderRests(o)
    PROVE  BookView' = Apply(MarketUpdate("ADD", Resting, taker.qty, Resting.priority),
                             BookView)
<1>1. Apply(MarketUpdate("ADD", Resting, taker.qty, Resting.priority), BookView)
        = BookView \cup {Entry(o)'}
  BY DEF Apply, MarketUpdate, Entry, OrderRests, Resting
<1>2. ASSUME NEW x \in liveOrders
      PROVE  Entry(x)' = Entry(x)
  BY DEF Entry, OrderRests
<1> QED BY <1>1, <1>2 DEF BookView, OrderRests

\* What an action means for the feed: the invariant and the step property.
FeedKept == FeedInv' /\ FeedStep

\* A step between calls, or one that ends a call, that changes no order.
LEMMA SilentKeeps ==
    ASSUME IInv, FeedInv, UNCHANGED <<bookVars, nextMarketOid>>, updates' = <<>>,
           \/ UNCHANGED <<pc, taker>>
           \/ pc' = "seek" /\ pc # "idle" /\ taker' = taker
           \/ pc' = "idle"
    PROVE  FeedKept
<1>1. SameOrders /\ nextMarketOid' = nextMarketOid
  BY DEF bookVars, orderVars, SameOrders
<1>2. FeedStep
  BY <1>1, ViewSame DEF FeedStep
<1>3. nextMarketOid \in Nat /\ (pc # "idle" => taker.marketOrderId \in Nat)
  BY DEF IInv, CallInv, CallType, Taker
<1>4. \A x \in liveOrders : order[x].marketOrderId \in Nat
  BY DEF IInv, BookInv, OrderRings, Order
<1>5. FeedInv'
  BY <1>1, <1>3, <1>4 DEF FeedInv, IdsGrow, IdsDiffer, SearchSilent, UpdateShape, SameOrders
<1> QED BY <1>2, <1>5 DEF FeedKept

\* addOrder draws an id above all others.
LEMMA addOrderFeed ==
    ASSUME IInv, FeedInv, NEW client, NEW id, NEW side, NEW price, NEW qty,
           addOrder(client, id, side, price, qty)
    PROVE  FeedKept
<1>1. SameOrders /\ pc = "idle" /\ pc' = "match" /\ updates' = <<>>
  BY DEF addOrder, bookVars, orderVars, SameOrders
<1>2. nextMarketOid \in Nat /\ nextMarketOid' = nextMarketOid + 1
      /\ taker'.marketOrderId = nextMarketOid
  BY DEF addOrder, IInv, CallInv, CallType
<1>3. FeedStep
  BY <1>1, ViewSame DEF FeedStep
<1>4. FeedInv'
  BY <1>1, <1>2 DEF FeedInv, IdsGrow, IdsDiffer, SearchSilent, UpdateShape, SameOrders
<1> QED BY <1>3, <1>4 DEF FeedKept

\* A cancelled order is published as such.
LEMMA cancelOrderFeed ==
    ASSUME IInv, FeedInv, NEW client \in Clients \cup WildClients,
           NEW id \in OrderIds \cup WildOrderIds, cancelOrder(client, id)
    PROVE  FeedKept
<1> DEFINE o == mapClientIdToOrder[<<client, id>>]
<1>1. UNCHANGED <<nextMarketOid, pc, taker>> /\ pc = "idle"
  BY DEF cancelOrder, callVars
<1>2. \/ UNCHANGED bookVars /\ updates' = <<>>
      \/ client \in Clients /\ id \in OrderIds /\ Cancel(client, id)
  <2>1. CASE client \in WildClients
    BY <2>1, RangeAssumption DEF cancelOrder, Reject
  <2>2. CASE client \in Clients /\ id \in WildOrderIds
    BY <2>2, RangeAssumption DEF cancelOrder, CancelThrows
  <2>3. CASE client \in Clients /\ id \in OrderIds
    BY <2>3, RangeAssumption DEF cancelOrder, Reject
  <2> QED BY <2>1, <2>2, <2>3
<1>3. CASE UNCHANGED bookVars /\ updates' = <<>>
  BY <1>1, <1>3, SilentKeeps
<1>4. CASE client \in Clients /\ id \in OrderIds /\ Cancel(client, id)
  <2>1. o \in liveOrders
    BY <1>4 DEF Cancel, IInv, BookInv, ClientMapSound
  <2>2. removeOrderFromBook(o)
        /\ updates' = <<MarketUpdate("CANCEL", order[o], 0, order[o].priority)>>
    BY <1>4 DEF Cancel
  <2>3. OrderGone(o)
    BY <2>1, <2>2, RemoveOrders DEF OrderGone
  <2>4. BookView' = Apply(updates'[1], BookView)
    BY <2>2, <2>3, ViewGone DEF FeedInv
  <2>5. Len(updates') = 1 /\ updates'[1].type # "TRADE" /\ updates' # <<>>
    BY <2>2 DEF MarketUpdate
  <2>6. FeedStep
    BY <2>4, <2>5 DEF FeedStep
  <2>7. FeedInv'
    BY <1>1, <2>3, <2>5 DEF FeedInv, IdsGrow, IdsDiffer, SearchSilent, UpdateShape, OrderGone
  <2> QED BY <2>6, <2>7 DEF FeedKept
<1> QED BY <1>2, <1>3, <1>4

\* A trade is published with the update of the resting order, for the same
\* quantity that its owner is told.
LEMMA matchOrderFeed == ASSUME IInv, FeedInv, matchOrder PROVE FeedKept
<1> DEFINE o    == Candidate
           fill == min(taker.qty, order[o].qty)
           left == order[o].qty - fill
           t    == Trade(taker.side, order[o].price, fill)
           u    == IF left = 0
                   THEN MarketUpdate("CANCEL", order[o], fill, INVALID)
                   ELSE MarketUpdate("MODIFY", order[o], left, order[o].priority)
<1>1. o \in liveOrders /\ order[o] \in Order /\ o \in OrderPtr
  BY LiveOrder DEF matchOrder, Crosses, Candidate, IInv, BookInv, LevelRings
<1>2. /\ IF left = 0
         THEN removeOrderFromBook(o)
         ELSE /\ order' = [order EXCEPT ![o].qty = left]
              /\ UNCHANGED liveOrders
      /\ UNCHANGED <<nextMarketOid, pc>> /\ pc = "match"
      /\ taker'.marketOrderId = taker.marketOrderId
      /\ updates' = <<t, u>>
  BY DEF matchOrder, IInv, CallInv, CallType, Taker
<1>3. Len(responses') = 2 /\ responses'[2].execQty = fill /\ responses'[2].leavesQty = left
  BY DEF matchOrder, Response
<1>4. taker.qty \in Nat /\ order[o].qty \in Nat /\ order[o].marketOrderId \in Nat
  BY <1>1, <1>2 DEF IInv, CallInv, CallType, Taker, Order
<1>5. fill \in Nat /\ left \in Nat /\ left = order[o].qty - fill
  BY <1>4 DEF min
<1>6. /\ t.type = "TRADE" /\ t.qty = fill /\ t.price = order[o].price
      /\ u.type = (IF left = 0 THEN "CANCEL" ELSE "MODIFY")
      /\ u.marketOrderId = order[o].marketOrderId
      /\ left # 0 => u.qty = left
  BY DEF Trade, MarketUpdate
<1>7. left = 0 => OrderGone(o)
  BY <1>1, <1>2, RemoveOrders DEF OrderGone
<1>8. left # 0 => OrderFilled(o, left)
  BY <1>1, <1>2 DEF OrderFilled, IInv, BookInv, BookType
<1>9. BookView' = Apply(u, BookView)
  BY <1>1, <1>7, <1>8, ViewGone, ViewFilled DEF FeedInv
<1>10. Entry(o) \in BookView
  BY <1>1 DEF BookView
<1>11. Entry(o).marketOrderId = order[o].marketOrderId /\ Entry(o).price = order[o].price
       /\ Entry(o).qty = order[o].qty
  BY DEF Entry
<1> HIDE DEF o, fill, left, t, u
<1>12. Len(updates') = 2 /\ updates' # <<>> /\ updates'[1] = t /\ updates'[2] = u
  BY <1>2
<1>13. FeedStep
  BY <1>3, <1>5, <1>6, <1>9, <1>10, <1>11, <1>12 DEF FeedStep
<1>14. UpdateShape' /\ SearchSilent'
  BY <1>2, <1>6, <1>12 DEF UpdateShape, SearchSilent
<1>15. \A x \in liveOrders' : /\ x \in liveOrders
                              /\ order'[x].marketOrderId = order[x].marketOrderId
  BY <1>1, <1>7, <1>8 DEF OrderGone, OrderFilled, Order
<1>16. IdsGrow' /\ IdsDiffer'
  BY <1>2, <1>15 DEF FeedInv, IdsGrow, IdsDiffer
<1> QED BY <1>13, <1>14, <1>16 DEF FeedKept, FeedInv

\* An order that rests is published with all that is known of it.
LEMMA PlaceFeed ==
    ASSUME IInv, FeedInv, pc # "idle", NEW o \in OrderPtr \ liveOrders, Place(o)
    PROVE  FeedKept
<1> DEFINE u == MarketUpdate("ADD", Resting, taker.qty, Resting.priority)
<1>1. OrderRests(o)
  BY DEF Place, OrderRests, IInv, BookInv, BookType
<1>2. updates' = <<u>> /\ pc' = "idle" /\ nextMarketOid' = nextMarketOid
  BY DEF Place, Return
<1>3. u.type = "ADD" /\ Resting.marketOrderId = taker.marketOrderId
  BY DEF MarketUpdate, Resting
<1>4. BookView' = Apply(u, BookView)
  BY <1>1, ViewRests
<1> HIDE DEF u
<1>5. Len(updates') = 1 /\ updates' # <<>> /\ updates'[1] = u
  BY <1>2
<1>6. FeedStep
  BY <1>4, <1>5 DEF FeedStep
<1>7. nextMarketOid \in Nat /\ taker.marketOrderId \in Nat
      /\ \A x \in liveOrders : order[x].marketOrderId \in Nat
  BY DEF IInv, CallInv, CallType, Taker, BookInv, OrderRings, Order
<1>8. FeedInv'
  BY <1>1, <1>2, <1>3, <1>5, <1>7
     DEF FeedInv, IdsGrow, IdsDiffer, SearchSilent, UpdateShape, OrderRests
<1> QED BY <1>6, <1>8 DEF FeedKept

\* The rest of an addOrder call.
LEMMA ContinueFeed == ASSUME IInv, FeedInv, Continue PROVE FeedKept
<1>1. CASE matchOrder
  BY <1>1, matchOrderFeed
<1>2. CASE Discard \/ BeginSeek
  BY <1>2, SilentKeeps DEF Discard, BeginSeek, NeedsLevel, CanRest, Matched, Return
<1>3. CASE SeekNext
  BY <1>3, SilentKeeps DEF SeekNext, Seeking, outVars, FeedInv, SearchSilent
<1>4. CASE Rests
  BY <1>4, RestsPlaces, PlaceFeed
<1>5. CASE Fault
  BY <1>5, SilentKeeps DEF Fault, Crash, callVars
<1> QED BY <1>1, <1>2, <1>3, <1>4, <1>5 DEF Continue, Rests

\* Every step of the book.
LEMMA NextFeed == ASSUME IInv, FeedInv, Next PROVE FeedKept
<1>1. CASE destroy
  BY <1>1, SilentKeeps DEF destroy, Crash, callVars
<1> QED BY <1>1, addOrderFeed, cancelOrderFeed, ContinueFeed DEF Next

\* The empty book has published nothing.
LEMMA InitFeed == ASSUME Init PROVE FeedInv
  BY DEF Init, FeedInv, IdsGrow, IdsDiffer, SearchSilent, UpdateShape

\* Market order ids stay distinct, for every request sequence.
THEOREM FeedInvariance == Spec => []FeedInv
<1>1. Init => FeedInv
  BY InitFeed
<1>2. IInv /\ FeedInv /\ [Next]_vars => FeedInv'
  <2>1. CASE UNCHANGED vars
    BY <2>1 DEF vars, bookVars, orderVars, callVars, outVars, FeedInv, IdsGrow,
                IdsDiffer, SearchSilent, UpdateShape
  <2> QED BY <2>1, NextFeed DEF FeedKept
<1> QED BY <1>1, <1>2, Invariance, PTL DEF Spec

\* findMatch, addOrderToBook and cancelOrder publish exactly what they do to
\* the resting orders, in the order in which they do it, for every request
\* sequence: with colliding prices, reused client order ids, any side.
THEOREM FeedIsFaithful == Spec => FeedFollowsBook
<1>1. IInv /\ FeedInv /\ [Next]_vars => [FeedStep]_vars
  BY NextFeed DEF FeedKept
<1> QED BY <1>1, Invariance, FeedInvariance, PTL DEF Spec, FeedFollowsBook

-----------------------------------------------------------------------------
(* The level pool *)

\* If every block of the level pool is in use, every index has a level: each
\* level in use has an index of its own, and there are as many blocks as
\* indices.
LEMMA FullPool == ASSUME BookInv PROVE LevelBlockAvailable
<1> SUFFICES ASSUME NEW i \in Index, mapPriceToPriceLevel[i] = Null, liveLevels = LevelPtr
             PROVE  FALSE
  BY DEF LevelBlockAvailable
<1> DEFINE f == [l \in LevelPtr |-> priceToIndex(level[l].price)]
<1>1. ASSUME NEW l \in LevelPtr
      PROVE  f[l] \in Index \ {i} /\ mapPriceToPriceLevel[f[l]] = l
  BY LevelIndex, PointerAssumption
<1>2. f \in [LevelPtr -> Index \ {i}]
  BY <1>1
<1>3. IsFiniteSet(Index) /\ Cardinality(Index) = MAX_PRICE_LEVELS
  BY IndexAssumption, FS_Interval DEF Index
<1>4. IsFiniteSet(Index \ {i}) /\ Cardinality(Index \ {i}) = MAX_PRICE_LEVELS - 1
  BY <1>3, FS_RemoveElement
<1>5. Cardinality(Index \ {i}) < Cardinality(LevelPtr)
  BY <1>4, PoolAssumption, IndexAssumption
<1> HIDE DEF f
<1>6. \E l, m \in LevelPtr : l # m /\ f[l] = f[m]
  BY <1>2, <1>4, <1>5, PoolAssumption, FS_PigeonHole
<1> QED BY <1>1, <1>6

\* The nullptr that ordersAtPricePool_.allocate could return, and that
\* addOrderToBook would follow, never comes: a price without a level finds a
\* free block.
THEOREM LevelPoolSuffices == Spec => []LevelBlockAvailable
<1>1. IInv => LevelBlockAvailable
  BY FullPool DEF IInv
<1> QED BY <1>1, Invariance, PTL

-----------------------------------------------------------------------------
(* Orders can be cancelled *)

\* No resting order has the ids of the call in progress.
FreshIds ==
    pc # "idle" => \A o \in liveOrders : ~ /\ order[o].clientId = taker.clientId
                                           /\ order[o].clientOrderId = taker.clientOrderId

IdInv == Cancellable /\ FreshIds

\* A step that changes neither the orders nor the client map.
LEMMA SilentIds ==
    ASSUME IdInv, UNCHANGED bookVars,
           UNCHANGED <<pc, taker>> \/ (pc # "idle" /\ taker' = taker) \/ pc' = "idle"
    PROVE  IdInv'
<1>1. SameOrders /\ mapClientIdToOrder' = mapClientIdToOrder
  BY DEF bookVars, orderVars, SameOrders
<1> QED BY <1>1 DEF IdInv, Cancellable, FreshIds, SameOrders

\* A removed order takes its own cell with it and no other.
LEMMA RemoveIds ==
    ASSUME IInv, IdInv, NEW o \in liveOrders, removeOrderFromBook(o),
           pc' = pc, pc # "idle" => /\ taker'.clientId = taker.clientId
                                    /\ taker'.clientOrderId = taker.clientOrderId
    PROVE  IdInv'
<1> DEFINE cell(x) == <<order[x].clientId, order[x].clientOrderId>>
<1>1. OrderGone(o)
  BY RemoveOrders DEF OrderGone
<1>2. mapClientIdToOrder' = [mapClientIdToOrder EXCEPT ![cell(o)] = Null]
  BY DEF removeOrderFromBook, clearClientCell
<1>3. ASSUME NEW x \in liveOrders'
      PROVE  mapClientIdToOrder'[cell(x)'] = x
  <2>1. x \in liveOrders /\ x # o /\ cell(x)' = cell(x)
    BY <1>1, <1>3 DEF OrderGone
  <2>2. mapClientIdToOrder[cell(x)] = x /\ mapClientIdToOrder[cell(o)] = o
    BY <2>1 DEF IdInv, Cancellable
  <2>3. cell(x) \in Clients \X OrderIds
    BY <2>1 DEF IInv, BookInv, OrderRings, Order
  <2>4. mapClientIdToOrder \in [Clients \X OrderIds -> OrderPtr \cup {Null}]
    BY DEF IInv, BookInv, BookType
  <2> HIDE DEF cell
  <2> QED BY <1>2, <2>1, <2>2, <2>3, <2>4
<1>4. Cancellable'
  BY <1>3 DEF Cancellable
<1>5. FreshIds'
  BY <1>1 DEF IdInv, FreshIds, OrderGone
<1> QED BY <1>4, <1>5 DEF IdInv

\* A resting order gets a cell that no other order needs.
LEMMA PlaceIds ==
    ASSUME IInv, IdInv, pc # "idle", HasCell, NEW o \in OrderPtr \ liveOrders, Place(o)
    PROVE  IdInv'
<1> DEFINE cell(x) == <<order[x].clientId, order[x].clientOrderId>>
           new == <<taker.clientId, taker.clientOrderId>>
<1>1. OrderRests(o)
  BY DEF Place, OrderRests, IInv, BookInv, BookType
<1>2. mapClientIdToOrder' = [mapClientIdToOrder EXCEPT ![new] = o] /\ pc' = "idle"
  BY DEF Place, setClientCell, Return
<1>3. new \in Clients \X OrderIds /\ cell(o)' = new
  BY <1>1 DEF HasCell, OrderRests, Resting
<1>4. ASSUME NEW x \in liveOrders
      PROVE  /\ cell(x)' = cell(x) /\ cell(x) # new /\ mapClientIdToOrder[cell(x)] = x
             /\ cell(x) \in Clients \X OrderIds
  BY <1>1, <1>4 DEF OrderRests, IdInv, Cancellable, FreshIds, IInv, BookInv, OrderRings, Order
<1>5. mapClientIdToOrder \in [Clients \X OrderIds -> OrderPtr \cup {Null}]
  BY DEF IInv, BookInv, BookType
<1> HIDE DEF cell, new
<1>6. \A x \in liveOrders' : mapClientIdToOrder'[cell(x)'] = x
  BY <1>1, <1>2, <1>3, <1>4, <1>5 DEF OrderRests
<1>7. Cancellable'
  BY <1>6 DEF Cancellable, cell
<1> QED BY <1>2, <1>7 DEF IdInv, FreshIds

\* A filled order keeps its ids and its cell.
LEMMA matchOrderIds == ASSUME IInv, IdInv, matchOrder PROVE IdInv'
<1> DEFINE o    == Candidate
           fill == min(taker.qty, order[o].qty)
           left == order[o].qty - fill
<1>1. o \in liveOrders /\ order[o] \in Order /\ o \in OrderPtr
  BY LiveOrder DEF matchOrder, Crosses, Candidate, IInv, BookInv, LevelRings
<1>2. /\ IF left = 0
         THEN removeOrderFromBook(o)
         ELSE /\ order' = [order EXCEPT ![o].qty = left]
              /\ UNCHANGED <<liveOrders, mapClientIdToOrder>>
      /\ pc' = pc /\ pc = "match"
      /\ taker'.clientId = taker.clientId /\ taker'.clientOrderId = taker.clientOrderId
  BY DEF matchOrder, IInv, CallInv, CallType, Taker
<1> HIDE DEF o, fill, left
<1>3. CASE left = 0
  BY <1>1, <1>2, <1>3, RemoveIds
<1>4. CASE left # 0
  <2>1. OrderFilled(o, left)
    BY <1>1, <1>2, <1>4 DEF OrderFilled, IInv, BookInv, BookType
  <2>2. \A x \in liveOrders : /\ order'[x].clientId = order[x].clientId
                              /\ order'[x].clientOrderId = order[x].clientOrderId
    BY <1>1, <2>1 DEF OrderFilled, Order
  <2> QED BY <1>2, <1>4, <2>1, <2>2 DEF IdInv, Cancellable, FreshIds, OrderFilled
<1> QED BY <1>3, <1>4

\* cancelOrder changes nothing, or removes an order.
LEMMA cancelOrderIds ==
    ASSUME IInv, IdInv, NEW client \in Clients \cup WildClients,
           NEW id \in OrderIds \cup WildOrderIds, cancelOrder(client, id)
    PROVE  IdInv'
<1>1. UNCHANGED <<pc, taker>> /\ pc = "idle"
  BY DEF cancelOrder, callVars
<1>2. \/ UNCHANGED bookVars
      \/ client \in Clients /\ id \in OrderIds /\ Cancel(client, id)
  <2>1. CASE client \in WildClients
    BY <2>1, RangeAssumption DEF cancelOrder, Reject
  <2>2. CASE client \in Clients /\ id \in WildOrderIds
    BY <2>2, RangeAssumption DEF cancelOrder, CancelThrows
  <2>3. CASE client \in Clients /\ id \in OrderIds
    BY <2>3, RangeAssumption DEF cancelOrder, Reject
  <2> QED BY <2>1, <2>2, <2>3
<1>3. CASE UNCHANGED bookVars
  BY <1>1, <1>3, SilentIds
<1>4. CASE client \in Clients /\ id \in OrderIds /\ Cancel(client, id)
  <2>1. mapClientIdToOrder[<<client, id>>] \in liveOrders
    BY <1>4 DEF Cancel, IInv, BookInv, ClientMapSound
  <2> QED BY <1>1, <1>4, <2>1, RemoveIds DEF Cancel
<1> QED BY <1>2, <1>3, <1>4

\* The rest of an addOrder call.
LEMMA ContinueIds == ASSUME IInv, IdInv, Continue PROVE IdInv'
<1>1. CASE matchOrder
  BY <1>1, matchOrderIds
<1>2. CASE Discard \/ BeginSeek
  BY <1>2, SilentIds DEF Discard, BeginSeek, NeedsLevel, CanRest, Matched, Return
<1>3. CASE SeekNext
  BY <1>3, SilentIds DEF SeekNext
<1>4. CASE Rests
  <2>1. HasCell
    BY <1>4 DEF Rests, AppendToLevel, OpenSide, NeedsLevel, CanRest, InsertAfter,
                InsertBefore, Seeking, IInv, CallInv, SearchSafe
  <2> QED BY <1>4, <2>1, RestsPlaces, PlaceIds
<1>5. CASE Fault
  BY <1>5, SilentIds DEF Fault, Crash, callVars
<1> QED BY <1>1, <1>2, <1>3, <1>4, <1>5 DEF Continue, Rests

\* A request with the ids of no resting order starts a call with fresh ids.
LEMMA addOrderIds ==
    ASSUME UniqueIds, IInv, IdInv, NEW client, NEW id, NEW side, NEW price, NEW qty,
           addOrder(client, id, side, price, qty)
    PROVE  IdInv'
<1>1. SameOrders /\ mapClientIdToOrder' = mapClientIdToOrder
  BY DEF addOrder, bookVars, orderVars, SameOrders
<1>2. /\ taker'.clientId = client /\ taker'.clientOrderId = id
      /\ AdmissibleId(client, id)
  BY DEF addOrder
<1>3. Cancellable'
  BY <1>1 DEF IdInv, Cancellable, SameOrders
<1>4. FreshIds'
  BY <1>1, <1>2 DEF FreshIds, SameOrders, AdmissibleId
<1> QED BY <1>3, <1>4 DEF IdInv

\* While no client reuses the id of an order it has in the book, every resting
\* order is the one its owner's cell of mapClientIdToOrder_ points to, so that
\* cancelOrder finds it: no later order, trade or cancellation takes the cell
\* away.  Prices may collide and sides be INVALID.
THEOREM RestingOrdersCancellable == ASSUME UniqueIds PROVE Spec => []Cancellable
<1>1. Init => IdInv
  BY DEF Init, IdInv, Cancellable, FreshIds
<1>2. IInv /\ IdInv /\ [Next]_vars => IdInv'
  <2> SUFFICES ASSUME IInv, IdInv, [Next]_vars PROVE IdInv'
    OBVIOUS
  <2>1. CASE UNCHANGED vars
    BY <2>1, SilentIds DEF vars, callVars
  <2>2. CASE destroy
    BY <2>2, SilentIds DEF destroy, Crash, callVars
  <2>3. CASE Continue
    BY <2>3, ContinueIds
  <2>4. CASE \E client \in Clients \cup WildClients, id \in OrderIds \cup WildOrderIds :
                \/ \E side \in InputSides, price \in Prices, qty \in Qtys :
                      addOrder(client, id, side, price, qty)
                \/ cancelOrder(client, id)
    BY <2>4, addOrderIds, cancelOrderIds
  <2> QED BY <2>1, <2>2, <2>3, <2>4 DEF Next
<1>3. IdInv => Cancellable
  BY DEF IdInv
<1> QED BY <1>1, <1>2, <1>3, Invariance, PTL DEF Spec
=============================================================================
