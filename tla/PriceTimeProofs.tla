-------------------------- MODULE PriceTimeProofs --------------------------
(***************************************************************************)
(* The book keeps price-time priority, for every number of clients,        *)
(* orders, levels and prices, as long as no two prices share an index,     *)
(* sides are BUY or SELL and no request opens a worst level behind two     *)
(* others.                                                                 *)
(*                                                                         *)
(* The argument is that the levels of a side form a sorted ring whose      *)
(* first node is the best pointer, as the orders of a level do             *)
(* (OrderBookProofs), and that the search of addPriceLevel has only passed *)
(* levels better than the new one.                                         *)
(***************************************************************************)
EXTENDS OrderBookProofs, WellFoundedInduction

\* The regime in which the code promises price-time priority.
Regime ==
    /\ InputSides \subseteq {"BUY", "SELL"} /\ ~DeepTails
    /\ \A p, q \in Prices : priceToIndex(p) = priceToIndex(q) => p = q

\* Smaller ranks are better prices.
Rank(side, price) == IF side = "BUY" THEN 0 - price ELSE price

LevelBook == [l \in liveLevels |-> BookOf(level[l].side)]

LevelRank == [l \in liveLevels |-> Rank(level[l].side, level[l].price)]

\* Only prices and sides of requests get into the book.
KnownLevels ==
    \A l \in liveLevels : level[l].side \in {"BUY", "SELL"} /\ level[l].price \in Prices

KnownOrders == \A o \in liveOrders : order[o].price \in Prices

KnownTaker == pc # "idle" => taker.side \in {"BUY", "SELL"} /\ taker.price \in Prices

\* A best pointer is null or at a level of its side.
BestInv ==
    \A b \in {"bids", "asks"} :
        best[b] # Null => best[b] \in liveLevels /\ LevelBook[best[b]] = b

\* The levels of a side are one list that starts at the best pointer, best
\* price first.
LevelsSorted == Ring(liveLevels, lnext, lprev, LevelBook, LevelRank, best)

\* Of two orders at one price the one in front came first.
FirstCome ==
    \A o, p \in liveOrders :
        order[o].price = order[p].price /\ order[o].priority < order[p].priority
            => order[o].marketOrderId < order[p].marketOrderId

NeverCross == \A b \in Bids, a \in Asks : order[b].price < order[a].price

SortedBook == /\ KnownLevels /\ KnownOrders /\ LevelHoldsItsOrders
              /\ BestInv /\ LevelsSorted /\ FirstCome /\ NeverCross

\* Level l is on the taker's own side.
Own(l) == BookOf(level[l].side) = BookOf(taker.side)

\* The taker does not open a worst level behind two others.
NoDeepTail ==
    pc # "idle" /\ Best # Null /\ lnext[Best] # Best =>
        \E l \in liveLevels : Own(l) /\ ~After(l)

\* The search has passed only levels that the new one goes after; back at the
\* best level it has passed them all.
Passed ==
    pc = "seek" =>
        /\ Best # Null /\ Own(target)
        /\ \A l \in liveLevels : Own(l) /\ LevelRank[l] < LevelRank[target] => After(l)
        /\ target = Best /\ After(target) => \A l \in liveLevels : Own(l) => After(l)

\* The taker reaches no order of the other side.
TakerClear ==
    \A o \in liveOrders : order[o].side # taker.side =>
                             ~Reaches(taker.side, taker.price, order[o].price)

SortedCall == /\ KnownTaker /\ NoDeepTail /\ Passed
              /\ pc = "seek" => TakerClear

SortedInv == SortedBook /\ SortedCall

-----------------------------------------------------------------------------
(* Facts about a sorted book *)

LEMMA LiveLevel ==
    ASSUME IInv, SortedBook, NEW l \in liveLevels
    PROVE  /\ l \in LevelPtr /\ l # Null
           /\ level[l].side \in {"BUY", "SELL"} /\ level[l].price \in Int
           /\ LevelBook[l] = BookOf(level[l].side) /\ LevelBook[l] \in {"bids", "asks"}
           /\ LevelRank[l] = Rank(level[l].side, level[l].price) /\ LevelRank[l] \in Int
<1>1. l \in LevelPtr /\ l # Null /\ level[l] \in OrdersAtPrice
  BY LevelIndex, PointerAssumption DEF IInv
<1>2. level[l].side \in {"BUY", "SELL"} /\ level[l].price \in Int
  BY <1>1 DEF OrdersAtPrice, SortedBook, KnownLevels
<1>3. /\ LevelBook[l] = BookOf(level[l].side)
      /\ LevelRank[l] = Rank(level[l].side, level[l].price)
  BY DEF LevelBook, LevelRank
<1>4. BookOf(level[l].side) \in {"bids", "asks"}
  BY DEF BookOf
<1>5. Rank(level[l].side, level[l].price) \in Int
  BY <1>2 DEF Rank
<1> QED BY <1>1, <1>2, <1>3, <1>4, <1>5

\* A resting order has the price and the side of its level.
LEMMA OrderAtLevel ==
    ASSUME IInv, SortedBook, NEW x \in liveOrders
    PROVE  \E l \in liveLevels : /\ l = getLevelForPrice(order[x].price)
                                 /\ level[l].price = order[x].price
                                 /\ level[l].side = order[x].side
<1> DEFINE l == getLevelForPrice(order[x].price)
<1>1. l \in liveLevels
  BY LiveOrder DEF IInv, getLevelForPrice
<1>2. level[l].price = order[x].price /\ level[l].side = order[x].side
  BY DEF SortedBook, LevelHoldsItsOrders
<1> QED BY <1>1, <1>2

\* The first order of a level.
LEMMA FirstOfLevel ==
    ASSUME IInv, SortedBook, NEW l \in liveLevels
    PROVE  /\ order0[l] \in liveOrders /\ order[order0[l]] \in Order
           /\ order[order0[l]].price = level[l].price
           /\ order[order0[l]].side = level[l].side
<1>1. order0[l] \in liveOrders /\ getLevelForPrice(order[order0[l]].price) = l
  BY DEF IInv, BookInv, LevelRings
<1>2. order[order0[l]] \in Order
  BY <1>1, LiveOrder DEF IInv
<1> QED BY <1>1, <1>2 DEF SortedBook, LevelHoldsItsOrders

\* The best pointer of a side that has levels is at the best of them.
LEMMA BestIsBest ==
    ASSUME IInv, SortedBook, NEW l \in liveLevels, NEW b, b = LevelBook[l]
    PROVE  /\ best[b] \in liveLevels /\ best[b] # Null /\ LevelBook[best[b]] = b
           /\ LevelRank[best[b]] <= LevelRank[l]
<1>1. /\ best[b] \in liveLevels /\ LevelBook[best[b]] = b
      /\ l # best[b] => LevelRank[best[b]] < LevelRank[l]
  BY DEF SortedBook, LevelsSorted, Ring
<1>2. best[b] # Null /\ LevelRank[best[b]] \in Int /\ LevelRank[l] \in Int
  BY <1>1, LiveLevel
<1> QED BY <1>1, <1>2

\* Where a new level goes is a matter of ranks.
LEMMA AfterIsRank ==
    ASSUME IInv, SortedBook, taker \in Taker, taker.side \in {"BUY", "SELL"},
           NEW l \in liveLevels, Own(l)
    PROVE  /\ level[l].side = taker.side
           /\ After(l) <=> LevelRank[l] < Rank(taker.side, taker.price)
           /\ Rank(taker.side, taker.price) \in Int
<1>1. level[l].side = taker.side
  BY LiveLevel DEF Own, BookOf
<1>2. taker.price \in Int /\ level[l].price \in Int
  BY LiveLevel DEF Taker
<1>3. LevelRank[l] = Rank(taker.side, level[l].price)
  BY <1>1, LiveLevel
<1> QED BY <1>1, <1>2, <1>3 DEF After, ShouldAddAfter, Rank

\* When findMatch has returned, the taker reaches no order of the other side.
LEMMA MatchedClear ==
    ASSUME IInv, SortedBook, KnownTaker, Matched, taker.qty # 0
    PROVE  TakerClear
<1>1. taker \in Taker /\ taker.side \in {"BUY", "SELL"} /\ taker.price \in Int
  BY DEF Matched, IInv, CallInv, CallType, KnownTaker, Taker
<1> SUFFICES ASSUME NEW x \in liveOrders, order[x].side # taker.side
             PROVE  ~Reaches(taker.side, taker.price, order[x].price)
  BY DEF TakerClear
<1>2. PICK l \in liveLevels : /\ level[l].price = order[x].price
                              /\ level[l].side = order[x].side
  BY OrderAtLevel
<1> DEFINE b == Opposite(taker.side)
           t == best[b]
<1>3. LevelBook[l] = b
  BY <1>1, <1>2, LiveLevel DEF BookOf, Opposite
<1>4. t \in liveLevels /\ t # Null /\ LevelBook[t] = b /\ LevelRank[t] <= LevelRank[l]
  BY <1>3, BestIsBest
<1>5. ~Reaches(taker.side, taker.price, level[t].price)
  <2>1. SeesOpposite /\ ~Crosses
    BY <1>1, <1>4 DEF SeesOpposite, Matched
  <2>2. ~Reaches(taker.side, taker.price, order[order0[t]].price)
    BY <1>4, <2>1 DEF Crosses, Candidate
  <2> QED BY <1>4, <2>2, FirstOfLevel
<1>6. level[t].side = level[l].side
  BY <1>3, <1>4, LiveLevel DEF BookOf
<1>7. Rank(level[l].side, level[t].price) <= Rank(level[l].side, level[l].price)
  BY <1>4, <1>6, LiveLevel
<1>8. level[t].price \in Int /\ level[l].price \in Int
      /\ level[l].side \in {"BUY", "SELL"} /\ level[l].side # taker.side
  BY <1>2, <1>4, LiveLevel
<1> HIDE DEF t, b
<1> QED BY <1>1, <1>2, <1>5, <1>7, <1>8 DEF Rank, Reaches

\* The order that findMatch looks at next is the first of the best ones.
LEMMA CandidateIsFirst ==
    ASSUME IInv, SortedBook, KnownTaker PROVE PriceTimePriority
<1> SUFFICES ASSUME pc = "match", SeesOpposite,
                    NEW x \in IF taker.side = "BUY" THEN Asks ELSE Bids
             PROVE  LET c == order[Candidate] IN
                    /\ IF taker.side = "BUY" THEN c.price <= order[x].price
                                             ELSE c.price >= order[x].price
                    /\ c.price = order[x].price => c.marketOrderId <= order[x].marketOrderId
  BY DEF PriceTimePriority
<1> DEFINE b == Opposite(taker.side)
           t == best[b]
           c == order0[t]
<1>1. taker.side \in {"BUY", "SELL"} /\ b \in {"bids", "asks"}
  BY DEF SeesOpposite, Opposite
<1>2. x \in liveOrders /\ order[x].side = IF taker.side = "BUY" THEN "SELL" ELSE "BUY"
  BY DEF Asks, Bids
<1>3. t \in liveLevels /\ LevelBook[t] = b
  BY <1>1 DEF SeesOpposite, SortedBook, BestInv
<1>4. PICK l \in liveLevels : /\ l = getLevelForPrice(order[x].price)
                              /\ level[l].price = order[x].price
                              /\ level[l].side = order[x].side
  BY <1>2, OrderAtLevel
<1>5. LevelBook[l] = b
  BY <1>1, <1>2, <1>4, LiveLevel DEF BookOf, Opposite
<1>6. level[t].side = level[l].side
  BY <1>3, <1>5, LiveLevel DEF BookOf
<1>7. Rank(level[l].side, level[t].price) <= Rank(level[l].side, level[l].price)
  BY <1>5, <1>6, BestIsBest, LiveLevel
<1>8. /\ c \in liveOrders /\ order[c] \in Order /\ order[c].price = level[t].price
      /\ order[x] \in Order
  BY <1>2, <1>3, FirstOfLevel, LiveOrder DEF IInv
<1>9. level[t].price \in Int /\ level[l].price \in Int
  BY <1>3, LiveLevel
<1>10. IF taker.side = "BUY" THEN order[c].price <= order[x].price
                             ELSE order[c].price >= order[x].price
  <2> HIDE DEF t, c
  <2> QED BY <1>1, <1>2, <1>4, <1>7, <1>8, <1>9 DEF Rank
<1>11. ASSUME order[c].price = order[x].price
       PROVE  order[c].marketOrderId <= order[x].marketOrderId
  <2>1. t = getLevelForPrice(order[c].price)
    BY <1>3 DEF IInv, BookInv, LevelRings
  <2>2. OrderIndex[x] = OrderIndex[c] /\ FirstAt[OrderIndex[x]] = c
    BY <1>2, <1>8, <1>11, <2>1, LiveOrder DEF IInv, getLevelForPrice
  <2>3. x # c => OrderPriority[c] < OrderPriority[x]
    BY <1>2, <2>2 DEF IInv, BookInv, OrderRings, Ring
  <2>4. x # c => order[c].priority < order[x].priority
    BY <1>2, <1>8, <2>3, LiveOrder DEF IInv
  <2>5. x # c => order[c].marketOrderId < order[x].marketOrderId
    BY <1>2, <1>8, <1>11, <2>4 DEF SortedBook, FirstCome
  <2>6. order[c].marketOrderId \in Nat /\ order[x].marketOrderId \in Nat
    BY <1>8 DEF Order
  <2> QED BY <2>5, <2>6
<1> QED BY <1>10, <1>11 DEF Candidate

-----------------------------------------------------------------------------
(* Removing an order *)

\* Book b may change, the other does not.
OtherBookKept(b) ==
    /\ \A c \in {"bids", "asks"} \ {b} : best'[c] = best[c]
    /\ \A l \in liveLevels : LevelBook[l] # b => /\ l \in liveLevels'
                                                 /\ level'[l] = level[l]
                                                 /\ lnext'[l] = lnext[l]

\* Removing a level leaves the lists sorted.
LEMMA RemoveLevelSorted ==
    ASSUME IInv, SortedBook, NEW o \in liveOrders,
           removePriceLevel(order[o].side, order[o].price)
    PROVE  KnownLevels' /\ BestInv' /\ LevelsSorted' /\ OtherBookKept(BookOf(order[o].side))
<1>1. PICK l \in liveLevels : /\ l = getLevelForPrice(order[o].price)
                              /\ level[l].side = order[o].side
  BY OrderAtLevel
<1> DEFINE b == BookOf(order[o].side)
           M == liveLevels \ {l}
<1>2. LevelBook[l] = b /\ b \in {"bids", "asks"}
  BY <1>1, LiveLevel
<1>3. /\ best' = [best EXCEPT ![b] = newBest(b, l)]
      /\ lnext' = [lnext EXCEPT ![lprev[l]] = lnext[l], ![l] = Null]
      /\ lprev' = [lprev EXCEPT ![lnext[l]] = lprev[l], ![l] = Null]
      /\ liveLevels' = M
      /\ level' = [level EXCEPT ![l] = Null]
  BY <1>1 DEF removePriceLevel, unlinkLevel, deallocateLevel
<1>4. /\ Null \notin LevelPtr /\ liveLevels \in SUBSET LevelPtr
      /\ level \in [LevelPtr -> OrdersAtPrice \cup {Null}]
      /\ lnext \in [LevelPtr -> LevelPtr \cup {Null}]
      /\ lprev \in [LevelPtr -> LevelPtr \cup {Null}]
      /\ best \in [{"bids", "asks"} -> LevelPtr \cup {Null}]
  BY PointerAssumption DEF IInv, BookInv, BookType
<1>5. Ring(liveLevels, lnext, lprev, LevelBook, LevelRank, best)
  BY DEF SortedBook, LevelsSorted
<1>6. \A x \in liveLevels : LevelRank[x] \in Int /\ LevelBook[x] \in {"bids", "asks"}
  BY LiveLevel
<1>7. \A x \in M : /\ level'[x] = level[x] /\ LevelBook'[x] = LevelBook[x]
                   /\ LevelRank'[x] = LevelRank[x]
  BY <1>3, <1>4 DEF LevelBook, LevelRank
<1>8. KnownLevels'
  BY <1>3, <1>7 DEF KnownLevels, SortedBook
<1>9. /\ lnext[l] \in liveLevels /\ lprev[lnext[l]] = l /\ LevelBook[lnext[l]] = b
      /\ lprev[l] \in liveLevels /\ lnext[lprev[l]] = l /\ LevelBook[lprev[l]] = b
  BY <1>2, <1>5 DEF Ring
<1>10. OtherBookKept(b)
  <2>1. \A c \in {"bids", "asks"} \ {b} : best'[c] = best[c]
    BY <1>3, <1>4
  <2>2. \A x \in liveLevels : LevelBook[x] # b => x \in M /\ lnext'[x] = lnext[x]
    BY <1>2, <1>3, <1>4, <1>9
  <2> QED BY <1>3, <1>7, <2>1, <2>2 DEF OtherBookKept
<1>11. ASSUME NEW c \in {"bids", "asks"}, c # b PROVE best'[c] = best[c] /\ best[c] # l
  <2>1. best'[c] = best[c]
    BY <1>10, <1>11 DEF OtherBookKept
  <2>2. best[c] # l
    BY <1>2, <1>4, <1>11 DEF SortedBook, BestInv
  <2> QED BY <2>1, <2>2
<1>12. CASE lnext[l] = l
  <2>1. lprev[l] = l /\ best'[b] = Null
    BY <1>2, <1>3, <1>4, <1>9, <1>12 DEF newBest
  <2>2. \A x \in M : LevelBook[x] # LevelBook[l] => best'[LevelBook[x]] = best[LevelBook[x]]
    BY <1>2, <1>6, <1>11
  <2>3. Ring(liveLevels', lnext', lprev', LevelBook', LevelRank', best')
    <3>1. \A x \in liveLevels : LevelRank[x] \in Int
      BY <1>6
    <3>2. \A x \in liveLevels \ {l} : LevelBook'[x] = LevelBook[x] /\ LevelRank'[x] = LevelRank[x]
      BY <1>7
    <3>3. lprev[l] = l
      BY <2>1
    <3>4. \A x \in liveLevels \ {l} :
             /\ lnext'[x] = lnext[x] /\ lprev'[x] = lprev[x]
             /\ LevelBook'[x] = LevelBook[x] /\ LevelRank'[x] = LevelRank[x]
      BY <1>3, <1>4, <1>12, <2>1, <3>2
    <3>5. liveLevels' = liveLevels \ {l}
      BY <1>3
    <3> HIDE DEF b
    <3>6. \A x \in liveLevels \ {l} : LevelBook[x] # LevelBook[l]
             => best'[LevelBook[x]] = best[LevelBook[x]]
      BY <2>2
    <3>7. Ring(liveLevels \ {l}, lnext', lprev', LevelBook', LevelRank', best')
      BY ONLY l \in liveLevels, <1>5, <3>1, <3>3, <3>4, <3>6, RingDrop
    <3> QED BY <3>5, <3>7
  <2>4. LevelsSorted'
    BY <2>3 DEF LevelsSorted
  <2>5. BestInv'
    BY <1>2, <1>3, <1>4, <1>7, <1>11, <2>1 DEF BestInv, SortedBook
  <2> QED BY <1>8, <1>10, <2>4, <2>5
<1>13. CASE lnext[l] # l
  <2>1. lprev[l] # l /\ lnext[l] \in M
    BY <1>9, <1>13
  <2>2. best'[b] = IF best[b] = l THEN lnext[l] ELSE best[b]
    BY <1>2, <1>3, <1>4, <1>13 DEF newBest
  <2>3. \A x \in M :
           /\ LevelBook[x] = LevelBook[l] /\ best[LevelBook[l]] = l
                 => best'[LevelBook[x]] = lnext[l]
           /\ LevelBook[x] # LevelBook[l] \/ best[LevelBook[l]] # l
                 => best'[LevelBook[x]] = best[LevelBook[x]]
    BY <1>2, <1>6, <1>11, <2>2
  <2>4. Ring(M, [lnext EXCEPT ![lprev[l]] = lnext[l], ![l] = Null],
                [lprev EXCEPT ![lnext[l]] = lprev[l], ![l] = Null], LevelBook, LevelRank, best')
    <3> HIDE DEF b
    <3> QED BY ONLY l \in liveLevels, <1>4, <1>5, <1>6, <2>1, <2>3, RingUnlink
  <2>5. Ring(M, lnext', lprev', LevelBook', LevelRank', best')
    <3>1. Ring(M, lnext', lprev', LevelBook, LevelRank, best')
      BY <1>3, <2>4
    <3> QED BY ONLY <1>7, <3>1, RingSame
  <2>6. LevelsSorted'
    BY <1>3, <2>5 DEF LevelsSorted
  <2>7. BestInv'
    <3> SUFFICES ASSUME NEW c \in {"bids", "asks"}, best'[c] # Null
                 PROVE  best'[c] \in M /\ LevelBook[best'[c]] = c
      BY <1>3, <1>7 DEF BestInv
    <3>1. best[c] # Null => best[c] \in liveLevels /\ LevelBook[best[c]] = c
      BY DEF SortedBook, BestInv
    <3>2. CASE c # b
      BY <1>11, <3>1, <3>2
    <3>3. CASE c = b
      BY <1>9, <2>1, <2>2, <3>1, <3>3
    <3> QED BY <3>2, <3>3
  <2> QED BY <1>8, <1>10, <2>6, <2>7
<1> QED BY <1>12, <1>13

\* A level's list is sorted by what did not change.
LEMMA LevelsSame ==
    ASSUME SortedBook, UNCHANGED levelVars
    PROVE  KnownLevels' /\ BestInv' /\ LevelsSorted' /\ LevelBook' = LevelBook
           /\ LevelRank' = LevelRank
<1>1. LevelBook' = LevelBook /\ LevelRank' = LevelRank
  BY DEF LevelBook, LevelRank, levelVars
<1> QED BY <1>1 DEF SortedBook, KnownLevels, BestInv, LevelsSorted, levelVars

\* Fewer orders are sorted if more were.
LEMMA FewerOrders ==
    ASSUME IInv, SortedBook, NEW o, OrderGone(o)
    PROVE  KnownOrders' /\ FirstCome' /\ NeverCross'
<1>1. liveOrders' \subseteq liveOrders /\ \A x \in liveOrders' : order'[x] = order[x]
  BY DEF OrderGone
<1>2. KnownOrders'
  BY <1>1 DEF SortedBook, KnownOrders
<1>3. FirstCome'
  BY <1>1 DEF SortedBook, FirstCome
<1>4. NeverCross'
  BY <1>1 DEF SortedBook, NeverCross, Bids, Asks
<1> QED BY <1>2, <1>3, <1>4

\* removeOrderFromBook keeps the book sorted and the other side as it is.
LEMMA RemoveSorted ==
    ASSUME IInv, SortedBook, NEW o \in liveOrders, removeOrderFromBook(o)
    PROVE  SortedBook' /\ OtherBookKept(BookOf(order[o].side)) /\ OrderGone(o)
<1>1. OrderGone(o)
  BY RemoveOrders DEF OrderGone
<1>2. KnownOrders' /\ FirstCome' /\ NeverCross'
  BY <1>1, FewerOrders
<1>3. BookInv'
  BY RemoveKeeps DEF IInv
<1>4. /\ KnownLevels' /\ BestInv' /\ LevelsSorted' /\ OtherBookKept(BookOf(order[o].side))
      /\ \A l \in liveLevels' : l \in liveLevels /\ level'[l] = level[l]
      /\ \A i \in Index : mapPriceToPriceLevel'[i] # Null =>
                             mapPriceToPriceLevel'[i] = mapPriceToPriceLevel[i]
  <2>1. CASE oprev[o] = o
    <3>1. removePriceLevel(order[o].side, order[o].price)
      BY <2>1 DEF removeOrderFromBook
    <3>2. priceToIndex(order[o].price) \in Index
      BY LiveOrder DEF IInv
    <3>3. /\ \A l \in liveLevels' : l \in liveLevels /\ level'[l] = level[l]
          /\ \A i \in Index : mapPriceToPriceLevel'[i] # Null =>
                                 mapPriceToPriceLevel'[i] = mapPriceToPriceLevel[i]
      BY <3>1, <3>2 DEF removePriceLevel, deallocateLevel, clearPriceCell, IInv, BookInv, BookType
    <3> QED BY <3>1, <3>3, RemoveLevelSorted
  <2>2. CASE oprev[o] # o
    <3>1. UNCHANGED levelVars
      BY <2>2 DEF removeOrderFromBook
    <3>2. OtherBookKept(BookOf(order[o].side))
      BY <3>1 DEF OtherBookKept, levelVars
    <3> QED BY <3>1, <3>2, LevelsSame DEF levelVars
  <2> QED BY <2>1, <2>2
<1>5. LevelHoldsItsOrders'
  <2> SUFFICES ASSUME NEW x \in liveOrders'
               PROVE  LET l == mapPriceToPriceLevel'[priceToIndex(order'[x].price)]
                      IN  /\ level'[l].side = order'[x].side
                          /\ level'[l].price = order'[x].price
    BY DEF LevelHoldsItsOrders, getLevelForPrice
  <2>1. x \in liveOrders /\ order'[x] = order[x]
    BY <1>1 DEF OrderGone
  <2> DEFINE i == priceToIndex(order[x].price)
             l == mapPriceToPriceLevel'[i]
  <2>2. i \in Index
    BY <2>1, LiveOrder DEF IInv
  <2>3. l # Null
    BY <1>3, <2>1 DEF BookInv, LevelRings, getLevelForPrice
  <2>4. l = mapPriceToPriceLevel[i] /\ l \in liveLevels'
    BY <1>3, <1>4, <2>2, <2>3 DEF BookInv, LevelRings
  <2>5. level[l].side = order[x].side /\ level[l].price = order[x].price
    BY <2>1, <2>4 DEF SortedBook, LevelHoldsItsOrders, getLevelForPrice
  <2> QED BY <1>4, <2>1, <2>4, <2>5
<1> QED BY <1>1, <1>2, <1>4, <1>5 DEF SortedBook

\* A partial fill changes one quantity.
LEMMA FillSorted ==
    ASSUME IInv, SortedBook, NEW o, NEW left, OrderFilled(o, left),
           UNCHANGED <<levelVars, order0>>
    PROVE  SortedBook'
<1>1. /\ liveOrders' = liveOrders
      /\ \A x \in liveOrders : /\ order'[x].price = order[x].price
                               /\ order'[x].side = order[x].side
                               /\ order'[x].priority = order[x].priority
                               /\ order'[x].marketOrderId = order[x].marketOrderId
  <2>1. \A x \in liveOrders : order[x] \in Order
    BY LiveOrder DEF IInv
  <2> QED BY <2>1 DEF OrderFilled, Order
<1>2. KnownLevels' /\ BestInv' /\ LevelsSorted'
  BY LevelsSame
<1>3. KnownOrders' /\ FirstCome' /\ NeverCross'
  BY <1>1 DEF SortedBook, KnownOrders, FirstCome, NeverCross, Bids, Asks
<1>4. LevelHoldsItsOrders'
  BY <1>1 DEF SortedBook, LevelHoldsItsOrders, getLevelForPrice, levelVars
<1> QED BY <1>2, <1>3, <1>4 DEF SortedBook

-----------------------------------------------------------------------------
(* Resting an order *)

\* A new order behind those of its price, that reaches nobody.
LEMMA RestOrders ==
    ASSUME IInv, SortedBook, KnownTaker, IdsGrow, TakerClear, pc # "idle", IInv',
           NEW o, OrderRests(o),
           \A x \in liveOrders : order[x].price = taker.price =>
                                    order[x].priority < Resting.priority
    PROVE  KnownOrders' /\ FirstCome' /\ NeverCross'
<1>1. /\ liveOrders' = liveOrders \cup {o} /\ o \notin liveOrders
      /\ order'[o] = Resting /\ \A x \in liveOrders : order'[x] = order[x]
  BY DEF OrderRests
<1>2. /\ Resting.price = taker.price /\ Resting.side = taker.side
      /\ Resting.marketOrderId = taker.marketOrderId
  BY DEF Resting
<1> HIDE DEF Resting
<1>3. taker.side \in {"BUY", "SELL"} /\ taker.price \in Prices
  BY DEF KnownTaker
<1>4. KnownOrders'
  BY <1>1, <1>2, <1>3 DEF SortedBook, KnownOrders
<1>5. FirstCome'
  <2> SUFFICES ASSUME NEW x \in liveOrders', NEW y \in liveOrders',
                      order'[x].price = order'[y].price,
                      order'[x].priority < order'[y].priority
               PROVE  order'[x].marketOrderId < order'[y].marketOrderId
    BY DEF FirstCome
  <2>1. CASE x \in liveOrders /\ y \in liveOrders
    BY <1>1, <2>1 DEF SortedBook, FirstCome
  <2>2. CASE x \in liveOrders /\ y = o
    BY <1>1, <1>2, <2>2 DEF IdsGrow
  <2>3. CASE x = o
    <3>1. y # o => order[y].priority < Resting.priority /\ order'[y] = order[y]
      BY <1>1, <1>2, <2>3
    <3>2. Resting.priority \in Int /\ order'[y].priority \in Int
      <4>1. \A z \in liveOrders' : order'[z] \in Order
        BY DEF IInv, BookInv, OrderRings
      <4>2. \A z \in liveOrders' : order'[z].priority \in Int
        BY <4>1 DEF Order
      <4> QED BY <1>1, <4>2
    <3> QED BY <1>1, <2>3, <3>1, <3>2
  <2> QED BY <1>1, <2>1, <2>2, <2>3
<1>6. NeverCross'
  <2> SUFFICES ASSUME NEW x \in liveOrders', NEW y \in liveOrders',
                      order'[x].side = "BUY", order'[y].side = "SELL"
               PROVE  order'[x].price < order'[y].price
    BY DEF NeverCross, Bids, Asks
  <2>1. CASE x \in liveOrders /\ y \in liveOrders
    BY <1>1, <2>1 DEF SortedBook, NeverCross, Bids, Asks
  <2>2. CASE x = o /\ y \in liveOrders
    <3>1. ~(taker.price >= order[y].price)
      BY <1>1, <1>2, <2>2 DEF TakerClear, Reaches
    <3>2. taker.price \in Int /\ order[y].price \in Int
      BY <1>3, <2>2, PriceAssumption DEF SortedBook, KnownOrders
    <3> QED BY <1>1, <1>2, <2>2, <3>1, <3>2
  <2>3. CASE x \in liveOrders /\ y = o
    <3>1. ~(taker.price <= order[x].price)
      BY <1>1, <1>2, <2>3 DEF TakerClear, Reaches
    <3>2. taker.price \in Int /\ order[x].price \in Int
      BY <1>3, <2>3, PriceAssumption DEF SortedBook, KnownOrders
    <3> QED BY <1>1, <1>2, <2>3, <3>1, <3>2
  <2>4. ~(x = o /\ y = o)
    OBVIOUS
  <2> QED BY <1>1, <2>1, <2>2, <2>3, <2>4
<1> QED BY <1>4, <1>5, <1>6

\* An order that goes to an existing level finds it at its own price and side.
LEMMA AppendSorted ==
    ASSUME Regime, IInv, SortedInv, IdsGrow, AppendToLevel, IInv'
    PROVE  SortedBook'
<1> DEFINE l == getLevelForPrice(taker.price)
           f == order0[l]
<1>1. /\ Matched /\ taker.qty # 0 /\ liveOrders # OrderPtr /\ l # Null /\ pc # "idle"
      /\ SortedBook /\ KnownTaker /\ UNCHANGED <<levelVars, order0>>
  BY DEF AppendToLevel, CanRest, HasBlocks, Matched, SortedInv, SortedCall
<1>2. taker \in Taker /\ taker.side \in {"BUY", "SELL"} /\ taker.price \in Prices
      /\ taker.price \in Int
  BY <1>1, PriceAssumption DEF IInv, CallInv, CallType, KnownTaker
<1>3. TakerClear
  BY <1>1, MatchedClear
<1>4. PICK o \in OrderPtr \ liveOrders : Place(o)
  <2>1. OrderPtr \ liveOrders # {}
    BY <1>1 DEF IInv, BookInv, BookType
  <2> QED BY <2>1, AllocateFree DEF AppendToLevel
<1>5. OrderRests(o)
  BY <1>4 DEF Place, OrderRests, IInv, BookInv, BookType
<1>6. priceToIndex(taker.price) \in Index /\ l = mapPriceToPriceLevel[priceToIndex(taker.price)]
  BY <1>2, IndexInRange DEF getLevelForPrice
<1>7. l \in liveLevels /\ priceToIndex(level[l].price) = priceToIndex(taker.price)
  BY <1>1, <1>6 DEF IInv, BookInv, LevelRings
<1>8. level[l].price = taker.price
  BY <1>1, <1>2, <1>7 DEF Regime, SortedBook, KnownLevels
<1>9. /\ f \in liveOrders /\ order[f].price = taker.price /\ order[f].side = level[l].side
      /\ order[f] \in Order
  BY <1>1, <1>7, <1>8, FirstOfLevel
<1>10. level[l].side = taker.side
  <2> SUFFICES ASSUME order[f].side # taker.side PROVE FALSE
    BY <1>9
  <2>1. ~Reaches(taker.side, taker.price, taker.price)
    BY <1>3, <1>9 DEF TakerClear
  <2> QED BY <1>2, <2>1 DEF Reaches
<1>11. \A x \in liveOrders : order[x].price = taker.price =>
                                order[x].priority < Resting.priority
  <2> SUFFICES ASSUME NEW x \in liveOrders, order[x].price = taker.price
               PROVE  order[x].priority < Resting.priority
    OBVIOUS
  <2>1. OrderIndex[x] = OrderIndex[f] /\ FirstAt[OrderIndex[f]] = f
    BY <1>6, <1>9, LiveOrder DEF IInv
  <2>2. \A y \in liveOrders : OrderPriority[y] \in Int /\ OrderPriority[y] = order[y].priority
    BY LiveOrder DEF IInv
  <2>3. Ring(liveOrders, onext, oprev, OrderIndex, OrderPriority, FirstAt)
    BY DEF IInv, BookInv, OrderRings
  <2>4. oprev[f] \in liveOrders /\ OrderPriority[x] <= OrderPriority[oprev[f]]
    <3>1. \A y \in liveOrders : OrderPriority[y] \in Int
      BY <2>2
    <3> HIDE DEF f
    <3> QED BY ONLY x \in liveOrders, <1>9, <2>1, <2>3, <3>1, RingLast
  <2>5. Resting.priority = order[oprev[f]].priority + 1
    BY <1>1 DEF Resting, getNextPriority
  <2> QED BY <2>2, <2>4, <2>5
<1>12. KnownOrders' /\ FirstCome' /\ NeverCross'
  BY <1>1, <1>3, <1>5, <1>11, RestOrders
<1>13. KnownLevels' /\ BestInv' /\ LevelsSorted'
  BY <1>1, LevelsSame
<1>14. LevelHoldsItsOrders'
  <2>1. mapPriceToPriceLevel' = mapPriceToPriceLevel /\ level' = level
    BY <1>1 DEF levelVars
  <2>2. Resting.price = taker.price /\ Resting.side = taker.side
    BY DEF Resting
  <2> HIDE DEF Resting
  <2> QED BY <1>1, <1>5, <1>6, <1>8, <1>10, <2>1, <2>2
          DEF OrderRests, SortedBook, LevelHoldsItsOrders, getLevelForPrice
<1> QED BY <1>12, <1>13, <1>14 DEF SortedBook

\* What a new level does to the others.
LEMMA NewLevelFrame ==
    ASSUME IInv, SortedBook, taker \in Taker, NEW o, NEW l \in LevelPtr \ liveLevels,
           NewLevel(o, l)
    PROVE  /\ liveLevels' = liveLevels \cup {l}
           /\ \A x \in liveLevels : /\ level'[x] = level[x]
                                    /\ LevelBook'[x] = LevelBook[x]
                                    /\ LevelRank'[x] = LevelRank[x]
           /\ level'[l].side = taker.side /\ level'[l].price = taker.price
           /\ LevelBook'[l] = BookOf(taker.side)
           /\ LevelRank'[l] = Rank(taker.side, taker.price)
           /\ LevelRank'[l] \in Int
<1>1. /\ liveLevels' = liveLevels \cup {l}
      /\ level' = [level EXCEPT ![l] = [side |-> taker.side, price |-> taker.price]]
  BY DEF NewLevel
<1>2. level'[l].side = taker.side /\ level'[l].price = taker.price
  BY <1>1 DEF IInv, BookInv, BookType
<1>3. \A x \in liveLevels : level'[x] = level[x]
  BY <1>1 DEF IInv, BookInv, BookType
<1>4. Rank(taker.side, taker.price) \in Int
  BY DEF Rank, Taker
<1> QED BY <1>1, <1>2, <1>3, <1>4 DEF LevelBook, LevelRank

\* A new level, once it is linked where it belongs.
LEMMA NewLevelSorted ==
    ASSUME IInv, SortedBook, KnownTaker, taker \in Taker, IdsGrow, TakerClear, pc # "idle",
           getLevelForPrice(taker.price) = Null, IInv',
           NEW o \in OrderPtr \ liveOrders, NEW l \in LevelPtr \ liveLevels,
           NewLevel(o, l), BestInv', LevelsSorted'
    PROVE  SortedBook'
<1> DEFINE i == priceToIndex(taker.price)
<1>1. OrderRests(o)
  BY DEF NewLevel, Place, OrderRests, IInv, BookInv, BookType
<1>2. \A x \in liveOrders : order[x].price # taker.price
  BY DEF IInv, BookInv, LevelRings
<1>3. KnownOrders' /\ FirstCome' /\ NeverCross'
  BY <1>1, <1>2, RestOrders
<1>4. KnownLevels'
  BY NewLevelFrame DEF SortedBook, KnownLevels, KnownTaker
<1>5. LevelHoldsItsOrders'
  <2>1. i \in Index /\ mapPriceToPriceLevel[i] = Null
    BY IndexInRange DEF Taker, getLevelForPrice
  <2>2. mapPriceToPriceLevel' = [mapPriceToPriceLevel EXCEPT ![i] = l]
        /\ mapPriceToPriceLevel \in [Index -> LevelPtr \cup {Null}]
    BY DEF NewLevel, IInv, BookInv, BookType
  <2>3. Resting.price = taker.price /\ Resting.side = taker.side
    BY DEF Resting
  <2> HIDE DEF Resting
  <2>4. ASSUME NEW x \in liveOrders
        PROVE  LET m == mapPriceToPriceLevel'[priceToIndex(order'[x].price)]
               IN  level'[m].side = order'[x].side /\ level'[m].price = order'[x].price
    <3> DEFINE k == priceToIndex(order[x].price)
               m == mapPriceToPriceLevel[k]
    <3>1. k \in Index /\ m \in liveLevels /\ m # Null
      BY LiveOrder, LiveLevel DEF IInv
    <3>2. mapPriceToPriceLevel'[k] = m
      BY <2>1, <2>2, <3>1
    <3>3. level[m].side = order[x].side /\ level[m].price = order[x].price
      BY DEF SortedBook, LevelHoldsItsOrders, getLevelForPrice
    <3>4. level'[m] = level[m] /\ order'[x] = order[x]
      BY <1>1, <3>1, NewLevelFrame DEF OrderRests
    <3> HIDE DEF k, m
    <3> QED BY <3>2, <3>3, <3>4 DEF k
  <2>5. LET m == mapPriceToPriceLevel'[priceToIndex(order'[o].price)]
        IN  level'[m].side = order'[o].side /\ level'[m].price = order'[o].price
    BY <1>1, <2>1, <2>2, <2>3, NewLevelFrame DEF OrderRests
  <2> QED BY <1>1, <2>4, <2>5 DEF OrderRests, LevelHoldsItsOrders, getLevelForPrice
<1> QED BY <1>3, <1>4, <1>5 DEF SortedBook

\* The lists seen with the data of the next state, before the links change.
LEMMA RingAhead ==
    ASSUME IInv, SortedBook, taker \in Taker, NEW o, NEW l \in LevelPtr \ liveLevels,
           NewLevel(o, l)
    PROVE  /\ Null \notin LevelPtr /\ liveLevels \in SUBSET LevelPtr
           /\ lnext \in [LevelPtr -> LevelPtr \cup {Null}]
           /\ lprev \in [LevelPtr -> LevelPtr \cup {Null}]
           /\ best \in [{"bids", "asks"} -> LevelPtr \cup {Null}]
           /\ \A x \in liveLevels : LevelRank'[x] \in Int
           /\ Ring(liveLevels, lnext, lprev, LevelBook', LevelRank', best)
<1>1. /\ Null \notin LevelPtr /\ liveLevels \in SUBSET LevelPtr
      /\ lnext \in [LevelPtr -> LevelPtr \cup {Null}]
      /\ lprev \in [LevelPtr -> LevelPtr \cup {Null}]
      /\ best \in [{"bids", "asks"} -> LevelPtr \cup {Null}]
  BY PointerAssumption DEF IInv, BookInv, BookType
<1>2. Ring(liveLevels, lnext, lprev, LevelBook, LevelRank, best)
  BY DEF SortedBook, LevelsSorted
<1>3. \A x \in liveLevels : /\ LevelBook'[x] = LevelBook[x]
                            /\ LevelRank'[x] = LevelRank[x]
  BY NewLevelFrame
<1>4. \A x \in liveLevels : LevelRank'[x] \in Int
  BY <1>3, LiveLevel
<1>5. Ring(liveLevels, lnext, lprev, LevelBook', LevelRank', best)
  BY ONLY <1>2, <1>3, RingSame
<1> QED BY <1>1, <1>4, <1>5

\* A side without a best pointer has no level; the new one is its list.
LEMMA OpenSideSorted ==
    ASSUME IInv, SortedInv, IdsGrow, OpenSide, IInv'
    PROVE  SortedBook'
<1> DEFINE b == BookOf(taker.side)
<1>1. /\ Matched /\ taker.qty # 0 /\ HasBlocks /\ pc # "idle"
      /\ getLevelForPrice(taker.price) = Null /\ best[b] = Null
      /\ SortedBook /\ KnownTaker
  BY DEF OpenSide, NeedsLevel, CanRest, Matched, SortedInv, SortedCall, Best
<1>2. taker \in Taker /\ TakerClear /\ b \in {"bids", "asks"}
  BY <1>1, MatchedClear DEF IInv, CallInv, CallType, BookOf
<1>3. PICK o \in OrderPtr \ liveOrders, l \in LevelPtr \ liveLevels :
         /\ NewLevel(o, l)
         /\ lnext' = [lnext EXCEPT ![l] = l] /\ lprev' = [lprev EXCEPT ![l] = l]
         /\ best' = [best EXCEPT ![b] = l]
  <2>1. PICK o \in allocate(OrderPtr \ liveOrders), l \in allocate(LevelPtr \ liveLevels) :
           /\ NewLevel(o, l)
           /\ lnext' = [lnext EXCEPT ![l] = l] /\ lprev' = [lprev EXCEPT ![l] = l]
           /\ best' = [best EXCEPT ![b] = l]
    BY DEF OpenSide
  <2> QED BY <1>1, <2>1, FreeBlocks
<1>4. /\ Null \notin LevelPtr /\ liveLevels \in SUBSET LevelPtr
      /\ lnext \in [LevelPtr -> LevelPtr \cup {Null}]
      /\ lprev \in [LevelPtr -> LevelPtr \cup {Null}]
      /\ best \in [{"bids", "asks"} -> LevelPtr \cup {Null}]
      /\ Ring(liveLevels, lnext, lprev, LevelBook', LevelRank', best)
  BY <1>1, <1>2, <1>3, RingAhead
<1>5. /\ liveLevels' = liveLevels \cup {l}
      /\ \A x \in liveLevels : LevelBook'[x] = LevelBook[x]
      /\ LevelBook'[l] = b /\ LevelRank'[l] \in Int
  BY <1>1, <1>2, <1>3, NewLevelFrame
<1>6. \A x \in liveLevels : LevelBook[x] # b /\ LevelBook[x] \in {"bids", "asks"}
  BY <1>1, BestIsBest, LiveLevel
<1>7. best'[b] = l /\ \A c \in {"bids", "asks"} \ {b} : best'[c] = best[c]
  BY <1>2, <1>3, <1>4
<1>8. LevelsSorted'
  <2>1. \A x \in liveLevels : best'[LevelBook'[x]] = best[LevelBook'[x]]
    BY <1>5, <1>6, <1>7
  <2>2. Ring(liveLevels, lnext, lprev, LevelBook', LevelRank', best')
    BY ONLY <1>4, <2>1, RingSame
  <2>3. best'[LevelBook'[l]] = l /\ \A x \in liveLevels : LevelBook'[x] # LevelBook'[l]
    BY <1>5, <1>6, <1>7
  <2> HIDE DEF b
  <2>4. Ring(liveLevels \cup {l}, [lnext EXCEPT ![l] = l], [lprev EXCEPT ![l] = l],
             LevelBook', LevelRank', best')
    BY <1>3, <1>4, <1>5, <2>2, <2>3, RingNew
  <2> QED BY <1>3, <1>5, <2>4 DEF LevelsSorted
<1>9. BestInv'
  BY <1>1, <1>2, <1>5, <1>7 DEF BestInv, SortedBook
<1> QED BY <1>1, <1>2, <1>3, <1>8, <1>9, NewLevelSorted

\* What is known when the search ends.
LEMMA SearchEnds ==
    ASSUME IInv, SortedInv, Seeking
    PROVE  /\ taker \in Taker /\ taker.side \in {"BUY", "SELL"} /\ taker.price \in Int
           /\ TakerClear /\ HasBlocks /\ getLevelForPrice(taker.price) = Null
           /\ SortedBook /\ KnownTaker /\ pc # "idle"
           /\ target \in liveLevels /\ Own(target) /\ LevelBook[target] = BookOf(taker.side)
           /\ Best \in liveLevels /\ Own(Best) /\ LevelBook[Best] = BookOf(taker.side)
           /\ \A x \in liveLevels : Own(x) => LevelRank[x] # Rank(taker.side, taker.price)
<1>1. /\ pc = "seek" /\ SortedBook /\ KnownTaker /\ Passed /\ TakerClear
      /\ taker \in Taker /\ taker.side \in {"BUY", "SELL"}
      /\ HasBlocks /\ getLevelForPrice(taker.price) = Null /\ target \in liveLevels
  BY DEF Seeking, SortedInv, SortedCall, IInv, CallInv, CallType, SearchSafe, KnownTaker
<1>2. taker.price \in Int /\ BookOf(taker.side) \in {"bids", "asks"}
  BY <1>1 DEF Taker, BookOf
<1>3. Best \in liveLevels /\ LevelBook[Best] = BookOf(taker.side) /\ Own(target)
  BY <1>1, <1>2 DEF Passed, SortedBook, BestInv, Best
<1>4. Own(Best) /\ LevelBook[target] = BookOf(taker.side)
  BY <1>1, <1>3, LiveLevel DEF Own
<1>5. ASSUME NEW x \in liveLevels, Own(x) PROVE LevelRank[x] # Rank(taker.side, taker.price)
  <2>1. level[x].price # taker.price
    BY <1>1, <1>5, LiveLevel DEF IInv, BookInv, LevelRings
  <2>2. level[x].side = taker.side /\ LevelRank[x] = Rank(taker.side, level[x].price)
        /\ level[x].price \in Int
    BY <1>1, <1>5, LiveLevel, AfterIsRank
  <2> QED BY <1>2, <2>1, <2>2 DEF Rank
<1> QED BY <1>1, <1>2, <1>3, <1>4, <1>5

\* Back at the best level, the new one goes behind the only one.
LEMMA InsertAfterSorted ==
    ASSUME IInv, SortedInv, IdsGrow, InsertAfter, IInv'
    PROVE  SortedBook'
<1>1. Seeking /\ After(target) /\ target = Best /\ best' = best
  BY DEF InsertAfter
<1>2. /\ taker \in Taker /\ taker.side \in {"BUY", "SELL"}
      /\ TakerClear /\ HasBlocks /\ getLevelForPrice(taker.price) = Null
      /\ SortedBook /\ KnownTaker /\ pc # "idle"
      /\ target \in liveLevels /\ Own(target) /\ LevelBook[target] = BookOf(taker.side)
  BY <1>1, SearchEnds
<1>3. lnext[target] = target
  <2>1. Passed /\ NoDeepTail /\ target # Null
    BY <1>2, LiveLevel DEF SortedInv, SortedCall
  <2>2. \A x \in liveLevels : Own(x) => After(x)
    BY <1>1, <2>1 DEF Passed, Seeking
  <2> QED BY <1>1, <1>2, <2>1, <2>2 DEF NoDeepTail
<1>4. lprev[target] = target
  BY <1>2, <1>3 DEF IInv, BookInv, LevelRings, Linked
<1>5. PICK o \in OrderPtr \ liveOrders, l \in LevelPtr \ liveLevels :
         /\ NewLevel(o, l)
         /\ lprev' = [lprev EXCEPT ![l] = target, ![lnext[target]] = l]
         /\ lnext' = [lnext EXCEPT ![l] = lnext[target], ![target] = l]
  <2>1. PICK o \in allocate(OrderPtr \ liveOrders), l \in allocate(LevelPtr \ liveLevels) :
           /\ NewLevel(o, l)
           /\ lprev' = [lprev EXCEPT ![l] = target, ![lnext[target]] = l]
           /\ lnext' = [lnext EXCEPT ![l] = lnext[target], ![target] = l]
    BY DEF InsertAfter
  <2> QED BY <1>2, <2>1, FreeBlocks
<1>6. /\ lnext' = [lnext EXCEPT ![l] = target, ![lprev[target]] = l]
      /\ lprev' = [lprev EXCEPT ![l] = lprev[target], ![target] = l]
  BY <1>3, <1>4, <1>5
<1>7. /\ Null \notin LevelPtr /\ liveLevels \in SUBSET LevelPtr
      /\ lnext \in [LevelPtr -> LevelPtr \cup {Null}]
      /\ lprev \in [LevelPtr -> LevelPtr \cup {Null}]
      /\ \A x \in liveLevels : LevelRank'[x] \in Int
      /\ Ring(liveLevels, lnext, lprev, LevelBook', LevelRank', best)
  BY <1>2, <1>5, RingAhead
<1>8. /\ liveLevels' = liveLevels \cup {l}
      /\ \A x \in liveLevels : LevelBook'[x] = LevelBook[x] /\ LevelRank'[x] = LevelRank[x]
      /\ LevelBook'[l] = BookOf(taker.side) /\ LevelRank'[l] = Rank(taker.side, taker.price)
      /\ LevelRank'[l] \in Int
  BY <1>2, <1>5, NewLevelFrame
<1>9. /\ target = best[LevelBook'[target]] /\ LevelBook'[l] = LevelBook'[target]
      /\ LevelRank'[lprev[target]] < LevelRank'[l]
  BY <1>1, <1>2, <1>4, <1>8, AfterIsRank DEF Best
<1>10. LevelsSorted'
  <2>1. Ring(liveLevels \cup {l}, [lnext EXCEPT ![l] = target, ![lprev[target]] = l],
             [lprev EXCEPT ![l] = lprev[target], ![target] = l], LevelBook', LevelRank', best)
    BY ONLY l \in LevelPtr \ liveLevels, <1>2, <1>7, <1>8, <1>9, RingAppend
  <2> QED BY <1>1, <1>6, <1>8, <2>1 DEF LevelsSorted
<1>11. BestInv'
  BY <1>1, <1>2, <1>8 DEF BestInv, SortedBook
<1> QED BY <1>2, <1>5, <1>10, <1>11, NewLevelSorted

\* The search stops at the first level that is not better than the new one.
LEMMA InsertBeforeSorted ==
    ASSUME IInv, SortedInv, IdsGrow, InsertBefore, IInv'
    PROVE  SortedBook'
<1> DEFINE b == BookOf(taker.side)
           rank == Rank(taker.side, taker.price)
<1>1. Seeking /\ ~After(target)
  BY DEF InsertBefore
<1>2. /\ taker \in Taker /\ taker.side \in {"BUY", "SELL"} /\ taker.price \in Int
      /\ TakerClear /\ HasBlocks /\ getLevelForPrice(taker.price) = Null
      /\ SortedBook /\ KnownTaker /\ pc # "idle"
      /\ target \in liveLevels /\ Own(target) /\ LevelBook[target] = b
      /\ Best \in liveLevels /\ Own(Best) /\ LevelBook[Best] = b
      /\ LevelRank[target] # rank
  BY <1>1, SearchEnds
<1>3. PICK o \in OrderPtr \ liveOrders, l \in LevelPtr \ liveLevels :
         /\ NewLevel(o, l)
         /\ lnext' = [lnext EXCEPT ![l] = target, ![lprev[target]] = l]
         /\ lprev' = [lprev EXCEPT ![l] = lprev[target], ![target] = l]
         /\ best' = [best EXCEPT ![b] =
                        IF BecomesBest(taker.side, taker.price, level[Best].price)
                        THEN l ELSE Best]
  <2>1. PICK o \in allocate(OrderPtr \ liveOrders), l \in allocate(LevelPtr \ liveLevels) :
           /\ NewLevel(o, l)
           /\ lnext' = [lnext EXCEPT ![l] = target, ![lprev[target]] = l]
           /\ lprev' = [lprev EXCEPT ![l] = lprev[target], ![target] = l]
           /\ best' = [best EXCEPT ![b] =
                          IF BecomesBest(taker.side, taker.price, level[Best].price)
                          THEN l ELSE Best]
    BY DEF InsertBefore, Best
  <2> QED BY <1>2, <2>1, FreeBlocks
<1>4. /\ Null \notin LevelPtr /\ liveLevels \in SUBSET LevelPtr
      /\ lnext \in [LevelPtr -> LevelPtr \cup {Null}]
      /\ lprev \in [LevelPtr -> LevelPtr \cup {Null}]
      /\ best \in [{"bids", "asks"} -> LevelPtr \cup {Null}]
      /\ \A x \in liveLevels : LevelRank'[x] \in Int
      /\ Ring(liveLevels, lnext, lprev, LevelBook', LevelRank', best)
  BY <1>2, <1>3, RingAhead
<1>5. /\ liveLevels' = liveLevels \cup {l}
      /\ \A x \in liveLevels : LevelBook'[x] = LevelBook[x] /\ LevelRank'[x] = LevelRank[x]
      /\ LevelBook'[l] = b /\ LevelRank'[l] = rank /\ LevelRank'[l] \in Int
  BY <1>2, <1>3, NewLevelFrame
<1>6. \A x \in liveLevels : LevelRank[x] \in Int
  BY <1>2, LiveLevel
<1>7. rank < LevelRank[target]
  BY <1>1, <1>2, <1>5, <1>6, AfterIsRank
<1>8. \A x \in liveLevels : LevelBook[x] = b /\ LevelRank[x] < LevelRank[target] =>
                               LevelRank[x] < rank
  <2> SUFFICES ASSUME NEW x \in liveLevels, LevelBook[x] = b,
                      LevelRank[x] < LevelRank[target]
               PROVE  LevelRank[x] < rank
    OBVIOUS
  <2>1. Own(x)
    BY <1>2, LiveLevel DEF Own
  <2>2. After(x)
    BY <1>1, <2>1 DEF SortedInv, SortedCall, Passed, Seeking
  <2> QED BY <1>2, <2>1, <2>2, AfterIsRank
<1>9. Best = best[b] /\ b \in {"bids", "asks"}
  BY DEF Best, BookOf
<1>10. best'[b] = IF best[b] = target THEN l ELSE best[b]
  <2>1. BecomesBest(taker.side, taker.price, level[Best].price) <=> rank < LevelRank[Best]
    <3>1. level[Best].side = taker.side /\ level[Best].price \in Int
          /\ LevelRank[Best] = Rank(taker.side, level[Best].price)
      BY <1>2, LiveLevel, AfterIsRank
    <3> QED BY <1>2, <3>1 DEF BecomesBest, Rank
  <2>2. best'[b] = IF rank < LevelRank[Best] THEN l ELSE Best
    BY <1>3, <1>4, <1>9, <2>1
  <2>3. CASE Best = target
    BY <1>7, <1>9, <2>2, <2>3
  <2>4. CASE Best # target
    <3>1. LevelRank[Best] < LevelRank[target]
      BY <1>2, <1>9, <2>4 DEF SortedBook, LevelsSorted, Ring
    <3>2. LevelRank[Best] < rank
      BY <1>2, <1>8, <3>1
    <3>3. ~(rank < LevelRank[Best])
      BY <1>2, <1>5, <1>6, <3>2
    <3> QED BY <1>9, <2>2, <2>4, <3>3
  <2> QED BY <2>3, <2>4
<1>11. \A c \in {"bids", "asks"} \ {b} : best'[c] = best[c]
  BY <1>3, <1>4
<1>12. LevelsSorted'
  <2>1. FitsBefore(liveLevels, LevelBook', LevelRank', target, l)
    BY <1>2, <1>4, <1>5, <1>7, <1>8 DEF FitsBefore
  <2>2. FirstBefore(liveLevels, LevelBook', best, target, l, best')
    BY <1>2, <1>5, <1>10, <1>11, LiveLevel DEF FirstBefore
  <2>3. LinkedBefore(liveLevels, lnext, lprev, target, l, lnext', lprev')
    <3>1. lprev[target] \in liveLevels
      BY <1>2 DEF IInv, BookInv, LevelRings, Linked
    <3> QED BY <1>2, <1>3, <1>4, <3>1 DEF LinkedBefore
  <2>4. Ring(liveLevels \cup {l}, lnext', lprev', LevelBook', LevelRank', best')
    BY <1>2, <1>4, <2>1, <2>2, <2>3, RingBefore
  <2> QED BY <1>5, <2>4 DEF LevelsSorted
<1>13. BestInv'
  <2> SUFFICES ASSUME NEW c \in {"bids", "asks"}, best'[c] # Null
               PROVE  best'[c] \in liveLevels' /\ LevelBook'[best'[c]] = c
    BY DEF BestInv
  <2>1. CASE c = b
    BY <1>2, <1>5, <1>9, <1>10, <2>1
  <2>2. CASE c # b
    BY <1>2, <1>5, <1>11, <2>2 DEF SortedBook, BestInv
  <2> QED BY <2>1, <2>2
<1> QED BY <1>2, <1>3, <1>12, <1>13, NewLevelSorted

-----------------------------------------------------------------------------
(* The actions *)

\* A step that leaves the book alone.
LEMMA BookStays ==
    ASSUME SortedBook, UNCHANGED bookVars
    PROVE  SortedBook' /\ LevelBook' = LevelBook /\ LevelRank' = LevelRank
<1>1. /\ UNCHANGED levelVars /\ liveOrders' = liveOrders /\ order' = order
  BY DEF bookVars, orderVars
<1>2. KnownLevels' /\ BestInv' /\ LevelsSorted' /\ LevelBook' = LevelBook /\ LevelRank' = LevelRank
  BY <1>1, LevelsSame
<1>3. KnownOrders' /\ FirstCome' /\ NeverCross'
  BY <1>1 DEF SortedBook, KnownOrders, FirstCome, NeverCross, Bids, Asks
<1>4. LevelHoldsItsOrders'
  BY <1>1 DEF SortedBook, LevelHoldsItsOrders, getLevelForPrice, levelVars
<1> QED BY <1>2, <1>3, <1>4 DEF SortedBook

\* A step that leaves the call alone too.
LEMMA StepAside ==
    ASSUME SortedInv, UNCHANGED <<bookVars, callVars>> PROVE SortedInv'
<1>1. SortedBook' /\ LevelBook' = LevelBook /\ LevelRank' = LevelRank
  BY BookStays DEF SortedInv
<1>2. /\ pc' = pc /\ taker' = taker /\ target' = target /\ best' = best /\ level' = level
      /\ lnext' = lnext /\ liveLevels' = liveLevels /\ liveOrders' = liveOrders /\ order' = order
  BY DEF bookVars, orderVars, levelVars, callVars
<1>3. KnownTaker' /\ NoDeepTail'
  BY <1>2 DEF SortedInv, SortedCall, KnownTaker, NoDeepTail, Own, After, Best
<1>4. Passed'
  BY <1>1, <1>2 DEF SortedInv, SortedCall, Passed, Own, After, Best
<1>5. pc' = "seek" => TakerClear'
  BY <1>2 DEF SortedInv, SortedCall, TakerClear
<1> QED BY <1>1, <1>3, <1>4, <1>5 DEF SortedInv, SortedCall

\* Between calls nothing is claimed of the arguments.
LEMMA NoCall == ASSUME pc' = "idle" PROVE SortedCall'
  BY DEF SortedCall, KnownTaker, NoDeepTail, Passed

LEMMA addOrderSorted ==
    ASSUME Regime, SortedInv, NEW client, NEW id, NEW side \in InputSides,
           NEW price \in Prices, NEW qty, addOrder(client, id, side, price, qty)
    PROVE  SortedInv'
<1>1. /\ AdmissiblePrice(side, price) /\ pc' = "match" /\ UNCHANGED bookVars
      /\ taker'.side = side /\ taker'.price = price
  BY DEF addOrder
<1>2. SortedBook'
  BY <1>1, BookStays DEF SortedInv
<1>3. KnownTaker'
  BY <1>1 DEF Regime, KnownTaker
<1>4. NoDeepTail'
  <2>1. best' = best /\ level' = level /\ lnext' = lnext /\ liveLevels' = liveLevels
    BY <1>1 DEF bookVars, levelVars
  <2> DEFINE b == best[BookOf(side)]
  <2>2. b # Null /\ lnext[b] # b =>
           \E l \in liveLevels : /\ BookOf(level[l].side) = BookOf(side)
                                 /\ ~ShouldAddAfter(side, price, level[l].price)
    BY <1>1 DEF AdmissiblePrice, Regime
  <2> QED BY <1>1, <2>1, <2>2 DEF NoDeepTail, Best, Own, After
<1>5. Passed' /\ pc' # "seek"
  BY <1>1 DEF Passed
<1> QED BY <1>2, <1>3, <1>4, <1>5 DEF SortedInv, SortedCall

\* A trade takes orders and levels of the other side only.
LEMMA matchOrderSorted ==
    ASSUME IInv, SortedInv, matchOrder PROVE SortedInv'
<1> DEFINE b    == Opposite(taker.side)
           o    == order0[best[b]]
           fill == min(taker.qty, order[o].qty)
           left == order[o].qty - fill
<1>1. /\ pc = "match" /\ pc' = "match" /\ best[b] \in liveLevels
      /\ taker.side \in {"BUY", "SELL"} /\ SortedBook /\ taker \in Taker
      /\ taker' = [taker EXCEPT !.filled = @ + fill]
      /\ IF left = 0
         THEN removeOrderFromBook(o)
         ELSE /\ order' = [order EXCEPT ![o].qty = left]
              /\ UNCHANGED <<liveOrders, levelVars, order0>>
  BY DEF matchOrder, Crosses, SeesOpposite, Candidate, SortedInv, IInv, CallInv, CallType
<1>2. b \in {"bids", "asks"} /\ LevelBook[best[b]] = b /\ best[b] # Null
  BY <1>1, LiveLevel DEF Opposite, SortedBook, BestInv
<1>3. o \in liveOrders /\ order[o] \in Order /\ BookOf(order[o].side) = b
  BY <1>1, <1>2, FirstOfLevel, LiveLevel
<1>4. taker'.side = taker.side /\ taker'.price = taker.price
  BY <1>1 DEF Taker
<1> HIDE DEF o, fill, left
<1>5. SortedBook' /\ OtherBookKept(b)
  <2>1. CASE left = 0
    BY <1>1, <1>3, <2>1, RemoveSorted
  <2>2. CASE left # 0
    <3>1. OrderFilled(o, left)
      BY <1>1, <1>3, <2>2 DEF OrderFilled, IInv, BookInv, BookType
    <3>2. OtherBookKept(b)
      BY <1>1, <2>2 DEF OtherBookKept, levelVars
    <3> QED BY <1>1, <2>2, <3>1, <3>2, FillSorted
  <2> QED BY <2>1, <2>2
<1>6. KnownTaker'
  BY <1>1, <1>4 DEF SortedInv, SortedCall, KnownTaker
<1>7. NoDeepTail'
  <2> SUFFICES ASSUME Best' # Null, lnext'[Best'] # Best'
               PROVE  \E l \in liveLevels' : Own(l)' /\ ~After(l)'
    BY DEF NoDeepTail
  <2>1. BookOf(taker.side) \in {"bids", "asks"} \ {b}
    BY <1>1 DEF BookOf, Opposite
  <2>2. Best' = Best
    BY <1>4, <1>5, <2>1 DEF Best, OtherBookKept
  <2>3. Best \in liveLevels /\ LevelBook[Best] # b
    BY <1>1, <2>1, <2>2 DEF SortedBook, BestInv, Best
  <2>4. lnext'[Best] = lnext[Best]
    BY <1>5, <2>3 DEF OtherBookKept
  <2>5. PICK l \in liveLevels : Own(l) /\ ~After(l)
    BY <1>1, <2>2, <2>4 DEF SortedInv, SortedCall, NoDeepTail
  <2>6. LevelBook[l] # b
    BY <1>1, <2>1, <2>5, LiveLevel DEF Own
  <2>7. l \in liveLevels' /\ level'[l] = level[l]
    BY <1>5, <2>6 DEF OtherBookKept
  <2> QED BY <1>4, <2>5, <2>7 DEF Own, After
<1>8. Passed' /\ pc' # "seek"
  BY <1>1 DEF Passed
<1> QED BY <1>5, <1>6, <1>7, <1>8 DEF SortedInv, SortedCall

\* cancelOrder changes nothing, or removes an order.
LEMMA cancelOrderSorted ==
    ASSUME IInv, SortedInv, NEW client \in Clients \cup WildClients,
           NEW id \in OrderIds \cup WildOrderIds, cancelOrder(client, id)
    PROVE  SortedInv'
<1>1. UNCHANGED callVars /\ pc' = "idle"
  BY DEF cancelOrder, callVars
<1>2. \/ UNCHANGED bookVars
      \/ client \in Clients /\ id \in OrderIds /\ Cancel(client, id)
  <2>1. CASE client \in WildClients
    BY <2>1, RangeAssumption DEF cancelOrder, Reject
  <2>2. CASE client \in Clients /\ id \in WildOrderIds
    BY <2>2, RangeAssumption DEF cancelOrder, CancelThrows
  <2>3. CASE client \in Clients /\ id \in OrderIds
    BY <2>3, RangeAssumption DEF cancelOrder, Reject
  <2> QED BY <2>1, <2>2, <2>3
<1>3. CASE UNCHANGED bookVars
  BY <1>1, <1>3, StepAside
<1>4. CASE client \in Clients /\ id \in OrderIds /\ Cancel(client, id)
  <2>1. mapClientIdToOrder[<<client, id>>] \in liveOrders
    BY <1>4 DEF Cancel, IInv, BookInv, ClientMapSound
  <2>2. SortedBook'
    BY <1>4, <2>1, RemoveSorted DEF Cancel, SortedInv
  <2> QED BY <1>1, <2>2, NoCall DEF SortedInv
<1> QED BY <1>2, <1>3, <1>4

\* The search starts at the best level, or behind it.
LEMMA BeginSeekSorted ==
    ASSUME IInv, SortedInv, BeginSeek PROVE SortedInv'
<1>1. /\ Matched /\ taker.qty # 0 /\ Best \in liveLevels /\ pc = "match" /\ pc' = "seek"
      /\ target' = IF After(Best) THEN lnext[Best] ELSE Best
      /\ UNCHANGED bookVars /\ taker' = taker /\ SortedBook /\ KnownTaker /\ NoDeepTail
  BY DEF BeginSeek, NeedsLevel, CanRest, Matched, SortedInv, SortedCall
<1>2. taker \in Taker /\ taker.side \in {"BUY", "SELL"} /\ TakerClear
  BY <1>1, MatchedClear DEF IInv, CallInv, CallType, KnownTaker
<1>3. SortedBook' /\ LevelBook' = LevelBook /\ LevelRank' = LevelRank
  BY <1>1, BookStays
<1>4. /\ best' = best /\ level' = level /\ lnext' = lnext /\ liveLevels' = liveLevels
      /\ liveOrders' = liveOrders /\ order' = order
  BY <1>1 DEF bookVars, orderVars, levelVars
<1>5. KnownTaker' /\ NoDeepTail' /\ TakerClear'
  BY <1>1, <1>2, <1>4 DEF KnownTaker, NoDeepTail, Own, After, Best, TakerClear
<1> DEFINE b == BookOf(taker.side)
<1>6. Best = best[b] /\ b \in {"bids", "asks"} /\ Best # Null /\ LevelBook[Best] = b
  BY <1>1, LiveLevel DEF Best, BookOf, SortedBook, BestInv
<1>7. \A l \in liveLevels : /\ Own(l) <=> LevelBook[l] = b
                            /\ LevelRank[l] \in Int
  BY <1>1, LiveLevel DEF Own
<1>8. Ring(liveLevels, lnext, lprev, LevelBook, LevelRank, best)
  BY <1>1 DEF SortedBook, LevelsSorted
<1>9. /\ lnext[Best] \in liveLevels /\ LevelBook[lnext[Best]] = b
      /\ lprev[lnext[Best]] = Best
  BY <1>1, <1>6, <1>8 DEF Ring
<1>10. \A l \in liveLevels : LevelBook[l] = b /\ l # Best =>
          /\ LevelRank[Best] < LevelRank[l] /\ LevelRank[lnext[Best]] <= LevelRank[l]
          /\ LevelRank[Best] < LevelRank[lnext[Best]]
  <2> SUFFICES ASSUME NEW l \in liveLevels, LevelBook[l] = b, l # Best
               PROVE  /\ LevelRank[Best] < LevelRank[l]
                      /\ LevelRank[lnext[Best]] <= LevelRank[l]
                      /\ LevelRank[Best] < LevelRank[lnext[Best]]
    OBVIOUS
  <2>1. LevelRank[Best] < LevelRank[l]
    BY <1>6, <1>8 DEF Ring
  <2> QED BY <1>1, <1>6, <1>8, <2>1 DEF Ring
<1>11. target' \in liveLevels /\ Own(target')
  BY <1>1, <1>6, <1>7, <1>9
<1>12. ASSUME NEW l \in liveLevels, Own(l), LevelRank[l] < LevelRank[target'] PROVE After(l)
  <2>1. CASE After(Best)
    <3>1. l = Best
      BY <1>1, <1>7, <1>9, <1>10, <1>12, <2>1
    <3> QED BY <2>1, <3>1
  <2>2. CASE ~After(Best)
    BY <1>1, <1>7, <1>10, <1>12, <2>2
  <2> QED BY <2>1, <2>2
<1>13. ASSUME target' = Best, After(Best), NEW l \in liveLevels, Own(l) PROVE After(l)
  <2>1. lnext[Best] = Best
    BY <1>1, <1>13
  <2>2. l = Best
    BY <1>1, <1>7, <1>10, <1>13, <2>1
  <2> QED BY <1>13, <2>2
<1>14. Best' = Best /\ \A l : (Own(l)' <=> Own(l)) /\ (After(l)' <=> After(l))
  BY <1>1, <1>4 DEF Best, Own, After
<1>15. After(target)' = After(target') /\ Own(target)' = Own(target')
  BY <1>1, <1>4 DEF After, Own
<1>16. Passed'
  BY <1>3, <1>4, <1>6, <1>11, <1>12, <1>13, <1>14, <1>15 DEF Passed
<1> QED BY <1>3, <1>5, <1>16 DEF SortedInv, SortedCall

\* The search goes on behind a level that is better than the new one.
LEMMA SeekNextSorted ==
    ASSUME IInv, SortedInv, SeekNext PROVE SortedInv'
<1>1. /\ Seeking /\ After(target) /\ target # Best /\ target' = lnext[target]
      /\ UNCHANGED bookVars /\ taker' = taker /\ pc' = "seek" /\ pc = "seek"
      /\ NoDeepTail /\ Passed
  BY DEF SeekNext, Seeking, SortedInv, SortedCall
<1>2. /\ taker \in Taker /\ taker.side \in {"BUY", "SELL"} /\ TakerClear
      /\ SortedBook /\ KnownTaker
      /\ target \in liveLevels /\ Own(target) /\ LevelBook[target] = BookOf(taker.side)
      /\ Best \in liveLevels
  BY <1>1, SearchEnds
<1>3. SortedBook' /\ LevelBook' = LevelBook /\ LevelRank' = LevelRank
  BY <1>1, <1>2, BookStays
<1>4. /\ best' = best /\ level' = level /\ lnext' = lnext /\ liveLevels' = liveLevels
      /\ liveOrders' = liveOrders /\ order' = order
  BY <1>1 DEF bookVars, orderVars, levelVars
<1>5. KnownTaker' /\ NoDeepTail' /\ TakerClear'
  BY <1>1, <1>2, <1>4 DEF KnownTaker, NoDeepTail, Own, After, Best, TakerClear
<1> DEFINE b == BookOf(taker.side)
<1>6. Best = best[b] /\ Best # Null
  BY <1>2, LiveLevel DEF Best
<1>7. \A l \in liveLevels : /\ Own(l) <=> LevelBook[l] = b
                            /\ LevelRank[l] \in Int
  BY <1>2, LiveLevel DEF Own
<1>8. Ring(liveLevels, lnext, lprev, LevelBook, LevelRank, best)
  BY <1>2 DEF SortedBook, LevelsSorted
<1>9. lnext[target] \in liveLevels /\ LevelBook[lnext[target]] = b
  BY <1>2, <1>8 DEF Ring
<1>10. \A l \in liveLevels : LevelBook[l] = b /\ LevelRank[target] < LevelRank[l] =>
          LevelRank[lnext[target]] <= LevelRank[l] /\ LevelRank[target] < LevelRank[lnext[target]]
  BY <1>2, <1>8 DEF Ring
<1>11. \A l \in liveLevels : LevelBook[l] = b /\ LevelRank[l] = LevelRank[target] => l = target
  BY <1>2, <1>8 DEF Ring
<1>12. Own(lnext[target])
  BY <1>7, <1>9
<1>13. ASSUME NEW l \in liveLevels, Own(l), ~(LevelRank[target] < LevelRank[l])
       PROVE  After(l)
  <2>1. CASE LevelRank[l] < LevelRank[target]
    BY <1>1, <1>13, <2>1 DEF Passed
  <2>2. CASE LevelRank[l] = LevelRank[target]
    BY <1>1, <1>7, <1>11, <1>13, <2>2
  <2> QED BY <1>2, <1>7, <1>13, <2>1, <2>2
<1>14. ASSUME NEW l \in liveLevels, Own(l), LevelRank[l] < LevelRank[target'] PROVE After(l)
  <2>1. ~(LevelRank[target] < LevelRank[l])
    BY <1>1, <1>7, <1>9, <1>10, <1>14
  <2> QED BY <1>13, <1>14, <2>1
<1>15. ASSUME target' = Best, NEW l \in liveLevels, Own(l) PROVE After(l)
  <2>1. LevelRank[Best] < LevelRank[target]
    BY <1>1, <1>2, <1>6, <1>8 DEF Ring
  <2>2. ~(LevelRank[target] < LevelRank[l])
    BY <1>1, <1>2, <1>7, <1>10, <1>15, <2>1
  <2> QED BY <1>13, <1>15, <2>2
<1>16. Best' = Best /\ \A l : (Own(l)' <=> Own(l)) /\ (After(l)' <=> After(l))
  BY <1>1, <1>4 DEF Best, Own, After
<1>17. After(target)' = After(target') /\ Own(target)' = Own(target')
  BY <1>1, <1>4 DEF After, Own
<1>18. Passed'
  BY <1>1, <1>3, <1>4, <1>6, <1>12, <1>14, <1>15, <1>16, <1>17 DEF Passed
<1> QED BY <1>3, <1>5, <1>18 DEF SortedInv, SortedCall

\* The four ways of resting an order end the call.
LEMMA RestsSorted ==
    ASSUME Regime, IInv, SortedInv, FeedInv, Rests, IInv' PROVE SortedInv'
<1>1. SortedBook'
  BY AppendSorted, OpenSideSorted, InsertAfterSorted, InsertBeforeSorted DEF Rests, FeedInv
<1>2. pc' = "idle"
  BY RestsPlaces DEF Place, Return
<1> QED BY <1>1, <1>2, NoCall DEF SortedInv

\* The rest of an addOrder call.
LEMMA ContinueSorted ==
    ASSUME Regime, IInv, SortedInv, FeedInv, Continue, IInv' PROVE SortedInv'
<1>1. CASE Discard
  <2>1. SortedBook' /\ pc' = "idle"
    BY <1>1, BookStays DEF Discard, Return, SortedInv
  <2> QED BY <2>1, NoCall DEF SortedInv
<1>2. CASE Fault
  BY <1>2, StepAside DEF Fault, Crash
<1> QED BY <1>1, <1>2, matchOrderSorted, BeginSeekSorted, SeekNextSorted, RestsSorted
        DEF Continue, Rests

LEMMA NextSorted ==
    ASSUME Regime, IInv, FeedInv, SortedInv, [Next]_vars PROVE SortedInv'
<1>1. IInv'
  BY NextIInv
<1>2. CASE UNCHANGED vars
  BY <1>2, StepAside DEF vars
<1>3. CASE destroy
  BY <1>3, StepAside DEF destroy, Crash
<1>4. CASE Continue
  BY <1>1, <1>4, ContinueSorted
<1>5. CASE \E client \in Clients \cup WildClients, id \in OrderIds \cup WildOrderIds :
              \/ \E side \in InputSides, price \in Prices, qty \in Qtys :
                    addOrder(client, id, side, price, qty)
              \/ cancelOrder(client, id)
  BY <1>5, addOrderSorted, cancelOrderSorted
<1> QED BY <1>2, <1>3, <1>4, <1>5 DEF Next

\* An empty book is sorted.
LEMMA InitSorted == ASSUME Init PROVE SortedInv
<1>1. KnownLevels /\ KnownOrders /\ LevelHoldsItsOrders /\ LevelsSorted /\ FirstCome /\ NeverCross
  BY DEF Init, KnownLevels, KnownOrders, LevelHoldsItsOrders, LevelsSorted, Ring, FirstCome,
         NeverCross, Bids, Asks
<1>2. BestInv /\ pc = "idle"
  BY DEF Init, BestInv
<1> QED BY <1>1, <1>2 DEF SortedInv, SortedBook, SortedCall, KnownTaker, NoDeepTail, Passed

-----------------------------------------------------------------------------
(* Price-time priority *)

\* The levels of each side stay one list, best price first, and addPriceLevel's
\* search only passes levels that are better than the new one.
THEOREM SortedInvariance == ASSUME Regime PROVE Spec => []SortedInv
<1>1. Init => SortedInv
  BY InitSorted
<1>2. IInv /\ FeedInv /\ SortedInv /\ [Next]_vars => SortedInv'
  BY NextSorted
<1> QED BY <1>1, <1>2, Invariance, FeedInvariance, PTL DEF Spec

\* A level of the book holds the orders of one price and one side: an order
\* that addOrderToBook appends to the level of its index never meets orders of
\* the other side there, as it would have traded with them.
THEOREM LevelsHoldTheirOrders == ASSUME Regime PROVE Spec => []LevelHoldsItsOrders
<1>1. SortedInv => LevelHoldsItsOrders
  BY DEF SortedInv, SortedBook
<1> QED BY <1>1, SortedInvariance, PTL

\* When a call has returned, no resting bid reaches a resting ask, although
\* findMatch looks at the first order of the best level only.
THEOREM NeverCrossed == ASSUME Regime PROVE Spec => []Uncrossed
<1>1. SortedInv => Uncrossed
  BY DEF SortedInv, SortedBook, NeverCross, Uncrossed
<1> QED BY <1>1, SortedInvariance, PTL

\* findMatch trades with the best price of the other side first and, at that
\* price, with the order that came first, whatever was added, filled and
\* cancelled before.
THEOREM PriceTimeKept == ASSUME Regime PROVE Spec => []PriceTimePriority
<1>1. IInv /\ SortedInv => PriceTimePriority
  BY CandidateIsFirst DEF SortedInv, SortedCall
<1> QED BY <1>1, Invariance, SortedInvariance, PTL

-----------------------------------------------------------------------------
(* The check of toString *)

\* A set of natural numbers has a least element.
LEMMA Least ==
    ASSUME NEW T \in SUBSET Nat, T # {}
    PROVE  \E m \in T : \A k \in T : m <= k
<1> DEFINE R == {ss \in Nat \X Nat : ss[1] < ss[2]}
<1>1. IsWellFoundedOn(R, Nat)
  BY NatLessThanWellFounded DEF OpToRel
<1> HIDE DEF R
<1>2. PICK m \in T : \A k \in T : ~(<<k, m>> \in R)
  BY <1>1, WFMin
<1>3. \A k \in T : ~(k < m)
  BY <1>2 DEF R
<1> QED BY <1>3

\* Each level but the best has a better one before it.
LEMMA BetterBefore ==
    ASSUME IInv, SortedBook, NEW l \in liveLevels, NEW b, LevelBook[l] = b, l # best[b]
    PROVE  /\ lprev[l] \in liveLevels /\ lnext[lprev[l]] = l /\ LevelBook[lprev[l]] = b
           /\ LevelRank[lprev[l]] < LevelRank[l]
<1>1. Ring(liveLevels, lnext, lprev, LevelBook, LevelRank, best)
  BY DEF SortedBook, LevelsSorted
<1>2. /\ lprev[l] \in liveLevels /\ lnext[lprev[l]] = l /\ LevelBook[lprev[l]] = b
      /\ best[b] \in liveLevels /\ LevelBook[best[b]] = b /\ LevelRank[best[b]] < LevelRank[l]
  BY <1>1 DEF Ring
<1>3. LevelRank[lprev[l]] < LevelRank[l]
  BY <1>1, <1>2 DEF Ring
<1> QED BY <1>2, <1>3

\* From the best level toString visits exactly the levels of that side.
LEMMA WalksItsBook ==
    ASSUME IInv, SortedBook, NEW b \in {"bids", "asks"}, best[b] # Null
    PROVE  Walk(best[b]) = {l \in liveLevels : LevelBook[l] = b}
<1> DEFINE S == {l \in liveLevels : LevelBook[l] = b}
<1>1. best[b] \in S /\ liveLevels \subseteq LevelPtr
  BY DEF SortedBook, BestInv, IInv, BookInv, BookType
<1>2. \A x \in S : lnext[x] \in S
  BY DEF SortedBook, LevelsSorted, Ring
<1>3. Walk(best[b]) \subseteq S
  BY <1>1, <1>2 DEF Walk
<1>4. ASSUME NEW l \in S, NEW visited \in SUBSET LevelPtr, best[b] \in visited,
             \A x \in visited \cap liveLevels : lnext[x] \in visited
      PROVE  l \in visited
  <2> SUFFICES ASSUME l \notin visited PROVE FALSE
    OBVIOUS
  <2> DEFINE d(x) == LevelRank[x] - LevelRank[best[b]]
             T == {d(x) : x \in S \ visited}
  <2>1. \A x \in S : LevelRank[x] \in Int /\ d(x) \in Nat
    BY <1>1, LiveLevel, BestIsBest
  <2>2. T \in SUBSET Nat /\ T # {}
    BY <1>4, <2>1
  <2>3. PICK x \in S \ visited : \A y \in S \ visited : d(x) <= d(y)
    <3>1. PICK m \in T : \A k \in T : m <= k
      <4> HIDE DEF T
      <4> QED BY <2>2, Least
    <3>2. PICK z \in S \ visited : m = d(z)
      BY <3>1
    <3>3. \A y \in S \ visited : d(y) \in T
      OBVIOUS
    <3> HIDE DEF d, T
    <3>4. \A y \in S \ visited : d(z) <= d(y)
      BY <3>1, <3>2, <3>3
    <3> QED BY <3>2, <3>4
  <2>4. x # best[b]
    BY <1>4, <2>3
  <2>5. lprev[x] \in S /\ lnext[lprev[x]] = x /\ LevelRank[lprev[x]] < LevelRank[x]
    BY <2>3, <2>4, BetterBefore
  <2>6. lprev[x] \notin visited
    BY <1>4, <2>3, <2>5
  <2> QED BY <1>1, <2>1, <2>3, <2>5, <2>6
<1>5. S \subseteq Walk(best[b])
  BY <1>1, <1>4 DEF Walk
<1> QED BY <1>3, <1>5

\* Along the walk prices get worse.
LEMMA PrintsBook ==
    ASSUME IInv, SortedBook, NEW b \in {"bids", "asks"}
    PROVE  PrintsSorted(b) /\ PrintSide(b) = "destroyed"
<1>1. ASSUME best[b] # Null, NEW l \in Walk(best[b]), lnext[l] # best[b]
      PROVE  IF b = "asks" THEN level[l].price < level[lnext[l]].price
                           ELSE level[l].price > level[lnext[l]].price
  <2>1. l \in liveLevels /\ LevelBook[l] = b
    BY <1>1, WalksItsBook
  <2>2. lnext[l] \in liveLevels /\ LevelBook[lnext[l]] = b /\ lprev[lnext[l]] = l
    BY <2>1 DEF SortedBook, LevelsSorted, Ring
  <2>3. LevelRank[l] < LevelRank[lnext[l]]
    BY <1>1, <2>2, BetterBefore
  <2>4. /\ level[l].side = IF b = "asks" THEN "SELL" ELSE "BUY"
        /\ level[lnext[l]].side = level[l].side
    BY <2>1, <2>2, LiveLevel DEF BookOf
  <2>5. Rank(level[l].side, level[l].price) < Rank(level[l].side, level[lnext[l]].price)
    BY <2>1, <2>2, <2>3, <2>4, LiveLevel
  <2>6. level[l].price \in Int /\ level[lnext[l]].price \in Int
    BY <2>1, <2>2, LiveLevel
  <2> QED BY <2>4, <2>5, <2>6 DEF Rank
<1>2. PrintsSorted(b)
  BY <1>1 DEF PrintsSorted
<1>3. best[b] # Null => Walk(best[b]) \subseteq liveLevels
  BY WalksItsBook
<1> QED BY <1>2, <1>3 DEF PrintSide

\* toString's validity check never fails: from the best pointer of a side its
\* walk meets every level of that side and each price is worse than the one
\* before.
THEOREM BookPrintsSorted == ASSUME Regime PROVE Spec => []SortedLevels
<1>1. IInv /\ SortedInv => SortedLevels
  <2> SUFFICES ASSUME IInv, SortedBook PROVE SortedLevels
    BY DEF SortedInv
  <2>1. PrintsSorted("bids") /\ PrintsSorted("asks")
    BY PrintsBook
  <2>2. ASSUME NEW l \in liveLevels PROVE l \in Walk(best[BookOf(level[l].side)])
    <3>1. LevelBook[l] = BookOf(level[l].side) /\ LevelBook[l] \in {"bids", "asks"}
      BY LiveLevel
    <3>2. best[LevelBook[l]] # Null
      BY BestIsBest
    <3> QED BY <3>1, <3>2, WalksItsBook
  <2> QED BY <2>1, <2>2 DEF SortedLevels
<1> QED BY <1>1, Invariance, SortedInvariance, PTL

-----------------------------------------------------------------------------
(* How the process can go wrong *)

\* addOrder finds the levels its best pointers point to, and a level block
\* whenever it needs one: only the order pool can be full.
LEMMA CallSound ==
    ASSUME IInv, SortedInv, pc # "idle"
    PROVE  ~FollowsDangling /\ (FollowsNull => liveOrders = OrderPtr)
<1>1. taker \in Taker /\ BookOf(taker.side) \in {"bids", "asks"}
      /\ Opposite(taker.side) \in {"bids", "asks"}
  BY DEF IInv, CallInv, CallType, BookOf, Opposite
<1>2. liveOrders # OrderPtr => HasBlocks
  <2>1. priceToIndex(taker.price) \in Index
    BY <1>1, IndexInRange DEF Taker
  <2>2. LevelBlockAvailable
    BY FullPool DEF IInv
  <2> QED BY <2>1, <2>2 DEF HasBlocks, LevelBlockAvailable, getLevelForPrice
<1>3. \A b \in {"bids", "asks"} : best[b] \in liveLevels \cup {Null}
  BY DEF SortedInv, SortedBook, BestInv
<1>4. ~FollowsDangling
  BY <1>1, <1>3 DEF FollowsDangling, Matched, Best, SeesOpposite
<1> QED BY <1>2, <1>4 DEF FollowsNull

\* The rest of an addOrder call.
LEMMA ContinueSound ==
    ASSUME IInv, SortedInv, Continue PROVE OnlyKnownFaults'
<1>1. pc # "idle" /\ status = "ok"
  BY DEF Continue, matchOrder, Discard, AppendToLevel, OpenSide, BeginSeek, SeekNext,
         InsertAfter, InsertBefore, Fault, GoesWrong, ReadsOffStack, FollowsDangling,
         FollowsNull, WritesOutOfBounds, NeedsLevel, CanRest, Matched, Seeking
<1>2. CASE matchOrder \/ Discard \/ BeginSeek \/ SeekNext
  <2>1. status' = status
    BY <1>2 DEF matchOrder, Discard, BeginSeek, SeekNext
  <2> QED BY <1>1, <2>1 DEF OnlyKnownFaults
<1>3. CASE Rests
  <2>1. PICK o \in OrderPtr \ liveOrders : Place(o)
    BY <1>3, RestsPlaces
  <2> QED BY <1>1, <2>1 DEF Place, OnlyKnownFaults
<1>4. CASE Fault
  <2>1. PICK how \in {"stackRead", "dangling", "nullptr", "outOfBounds"} :
           GoesWrong(how) /\ Crash(how)
    BY <1>4 DEF Fault
  <2>2. \/ how = "stackRead"
        \/ how = "nullptr" /\ liveOrders = OrderPtr
        \/ how = "outOfBounds" /\ ~HasCell
    BY <1>1, <2>1, CallSound DEF GoesWrong, WritesOutOfBounds
  <2> QED BY <2>1, <2>2 DEF Crash, bookVars, orderVars, callVars, OnlyKnownFaults, HasCell
<1> QED BY <1>1, <1>2, <1>3, <1>4 DEF Continue, Rests

\* Requests, and the end of the book.
LEMMA NextSound ==
    ASSUME IInv, SortedInv, OnlyKnownFaults, [Next]_vars
    PROVE  OnlyKnownFaults'
<1>1. CASE UNCHANGED vars
  BY <1>1 DEF vars, bookVars, orderVars, callVars, OnlyKnownFaults, HasCell
<1>2. CASE destroy
  BY <1>2, PrintsBook DEF destroy, Crash, SortedInv, OnlyKnownFaults
<1>3. CASE Continue
  BY <1>3, ContinueSound
<1>4. ASSUME NEW client, NEW id, NEW side, NEW price, NEW qty,
             addOrder(client, id, side, price, qty)
      PROVE  OnlyKnownFaults'
  BY <1>4 DEF addOrder, OnlyKnownFaults
<1>5. ASSUME NEW client, NEW id, cancelOrder(client, id)
      PROVE  OnlyKnownFaults'
  <2>1. status = "ok" /\ (Cancel(client, id) \/ Reject(client, id) \/ CancelThrows)
    BY <1>5 DEF cancelOrder
  <2>2. status' \in {"ok", "outOfRange"}
    BY <2>1 DEF Cancel, Reject, CancelThrows
  <2> QED BY <2>2 DEF OnlyKnownFaults
<1> QED BY <1>1, <1>2, <1>3, <1>4, <1>5 DEF Next

\* A book of the regime goes wrong in the out-of-bounds read of a fill, on an id
\* that is out of range, and in addOrderToBook when every block of the order
\* pool holds a resting order, and in no other way: it never follows a freed
\* level, and its destructor's check does not throw.
THEOREM FaultsAreKnown == ASSUME Regime PROVE Spec => []OnlyKnownFaults
<1>1. Init => OnlyKnownFaults
  BY DEF Init, OnlyKnownFaults
<1>2. IInv /\ SortedInv /\ OnlyKnownFaults /\ [Next]_vars => OnlyKnownFaults'
  BY NextSound
<1> QED BY <1>1, <1>2, Invariance, SortedInvariance, PTL DEF Spec
=============================================================================
