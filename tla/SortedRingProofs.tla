-------------------------- MODULE SortedRingProofs --------------------------
(***************************************************************************)
(* The four ways in which the order book changes a list keep it a Ring.    *)
(***************************************************************************)
EXTENDS SortedRing, TLAPS

\* Ring depends on the functions' values on the nodes only.
LEMMA RingSame ==
    ASSUME NEW nodes, NEW next, NEW prev, NEW cls, NEW key, NEW first,
           Ring(nodes, next, prev, cls, key, first),
           NEW next2, NEW prev2, NEW cls2, NEW key2, NEW first2,
           \A x \in nodes : /\ next2[x] = next[x] /\ prev2[x] = prev[x]
                            /\ cls2[x] = cls[x] /\ key2[x] = key[x]
                            /\ first2[cls[x]] = first[cls[x]]
    PROVE  Ring(nodes, next2, prev2, cls2, key2, first2)
<1> SUFFICES ASSUME NEW x \in nodes
             PROVE  /\ next2[x] \in nodes /\ prev2[next2[x]] = x /\ cls2[next2[x]] = cls2[x]
                    /\ prev2[x] \in nodes /\ next2[prev2[x]] = x /\ cls2[prev2[x]] = cls2[x]
                    /\ first2[cls2[x]] \in nodes /\ cls2[first2[cls2[x]]] = cls2[x]
                    /\ x # first2[cls2[x]] => key2[first2[cls2[x]]] < key2[x]
                    /\ \A y \in nodes : cls2[x] = cls2[y] =>
                          /\ x # y => key2[x] # key2[y]
                          /\ key2[x] < key2[y] =>
                                /\ key2[x] < key2[next2[x]] /\ key2[next2[x]] <= key2[y]
                                /\ key2[prev2[y]] < key2[y] /\ key2[x] <= key2[prev2[y]]
  BY DEF Ring
<1>1. next[x] \in nodes /\ prev[x] \in nodes /\ first[cls[x]] \in nodes
  BY DEF Ring
<1>2. /\ next2[x] \in nodes /\ prev2[next2[x]] = x /\ cls2[next2[x]] = cls2[x]
      /\ prev2[x] \in nodes /\ next2[prev2[x]] = x /\ cls2[prev2[x]] = cls2[x]
  <2>1. /\ prev[next[x]] = x /\ cls[next[x]] = cls[x]
        /\ next[prev[x]] = x /\ cls[prev[x]] = cls[x]
    BY DEF Ring
  <2> QED BY <1>1, <2>1
<1>3. /\ first2[cls2[x]] \in nodes /\ cls2[first2[cls2[x]]] = cls2[x]
      /\ x # first2[cls2[x]] => key2[first2[cls2[x]]] < key2[x]
  BY <1>1 DEF Ring
<1>4. ASSUME NEW y \in nodes, cls2[x] = cls2[y]
      PROVE  /\ x # y => key2[x] # key2[y]
             /\ key2[x] < key2[y] =>
                   /\ key2[x] < key2[next2[x]] /\ key2[next2[x]] <= key2[y]
                   /\ key2[prev2[y]] < key2[y] /\ key2[x] <= key2[prev2[y]]
  <2>1. prev[y] \in nodes
    BY DEF Ring
  <2>2. /\ x # y => key[x] # key[y]
        /\ key[x] < key[y] =>
              /\ key[x] < key[next[x]] /\ key[next[x]] <= key[y]
              /\ key[prev[y]] < key[y] /\ key[x] <= key[prev[y]]
    BY <1>4 DEF Ring
  <2> QED BY <1>1, <2>1, <2>2
<1> QED BY <1>2, <1>3, <1>4

\* Unlinking a node that is not alone, and moving the first pointer on if it
\* was at that node.
LEMMA RingUnlink ==
    ASSUME NEW P, NEW N, N \notin P, NEW nodes \in SUBSET P,
           NEW next \in [P -> P \cup {N}], NEW prev \in [P -> P \cup {N}],
           NEW cls, NEW key, NEW first, \A x \in nodes : key[x] \in Int,
           Ring(nodes, next, prev, cls, key, first),
           NEW o \in nodes, prev[o] # o,
           NEW first2,
           \A x \in nodes \ {o} :
              /\ cls[x] = cls[o] /\ first[cls[o]] = o => first2[cls[x]] = next[o]
              /\ cls[x] # cls[o] \/ first[cls[o]] # o => first2[cls[x]] = first[cls[x]]
    PROVE  Ring(nodes \ {o}, [next EXCEPT ![prev[o]] = next[o], ![o] = N],
                [prev EXCEPT ![next[o]] = prev[o], ![o] = N], cls, key, first2)
<1> DEFINE M  == nodes \ {o}
           p  == prev[o]
           n  == next[o]
           nx == [next EXCEPT ![prev[o]] = next[o], ![o] = N]
           pv == [prev EXCEPT ![next[o]] = prev[o], ![o] = N]
<1>1. /\ p \in M /\ n \in M /\ cls[p] = cls[o] /\ cls[n] = cls[o]
      /\ next[p] = o /\ prev[n] = o
  BY DEF Ring
<1>2. \A x \in M : /\ nx[x] = IF x = p THEN n ELSE next[x]
                   /\ pv[x] = IF x = n THEN p ELSE prev[x]
  BY <1>1
<1>3. \A x \in M : /\ x # p => next[x] # o
                   /\ x # n => prev[x] # o
  BY <1>1 DEF Ring
<1> HIDE DEF nx, pv, p, n
<1>4. ASSUME NEW x \in M
      PROVE  /\ nx[x] \in M /\ pv[nx[x]] = x /\ cls[nx[x]] = cls[x]
             /\ pv[x] \in M /\ nx[pv[x]] = x /\ cls[pv[x]] = cls[x]
  <2>1. /\ next[x] \in nodes /\ prev[next[x]] = x /\ cls[next[x]] = cls[x]
        /\ prev[x] \in nodes /\ next[prev[x]] = x /\ cls[prev[x]] = cls[x]
    BY DEF Ring
  <2> QED BY <1>1, <1>2, <1>3, <1>4, <2>1
<1>5. ASSUME NEW x \in M, NEW y \in M, cls[x] = cls[y], key[x] < key[y]
      PROVE  /\ key[x] < key[nx[x]] /\ key[nx[x]] <= key[y]
             /\ key[pv[y]] < key[y] /\ key[x] <= key[pv[y]]
  <2>1. /\ key[x] < key[next[x]] /\ key[next[x]] <= key[y]
        /\ key[prev[y]] < key[y] /\ key[x] <= key[prev[y]]
    BY <1>5 DEF Ring
  <2>2. key[x] \in Int /\ key[y] \in Int /\ key[o] \in Int /\ key[n] \in Int
        /\ key[p] \in Int
    BY <1>1
  <2>3. key[x] < key[nx[x]] /\ key[nx[x]] <= key[y]
    <3>1. CASE x = p
      <4>1. cls[o] = cls[y] /\ key[o] # key[y]
        BY <1>1, <1>5, <3>1 DEF Ring
      <4>2. key[x] < key[o] /\ key[o] < key[y]
        BY <1>1, <2>1, <2>2, <3>1, <4>1
      <4>3. key[o] < key[n] /\ key[n] <= key[y]
        BY <4>1, <4>2 DEF Ring, n
      <4> QED BY <1>2, <2>2, <3>1, <4>2, <4>3
    <3> QED BY <1>2, <2>1, <3>1
  <2>4. key[pv[y]] < key[y] /\ key[x] <= key[pv[y]]
    <3>1. CASE y = n
      <4>1. cls[o] = cls[x] /\ key[o] # key[x]
        BY <1>1, <1>5, <3>1 DEF Ring
      <4>2. key[x] < key[o] /\ key[o] < key[y]
        BY <1>1, <2>1, <2>2, <3>1, <4>1
      <4>3. key[p] < key[o] /\ key[x] <= key[p]
        BY <4>1, <4>2 DEF Ring, p
      <4> QED BY <1>2, <2>2, <3>1, <4>2, <4>3
    <3> QED BY <1>2, <2>1, <3>1
  <2> QED BY <2>3, <2>4
<1>6. ASSUME NEW x \in M
      PROVE  /\ first2[cls[x]] \in M /\ cls[first2[cls[x]]] = cls[x]
             /\ x # first2[cls[x]] => key[first2[cls[x]]] < key[x]
  <2>1. /\ first[cls[x]] \in nodes /\ cls[first[cls[x]]] = cls[x]
        /\ x # first[cls[x]] => key[first[cls[x]]] < key[x]
    BY DEF Ring
  <2>2. CASE cls[x] = cls[o] /\ first[cls[o]] = o
    <3>1. first2[cls[x]] = n /\ key[o] < key[x]
      BY <2>1, <2>2 DEF n
    <3>2. key[n] <= key[x]
      BY <2>2, <3>1 DEF Ring, n
    <3>3. x # n => key[n] # key[x]
      BY <1>1, <2>2 DEF Ring
    <3> QED BY <1>1, <2>2, <3>1, <3>2, <3>3
  <2>3. CASE ~(cls[x] = cls[o] /\ first[cls[o]] = o)
    <3>1. first2[cls[x]] = first[cls[x]]
      BY <2>3
    <3>2. first[cls[x]] # o
      BY <2>1, <2>3
    <3> QED BY <2>1, <3>1, <3>2
  <2> QED BY <2>2, <2>3
<1>7. \A x, y \in M : cls[x] = cls[y] /\ x # y => key[x] # key[y]
  BY DEF Ring
<1> HIDE DEF M
<1>8. Ring(M, nx, pv, cls, key, first2)
  BY <1>4, <1>5, <1>6, <1>7 DEF Ring
<1> QED BY <1>8 DEF M, nx, pv

\* A node that is its own predecessor is alone in its class.
LEMMA RingAlone ==
    ASSUME NEW nodes, NEW next, NEW prev, NEW cls, NEW key, NEW first,
           \A x \in nodes : key[x] \in Int,
           Ring(nodes, next, prev, cls, key, first),
           NEW o \in nodes, prev[o] = o
    PROVE  \A x \in nodes : cls[x] = cls[o] => x = o
<1> SUFFICES ASSUME NEW x \in nodes, cls[x] = cls[o], x # o PROVE FALSE
  OBVIOUS
<1>1. next[o] = o
  BY DEF Ring
<1>2. key[x] # key[o]
  BY DEF Ring
<1>3. ~(key[o] < key[x])
  <2>1. key[o] < key[x] => key[o] < key[next[o]]
    BY DEF Ring
  <2> QED BY <1>1, <2>1
<1>4. ~(key[x] < key[o])
  <2>1. key[x] < key[o] => key[prev[o]] < key[o]
    BY DEF Ring
  <2> QED BY <2>1
<1> QED BY <1>2, <1>3, <1>4

\* The node before the first one is the last one.
LEMMA RingLast ==
    ASSUME NEW nodes, NEW next, NEW prev, NEW cls, NEW key, NEW first,
           \A x \in nodes : key[x] \in Int,
           Ring(nodes, next, prev, cls, key, first),
           NEW f \in nodes, f = first[cls[f]], NEW y \in nodes, cls[y] = cls[f]
    PROVE  prev[f] \in nodes /\ key[y] <= key[prev[f]]
<1> DEFINE last == prev[f]
<1>1. last \in nodes /\ cls[last] = cls[f] /\ next[last] = f
  BY DEF Ring
<1>2. last # f => key[f] < key[last]
  BY <1>1 DEF Ring
<1>3. key[last] < key[y] => key[last] < key[f]
  BY <1>1 DEF Ring
<1> HIDE DEF last
<1>4. key[y] <= key[last]
  BY <1>1, <1>2, <1>3
<1> QED BY <1>1, <1>4 DEF last

\* Dropping a node that is alone leaves the other classes as they were.
LEMMA RingDrop ==
    ASSUME NEW nodes, NEW next, NEW prev, NEW cls, NEW key, NEW first,
           \A x \in nodes : key[x] \in Int,
           Ring(nodes, next, prev, cls, key, first),
           NEW o \in nodes, prev[o] = o,
           NEW next2, NEW prev2, NEW cls2, NEW key2, NEW first2,
           \A x \in nodes \ {o} : /\ next2[x] = next[x] /\ prev2[x] = prev[x]
                                  /\ cls2[x] = cls[x] /\ key2[x] = key[x],
           \A x \in nodes \ {o} : cls[x] # cls[o] => first2[cls[x]] = first[cls[x]]
    PROVE  Ring(nodes \ {o}, next2, prev2, cls2, key2, first2)
<1> DEFINE M == nodes \ {o}
<1>1. \A x \in M : cls[x] # cls[o]
  BY RingAlone
<1>2. next[o] = o
  BY DEF Ring
<1>3. \A x \in M : next[x] \in M /\ prev[x] \in M /\ first[cls[x]] \in M
                  /\ first2[cls[x]] = first[cls[x]]
  BY <1>1 DEF Ring
<1>4. Ring(M, next, prev, cls, key, first)
  BY <1>3 DEF Ring
<1>5. \A x \in M : /\ next2[x] = next[x] /\ prev2[x] = prev[x]
                   /\ cls2[x] = cls[x] /\ key2[x] = key[x]
                   /\ first2[cls[x]] = first[cls[x]]
  BY <1>3
<1> HIDE DEF M
<1>6. Ring(M, next2, prev2, cls2, key2, first2)
  BY ONLY <1>4, <1>5, RingSame
<1> QED BY <1>6 DEF M

\* Unlinking a node that is alone.
LEMMA RingRemoveLast ==
    ASSUME NEW P, NEW N, N \notin P, NEW nodes \in SUBSET P,
           NEW next \in [P -> P \cup {N}], NEW prev \in [P -> P \cup {N}],
           NEW cls, NEW key, NEW first, \A x \in nodes : key[x] \in Int,
           Ring(nodes, next, prev, cls, key, first),
           NEW o \in nodes, prev[o] = o,
           NEW cls2, NEW key2, NEW first2,
           \A x \in nodes \ {o} : cls2[x] = cls[x] /\ key2[x] = key[x],
           \A x \in nodes \ {o} : cls[x] # cls[o] => first2[cls[x]] = first[cls[x]]
    PROVE  Ring(nodes \ {o}, [next EXCEPT ![prev[o]] = next[o], ![o] = N],
                [prev EXCEPT ![next[o]] = prev[o], ![o] = N], cls2, key2, first2)
<1> DEFINE nx == [next EXCEPT ![prev[o]] = next[o], ![o] = N]
           pv == [prev EXCEPT ![next[o]] = prev[o], ![o] = N]
<1>1. next[o] = o
  BY DEF Ring
<1>2. \A x \in nodes \ {o} : /\ nx[x] = next[x] /\ pv[x] = prev[x]
                             /\ cls2[x] = cls[x] /\ key2[x] = key[x]
  BY <1>1
<1> HIDE DEF nx, pv
<1>3. Ring(nodes \ {o}, nx, pv, cls2, key2, first2)
  BY <1>2, RingDrop
<1> QED BY <1>3 DEF nx, pv

\* A node that opens a class of its own.
LEMMA RingNew ==
    ASSUME NEW P, NEW N, N \notin P, NEW nodes \in SUBSET P,
           NEW next \in [P -> P \cup {N}], NEW prev \in [P -> P \cup {N}],
           NEW cls, NEW key, NEW first,
           Ring(nodes, next, prev, cls, key, first),
           NEW o \in P \ nodes, key[o] \in Int, first[cls[o]] = o,
           \A x \in nodes : cls[x] # cls[o]
    PROVE  Ring(nodes \cup {o}, [next EXCEPT ![o] = o], [prev EXCEPT ![o] = o],
                cls, key, first)
<1> DEFINE nx == [next EXCEPT ![o] = o]
           pv == [prev EXCEPT ![o] = o]
<1>1. nx[o] = o /\ pv[o] = o
  OBVIOUS
<1>2. \A x \in nodes : nx[x] = next[x] /\ pv[x] = prev[x]
  OBVIOUS
<1> HIDE DEF nx, pv
<1>3. Ring(nodes, nx, pv, cls, key, first)
  BY <1>2, RingSame
<1>4. Ring(nodes \cup {o}, nx, pv, cls, key, first)
  BY ONLY <1>1, <1>3, first[cls[o]] = o, key[o] \in Int,
          \A x \in nodes : cls[x] # cls[o] DEF Ring
<1> QED BY <1>4 DEF nx, pv

\* Appending a node behind the last one of its class.
LEMMA RingAppend ==
    ASSUME NEW P, NEW N, N \notin P, NEW nodes \in SUBSET P,
           NEW next \in [P -> P \cup {N}], NEW prev \in [P -> P \cup {N}],
           NEW cls, NEW key, NEW first, \A x \in nodes : key[x] \in Int,
           Ring(nodes, next, prev, cls, key, first),
           NEW o \in P \ nodes, NEW f \in nodes, f = first[cls[f]],
           cls[o] = cls[f], key[o] \in Int, key[prev[f]] < key[o]
    PROVE  Ring(nodes \cup {o}, [next EXCEPT ![o] = f, ![prev[f]] = o],
                [prev EXCEPT ![o] = prev[f], ![f] = o], cls, key, first)
<1> DEFINE M    == nodes \cup {o}
           last == prev[f]
           nx   == [next EXCEPT ![o] = f, ![prev[f]] = o]
           pv   == [prev EXCEPT ![o] = prev[f], ![f] = o]
<1>1. last \in nodes /\ cls[last] = cls[f] /\ next[last] = f
  BY DEF Ring
<1>2. /\ nx[o] = f /\ pv[o] = last
      /\ \A x \in nodes : /\ nx[x] = IF x = last THEN o ELSE next[x]
                          /\ pv[x] = IF x = f THEN o ELSE prev[x]
  BY <1>1
<1> HIDE DEF nx, pv, last
<1>3. Ring(nodes, next, prev, cls, key, first)
  OBVIOUS
<1>4. /\ \A x \in nodes : key[x] \in Int
      /\ key[o] \in Int /\ key[last] < key[o]
      /\ cls[f] = cls[o] /\ cls[last] = cls[o] /\ first[cls[o]] = f
  BY <1>1 DEF last
<1>5. ASSUME NEW y \in nodes, cls[y] = cls[o] PROVE key[y] <= key[last]
  <2> SUFFICES ASSUME key[last] < key[y] PROVE FALSE
    BY <1>1, <1>4
  <2>1. key[last] < key[next[last]]
    <3>1. cls[last] = cls[y]
      BY <1>4, <1>5
    <3> QED BY <1>1, <1>3, <3>1 DEF Ring
  <2>2. last # f => key[f] < key[last]
    BY <1>1, <1>3, <1>4 DEF Ring
  <2> QED BY <1>1, <1>4, <2>1, <2>2
<1>6. ASSUME NEW y \in nodes, cls[y] = cls[o]
      PROVE  key[y] < key[o] /\ key[y] # key[o]
  BY <1>1, <1>4, <1>5, <1>6
<1>7. ASSUME NEW x \in M
      PROVE  /\ nx[x] \in M /\ pv[nx[x]] = x /\ cls[nx[x]] = cls[x]
             /\ pv[x] \in M /\ nx[pv[x]] = x /\ cls[pv[x]] = cls[x]
  <2>1. \A y \in nodes : y # last => next[y] # f
    BY <1>1, <1>3 DEF Ring, last
  <2>2. \A y \in nodes : y # f => prev[y] # last
    BY <1>1, <1>3 DEF Ring, last
  <2>3. CASE x = o
    BY <1>1, <1>2, <1>4, <2>3
  <2>4. CASE x \in nodes
    <3>1. /\ next[x] \in nodes /\ prev[next[x]] = x /\ cls[next[x]] = cls[x]
          /\ prev[x] \in nodes /\ next[prev[x]] = x /\ cls[prev[x]] = cls[x]
      BY <1>3, <2>4 DEF Ring
    <3>2. nx[x] \in M /\ pv[nx[x]] = x /\ cls[nx[x]] = cls[x]
      BY <1>1, <1>2, <1>4, <2>1, <2>4, <3>1
    <3>3. pv[x] \in M /\ nx[pv[x]] = x /\ cls[pv[x]] = cls[x]
      BY <1>1, <1>2, <1>4, <2>2, <2>4, <3>1
    <3> QED BY <3>2, <3>3
  <2> QED BY <2>3, <2>4
<1>8. ASSUME NEW x \in M
      PROVE  /\ first[cls[x]] \in M /\ cls[first[cls[x]]] = cls[x]
             /\ x # first[cls[x]] => key[first[cls[x]]] < key[x]
  <2>1. CASE x = o
    BY <1>4, <1>6, <2>1
  <2>2. CASE x \in nodes
    BY <1>3, <2>2 DEF Ring
  <2> QED BY <2>1, <2>2
<1>9. ASSUME NEW x \in M, NEW y \in M, cls[x] = cls[y], x # y
      PROVE  key[x] # key[y]
  <2>1. CASE x \in nodes /\ y \in nodes
    BY <1>3, <1>9, <2>1 DEF Ring
  <2> QED BY <1>6, <1>9, <2>1
<1>10. ASSUME NEW x \in M, NEW y \in M, cls[x] = cls[y], key[x] < key[y]
       PROVE  /\ key[x] < key[nx[x]] /\ key[nx[x]] <= key[y]
              /\ key[pv[y]] < key[y] /\ key[x] <= key[pv[y]]
  <2>1. x \in nodes
    <3> SUFFICES ASSUME x = o PROVE FALSE
      OBVIOUS
    <3>1. CASE y = o
      BY <1>4, <1>10, <3>1
    <3>2. CASE y \in nodes
      <4>1. key[y] < key[o]
        BY <1>6, <1>10, <3>2
      <4> QED BY <1>4, <1>10, <3>2, <4>1
    <3> QED BY <3>1, <3>2
  <2>2. CASE y = o
    <3>1. key[x] <= key[last] /\ pv[y] = last /\ key[last] < key[y]
      BY <1>1, <1>2, <1>4, <1>5, <1>10, <2>1, <2>2
    <3>2. CASE x = last
      <4>1. nx[x] = o
        BY <1>2, <2>1, <3>2
      <4> QED BY <1>4, <1>10, <2>1, <2>2, <3>1, <4>1
    <3>3. CASE x # last
      <4>1. key[x] # key[last] /\ key[x] < key[last]
        <5>1. key[x] # key[last]
          BY <1>1, <1>3, <1>4, <1>10, <2>1, <2>2, <3>3 DEF Ring
        <5> QED BY <1>1, <1>4, <2>1, <3>1, <5>1
      <4>2. key[x] < key[next[x]] /\ key[next[x]] <= key[last] /\ next[x] \in nodes
        BY <1>1, <1>3, <1>4, <1>10, <2>1, <2>2, <4>1 DEF Ring
      <4>3. nx[x] = next[x]
        BY <1>2, <2>1, <3>3
      <4> QED BY <1>1, <1>4, <2>1, <2>2, <3>1, <4>2, <4>3
    <3> QED BY <3>2, <3>3
  <2>3. CASE y \in nodes
    <3>1. /\ key[x] < key[next[x]] /\ key[next[x]] <= key[y]
          /\ key[prev[y]] < key[y] /\ key[x] <= key[prev[y]]
      BY <1>3, <1>10, <2>1, <2>3 DEF Ring
    <3>2. x # last
      <4> SUFFICES ASSUME x = last PROVE FALSE
        OBVIOUS
      <4>1. key[y] <= key[last]
        BY <1>4, <1>5, <1>10, <2>3
      <4> QED BY <1>1, <1>4, <1>10, <2>3, <4>1
    <3>3. y # f
      <4> SUFFICES ASSUME y = f PROVE FALSE
        OBVIOUS
      <4>1. first[cls[x]] = y /\ x # y
        BY <1>4, <1>10, <2>1, <2>3
      <4>2. key[y] < key[x]
        BY <1>3, <2>1, <4>1 DEF Ring
      <4> QED BY <1>4, <1>10, <2>1, <2>3, <4>2
    <3> QED BY <1>2, <2>1, <2>3, <3>1, <3>2, <3>3
  <2> QED BY <2>2, <2>3
<1> HIDE DEF M
<1>11. Ring(M, nx, pv, cls, key, first)
  BY <1>7, <1>8, <1>9, <1>10 DEF Ring
<1> QED BY <1>11 DEF M, nx, pv
\* Node o is linked between node t and the one before it.
LinkedBefore(nodes, next, prev, t, o, nx, pv) ==
    /\ nx[o] = t /\ pv[o] = prev[t]
    /\ \A x \in nodes : /\ nx[x] = IF x = prev[t] THEN o ELSE next[x]
                        /\ pv[x] = IF x = t THEN o ELSE prev[x]

\* The key of o is below that of t and above those of the nodes before t.
FitsBefore(nodes, cls, key, t, o) ==
    /\ \A x \in nodes : key[x] \in Int
    /\ cls[o] = cls[t] /\ key[o] \in Int /\ key[o] < key[t]
    /\ \A x \in nodes : cls[x] = cls[t] /\ key[x] < key[t] => key[x] < key[o]

\* If t was the first of its class, o is.
FirstBefore(nodes, cls, first, t, o, first2) ==
    /\ first2[cls[t]] = IF first[cls[t]] = t THEN o ELSE first[cls[t]]
    /\ \A x \in nodes : cls[x] # cls[t] => first2[cls[x]] = first[cls[x]]

\* Inserting a node before node t.
LEMMA RingBefore ==
    ASSUME NEW nodes, NEW next, NEW prev, NEW cls, NEW key, NEW first,
           Ring(nodes, next, prev, cls, key, first),
           NEW t \in nodes, NEW o, o \notin nodes,
           NEW nx, NEW pv, LinkedBefore(nodes, next, prev, t, o, nx, pv),
           FitsBefore(nodes, cls, key, t, o),
           NEW first2, FirstBefore(nodes, cls, first, t, o, first2)
    PROVE  Ring(nodes \cup {o}, nx, pv, cls, key, first2)
<1> DEFINE M == nodes \cup {o}
           p == prev[t]
<1>1. p \in nodes /\ cls[p] = cls[t] /\ next[p] = t
  BY DEF Ring
<1>2. /\ nx[o] = t /\ pv[o] = p
      /\ \A x \in nodes : /\ nx[x] = IF x = p THEN o ELSE next[x]
                          /\ pv[x] = IF x = t THEN o ELSE prev[x]
  BY DEF LinkedBefore
<1> HIDE DEF p
<1>3. /\ \A x \in nodes : key[x] \in Int
      /\ key[o] \in Int /\ key[t] \in Int /\ key[p] \in Int
      /\ key[o] < key[t] /\ cls[o] = cls[t]
  BY <1>1 DEF FitsBefore
<1>4. ASSUME NEW y \in nodes, cls[y] = cls[t]
      PROVE  /\ key[y] # key[o]
             /\ key[y] < key[o] => key[y] < key[t]
             /\ key[y] < key[t] => key[y] < key[o]
             /\ key[o] < key[y] => key[t] <= key[y]
  BY <1>3, <1>4 DEF FitsBefore
<1>5. ASSUME NEW x \in M
      PROVE  /\ nx[x] \in M /\ pv[nx[x]] = x /\ cls[nx[x]] = cls[x]
             /\ pv[x] \in M /\ nx[pv[x]] = x /\ cls[pv[x]] = cls[x]
  <2>1. \A y \in nodes : y # p => next[y] # t
    BY <1>1 DEF Ring, p
  <2>2. \A y \in nodes : y # t => prev[y] # p
    BY <1>1 DEF Ring, p
  <2>3. CASE x = o
    BY <1>1, <1>2, <1>3, <2>3
  <2>4. CASE x \in nodes
    <3>1. /\ next[x] \in nodes /\ prev[next[x]] = x /\ cls[next[x]] = cls[x]
          /\ prev[x] \in nodes /\ next[prev[x]] = x /\ cls[prev[x]] = cls[x]
      BY <2>4 DEF Ring
    <3>2. nx[x] \in M /\ pv[nx[x]] = x /\ cls[nx[x]] = cls[x]
      BY <1>1, <1>2, <1>3, <2>1, <2>4, <3>1
    <3>3. pv[x] \in M /\ nx[pv[x]] = x /\ cls[pv[x]] = cls[x]
      BY <1>1, <1>2, <1>3, <2>2, <2>4, <3>1
    <3> QED BY <3>2, <3>3
  <2> QED BY <2>3, <2>4
<1>6. ASSUME NEW x \in M
      PROVE  /\ first2[cls[x]] \in M /\ cls[first2[cls[x]]] = cls[x]
             /\ x # first2[cls[x]] => key[first2[cls[x]]] < key[x]
  <2> DEFINE f == first[cls[t]]
  <2>1. f \in nodes /\ cls[f] = cls[t] /\ (t # f => key[f] < key[t])
    BY DEF Ring
  <2>2. first2[cls[t]] = IF f = t THEN o ELSE f
    BY DEF FirstBefore
  <2>3. CASE x = o
    BY <1>3, <1>4, <2>1, <2>2, <2>3
  <2>4. CASE x \in nodes /\ cls[x] = cls[t]
    <3>1. x # f => key[f] < key[x]
      BY <2>4 DEF Ring
    <3> HIDE DEF f
    <3>2. CASE f = t
      BY <1>3, <2>1, <2>2, <2>4, <3>1, <3>2
    <3>3. CASE f # t
      BY <2>1, <2>2, <2>4, <3>1, <3>3
    <3> QED BY <3>2, <3>3
  <2>5. CASE x \in nodes /\ cls[x] # cls[t]
    <3>1. first2[cls[x]] = first[cls[x]]
      BY <2>5 DEF FirstBefore
    <3> QED BY <2>5, <3>1 DEF Ring
  <2> QED BY <2>3, <2>4, <2>5
<1>7. ASSUME NEW x \in M, NEW y \in M, cls[x] = cls[y], x # y
      PROVE  key[x] # key[y]
  <2>1. CASE x \in nodes /\ y \in nodes
    BY <1>7, <2>1 DEF Ring
  <2> QED BY <1>3, <1>4, <1>7, <2>1
<1>8. ASSUME NEW x \in M, NEW y \in M, cls[x] = cls[y], key[x] < key[y]
      PROVE  /\ key[x] < key[nx[x]] /\ key[nx[x]] <= key[y]
             /\ key[pv[y]] < key[y] /\ key[x] <= key[pv[y]]
  <2>1. CASE x = o
    <3>1. y \in nodes /\ cls[y] = cls[t] /\ key[t] <= key[y]
      BY <1>3, <1>4, <1>8, <2>1
    <3>2. CASE y = t
      BY <1>2, <1>3, <2>1, <3>1, <3>2
    <3>3. CASE y # t
      <4>1. key[t] < key[y]
        <5>1. key[t] # key[y]
          BY <3>1, <3>3 DEF Ring
        <5> QED BY <1>3, <3>1, <5>1
      <4>2. prev[y] \in nodes /\ key[prev[y]] < key[y] /\ key[t] <= key[prev[y]]
        BY <3>1, <4>1 DEF Ring
      <4> QED BY <1>2, <1>3, <2>1, <3>1, <3>3, <4>2
    <3> QED BY <3>2, <3>3
  <2>2. CASE x \in nodes /\ y = o
    <3>1. cls[x] = cls[t] /\ key[x] < key[t]
      BY <1>3, <1>4, <1>8, <2>2
    <3>2. /\ next[x] \in nodes /\ key[x] < key[next[x]] /\ key[next[x]] <= key[t]
          /\ key[p] < key[t] /\ key[x] <= key[p]
      BY <2>2, <3>1 DEF Ring, p
    <3>3. key[p] < key[o]
      BY <1>1, <1>4, <3>2
    <3>4. CASE x = p
      BY <1>2, <1>3, <2>2, <3>2, <3>3, <3>4
    <3>5. CASE x # p
      <4>1. next[x] # t
        BY <1>1, <2>2, <3>5 DEF Ring, p
      <4>2. cls[next[x]] = cls[t] /\ key[next[x]] # key[t]
        <5>1. cls[next[x]] = cls[t]
          BY <2>2, <3>1 DEF Ring
        <5> QED BY <3>2, <4>1, <5>1 DEF Ring
      <4>3. key[next[x]] < key[t]
        BY <1>3, <3>2, <4>2
      <4>4. key[next[x]] < key[o]
        BY <1>4, <3>2, <4>2, <4>3
      <4> QED BY <1>2, <1>3, <2>2, <3>2, <3>3, <3>5, <4>4
    <3> QED BY <3>4, <3>5
  <2>3. CASE x \in nodes /\ y \in nodes
    <3>1. /\ key[x] < key[next[x]] /\ key[next[x]] <= key[y]
          /\ key[prev[y]] < key[y] /\ key[x] <= key[prev[y]]
      BY <1>8, <2>3 DEF Ring
    <3>2. key[x] < key[nx[x]] /\ key[nx[x]] <= key[y]
      <4>1. CASE x = p
        <5>1. key[x] < key[t] /\ key[t] <= key[y] /\ key[y] \in Int
          BY <1>1, <1>3, <2>3, <3>1, <4>1
        <5>2. key[x] < key[o]
          BY <1>1, <1>4, <2>3, <4>1, <5>1
        <5> QED BY <1>2, <1>3, <2>3, <4>1, <5>1, <5>2
      <4> QED BY <1>2, <2>3, <3>1, <4>1
    <3>3. key[pv[y]] < key[y] /\ key[x] <= key[pv[y]]
      <4>1. CASE y = t
        <5>1. key[x] < key[o]
          BY <1>4, <1>8, <2>3, <4>1
        <5> QED BY <1>2, <1>3, <2>3, <4>1, <5>1
      <4> QED BY <1>2, <2>3, <3>1, <4>1
    <3> QED BY <3>2, <3>3
  <2> QED BY <1>3, <1>8, <2>1, <2>2, <2>3
<1> HIDE DEF M
<1>9. Ring(M, nx, pv, cls, key, first2)
  BY <1>5, <1>6, <1>7, <1>8 DEF Ring
<1> QED BY <1>9 DEF M

\* Unlinking a node.
LEMMA LinkedRemove ==
    ASSUME NEW P, NEW N, N \notin P, NEW nodes \in SUBSET P,
           NEW next \in [P -> P \cup {N}], NEW prev \in [P -> P \cup {N}],
           Linked(nodes, next, prev), NEW l \in nodes
    PROVE  Linked(nodes \ {l}, [next EXCEPT ![prev[l]] = next[l], ![l] = N],
                  [prev EXCEPT ![next[l]] = prev[l], ![l] = N])
<1> DEFINE M  == nodes \ {l}
           p  == prev[l]
           n  == next[l]
           nx == [next EXCEPT ![prev[l]] = next[l], ![l] = N]
           pv == [prev EXCEPT ![next[l]] = prev[l], ![l] = N]
<1>1. p \in nodes /\ n \in nodes /\ next[p] = l /\ prev[n] = l
  BY DEF Linked
<1>2. p = l <=> n = l
  BY <1>1
<1>3. \A x \in M : /\ nx[x] = IF x = p THEN n ELSE next[x]
                   /\ pv[x] = IF x = n THEN p ELSE prev[x]
  BY <1>1
<1>4. \A x \in M : /\ x # p => next[x] # l
                   /\ x # n => prev[x] # l
  BY <1>1 DEF Linked
<1> HIDE DEF nx, pv, p, n
<1>5. ASSUME NEW x \in M
      PROVE  /\ nx[x] \in M /\ pv[nx[x]] = x
             /\ pv[x] \in M /\ nx[pv[x]] = x
  <2>1. /\ next[x] \in nodes /\ prev[next[x]] = x
        /\ prev[x] \in nodes /\ next[prev[x]] = x
    BY DEF Linked
  <2> QED BY <1>1, <1>2, <1>3, <1>4, <1>5, <2>1
<1> QED BY <1>5 DEF Linked, M, nx, pv

\* Linking a new node l between a node a and the one after it.
LEMMA LinkedInsert ==
    ASSUME NEW P, NEW N, N \notin P, NEW nodes \in SUBSET P,
           NEW next \in [P -> P \cup {N}], NEW prev \in [P -> P \cup {N}],
           Linked(nodes, next, prev), NEW l \in P \ nodes,
           NEW a \in nodes, NEW b \in nodes, b = next[a],
           NEW nx \in [P -> P \cup {N}], NEW pv \in [P -> P \cup {N}],
           \A x \in nodes : /\ nx[x] = IF x = a THEN l ELSE next[x]
                            /\ pv[x] = IF x = b THEN l ELSE prev[x],
           nx[l] = b, pv[l] = a
    PROVE  Linked(nodes \cup {l}, nx, pv)
<1>1. \A x \in nodes : /\ x # a => next[x] # b
                       /\ x # b => prev[x] # a
  BY DEF Linked
<1>2. prev[b] = a
  BY DEF Linked
<1>3. ASSUME NEW x \in nodes
      PROVE  /\ nx[x] \in nodes \cup {l} /\ pv[nx[x]] = x
             /\ pv[x] \in nodes \cup {l} /\ nx[pv[x]] = x
  <2>1. /\ next[x] \in nodes /\ prev[next[x]] = x
        /\ prev[x] \in nodes /\ next[prev[x]] = x
    BY DEF Linked
  <2> QED BY <1>1, <1>2, <2>1
<1> QED BY <1>3 DEF Linked

\* Adding a list of one node.
LEMMA LinkedNew ==
    ASSUME NEW P, NEW N, N \notin P, NEW nodes \in SUBSET P,
           NEW next \in [P -> P \cup {N}], NEW prev \in [P -> P \cup {N}],
           Linked(nodes, next, prev), NEW l \in P \ nodes
    PROVE  Linked(nodes \cup {l}, [next EXCEPT ![l] = l], [prev EXCEPT ![l] = l])
<1> DEFINE nx == [next EXCEPT ![l] = l]
           pv == [prev EXCEPT ![l] = l]
<1>1. \A x \in nodes : nx[x] = next[x] /\ pv[x] = prev[x]
  OBVIOUS
<1>2. nx[l] = l /\ pv[l] = l
  OBVIOUS
<1> HIDE DEF nx, pv
<1>3. Linked(nodes \cup {l}, nx, pv)
  BY <1>1, <1>2 DEF Linked
<1> QED BY <1>3 DEF nx, pv
=============================================================================
