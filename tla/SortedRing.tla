----------------------------- MODULE SortedRing -----------------------------
(***************************************************************************)
(* The circular doubly linked lists of the order book                      *)
(* (src/core/exchange/matching_engine_order.h), as a condition on the      *)
(* pointers alone: for each class cls[x] the nodes of that class form one  *)
(* list, linked both ways, on which the key grows from the first node      *)
(* first[cls[x]] to the last, whose next is the first again.               *)
(***************************************************************************)
EXTENDS Integers

\* next and prev are mutually inverse on the nodes.
Linked(nodes, next, prev) ==
    \A x \in nodes : /\ next[x] \in nodes /\ prev[next[x]] = x
                     /\ prev[x] \in nodes /\ next[prev[x]] = x

Ring(nodes, next, prev, cls, key, first) ==
    \A x \in nodes :
        /\ next[x] \in nodes /\ prev[next[x]] = x /\ cls[next[x]] = cls[x]
        /\ prev[x] \in nodes /\ next[prev[x]] = x /\ cls[prev[x]] = cls[x]
        /\ first[cls[x]] \in nodes /\ cls[first[cls[x]]] = cls[x]
        /\ x # first[cls[x]] => key[first[cls[x]]] < key[x]
        /\ \A y \in nodes : cls[x] = cls[y] =>
              /\ x # y => key[x] # key[y]
              /\ key[x] < key[y] =>
                    /\ key[x] < key[next[x]] /\ key[next[x]] <= key[y]
                    /\ key[prev[y]] < key[y] /\ key[x] <= key[prev[y]]
=============================================================================
