------------------------------ MODULE FifoSpec ------------------------------
(***************************************************************************)
(* What a bounded queue promises one producer and one consumer: a push     *)
(* appends, or is refused exactly when Size elements are queued; a pop     *)
(* returns the oldest element, or nothing exactly when none is queued.     *)
(***************************************************************************)
EXTENDS Integers, Sequences

CONSTANTS Size, Null,
          Value   \* what may be pushed

VARIABLES q,      \* the queued elements, oldest first
          pret,   \* what the last push returned
          cret    \* what the last pop returned, Null for nothing

Init == q = <<>> /\ pret = TRUE /\ cret = Null

Push(v) == /\ Len(q) < Size
           /\ q' = Append(q, v) /\ pret' = TRUE
           /\ UNCHANGED cret

Refuse == /\ Len(q) = Size
          /\ pret' = FALSE
          /\ UNCHANGED <<q, cret>>

Pop == /\ Len(q) > 0
       /\ cret' = Head(q) /\ q' = Tail(q)
       /\ UNCHANGED pret

Empty == /\ Len(q) = 0
         /\ cret' = Null
         /\ UNCHANGED <<q, pret>>

Next == (\E v \in Value : Push(v)) \/ Refuse \/ Pop \/ Empty

Spec == Init /\ [][Next]_<<q, pret, cret>>
=============================================================================
