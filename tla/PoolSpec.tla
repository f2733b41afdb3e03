------------------------------ MODULE PoolSpec ------------------------------
(***************************************************************************)
(* What a memory pool promises its users: allocate hands out a block that   *)
(* nobody holds, nullptr exactly when every block is held, and deallocate  *)
(* takes back a block that is held; anything else ends the process.        *)
(***************************************************************************)
CONSTANTS Block,   \* the blocks of the pool
          Wild,    \* pointers that are no block of the pool
          Null

VARIABLES held,    \* the blocks in use
          ret,     \* what the last allocate returned, Null otherwise
          dead     \* the process was terminated

Init == held = {} /\ ret = Null /\ dead = FALSE

Allocate ==
    /\ ~dead
    /\ \/ \E b \in Block \ held : ret' = b /\ held' = held \cup {b}
       \/ held = Block /\ ret' = Null /\ UNCHANGED held
    /\ UNCHANGED dead

Deallocate(b) ==
    /\ ~dead
    /\ IF b \in held THEN held' = held \ {b} /\ UNCHANGED dead
                     ELSE dead' = TRUE /\ UNCHANGED held
    /\ ret' = Null

Next == Allocate \/ \E b \in Block \cup Wild : Deallocate(b)

Spec == Init /\ [][Next]_<<held, ret, dead>>
=============================================================================
