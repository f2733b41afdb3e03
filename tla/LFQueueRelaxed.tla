--------------------------- MODULE LFQueueRelaxed ---------------------------
(***************************************************************************)
(* LFQueue under the ordering its memory_order arguments ask for.  The     *)
(* count is updated with memory_order_relaxed, so nothing orders the write *)
(* of a slot before the fetch_add that announces it, nor the read of a     *)
(* slot before the fetch_sub that gives it back: the C++ memory model      *)
(* calls it a data race, and AArch64, for which the project is built too,  *)
(* lets the slot access be performed later.  Here a slot access may be put *)
(* off, at the latest until the same thread starts its next call.          *)
(***************************************************************************)
EXTENDS LFQueue

VARIABLE delayed   \* the slot accesses put off: "write", "read"

delayWrite ==
    /\ ppc = "write" /\ ppc' = "advance"
    /\ delayed' = delayed \cup {"write"}
    /\ UNCHANGED <<sharedVars, pret, pushed, consumerVars>>

lateWrite ==
    LET k == IF ppc = "idle" THEN pushed ELSE pushed + 1
    IN  /\ "write" \in delayed /\ delayed' = delayed \ {"write"}
        /\ queue' = [queue EXCEPT ![(k - 1) % Size] = k]
        /\ UNCHANGED <<nextIndexToRead, nextIndexToWrite, numElements,
                       producerVars, consumerVars>>

delayRead ==
    /\ cpc = "read" /\ cpc' = "check"
    /\ delayed' = delayed \cup {"read"}
    /\ UNCHANGED <<sharedVars, value, cret, failed, popped, producerVars>>

lateRead ==
    LET k == IF cpc = "idle" THEN popped ELSE popped + 1
        v == queue[(k - 1) % Size]
    IN  /\ "read" \in delayed /\ delayed' = delayed \ {"read"}
        /\ IF cpc = "idle" THEN cret' = v /\ UNCHANGED value
                           ELSE value' = v /\ UNCHANGED cret
        /\ UNCHANGED <<sharedVars, cpc, failed, popped, producerVars>>

RelaxedInit == Init /\ delayed = {}

RelaxedNext ==
    \/ Producer /\ ("write" \in delayed => ppc # "idle") /\ UNCHANGED delayed
    \/ Consumer /\ ("read" \in delayed => cpc # "idle") /\ UNCHANGED delayed
    \/ delayWrite \/ lateWrite \/ delayRead \/ lateRead

RelaxedSpec == RelaxedInit /\ [][RelaxedNext]_<<vars, delayed>>
=============================================================================
