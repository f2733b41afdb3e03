------------------------------ MODULE LFQueue ------------------------------
(***************************************************************************)
(* utils::LFQueue (src/lib/lock_free_queue.h) with one producer and one    *)
(* consumer thread: a ring of slots, two indices and an element count, all *)
(* atomic except the slots.  One action per access to shared memory.       *)
(*                                                                         *)
(* The queue does not look at what it carries, so the k-th accepted push   *)
(* carries the number k.                                                   *)
(*                                                                         *)
(* Accesses take effect in program order, as on a strongly ordered         *)
(* processor; module LFQueueRelaxed drops that.                            *)
(***************************************************************************)
EXTENDS Integers

CONSTANTS Size,       \* queue_.size()
          Null,       \* std::nullopt, and a value not read yet
          MaxPush     \* bound on the number of accepted pushes

ASSUME SizeAssumption  == Size \in Nat \ {0}
ASSUME NullAssumption  == Null \notin Nat
ASSUME BoundAssumption == MaxPush \in Nat

VARIABLES queue, nextIndexToRead, nextIndexToWrite, numElements,
          ppc,     \* where the producer is in push
          pret,    \* what the last push returned
          cpc,     \* where the consumer is in pop
          value,   \* the consumer's copy of the element
          cret,    \* what the last pop returned
          failed,  \* updateReadIndex's assertion failed
          pushed,  \* history: pushes announced so far
          popped   \* history: pops completed so far

sharedVars == <<queue, nextIndexToRead, nextIndexToWrite, numElements>>
producerVars == <<ppc, pret, pushed>>
consumerVars == <<cpc, value, cret, failed, popped>>
vars == <<sharedVars, producerVars, consumerVars>>

Slot == 0 .. Size - 1

\* Mutant: indices do not wrap around.
succ_NoWrap(i) == i + 1

succ(i) == (i + 1) % Size

Init ==
    /\ queue = [i \in Slot |-> 0]
    /\ nextIndexToRead = 0 /\ nextIndexToWrite = 0 /\ numElements = 0
    /\ ppc = "idle" /\ pret = TRUE /\ pushed = 0
    /\ cpc = "idle" /\ value = Null /\ cret = Null /\ failed = FALSE
    /\ popped = 0

-----------------------------------------------------------------------------
(* push *)

\* Mutant: one element too many is let in.
getNextToWrite_OffByOne ==
    /\ ppc = "idle" /\ pushed < MaxPush
    /\ numElements <= Size
    /\ ppc' = "write"
    /\ UNCHANGED <<sharedVars, pret, pushed, consumerVars>>

\* getNextToWrite finds a free slot.
getNextToWrite ==
    /\ ppc = "idle" /\ pushed < MaxPush
    /\ numElements < Size
    /\ ppc' = "write"
    /\ UNCHANGED <<sharedVars, pret, pushed, consumerVars>>

\* Mutant: the last free slot is refused.
pushRefused_Early ==
    /\ ppc = "idle" /\ pushed < MaxPush
    /\ ~(numElements + 1 < Size)
    /\ pret' = FALSE
    /\ UNCHANGED <<sharedVars, ppc, pushed, consumerVars>>

\* getNextToWrite finds none: push returns false.
pushRefused ==
    /\ ppc = "idle" /\ pushed < MaxPush
    /\ ~(numElements < Size)
    /\ pret' = FALSE
    /\ UNCHANGED <<sharedVars, ppc, pushed, consumerVars>>

\* *slot = value.
writeSlot ==
    /\ ppc = "write"
    /\ ppc' = "advance"
    /\ queue' = [queue EXCEPT ![nextIndexToWrite] = pushed + 1]
    /\ UNCHANGED <<nextIndexToRead, nextIndexToWrite, numElements, pret, pushed,
                   consumerVars>>

\* updateWriteIndex, first half.
advanceWrite ==
    /\ ppc = "advance"
    /\ ppc' = "publish"
    /\ nextIndexToWrite' = succ(nextIndexToWrite)
    /\ UNCHANGED <<queue, nextIndexToRead, numElements, pret, pushed,
                   consumerVars>>

\* Mutant: the element is announced without having been written.
publish_Unwritten ==
    /\ ppc = "write"
    /\ numElements' = numElements + 1
    /\ pushed' = pushed + 1 /\ pret' = TRUE
    /\ ppc' = "idle"
    /\ UNCHANGED <<queue, nextIndexToRead, nextIndexToWrite, consumerVars>>

\* updateWriteIndex, second half: the fetch_add that announces the element.
publish ==
    /\ ppc = "publish"
    /\ numElements' = numElements + 1
    /\ pushed' = pushed + 1 /\ pret' = TRUE
    /\ ppc' = "idle"
    /\ UNCHANGED <<queue, nextIndexToRead, nextIndexToWrite, consumerVars>>

Producer == \/ getNextToWrite \/ pushRefused \/ writeSlot
            \/ advanceWrite \/ publish

-----------------------------------------------------------------------------
(* pop *)

\* Mutant: the last element is not seen.
getNextToRead_OffByOne ==
    /\ cpc = "idle" /\ ~failed
    /\ numElements > 1
    /\ cpc' = "read"
    /\ UNCHANGED <<sharedVars, value, cret, failed, popped, producerVars>>

\* getNextToRead finds an element.
getNextToRead ==
    /\ cpc = "idle" /\ ~failed
    /\ numElements > 0
    /\ cpc' = "read"
    /\ UNCHANGED <<sharedVars, value, cret, failed, popped, producerVars>>

\* getNextToRead finds none: pop returns nullopt.
popEmpty ==
    /\ cpc = "idle" /\ ~failed
    /\ ~(numElements > 0)
    /\ cret' = Null
    /\ UNCHANGED <<sharedVars, cpc, value, failed, popped, producerVars>>

\* T value = *elem.
readSlot ==
    /\ cpc = "read"
    /\ cpc' = "check"
    /\ value' = queue[nextIndexToRead]
    /\ UNCHANGED <<sharedVars, cret, failed, popped, producerVars>>

\* updateReadIndex: the assertion on the count.
checkCount ==
    /\ cpc = "check"
    /\ IF numElements > 0 THEN cpc' = "advance" /\ UNCHANGED failed
                          ELSE cpc' = "idle" /\ failed' = TRUE
    /\ UNCHANGED <<sharedVars, value, cret, popped, producerVars>>

\* updateReadIndex: the index.
advanceRead ==
    /\ cpc = "advance"
    /\ cpc' = "release"
    /\ nextIndexToRead' = succ(nextIndexToRead)
    /\ UNCHANGED <<queue, nextIndexToWrite, numElements, value, cret, failed, popped,
                   producerVars>>

\* updateReadIndex: the fetch_sub that gives the slot back.
release ==
    /\ cpc = "release"
    /\ numElements' = numElements - 1
    /\ popped' = popped + 1
    /\ cpc' = "idle"
    /\ cret' = value /\ value' = Null
    /\ UNCHANGED <<queue, nextIndexToRead, nextIndexToWrite, failed, producerVars>>

Consumer == \/ getNextToRead \/ popEmpty \/ readSlot
            \/ checkCount \/ advanceRead \/ release

Next == Producer \/ Consumer

Spec == Init /\ [][Next]_vars

\* The consumer thread polls for ever, and a push that was started ends.
FairSpec == Spec /\ WF_vars(Consumer) /\ WF_vars(ppc # "idle" /\ Producer)

-----------------------------------------------------------------------------
(* Properties *)

\* Every variable has its type.
TypeOK ==
    /\ queue \in [Slot -> Nat]
    /\ nextIndexToRead \in Slot /\ nextIndexToWrite \in Slot
    /\ numElements \in 0 .. Size
    /\ ppc \in {"idle", "write", "advance", "publish"}
    /\ cpc \in {"idle", "read", "check", "advance", "release"}
    /\ pret \in BOOLEAN /\ failed \in BOOLEAN
    /\ value \in Nat \cup {Null} /\ cret \in Nat \cup {Null}
    /\ pushed \in Nat /\ popped \in Nat

\* Each pop that returns an element returns the oldest one not yet returned.
PopsInOrder == cret # Null => cret = popped

\* The count is what is between the two indices, every announced element
\* is in its slot until it was given back, although the three variables are
\* updated one after the other by two threads, and the assertion of
\* updateReadIndex does not fail.
SlotsHoldWindow ==
    /\ numElements = pushed - popped
    /\ \A k \in popped + 1 .. pushed : queue[(k - 1) % Size] = k
    /\ ~failed

\* The queue keeps the promise of FifoSpec: push takes effect at the
\* increment of the count, pop at the decrement.
Fifo == INSTANCE FifoSpec WITH
            q     <- [i \in 1 .. pushed - popped |-> popped + i],
            Value <- 1 .. MaxPush

\* push and pop, of several accesses each, are atomic operations of FifoSpec.
ImplementsFifo == Fifo!Spec

\* Every announced element is popped.
Delivered == \A k \in 1 .. MaxPush : pushed >= k ~> popped >= k
=============================================================================
