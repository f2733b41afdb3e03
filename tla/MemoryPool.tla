----------------------------- MODULE MemoryPool -----------------------------
(***************************************************************************)
(* utils::MemoryPool (src/lib/memory_pool.h): a fixed vector of blocks,    *)
(* each with an isFree flag, a count of the free blocks and a cursor at    *)
(* the block the next allocate takes.  The pool is used by one thread; a   *)
(* call is one step.                                                       *)
(***************************************************************************)
EXTENDS Integers, FiniteSets

CONSTANTS PoolSize,  \* memoryBlocks_.size()
          Wild,      \* indices deallocate may compute that are no block's
          Null       \* nullptr

ASSUME SizeAssumption == PoolSize \in Nat \ {0}
ASSUME WildAssumption == Null \notin Nat /\ Wild \cap (0 .. PoolSize - 1) = {}

VARIABLES isFree,          \* MemoryBlock::isFree
          nextFreeIndex,
          freeBlocksCount,
          lastFreedIndex,
          ret,             \* index of the block the last call returned
          failed           \* the ASSERT_CONDITION that ended the process

vars == <<isFree, nextFreeIndex, freeBlocksCount, lastFreedIndex, ret, failed>>

Index == 0 .. PoolSize - 1

\* Mutant: the lap ends before the last two blocks.
FreeAt_ShortLap(free, i) == {k \in 1 .. PoolSize - 2 : free[(i + k) % PoolSize]}

\* The distances at which updateNextFreeIndex finds a free block when it
\* scans from index i, wrapping around, until it is back at i.
FreeAt(free, i) == {k \in 1 .. PoolSize : free[(i + k) % PoolSize]}

\* Mutant: the scan does not wrap around.
updateNextFreeIndex_NoWrap(free, i) ==
    IF free[i] \/ FreeAt(free, i) = {} THEN i
    ELSE i + (CHOOSE k \in FreeAt(free, i) : \A j \in FreeAt(free, i) : k <= j)

\* Mutant: the cursor stays at the block just taken.
updateNextFreeIndex_Stays(free, i) == i

\* Where updateNextFreeIndex leaves the cursor: at i if i is free, else at
\* the first free block after it, else, having found none, back at i.
updateNextFreeIndex(free, i) ==
    IF free[i] \/ FreeAt(free, i) = {} THEN i
    ELSE (i + (CHOOSE k \in FreeAt(free, i) :
                  \A j \in FreeAt(free, i) : k <= j)) % PoolSize

Init ==
    /\ isFree = [i \in Index |-> TRUE]
    /\ nextFreeIndex = 0
    /\ freeBlocksCount = PoolSize
    /\ lastFreedIndex = 0
    /\ ret = Null
    /\ failed = "none"

\* Mutant: the last block is never handed out.
allocateNull_Early ==
    /\ failed = "none" /\ freeBlocksCount <= 1
    /\ ret' = Null
    /\ UNCHANGED <<isFree, nextFreeIndex, freeBlocksCount, lastFreedIndex, failed>>

\* allocate on a pool that is full.
allocateNull ==
    /\ failed = "none" /\ freeBlocksCount = 0
    /\ ret' = Null
    /\ UNCHANGED <<isFree, nextFreeIndex, freeBlocksCount, lastFreedIndex, failed>>

\* allocate: take the block at the cursor, then move the cursor on unless
\* that was the last free block.
allocate ==
    LET free == [isFree EXCEPT ![nextFreeIndex] = FALSE]
    IN  /\ failed = "none" /\ freeBlocksCount # 0
        /\ IF isFree[nextFreeIndex]
           THEN /\ isFree' = free
                /\ freeBlocksCount' = freeBlocksCount - 1
                /\ ret' = nextFreeIndex
                /\ nextFreeIndex' = IF freeBlocksCount - 1 > 0
                                    THEN updateNextFreeIndex(free, nextFreeIndex)
                                    ELSE nextFreeIndex
                /\ failed' = IF freeBlocksCount - 1 > 0 /\ FreeAt(free, nextFreeIndex) = {}
                             THEN "no free block found" ELSE failed
           ELSE /\ failed' = "cursor not free"
                /\ ret' = Null
                /\ UNCHANGED <<isFree, freeBlocksCount, nextFreeIndex>>
        /\ UNCHANGED lastFreedIndex

\* deallocate: the freed block is the next one to be taken.
deallocate(elemIndex) ==
    /\ failed = "none"
    /\ ret' = Null
    /\ IF elemIndex \in Index /\ ~isFree[elemIndex]
       THEN /\ isFree' = [isFree EXCEPT ![elemIndex] = TRUE]
            /\ freeBlocksCount' = freeBlocksCount + 1
            /\ lastFreedIndex' = elemIndex
            /\ nextFreeIndex' = elemIndex
            /\ UNCHANGED failed
       ELSE /\ failed' = "not an in-use block"
            /\ UNCHANGED <<isFree, freeBlocksCount, lastFreedIndex, nextFreeIndex>>

Next == \/ allocateNull \/ allocate
        \/ \E elemIndex \in Index \cup Wild : deallocate(elemIndex)

Spec == Init /\ [][Next]_vars

-----------------------------------------------------------------------------
(* Properties *)

\* Every variable has its type.
TypeOK ==
    /\ isFree \in [Index -> BOOLEAN]
    /\ nextFreeIndex \in Index /\ lastFreedIndex \in Index
    /\ freeBlocksCount \in 0 .. PoolSize
    /\ ret \in Index \cup {Null}
    /\ failed \in {"none", "no free block found", "cursor not free",
                   "not an in-use block"}

FreeBlocks == {i \in Index : isFree[i]}

\* The counter counts the flags, and the cursor is at a free block whenever
\* there is one: what lets allocate look at one flag only.
CursorAtFree ==
    /\ freeBlocksCount = Cardinality(FreeBlocks)
    /\ FreeBlocks # {} => isFree[nextFreeIndex]

\* The assertions of allocate and of updateNextFreeIndex cannot fail: only a
\* wrong argument of deallocate ends the process.
OnlyCallersFail == failed \in {"none", "not an in-use block"}

\* The pool keeps the promise of PoolSpec.
Pool == INSTANCE PoolSpec WITH
            Block <- Index,
            held  <- Index \ FreeBlocks,
            dead  <- failed # "none"

\* allocate never hands out a block in use and returns nullptr only when all
\* are; deallocate frees exactly its argument: every step is one of PoolSpec.
ImplementsPool == Pool!Spec
=============================================================================
