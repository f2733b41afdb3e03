-------------------------- MODULE MemoryPoolProofs --------------------------
(***************************************************************************)
(* Proofs about MemoryPool, for every pool size: the assertions inside the *)
(* pool never fail, and the pool implements PoolSpec.                      *)
(***************************************************************************)
EXTENDS MemoryPool, FiniteSetTheorems, WellFoundedInduction, TLAPS

\* Every non-empty set of naturals has a least element.
LEMMA LeastNatural ==
    ASSUME NEW T \in SUBSET Nat, T # {}
    PROVE  \E m \in T : \A n \in T : m <= n
<1> DEFINE R == {ss \in Nat \X Nat : ss[1] < ss[2]}
<1>1. IsWellFoundedOn(R, Nat)
  BY NatLessThanWellFounded DEF OpToRel
<1>2. PICK m \in T : \A n \in T : ~(<<n, m>> \in R)
  <2> HIDE DEF R
  <2> QED BY <1>1, WFMin
<1>3. \A n \in T : ~(n < m)
  BY <1>2
<1> QED BY <1>3

\* One lap around the pool meets every index.
LEMMA LapReaches ==
    ASSUME NEW i \in Index, NEW j \in Index
    PROVE  \E k \in 1 .. PoolSize : (i + k) % PoolSize = j
<1>1. CASE j > i
  <2>1. j - i \in 1 .. PoolSize /\ (i + (j - i)) % PoolSize = j
    BY <1>1, SizeAssumption DEF Index
  <2> QED BY <2>1
<1>2. CASE j <= i
  <2>1. j - i + PoolSize \in 1 .. PoolSize /\ i + (j - i + PoolSize) = j + PoolSize
    BY <1>2, SizeAssumption DEF Index
  <2>2. (j + PoolSize) % PoolSize = j
    BY SizeAssumption DEF Index
  <2> QED BY <2>1, <2>2
<1> QED BY <1>1, <1>2 DEF Index

\* updateNextFreeIndex finds a free block if there is one: its own assertion
\* does not fail, and the cursor ends at a free block.
LEMMA CursorFinds ==
    ASSUME NEW free \in [Index -> BOOLEAN], NEW i \in Index,
           \E j \in Index : free[j]
    PROVE  /\ FreeAt(free, i) # {}
           /\ updateNextFreeIndex(free, i) \in Index
           /\ free[updateNextFreeIndex(free, i)]
<1>1. FreeAt(free, i) # {}
  BY LapReaches DEF FreeAt
<1>2. FreeAt(free, i) \in SUBSET Nat
  BY DEF FreeAt
<1>3. PICK m \in FreeAt(free, i) : \A n \in FreeAt(free, i) : m <= n
  BY <1>1, <1>2, LeastNatural
<1> DEFINE k == CHOOSE k \in FreeAt(free, i) : \A j \in FreeAt(free, i) : k <= j
<1>4. k \in FreeAt(free, i)
  BY <1>3
<1>5. free[(i + k) % PoolSize] /\ k \in 1 .. PoolSize
  BY <1>4 DEF FreeAt
<1>6. (i + k) % PoolSize \in Index
  <2> HIDE DEF k
  <2> QED BY <1>5, SizeAssumption DEF Index
<1> QED BY <1>1, <1>5, <1>6 DEF updateNextFreeIndex

\* What the three facts about counter, cursor and assertions need to be
\* preserved together.
IInv == TypeOK /\ CursorAtFree /\ OnlyCallersFail

\* The new pool has the invariant.
LEMMA InitInv == Init => IInv
<1> SUFFICES ASSUME Init PROVE IInv
  OBVIOUS
<1>1. 0 \in Index
  BY SizeAssumption DEF Index
<1>2. TypeOK /\ OnlyCallersFail
  BY <1>1, SizeAssumption DEF Init, TypeOK, OnlyCallersFail, Index
<1>3. FreeBlocks = 0 .. PoolSize - 1 /\ isFree[nextFreeIndex]
  BY <1>1 DEF Init, FreeBlocks, Index
<1>4. Cardinality(0 .. PoolSize - 1) = PoolSize
  BY FS_Interval, SizeAssumption
<1> QED BY <1>2, <1>3, <1>4 DEF Init, IInv, CursorAtFree

\* The set of free blocks is finite.
LEMMA FreeFinite == /\ IsFiniteSet(FreeBlocks)
                    /\ Cardinality(FreeBlocks) \in Nat
<1>1. IsFiniteSet(0 .. PoolSize - 1)
  BY FS_Interval, SizeAssumption
<1>2. IsFiniteSet(FreeBlocks)
  BY <1>1, FS_Subset DEF FreeBlocks, Index
<1> QED BY <1>2, FS_CardinalityType

\* The pool has PoolSize blocks.
LEMMA PoolFinite == IsFiniteSet(Index) /\ Cardinality(Index) = PoolSize
<1>1. IsFiniteSet(0 .. PoolSize - 1) /\ Cardinality(0 .. PoolSize - 1) = PoolSize
  BY FS_Interval, SizeAssumption
<1> QED BY <1>1 DEF Index

\* allocate keeps the invariant.
LEMMA AllocateInv ==
    ASSUME IInv, allocate
    PROVE  /\ IInv'
           /\ isFree[nextFreeIndex] /\ ret' = nextFreeIndex /\ failed' = "none"
           /\ FreeBlocks' = FreeBlocks \ {nextFreeIndex}
<1> USE DEF IInv
<1> DEFINE free == [isFree EXCEPT ![nextFreeIndex] = FALSE]
<1>1. FreeBlocks # {} /\ isFree[nextFreeIndex]
  BY FS_EmptySet DEF allocate, CursorAtFree
<1>2. /\ isFree' = free
      /\ freeBlocksCount' = freeBlocksCount - 1
      /\ ret' = nextFreeIndex
      /\ nextFreeIndex' = IF freeBlocksCount - 1 > 0
                          THEN updateNextFreeIndex(free, nextFreeIndex)
                          ELSE nextFreeIndex
      /\ failed' = IF freeBlocksCount - 1 > 0 /\ FreeAt(free, nextFreeIndex) = {}
                   THEN "no free block found" ELSE failed
      /\ UNCHANGED lastFreedIndex
      /\ failed = "none" /\ freeBlocksCount # 0
  BY <1>1 DEF allocate
<1> HIDE DEF free
<1>2a. /\ freeBlocksCount' = freeBlocksCount - 1
      /\ freeBlocksCount \in 1 .. PoolSize
  <2>1. freeBlocksCount' = freeBlocksCount - 1 /\ freeBlocksCount # 0
    BY <1>2
  <2>2. freeBlocksCount \in 0 .. PoolSize
    BY DEF TypeOK
  <2> QED BY <2>1, <2>2, SizeAssumption
<1>3. free \in [Index -> BOOLEAN] /\ ~free[nextFreeIndex]
      /\ \A j \in Index : j # nextFreeIndex => free[j] = isFree[j]
  BY DEF free, TypeOK
<1>4. FreeBlocks' = FreeBlocks \ {nextFreeIndex} /\ nextFreeIndex \in FreeBlocks
  BY <1>1, <1>2, <1>3 DEF FreeBlocks, TypeOK
<1>5. freeBlocksCount' = Cardinality(FreeBlocks')
      /\ freeBlocksCount' \in 0 .. PoolSize
  <2>1. Cardinality(FreeBlocks \ {nextFreeIndex}) = Cardinality(FreeBlocks) - 1
    BY <1>4, FreeFinite, FS_RemoveElement
  <2>2. freeBlocksCount = Cardinality(FreeBlocks) /\ freeBlocksCount \in 0 .. PoolSize
    BY DEF CursorAtFree, TypeOK
  <2>3. freeBlocksCount - 1 \in 0 .. PoolSize
    BY <1>2a, SizeAssumption
  <2> QED BY <1>2, <1>4, <2>1, <2>2, <2>3
<1>6. IsFiniteSet(FreeBlocks')
  BY <1>4, FreeFinite, FS_RemoveElement
<1>7. CASE freeBlocksCount - 1 > 0
  <2>1. FreeBlocks' # {}
    <3>1. freeBlocksCount' # 0
      BY <1>2a, <1>7
    <3>2. Cardinality(FreeBlocks') # 0
      BY <1>5, <3>1
    <3> QED BY <1>6, <3>2, FS_EmptySet
  <2>2. \E j \in Index : free[j]
    BY <1>2, <2>1 DEF FreeBlocks
  <2>3. /\ FreeAt(free, nextFreeIndex) # {}
        /\ updateNextFreeIndex(free, nextFreeIndex) \in Index
        /\ free[updateNextFreeIndex(free, nextFreeIndex)]
    BY <1>3, <2>2, CursorFinds DEF TypeOK
  <2>4. failed' = "none" /\ nextFreeIndex' \in Index /\ isFree'[nextFreeIndex']
    BY <1>2, <1>7, <2>3
  <2> QED BY <1>2, <1>3, <1>4, <1>5, <1>1, <2>4
          DEF TypeOK, CursorAtFree, OnlyCallersFail
<1>8. CASE ~(freeBlocksCount - 1 > 0)
  <2>1. FreeBlocks' = {}
    <3>1. freeBlocksCount' = 0
      BY <1>2, <1>8 DEF TypeOK
    <3>2. Cardinality(FreeBlocks') = 0
      BY <1>5, <3>1
    <3> QED BY <1>6, <3>2, FS_EmptySet
  <2> QED BY <1>1, <1>2, <1>3, <1>4, <1>5, <1>8, <2>1
          DEF TypeOK, CursorAtFree, OnlyCallersFail
<1> QED BY <1>7, <1>8

\* deallocate keeps the invariant.
LEMMA DeallocateInv ==
    ASSUME IInv, NEW e \in Index \cup Wild, deallocate(e)
    PROVE  /\ IInv'
           /\ ret' = Null
           /\ IF e \in Index \ FreeBlocks
              THEN FreeBlocks' = FreeBlocks \cup {e} /\ UNCHANGED failed
              ELSE UNCHANGED FreeBlocks /\ failed' = "not an in-use block"
<1> USE DEF IInv
<1>1. CASE e \in Index /\ ~isFree[e]
  <2>1. FreeBlocks' = FreeBlocks \cup {e} /\ e \notin FreeBlocks
        /\ FreeBlocks' \subseteq Index
    BY <1>1 DEF deallocate, FreeBlocks, TypeOK
  <2>2. Cardinality(FreeBlocks') = Cardinality(FreeBlocks) + 1
    BY <2>1, FreeFinite, FS_AddElement
  <2>3. Cardinality(FreeBlocks') <= PoolSize
    BY <2>1, PoolFinite, FS_Subset
  <2>4. CursorAtFree'
    BY <1>1, <2>1, <2>2 DEF deallocate, CursorAtFree, TypeOK
  <2>5. freeBlocksCount' \in 0 .. PoolSize
    <3>1. freeBlocksCount' = Cardinality(FreeBlocks') /\ freeBlocksCount' \in Nat
      BY <1>1, <2>2, FreeFinite DEF deallocate, CursorAtFree
    <3> QED BY <2>3, <3>1, SizeAssumption
  <2>6. TypeOK' /\ OnlyCallersFail'
    BY <1>1, <2>5 DEF deallocate, TypeOK, OnlyCallersFail
  <2> QED BY <1>1, <2>1, <2>4, <2>6 DEF deallocate
<1>2. CASE ~(e \in Index /\ ~isFree[e])
  <2>1. UNCHANGED <<isFree, freeBlocksCount, lastFreedIndex, nextFreeIndex>>
        /\ failed' = "not an in-use block" /\ ret' = Null
    BY <1>2 DEF deallocate
  <2>2. UNCHANGED FreeBlocks /\ e \notin Index \ FreeBlocks
    BY <1>2, <2>1 DEF FreeBlocks
  <2> QED BY <2>1, <2>2 DEF TypeOK, CursorAtFree, OnlyCallersFail
<1> QED BY <1>1, <1>2

\* Every call keeps the invariant.
LEMMA NextInv == IInv /\ [Next]_vars => IInv'
<1> SUFFICES ASSUME IInv, [Next]_vars PROVE IInv'
  OBVIOUS
<1>1. CASE allocateNull
  <2>1. UNCHANGED FreeBlocks
    BY <1>1 DEF allocateNull, FreeBlocks
  <2> QED BY <1>1, <2>1
          DEF allocateNull, IInv, TypeOK, CursorAtFree, OnlyCallersFail
<1>2. CASE allocate
  BY <1>2, AllocateInv
<1>3. CASE \E e \in Index \cup Wild : deallocate(e)
  BY <1>3, DeallocateInv
<1>4. CASE UNCHANGED vars
  <2>1. UNCHANGED FreeBlocks
    BY <1>4 DEF vars, FreeBlocks
  <2> QED BY <1>4, <2>1 DEF vars, IInv, TypeOK, CursorAtFree, OnlyCallersFail
<1> QED BY <1>1, <1>2, <1>3, <1>4 DEF Next

\* The pool's variables keep their types, whatever its callers hand back: the
\* cursor never leaves the array and the counter never its bounds.
THEOREM TypeCorrect == Spec => []TypeOK
<1>1. IInv => TypeOK
  BY DEF IInv
<1> QED BY <1>1, InitInv, NextInv, PTL DEF Spec

\* The free-block counter counts the isFree flags and the cursor of allocate
\* is at a free block whenever there is one, in a pool of any size.
THEOREM CursorCorrect == Spec => []CursorAtFree
<1>1. IInv => CursorAtFree
  BY DEF IInv
<1> QED BY <1>1, InitInv, NextInv, PTL DEF Spec

\* Neither allocate's assertion nor updateNextFreeIndex's can fail.
THEOREM AssertionsHold == Spec => []OnlyCallersFail
<1>1. IInv => OnlyCallersFail
  BY DEF IInv
<1> QED BY <1>1, InitInv, NextInv, PTL DEF Spec

\* MemoryPool implements PoolSpec: allocate returns a block nobody holds,
\* nullptr only when all are held, and only misuse ends the process.
THEOREM Refinement == Spec => ImplementsPool
<1>1. Init => Pool!Init
  BY DEF Init, Pool!Init, FreeBlocks
<1>2. IInv /\ [Next]_vars => [Pool!Next]_<<Index \ FreeBlocks, ret, failed # "none">>
  <2> SUFFICES ASSUME IInv, [Next]_vars
               PROVE  [Pool!Next]_<<Index \ FreeBlocks, ret, failed # "none">>
    OBVIOUS
  <2>1. CASE allocateNull
    <3>1. Index \ FreeBlocks = Index
      BY <2>1, FreeFinite, FS_EmptySet DEF allocateNull, IInv, CursorAtFree
    <3>2. UNCHANGED <<FreeBlocks, failed>> /\ ret' = Null /\ failed = "none"
      BY <2>1 DEF allocateNull, FreeBlocks
    <3>3. Pool!Allocate
      BY <3>1, <3>2 DEF Pool!Allocate
    <3> QED BY <3>3 DEF Pool!Next
  <2>2. CASE allocate
    <3>1. /\ nextFreeIndex \in Index /\ nextFreeIndex \in FreeBlocks
          /\ ret' = nextFreeIndex /\ failed = "none" /\ failed' = "none"
          /\ FreeBlocks' = FreeBlocks \ {nextFreeIndex}
      BY <2>2, AllocateInv DEF allocate, IInv, TypeOK, FreeBlocks
    <3>2. (Index \ FreeBlocks)' = (Index \ FreeBlocks) \cup {nextFreeIndex}
          /\ nextFreeIndex \in Index \ (Index \ FreeBlocks)
      BY <3>1
    <3>3. Pool!Allocate
      BY <3>1, <3>2 DEF Pool!Allocate
    <3> QED BY <3>3 DEF Pool!Next
  <2>3. ASSUME NEW e \in Index \cup Wild, deallocate(e)
        PROVE  Pool!Next
    <3>1. failed = "none"
      BY <2>3 DEF deallocate
    <3>2. Pool!Deallocate(e)
      BY <2>3, <3>1, DeallocateInv DEF Pool!Deallocate
    <3> QED BY <3>2 DEF Pool!Next
  <2>4. CASE UNCHANGED vars
    BY <2>4 DEF vars, FreeBlocks
  <2> QED BY <2>1, <2>2, <2>3, <2>4 DEF Next
<1> QED BY <1>1, <1>2, InitInv, NextInv, PTL DEF Spec, ImplementsPool, Pool!Spec
=============================================================================
