--------------------------- MODULE LFQueueProofs ---------------------------
(***************************************************************************)
(* Proofs about LFQueue, for every queue size and every number of pushes:  *)
(* elements come out in order, and the queue implements FifoSpec.          *)
(***************************************************************************)
EXTENDS LFQueue, Sequences, SequenceTheorems, TLAPS

-----------------------------------------------------------------------------
(* Arithmetic of the ring *)

\* A position modulo Size is a slot.
LEMMA SlotInRange ==
    ASSUME NEW k \in Nat
    PROVE  k % Size \in Slot
BY SizeAssumption DEF Slot

\* succ steps from the slot of one position to that of the next.
LEMMA SlotSucc ==
    ASSUME NEW k \in Nat
    PROVE  succ(k % Size) = (k + 1) % Size
<1> DEFINE r == k % Size
           d == k \div Size
<1>1. r \in 0 .. Size - 1 /\ d \in Nat /\ k = Size * d + r
  BY SizeAssumption
<1> HIDE DEF r, d
<1>2. CASE r + 1 < Size
  <2>1. k + 1 = Size * d + (r + 1)
    BY <1>1, SizeAssumption
  <2>2. (k + 1) % Size = r + 1
    BY <1>1, <1>2, <2>1, SizeAssumption
  <2>3. (r + 1) % Size = r + 1
    BY <1>1, <1>2, SizeAssumption
  <2> QED BY <2>2, <2>3 DEF succ, r
<1>3. CASE r + 1 = Size
  <2>1. k + 1 = Size * (d + 1)
    BY <1>1, <1>3, SizeAssumption
  <2>2. (k + 1) % Size = 0
    BY <1>1, <2>1, SizeAssumption
  <2>3. (r + 1) % Size = 0
    BY <1>3, SizeAssumption
  <2> QED BY <2>2, <2>3 DEF succ, r
<1> QED BY <1>1, <1>2, <1>3, SizeAssumption

\* Fewer than Size consecutive elements are in different slots.
LEMMA SlotsDiffer ==
    ASSUME NEW j \in Nat, NEW k \in Nat, j < k, k < j + Size
    PROVE  j % Size # k % Size
<1> DEFINE dj == j \div Size
           dk == k \div Size
<1> SUFFICES ASSUME j % Size = k % Size PROVE FALSE
  OBVIOUS
<1>1. dj \in Nat /\ dk \in Nat /\ j = Size * dj + (j % Size) /\ k = Size * dk + (k % Size)
      /\ j % Size \in Nat
  BY SizeAssumption
<1> HIDE DEF dj, dk
<1>2. k - j = Size * (dk - dj)
  BY <1>1, SizeAssumption
<1>3. CASE dk - dj <= 0
  <2>1. Size * (dk - dj) <= 0
    BY <1>1, <1>3, SizeAssumption
  <2> QED BY <1>2, <2>1
<1>4. CASE dk - dj >= 1
  <2>1. Size * (dk - dj) >= Size
    BY <1>1, <1>4, SizeAssumption
  <2> QED BY <1>2, <2>1, SizeAssumption
<1> QED BY <1>1, <1>3, <1>4

-----------------------------------------------------------------------------
(* The inductive invariant *)

\* What each thread knows at each point of its call: its index is the slot of
\* the next element, the room or the element it saw is still there, and the
\* slot written (or the value read) is the next element.
InFlight ==
    /\ nextIndexToWrite = (IF ppc = "publish" THEN pushed + 1 ELSE pushed) % Size
    /\ nextIndexToRead = (IF cpc = "release" THEN popped + 1 ELSE popped) % Size
    /\ ppc # "idle" => numElements < Size /\ pushed < MaxPush
    /\ ppc \in {"advance", "publish"} => queue[pushed % Size] = pushed + 1
    /\ cpc # "idle" => numElements > 0
    /\ cpc \in {"check", "advance", "release"} => value = popped + 1

IInv == TypeOK /\ SlotsHoldWindow /\ PopsInOrder /\ InFlight

\* The empty queue has the invariant.
LEMMA InitInv == Init => IInv
<1> SUFFICES ASSUME Init PROVE IInv
  OBVIOUS
<1>1. 0 \in Slot /\ 0 % Size = 0
  BY SizeAssumption DEF Slot
<1>2. TypeOK
  <2>1. 0 \in 0 .. Size
    BY SizeAssumption
  <2> QED BY <1>1, <2>1 DEF Init, TypeOK
<1>3. SlotsHoldWindow /\ PopsInOrder
  BY DEF Init, SlotsHoldWindow, PopsInOrder
<1>4. InFlight
  BY <1>1 DEF Init, InFlight
<1> QED BY <1>2, <1>3, <1>4 DEF IInv

\* Every access to shared memory, by either thread, keeps it.
LEMMA NextInv == IInv /\ [Next]_vars => IInv'
<1> SUFFICES ASSUME IInv, [Next]_vars PROVE IInv'
  OBVIOUS
<1> USE DEF IInv
<1>0. /\ Size \in Nat \ {0} /\ Null \notin Nat
      /\ pushed \in Nat /\ popped \in Nat /\ numElements \in 0 .. Size
      /\ numElements = pushed - popped
      /\ pushed % Size \in Slot /\ popped % Size \in Slot
  BY SizeAssumption, NullAssumption, SlotInRange DEF TypeOK, SlotsHoldWindow
<1>1. CASE getNextToWrite
  BY <1>0, <1>1 DEF getNextToWrite, sharedVars, consumerVars,
                    TypeOK, SlotsHoldWindow, PopsInOrder, InFlight
<1>2. CASE pushRefused
  BY <1>0, <1>2 DEF pushRefused, sharedVars, consumerVars,
                    TypeOK, SlotsHoldWindow, PopsInOrder, InFlight
<1>3. CASE writeSlot
  <2>1. /\ queue' = [queue EXCEPT ![pushed % Size] = pushed + 1]
        /\ numElements < Size
    BY <1>3 DEF writeSlot, InFlight
  <2>2. TypeOK' /\ PopsInOrder' /\ InFlight'
    BY <1>0, <1>3, <2>1 DEF writeSlot, consumerVars, TypeOK, PopsInOrder, InFlight
  <2>3. ASSUME NEW k \in popped + 1 .. pushed
        PROVE  queue'[(k - 1) % Size] = k
    <3>1. /\ k - 1 \in Nat /\ k - 1 < pushed /\ pushed < (k - 1) + Size
      BY <1>0, <2>1
    <3>2. (k - 1) % Size # pushed % Size /\ (k - 1) % Size \in Slot
      BY <1>0, <3>1, SlotsDiffer, SlotInRange
    <3>3. queue[(k - 1) % Size] = k
      BY DEF SlotsHoldWindow
    <3> QED BY <2>1, <3>2, <3>3 DEF TypeOK
  <2>4. SlotsHoldWindow'
    BY <1>3, <2>3 DEF writeSlot, consumerVars, SlotsHoldWindow
  <2> QED BY <2>2, <2>4
<1>4. CASE advanceWrite
  <2>1. nextIndexToWrite' = (pushed + 1) % Size /\ (pushed + 1) % Size \in Slot
    <3>1. nextIndexToWrite' = succ(pushed % Size)
      BY <1>4 DEF advanceWrite, InFlight
    <3>2. pushed + 1 \in Nat
      BY <1>0
    <3> QED BY <1>0, <3>1, <3>2, SlotSucc, SlotInRange
  <2> QED BY <1>0, <1>4, <2>1 DEF advanceWrite, consumerVars,
             TypeOK, SlotsHoldWindow, PopsInOrder, InFlight
<1>5. CASE publish
  <2>1. numElements < Size /\ queue[pushed % Size] = pushed + 1
    BY <1>5 DEF publish, InFlight
  <2>2. TypeOK' /\ PopsInOrder' /\ InFlight'
    BY <1>0, <1>5, <2>1 DEF publish, consumerVars, TypeOK, PopsInOrder, InFlight
  <2>3. ASSUME NEW k \in popped + 1 .. pushed + 1
        PROVE  queue[(k - 1) % Size] = k
    <3>1. CASE k = pushed + 1
      <4>1. k - 1 = pushed
        BY <1>0, <3>1
      <4> QED BY <2>1, <3>1, <4>1
    <3>2. CASE k # pushed + 1
      <4>1. k \in popped + 1 .. pushed
        BY <1>0, <3>2
      <4> QED BY <4>1 DEF SlotsHoldWindow
    <3> QED BY <3>1, <3>2
  <2>4. SlotsHoldWindow'
    BY <1>0, <1>5, <2>3 DEF publish, consumerVars, SlotsHoldWindow
  <2> QED BY <2>2, <2>4
<1>6. CASE getNextToRead
  BY <1>0, <1>6 DEF getNextToRead, sharedVars, producerVars,
                    TypeOK, SlotsHoldWindow, PopsInOrder, InFlight
<1>7. CASE popEmpty
  BY <1>0, <1>7 DEF popEmpty, sharedVars, producerVars,
                    TypeOK, SlotsHoldWindow, PopsInOrder, InFlight
<1>8. CASE readSlot
  <2>1. queue[popped % Size] = popped + 1
    <3>1. popped + 1 \in popped + 1 .. pushed /\ (popped + 1) - 1 = popped
      BY <1>0, <1>8 DEF readSlot, InFlight
    <3> QED BY <3>1 DEF SlotsHoldWindow
  <2>2. value' = popped + 1
    BY <1>8, <2>1 DEF readSlot, InFlight
  <2> QED BY <1>0, <1>8, <2>2 DEF readSlot, sharedVars, producerVars,
             TypeOK, SlotsHoldWindow, PopsInOrder, InFlight
<1>9. CASE checkCount
  <2>1. numElements > 0
    BY <1>9 DEF checkCount, InFlight
  <2> QED BY <1>0, <1>9, <2>1 DEF checkCount, sharedVars, producerVars,
             TypeOK, SlotsHoldWindow, PopsInOrder, InFlight
<1>10. CASE advanceRead
  <2>1. nextIndexToRead' = (popped + 1) % Size /\ (popped + 1) % Size \in Slot
    <3>1. nextIndexToRead' = succ(popped % Size)
      BY <1>10 DEF advanceRead, InFlight
    <3>2. popped + 1 \in Nat
      BY <1>0
    <3> QED BY <1>0, <3>1, <3>2, SlotSucc, SlotInRange
  <2> QED BY <1>0, <1>10, <2>1 DEF advanceRead, producerVars,
             TypeOK, SlotsHoldWindow, PopsInOrder, InFlight
<1>11. CASE release
  <2>1. numElements > 0 /\ value = popped + 1
    BY <1>11 DEF release, InFlight
  <2>2. TypeOK' /\ PopsInOrder' /\ InFlight'
    BY <1>0, <1>11, <2>1 DEF release, producerVars, TypeOK, PopsInOrder, InFlight
  <2>3. SlotsHoldWindow'
    <3>1. /\ queue' = queue /\ pushed' = pushed /\ failed' = failed
          /\ popped' = popped + 1 /\ numElements' = numElements - 1
      BY <1>11 DEF release, producerVars
    <3>2. \A k \in (popped + 1) + 1 .. pushed : k \in popped + 1 .. pushed
      BY <1>0
    <3> QED BY <1>0, <3>1, <3>2 DEF SlotsHoldWindow
  <2> QED BY <2>2, <2>3
<1>12. CASE UNCHANGED vars
  BY <1>12 DEF vars, sharedVars, producerVars, consumerVars,
               TypeOK, SlotsHoldWindow, PopsInOrder, InFlight
<1> QED BY <1>1, <1>2, <1>3, <1>4, <1>5, <1>6, <1>7, <1>8, <1>9, <1>10, <1>11, <1>12
        DEF Next, Producer, Consumer

\* The indices stay inside the array and the count between 0 and Size, in
\* every interleaving of the two threads.
THEOREM TypeCorrect == Spec => []TypeOK
<1>1. IInv => TypeOK
  BY DEF IInv
<1> QED BY <1>1, InitInv, NextInv, PTL DEF Spec

\* Every pop returns the oldest element not yet returned, for every queue size.
THEOREM InOrder == Spec => []PopsInOrder
<1>1. IInv => PopsInOrder
  BY DEF IInv
<1> QED BY <1>1, InitInv, NextInv, PTL DEF Spec

\* An announced element stays in its slot until it is given back, the count is
\* exact, and updateReadIndex's assertion does not fail.
THEOREM WindowSafe == Spec => []SlotsHoldWindow
<1>1. IInv => SlotsHoldWindow
  BY DEF IInv
<1> QED BY <1>1, InitInv, NextInv, PTL DEF Spec

-----------------------------------------------------------------------------
(* Refinement *)

\* The queued elements when n have been popped and m announced.
Window(n, m) == [i \in 1 .. m - n |-> n + i]

\* The abstract queue is a sequence, of the announced elements not yet given back.
LEMMA WindowSeq ==
    ASSUME NEW n \in Nat, NEW m \in Nat, n <= m
    PROVE  /\ Window(n, m) \in Seq(Nat)
           /\ Len(Window(n, m)) = m - n
           /\ Append(Window(n, m), m + 1) = Window(n, m + 1)
<1>1. m - n \in Nat /\ \A i \in 1 .. m - n : n + i \in Nat
  OBVIOUS
<1>2. Window(n, m) \in Seq(Nat) /\ Len(Window(n, m)) = m - n
  BY <1>1 DEF Window
<1>3. Append(Window(n, m), m + 1) = Window(n, m + 1)
  <2> DEFINE a == Append(Window(n, m), m + 1)
             b == Window(n, m + 1)
  <2>1. /\ a \in Seq(Nat) /\ Len(a) = (m - n) + 1
        /\ \A i \in 1 .. m - n : a[i] = n + i
        /\ a[(m - n) + 1] = m + 1
    BY <1>1, <1>2 DEF Window
  <2>2. /\ b \in Seq(Nat) /\ Len(b) = (m - n) + 1
        /\ \A i \in 1 .. (m - n) + 1 : b[i] = n + i
    BY <1>1 DEF Window
  <2> HIDE DEF a, b
  <2>3. \A i \in 1 .. (m - n) + 1 : a[i] = b[i]
    BY <1>1, <2>1, <2>2
  <2>4. a = b
    BY <2>1, <2>2, <2>3
  <2> QED BY <2>4 DEF a, b
<1> QED BY <1>2, <1>3

\* Giving back the oldest element takes the head off the abstract queue.
LEMMA WindowTail ==
    ASSUME NEW n \in Nat, NEW m \in Nat, n < m
    PROVE  /\ Head(Window(n, m)) = n + 1
           /\ Tail(Window(n, m)) = Window(n + 1, m)
<1>1. m - n \in Nat /\ m - n >= 1 /\ m - (n + 1) = (m - n) - 1
  OBVIOUS
<1>2. /\ Window(n, m) \in Seq(Nat) /\ Len(Window(n, m)) = m - n
      /\ \A i \in 1 .. m - n : Window(n, m)[i] = n + i
  BY WindowSeq DEF Window
<1>3. /\ Window(n + 1, m) \in Seq(Nat) /\ Len(Window(n + 1, m)) = (m - n) - 1
      /\ \A i \in 1 .. (m - n) - 1 : Window(n + 1, m)[i] = (n + 1) + i
  BY <1>1, WindowSeq DEF Window
<1>4. Head(Window(n, m)) = n + 1
  BY <1>1, <1>2
<1>5. /\ Tail(Window(n, m)) \in Seq(Nat)
      /\ Len(Tail(Window(n, m))) = (m - n) - 1
      /\ \A i \in 1 .. (m - n) - 1 : Tail(Window(n, m))[i] = n + (i + 1)
  BY <1>1, <1>2
<1>6. \A i \in 1 .. (m - n) - 1 : Tail(Window(n, m))[i] = Window(n + 1, m)[i]
  BY <1>1, <1>3, <1>5
<1>7. Tail(Window(n, m)) = Window(n + 1, m)
  <2> DEFINE a == Tail(Window(n, m))
             b == Window(n + 1, m)
  <2>1. /\ a \in Seq(Nat) /\ b \in Seq(Nat)
        /\ Len(a) = (m - n) - 1 /\ Len(b) = (m - n) - 1
        /\ \A i \in 1 .. (m - n) - 1 : a[i] = b[i]
    BY <1>3, <1>5, <1>6
  <2> HIDE DEF a, b
  <2>2. a = b
    BY <2>1
  <2> QED BY <2>2 DEF a, b
<1> QED BY <1>4, <1>7

\* LFQueue implements FifoSpec: a push is refused only when Size elements are
\* queued, a pop returns nothing only when none is, and elements leave in the
\* order in which they were accepted.
THEOREM Refinement == Spec => ImplementsFifo
<1> DEFINE queued == Window(popped, pushed)
<1>1. Init => Fifo!Init
  <2> SUFFICES ASSUME Init PROVE Fifo!Init
    OBVIOUS
  <2>1. Window(0, 0) = <<>>
    BY DEF Window
  <2> QED BY <2>1 DEF Init, Fifo!Init, Window
<1>2. IInv /\ [Next]_vars => [Fifo!Next]_<<queued, pret, cret>>
  <2> SUFFICES ASSUME IInv, [Next]_vars
               PROVE  [Fifo!Next]_<<queued, pret, cret>>
    OBVIOUS
  <2>1. /\ pushed \in Nat /\ popped \in Nat /\ popped <= pushed
        /\ numElements = pushed - popped /\ numElements \in 0 .. Size
        /\ Size \in Nat
    BY SizeAssumption DEF IInv, TypeOK, SlotsHoldWindow
  <2>2. Len(queued) = numElements
    BY <2>1, WindowSeq
  <2>3. CASE pushRefused
    <3>1. Fifo!Refuse
      BY <2>1, <2>2, <2>3
      DEF pushRefused, consumerVars, Fifo!Refuse, Window
    <3> QED BY <3>1 DEF Fifo!Next
  <2>4. CASE publish
    <3>1. /\ numElements < Size /\ pushed + 1 \in 1 .. MaxPush
          /\ pushed' = pushed + 1 /\ popped' = popped
          /\ pret' = TRUE /\ cret' = cret
      BY <2>1, <2>4, BoundAssumption DEF publish, consumerVars, IInv, InFlight
    <3>2. queued' = Append(queued, pushed + 1)
      BY <2>1, <3>1, WindowSeq
    <3>3. PICK v \in 1 .. MaxPush : v = pushed + 1
      BY <3>1
    <3>4. Fifo!Push(v)
      BY <2>2, <3>1, <3>2, <3>3 DEF Fifo!Push, Window
    <3> QED BY <3>4 DEF Fifo!Next
  <2>5. CASE popEmpty
    <3>1. Fifo!Empty
      BY <2>1, <2>2, <2>5
      DEF popEmpty, producerVars, Fifo!Empty, Window
    <3> QED BY <3>1 DEF Fifo!Next
  <2>6. CASE release
    <3>1. /\ numElements > 0 /\ value = popped + 1
          /\ popped' = popped + 1 /\ pushed' = pushed
          /\ cret' = value /\ pret' = pret
      BY <2>6 DEF release, producerVars, IInv, InFlight
    <3>2. Head(queued) = popped + 1 /\ queued' = Tail(queued)
      BY <2>1, <3>1, WindowTail
    <3>3. Fifo!Pop
      BY <2>2, <3>1, <3>2 DEF Fifo!Pop, Window
    <3> QED BY <3>3 DEF Fifo!Next
  <2>7. CASE \/ getNextToWrite \/ writeSlot \/ advanceWrite
             \/ getNextToRead \/ readSlot \/ checkCount \/ advanceRead
             \/ UNCHANGED vars
    <3>1. UNCHANGED <<pushed, popped, pret, cret>>
      BY <2>7 DEF getNextToWrite, writeSlot, advanceWrite, getNextToRead,
                  readSlot, checkCount, advanceRead, vars, producerVars, consumerVars
    <3>2. UNCHANGED queued
      BY <3>1 DEF Window
    <3> QED BY <3>1, <3>2
  <2> QED BY <2>3, <2>4, <2>5, <2>6, <2>7 DEF Next, Producer, Consumer
<1>3. IInv /\ [Next]_vars =>
        [Fifo!Next]_<<[i \in 1 .. pushed - popped |-> popped + i], pret, cret>>
  BY <1>2 DEF Window
<1> QED BY <1>1, <1>3, InitInv, NextInv, PTL DEF Spec, ImplementsFifo, Fifo!Spec
=============================================================================
