---------------------------- MODULE LoggerProofs ----------------------------
(***************************************************************************)
(* Proofs about Logger, for every number of threads and of calls and every *)
(* size of the queue and of a batch: the count is exact whatever the       *)
(* producers do to each other, and the log is in order if they do nothing. *)
(***************************************************************************)
EXTENDS Logger, FiniteSetTheorems, SequenceTheorems, TLAPS

-----------------------------------------------------------------------------
(* Types *)

\* A call under way has its number.
CallInv == \A t \in Threads : pc[t] # "idle" => call[t] >= 1

\* What the logger's thread knows at each point of its loop.  Only this thread
\* takes elements away, so the one that size has seen is there for pop.
WriterInv ==
    /\ writer \in {"none", "top", "exited"} => buffer = <<>>
    /\ writer \in {"read", "release"} => Len(buffer) < Batch /\ numElements > 0
    /\ Len(elem) = IF writer = "release" THEN 1 ELSE 0
    /\ instance = "none" => writer = "none"

TypeInv == TypeOK /\ CallInv /\ WriterInv

\* Messages and the element that nobody has written.
Msg == 0 .. MaxCalls

\* Joining two pieces of the log.
LEMMA Joins ==
    ASSUME NEW a \in Seq(Msg), NEW b \in Seq(Msg)
    PROVE  /\ a \o b \in Seq(Msg) /\ Len(a \o b) = Len(a) + Len(b)
           /\ Len(a) \in Nat /\ Len(b) \in Nat
           /\ \A k \in 1 .. Len(a) + Len(b) :
                 (a \o b)[k] = IF k <= Len(a) THEN a[k] ELSE b[k - Len(a)]
  OBVIOUS

LEMMA JoinsAssociate ==
    ASSUME NEW a \in Seq(Msg), NEW b \in Seq(Msg), NEW c \in Seq(Msg)
    PROVE  a \o (b \o c) = (a \o b) \o c
  BY ConcatAssociative

\* One message more is announced.
LEMMA Announces ==
    ASSUME NEW S, NEW a \in Seq(S), NEW m \in S
    PROVE  /\ Append(a, m) \in Seq(S) /\ Len(Append(a, m)) = Len(a) + 1 /\ Len(a) \in Nat
           /\ Append(a, m)[Len(a) + 1] = m
           /\ \A k \in 1 .. Len(a) : Append(a, m)[k] = a[k]
  OBVIOUS

LEMMA InitTypeInv == ASSUME Init PROVE TypeInv
<1>1. 0 \in Slot /\ 0 \in 0 .. MaxCalls /\ 0 \in 0 .. MaxSwitches /\ 0 <= Batch
  BY SizesAssumption, BoundsAssumption DEF Slot
<1>2. QueueType /\ FileType /\ LifeType
  BY <1>1 DEF Init, QueueType, FileType, LifeType
<1>3. LogType /\ CallInv
  BY <1>1 DEF Init, LogType, CallInv
<1>4. WriterType /\ WriterInv
  BY <1>1, SizesAssumption DEF Init, WriterType, WriterInv
<1> QED BY <1>2, <1>3, <1>4 DEF TypeInv, TypeOK

\* What a step leaves alone keeps its type.
LEMMA SameType ==
    ASSUME TypeInv
    PROVE  /\ UNCHANGED queueVars => QueueType'
           /\ UNCHANGED logVars => LogType' /\ CallInv'
           /\ UNCHANGED writerVars => WriterType'
           /\ UNCHANGED fileVars => FileType'
           /\ UNCHANGED lifeVars => LifeType'
           /\ UNCHANGED writerVars /\ (numElements' = numElements \/ numElements' > 0)
                 /\ (instance' # "none" \/ UNCHANGED instance) => WriterInv'
<1>1. UNCHANGED queueVars => QueueType'
  BY DEF TypeInv, TypeOK, queueVars, QueueType
<1>2. UNCHANGED logVars => LogType' /\ CallInv'
  BY DEF TypeInv, TypeOK, logVars, LogType, CallInv
<1>3. UNCHANGED writerVars => WriterType'
  BY DEF TypeInv, TypeOK, writerVars, WriterType
<1>4. UNCHANGED fileVars => FileType'
  BY DEF TypeInv, TypeOK, fileVars, FileType
<1>5. UNCHANGED lifeVars => LifeType'
  BY DEF TypeInv, TypeOK, lifeVars, LifeType
<1>6. UNCHANGED writerVars /\ (numElements' = numElements \/ numElements' > 0)
         /\ (instance' # "none" \/ UNCHANGED instance) => WriterInv'
  BY DEF TypeInv, writerVars, WriterInv
<1> QED BY <1>1, <1>2, <1>3, <1>4, <1>5, <1>6

\* The next slot.
LEMMA AdvanceSlot == ASSUME NEW k \in Slot PROVE advance(k) \in Slot
  BY SizesAssumption DEF Slot, advance

\* A call of log begins.
LEMMA logType == ASSUME TypeInv, NEW t \in Threads, log(t) PROVE TypeInv'
<1>1. UNCHANGED <<queueVars, index, accepted, writerVars, fileVars, lifeVars>>
  BY DEF log
<1>2. /\ calls' = calls + 1 /\ calls < MaxCalls
      /\ call' = [call EXCEPT ![t] = calls']
      /\ pc' = [pc EXCEPT ![t] = IF hasRoom THEN "slot" ELSE "idle"]
      /\ overlapped' \in BOOLEAN
  BY DEF log
<1>3. calls' \in 1 .. MaxCalls
  BY <1>2, BoundsAssumption DEF TypeInv, TypeOK, LogType
<1>4. LogType'
  BY <1>1, <1>2, <1>3, BoundsAssumption DEF TypeInv, TypeOK, LogType
<1>5. CallInv'
  <2> SUFFICES ASSUME NEW u \in Threads, pc'[u] # "idle" PROVE call'[u] >= 1
    BY DEF CallInv
  <2>1. CASE u = t
    <3>1. call'[t] = calls'
      BY <1>2 DEF TypeInv, TypeOK, LogType
    <3> QED BY <1>3, <2>1, <3>1, BoundsAssumption
  <2>2. CASE u # t
    BY <1>2, <2>2 DEF TypeInv, TypeOK, LogType, CallInv
  <2> QED BY <2>1, <2>2
<1>6. WriterInv'
  BY <1>1, SameType DEF queueVars, lifeVars
<1> QED BY <1>1, <1>4, <1>5, <1>6, SameType DEF TypeInv, TypeOK

\* The steps of push.
LEMMA CallsType == ASSUME TypeInv, NEW t \in Threads, Calls(t) PROVE TypeInv'
<1>1. UNCHANGED <<calls, overlapped, writerVars, fileVars, lifeVars, call>>
  BY DEF Calls, getNextToWrite, writeSlot, loadIndex, storeIndex, announce, Step
<1>2. /\ pc[t] # "idle"
      /\ \E to \in {"idle", "write", "load", "store", "announce"} : pc' = [pc EXCEPT ![t] = to]
  BY DEF Calls, getNextToWrite, writeSlot, loadIndex, storeIndex, announce, Step
<1>3. /\ pc' \in [Threads -> {"idle", "slot", "write", "load", "store", "announce"}]
      /\ \A u \in Threads : pc'[u] # "idle" => pc[u] # "idle"
  BY <1>2 DEF TypeInv, TypeOK, LogType
<1>4. CallInv'
  BY <1>1, <1>3 DEF TypeInv, CallInv
<1>5. call[t] \in 1 .. MaxCalls /\ call[t] \in 0 .. MaxCalls /\ index[t] \in Slot
      /\ nextIndexToWrite \in Slot
  BY <1>2, BoundsAssumption DEF TypeInv, TypeOK, LogType, QueueType, CallInv
<1>6. QueueType' /\ (numElements' = numElements \/ numElements' > 0)
  BY <1>5, AdvanceSlot DEF Calls, getNextToWrite, writeSlot, loadIndex, storeIndex, announce,
     addOne, queueVars, TypeInv, TypeOK, QueueType
<1>7. index' \in [Threads -> Slot]
  BY <1>5 DEF Calls, getNextToWrite, writeSlot, loadIndex, storeIndex, announce,
     TypeInv, TypeOK, LogType
<1>8. accepted' \in Seq(1 .. MaxCalls)
  <2>1. accepted' = accepted \/ accepted' = Append(accepted, call[t])
    BY DEF Calls, getNextToWrite, writeSlot, loadIndex, storeIndex, announce
  <2>2. accepted \in Seq(1 .. MaxCalls)
    BY DEF TypeInv, TypeOK, LogType
  <2>3. Append(accepted, call[t]) \in Seq(1 .. MaxCalls)
    BY <1>5, <2>2, Announces
  <2> QED BY <2>1, <2>2, <2>3
<1>9. LogType'
  BY <1>1, <1>3, <1>7, <1>8 DEF TypeInv, TypeOK, LogType
<1>10. WriterInv'
  BY <1>1, <1>6, SameType DEF lifeVars
<1> QED BY <1>1, <1>4, <1>6, <1>9, <1>10, SameType DEF TypeInv, TypeOK

\* The steps of the logger's thread but the two that handle an element.
LEMMA roundType ==
    ASSUME TypeInv, loop \/ beginPop \/ endBatch \/ writeToFile
    PROVE  TypeInv'
<1>1. UNCHANGED <<queueVars, logVars, lifeVars, elem>>
  BY DEF loop, beginPop, endBatch, writeToFile, Writer
<1>2. buffer \in Seq(0 .. MaxCalls) /\ written \in Seq(0 .. MaxCalls)
      /\ Len(buffer) <= Batch /\ 0 <= Batch /\ Len(<<>>) = 0
  BY SizesAssumption DEF TypeInv, TypeOK, WriterType, FileType
<1>3. WriterType'
  <2>1. writer' \in {"none", "top", "batch", "read", "release", "file", "exited"}
    BY DEF loop, beginPop, endBatch, writeToFile, Writer
  <2>2. buffer' = buffer \/ buffer' = <<>>
    BY DEF loop, beginPop, endBatch, writeToFile
  <2>3. buffer' \in Seq(0 .. MaxCalls) /\ Len(buffer') <= Batch
    <3>1. CASE buffer' = <<>>
      <4>1. buffer' \in Seq(Msg)
        BY <3>1
      <4> QED BY <1>2, <3>1, <4>1 DEF Msg
    <3> QED BY <1>2, <2>2, <3>1
  <2> QED BY <1>1, <2>1, <2>3 DEF TypeInv, TypeOK, WriterType
<1>4. FileType'
  <2>1. UNCHANGED fileVars \/ writeToFile
    BY DEF loop, beginPop, endBatch
  <2>2. CASE writeToFile
    <3>1. written' = written \/ written' = written \o buffer
      BY <2>2 DEF writeToFile
    <3>2. missed' = missed \/ missed' = TRUE
      BY <2>2 DEF writeToFile
    <3>3. UNCHANGED <<logFile, switching, switches>>
      BY <2>2 DEF writeToFile
    <3>4. written' \in Seq(0 .. MaxCalls)
      BY <1>2, <3>1, Joins DEF Msg
    <3> QED BY <3>2, <3>3, <3>4 DEF TypeInv, TypeOK, FileType
  <2> QED BY <2>1, <2>2, SameType
<1>5. WriterInv'
  <2>1. writer # "none" /\ instance # "none" /\ writer # "release" /\ writer' # "release"
    BY DEF loop, beginPop, endBatch, writeToFile, Writer, TypeInv, WriterInv
  <2>2. writer' \in {"none", "top", "exited"} => buffer' = <<>>
    BY DEF loop, beginPop, endBatch, writeToFile, Writer
  <2>3. writer' \in {"read", "release"} => Len(buffer') < Batch /\ numElements' > 0
    BY DEF loop, beginPop, endBatch, writeToFile, Writer, batchOpen, queueVars
  <2> QED BY <1>1, <2>1, <2>2, <2>3 DEF TypeInv, WriterInv, lifeVars
<1> QED BY <1>1, <1>3, <1>4, <1>5, SameType DEF TypeInv, TypeOK

\* pop copies the element.
LEMMA readSlotType == ASSUME TypeInv, readSlot PROVE TypeInv'
<1>1. /\ UNCHANGED <<queue, nextIndexToWrite, numElements, buffer, fileVars, logVars, lifeVars>>
      /\ writer = "read" /\ writer' = "release"
      /\ elem' = <<queue[nextIndexToRead]>>
      /\ nextIndexToRead' = advance(nextIndexToRead)
  BY DEF readSlot, Writer, advance
<1>2. nextIndexToRead \in Slot /\ queue[nextIndexToRead] \in 0 .. MaxCalls
  BY DEF TypeInv, TypeOK, QueueType
<1>3. QueueType'
  BY <1>1, <1>2, AdvanceSlot DEF TypeInv, TypeOK, QueueType
<1>4. elem' \in Seq(0 .. MaxCalls) /\ Len(elem') = 1
  BY <1>1, <1>2
<1>5. WriterType' /\ WriterInv'
  BY <1>1, <1>4 DEF TypeInv, TypeOK, WriterType, WriterInv, lifeVars
<1> QED BY <1>1, <1>3, <1>5, SameType DEF TypeInv, TypeOK

\* What release does: its assertion holds.
LEMMA releaseData ==
    ASSUME TypeInv, release
    PROVE  /\ writer = "release" /\ writer' = "batch" /\ numElements > 0
           /\ numElements' = numElements - 1 /\ buffer' = buffer \o elem /\ elem' = <<>>
           /\ UNCHANGED <<queue, nextIndexToRead, nextIndexToWrite, fileVars, logVars, lifeVars>>
           /\ buffer' \in Seq(0 .. MaxCalls) /\ Len(elem) = 1
           /\ Len(buffer') = Len(buffer) + 1 /\ Len(buffer) < Batch
<1>1. writer = "release"
  BY DEF release, Writer
<1>2. numElements > 0 /\ Len(buffer) < Batch /\ Len(elem) = 1
  BY <1>1 DEF TypeInv, WriterInv
<1>3. buffer \in Seq(0 .. MaxCalls) /\ elem \in Seq(0 .. MaxCalls)
  BY DEF TypeInv, TypeOK, WriterType
<1>4. buffer' = buffer \o elem
  BY <1>2 DEF release, appendToBuffer
<1>5. buffer' \in Seq(0 .. MaxCalls) /\ Len(buffer') = Len(buffer) + 1
  BY <1>2, <1>3, <1>4, Joins DEF Msg
<1> QED BY <1>1, <1>2, <1>4, <1>5 DEF release, Writer

LEMMA releaseType == ASSUME TypeInv, release PROVE TypeInv'
<1>1. numElements \in Nat /\ numElements - 1 \in Nat
  BY releaseData DEF TypeInv, TypeOK, QueueType
<1>2. QueueType'
  BY <1>1, releaseData DEF TypeInv, TypeOK, QueueType
<1>3. Len(buffer) \in Nat /\ Len(buffer) + 1 <= Batch /\ Len(<<>>) = 0
  BY releaseData, SizesAssumption DEF TypeInv, TypeOK, WriterType
<1>4. WriterType'
  BY <1>3, releaseData DEF WriterType
<1>5. WriterInv'
  BY <1>3, releaseData DEF TypeInv, WriterInv, lifeVars
<1> QED BY <1>2, <1>4, <1>5, releaseData, SameType DEF TypeInv, TypeOK

\* The file, the process and its end.
LEMMA lifeType ==
    ASSUME TypeInv, \/ getInstance \/ setLogFile \/ race \/ interrupt \/ shutdown
                    \/ \E t \in Threads : useAfterFree(t)
    PROVE  TypeInv'
<1>1. UNCHANGED <<queueVars, logVars, buffer, elem, written, missed>>
  BY DEF getInstance, setLogFile, closeFile, openFile, race, interrupt, shutdown, exitProcess,
     destroyLogger, useAfterFree, writerVars, fileVars
<1>2. LifeType'
  BY DEF getInstance, setLogFile, closeFile, openFile, race, interrupt, shutdown, exitProcess,
     destroyLogger, useAfterFree, clearRunning, lifeVars, TypeInv, TypeOK, LifeType
<1>3. FileType'
  <2>1. /\ logFile' \in {"closed", "open"}
        /\ switching' \in BOOLEAN
    BY DEF getInstance, constructLogger, setLogFile, closeFile, openFile, race, interrupt, shutdown,
       exitProcess, destroyLogger, useAfterFree, fileVars, TypeInv, TypeOK, FileType
  <2>2. switches' = switches \/ (switches < MaxSwitches /\ switches' = switches + 1)
    BY DEF getInstance, setLogFile, closeFile, CanClose, openFile, race, interrupt, shutdown,
       exitProcess, destroyLogger, useAfterFree, fileVars
  <2>3. switches' \in 0 .. MaxSwitches
    BY <2>2, BoundsAssumption DEF TypeInv, TypeOK, FileType
  <2> QED BY <1>1, <2>1, <2>3 DEF TypeInv, TypeOK, FileType
<1>4. WriterType' /\ WriterInv'
  <2>1. \/ UNCHANGED writer /\ (instance' # "none" \/ UNCHANGED instance)
        \/ instance = "none" /\ instance' = "alive" /\ writer' = "top"
    BY DEF getInstance, constructLogger, setLogFile, closeFile, openFile, race, interrupt, shutdown,
       exitProcess, destroyLogger, useAfterFree, writerVars, lifeVars
  <2> QED BY <1>1, <2>1 DEF TypeInv, TypeOK, WriterType, WriterInv, queueVars
<1> QED BY <1>1, <1>2, <1>3, <1>4, SameType DEF TypeInv, TypeOK

LEMMA NextTypeInv == ASSUME TypeInv, [Next]_vars PROVE TypeInv'
<1>1. CASE UNCHANGED vars
  BY <1>1, SameType DEF vars, queueVars, lifeVars, TypeInv, TypeOK
<1> QED BY <1>1, logType, CallsType, roundType, readSlotType, releaseType, lifeType
        DEF Next, flushQueue

\* The types, with what they need to be inductive.
THEOREM TypeInvariance == Spec => []TypeInv
<1>1. Init => TypeInv
  BY InitTypeInv
<1>2. TypeInv /\ [Next]_vars => TypeInv'
  BY NextTypeInv
<1> QED BY <1>1, <1>2, PTL DEF Spec

\* Every variable of the logger keeps its type: whatever the producers do to
\* each other, the indices stay inside the array of the queue, the buffer does
\* not outgrow a batch, and the count does not go below zero.
THEOREM TypeCorrect == Spec => []TypeOK
<1>1. TypeInv => TypeOK
  BY DEF TypeInv
<1> QED BY <1>1, TypeInvariance, PTL

-----------------------------------------------------------------------------
(* The count *)

\* The threads that are in log.
Active == {t \in Threads : pc[t] # "idle"}

\* What is announced is in the queue or was popped.
Exact == ~missed => numElements = Len(accepted) - (Len(written) + Len(buffer))

RoomInv == numElements + Cardinality(Active) <= Size + Cardinality(Threads) - 1

CountInv == Exact /\ RoomInv

\* The sizes that are counted.
LEMMA Sizes ==
    ASSUME TypeInv
    PROVE  /\ numElements \in Nat /\ Len(accepted) \in Nat /\ Len(written) \in Nat
           /\ Len(buffer) \in Nat /\ Len(written \o buffer) = Len(written) + Len(buffer)
           /\ IsFiniteSet(Active) /\ Cardinality(Active) \in Nat
           /\ IsFiniteSet(Active') /\ Cardinality(Active') \in Nat
           /\ Cardinality(Threads) \in Nat /\ Cardinality(Threads) >= 1
           /\ Cardinality(Active) <= Cardinality(Threads)
           /\ Cardinality(Active') <= Cardinality(Threads)
<1>1. numElements \in Nat /\ Len(accepted) \in Nat
  BY DEF TypeInv, TypeOK, QueueType, LogType
<1>2. written \in Seq(Msg) /\ buffer \in Seq(Msg)
  BY DEF TypeInv, TypeOK, WriterType, FileType, Msg
<1>3. Active \subseteq Threads /\ Active' \subseteq Threads
  BY DEF Active
<1>4. /\ IsFiniteSet(Active) /\ Cardinality(Active) <= Cardinality(Threads)
      /\ IsFiniteSet(Active') /\ Cardinality(Active') <= Cardinality(Threads)
  BY <1>3, ThreadsAssumption, FS_Subset
<1>5. Cardinality(Active) \in Nat /\ Cardinality(Active') \in Nat /\ Cardinality(Threads) \in Nat
  BY <1>4, ThreadsAssumption, FS_CardinalityType
<1>6. Cardinality(Threads) # 0
  BY ThreadsAssumption, FS_EmptySet
<1> QED BY <1>1, <1>2, <1>4, <1>5, <1>6, Joins

\* A step that neither announces nor pops.
LEMMA SameCount ==
    ASSUME TypeInv, CountInv, UNCHANGED <<numElements, pc, accepted, written, buffer, missed>>
    PROVE  CountInv'
  BY DEF CountInv, Exact, RoomInv, Active

\* A call that finds room is one of at most as many as there are threads.
LEMMA logCount == ASSUME TypeInv, CountInv, NEW t \in Threads, log(t) PROVE CountInv'
<1>1. UNCHANGED <<numElements, accepted, written, buffer, missed>>
  BY DEF log, queueVars, writerVars, fileVars
<1>2. CASE numElements < Size
  <2>1. RoomInv'
    BY <1>1, <1>2, Sizes, SizesAssumption DEF RoomInv
  <2> QED BY <1>1, <2>1 DEF CountInv, Exact
<1>3. CASE ~(numElements < Size)
  <2>1. pc' = pc
    BY <1>3 DEF log, hasRoom, TypeInv, TypeOK, LogType
  <2> QED BY <1>1, <2>1, SameCount
<1> QED BY <1>2, <1>3

\* The steps of push: a call that ends leaves its element.
LEMMA CallsCount == ASSUME TypeInv, CountInv, NEW t \in Threads, Calls(t) PROVE CountInv'
<1>1. UNCHANGED <<written, buffer, missed>>
  BY DEF Calls, getNextToWrite, writeSlot, loadIndex, storeIndex, announce, Step, writerVars, fileVars
<1>2. CASE getNextToWrite(t) \/ writeSlot(t) \/ loadIndex(t) \/ storeIndex(t)
  <2>1. UNCHANGED <<numElements, accepted>>
    BY <1>2 DEF getNextToWrite, writeSlot, loadIndex, storeIndex, queueVars
  <2>2. \A u \in Threads : pc'[u] # "idle" <=> pc[u] # "idle"
    BY <1>2 DEF getNextToWrite, writeSlot, loadIndex, storeIndex, Step, TypeInv, TypeOK, LogType
  <2>3. Active' = Active
    BY <2>2 DEF Active
  <2> QED BY <1>1, <2>1, <2>3 DEF CountInv, Exact, RoomInv
<1>3. CASE announce(t)
  <2>1. /\ numElements' = numElements + 1 /\ accepted' = Append(accepted, call[t])
        /\ pc[t] = "announce" /\ pc' = [pc EXCEPT ![t] = "idle"]
    BY <1>3 DEF announce, addOne, Step
  <2>2. Active' = Active \ {t} /\ t \in Active
    BY <2>1 DEF Active, TypeInv, TypeOK, LogType
  <2>3. Cardinality(Active') = Cardinality(Active) - 1
    BY <2>2, Sizes, FS_RemoveElement
  <2>4. Len(accepted') = Len(accepted) + 1
    BY <2>1 DEF TypeInv, TypeOK, LogType
  <2>5. RoomInv'
    BY <2>1, <2>3, Sizes, SizesAssumption DEF CountInv, RoomInv
  <2>6. Exact'
    BY <1>1, <2>1, <2>4, Sizes DEF CountInv, Exact
  <2> QED BY <2>5, <2>6 DEF CountInv
<1> QED BY <1>2, <1>3 DEF Calls

\* A popped element is in the batch.
LEMMA releaseCount == ASSUME TypeInv, CountInv, release PROVE CountInv'
<1>1. /\ numElements' = numElements - 1 /\ Len(buffer') = Len(buffer) + 1
      /\ UNCHANGED <<pc, accepted, written, missed>>
  BY releaseData DEF fileVars, logVars
<1>2. Active' = Active
  BY <1>1 DEF Active
<1>3. RoomInv'
  BY <1>1, <1>2, Sizes, SizesAssumption DEF CountInv, RoomInv
<1>4. Exact'
  BY <1>1, Sizes DEF CountInv, Exact
<1> QED BY <1>3, <1>4 DEF CountInv

\* The rest of the writer's loop: the batch that is thrown away at its top is
\* empty.
LEMMA roundCount ==
    ASSUME TypeInv, CountInv, loop \/ beginPop \/ readSlot \/ endBatch \/ writeToFile
    PROVE  CountInv'
<1>1. UNCHANGED <<numElements, pc, accepted>>
  BY DEF loop, beginPop, readSlot, endBatch, writeToFile, Writer, queueVars, logVars
<1>2. CASE loop \/ beginPop \/ readSlot \/ endBatch
  <2>1. UNCHANGED <<written, missed>> /\ buffer' = buffer
    BY <1>2 DEF loop, beginPop, readSlot, endBatch, Writer, fileVars, TypeInv, WriterInv
  <2> QED BY <1>1, <2>1, SameCount
<1>3. CASE writeToFile
  <2>1. \/ written' = written \o buffer /\ missed' = missed
        \/ missed' = TRUE
    BY <1>3 DEF writeToFile
  <2>2. Len(buffer') = 0
    BY <1>3 DEF writeToFile
  <2>3. Exact'
    BY <1>1, <2>1, <2>2, Sizes DEF CountInv, Exact
  <2> QED BY <1>1, <2>3 DEF CountInv, RoomInv, Active
<1> QED BY <1>2, <1>3

LEMMA NextCount == ASSUME TypeInv, CountInv, [Next]_vars PROVE CountInv'
<1>1. CASE \/ UNCHANGED vars \/ getInstance \/ setLogFile \/ race \/ interrupt \/ shutdown
           \/ \E t \in Threads : useAfterFree(t)
  <2>1. UNCHANGED <<numElements, pc, accepted, written, buffer, missed>>
    BY <1>1 DEF vars, getInstance, setLogFile, closeFile, openFile, race, interrupt, shutdown,
       exitProcess, destroyLogger, useAfterFree, queueVars, logVars, writerVars, fileVars
  <2> QED BY <2>1, SameCount
<1> QED BY <1>1, logCount, CallsCount, releaseCount, roundCount DEF Next, flushQueue

\* The count, with what it needs to be inductive.
THEOREM CountInvariance == Spec => []CountInv
<1>1. Init => CountInv
  <2> SUFFICES ASSUME Init PROVE CountInv
    OBVIOUS
  <2>1. Active = {} /\ numElements = 0 /\ Len(accepted) = 0 /\ Len(written) = 0
        /\ Len(buffer) = 0
    BY DEF Init, Active
  <2>2. Cardinality(Active) = 0
    BY <2>1, FS_EmptySet
  <2>3. Cardinality(Threads) \in Nat /\ Cardinality(Threads) >= 1
    BY InitTypeInv, Sizes
  <2> QED BY <2>1, <2>2, <2>3, SizesAssumption DEF CountInv, Exact, RoomInv
<1>2. TypeInv /\ CountInv /\ [Next]_vars => CountInv'
  BY NextCount
<1> QED BY <1>1, <1>2, TypeInvariance, PTL DEF Spec

\* push's fetch_add and pop's fetch_sub keep the count exact although several
\* threads push at once into a queue for one: pop's assertion never fails, and
\* check and increment being apart lets the queue hold at most one element per
\* other thread in log more than it has slots.
THEOREM CountIsRight == Spec => []CountRight
<1>1. TypeInv /\ CountInv => CountRight
  <2> SUFFICES ASSUME TypeInv, CountInv PROVE CountRight
    OBVIOUS
  <2>1. ~missed => numElements = Len(accepted) - Len(written \o buffer)
    BY Sizes DEF CountInv, Exact
  <2>2. writer = "release" => numElements > 0
    BY DEF TypeInv, WriterInv
  <2>3. numElements + Cardinality({t \in Threads : pc[t] # "idle"})
           <= Size + Cardinality(Threads) - 1
    BY DEF CountInv, RoomInv, Active
  <2> QED BY <2>1, <2>2, <2>3 DEF CountRight
<1> QED BY <1>1, TypeInvariance, CountInvariance, PTL

-----------------------------------------------------------------------------
(* Arithmetic of the ring *)

\* A position modulo Size is a slot.
LEMMA SlotInRange ==
    ASSUME NEW k \in Nat
    PROVE  k % Size \in Slot
BY SizesAssumption DEF Slot

\* advance steps from the slot of one position to that of the next.
LEMMA SlotSucc ==
    ASSUME NEW k \in Nat
    PROVE  advance(k % Size) = (k + 1) % Size
<1> DEFINE r == k % Size
           d == k \div Size
<1>1. r \in 0 .. Size - 1 /\ d \in Nat /\ k = Size * d + r
  BY SizesAssumption
<1> HIDE DEF r, d
<1>2. CASE r + 1 < Size
  <2>1. k + 1 = Size * d + (r + 1)
    BY <1>1, SizesAssumption
  <2>2. (k + 1) % Size = r + 1
    BY <1>1, <1>2, <2>1, SizesAssumption
  <2>3. (r + 1) % Size = r + 1
    BY <1>1, <1>2, SizesAssumption
  <2> QED BY <2>2, <2>3 DEF advance, r
<1>3. CASE r + 1 = Size
  <2>1. k + 1 = Size * (d + 1)
    BY <1>1, <1>3, SizesAssumption
  <2>2. (k + 1) % Size = 0
    BY <1>1, <2>1, SizesAssumption
  <2>3. (r + 1) % Size = 0
    BY <1>3, SizesAssumption
  <2> QED BY <2>2, <2>3 DEF advance, r
<1> QED BY <1>1, <1>2, <1>3, SizesAssumption

\* Steps from a slot are steps from its position.
LEMMA SlotShift ==
    ASSUME NEW j \in Nat, NEW k \in Nat
    PROVE  ((j % Size) + k) % Size = (j + k) % Size
<1> DEFINE r == j % Size
           d == j \div Size
           q == (r + k) \div Size
           m == (r + k) % Size
<1>1. r \in Nat /\ d \in Nat /\ j = Size * d + r
  BY SizesAssumption
<1> HIDE DEF r, d
<1>2. m \in 0 .. Size - 1 /\ q \in Nat /\ r + k = Size * q + m
  BY <1>1, SizesAssumption
<1> HIDE DEF q, m
<1>3. PICK x \in Nat : x = j + k
  OBVIOUS
<1>4. PICK c \in Nat : c = d + q
  BY <1>1, <1>2
<1>5. x = Size * c + m
  BY <1>1, <1>2, <1>3, <1>4, SizesAssumption
<1>6. x % Size = m
  BY ONLY <1>2, <1>5, SizesAssumption, x \in Nat, c \in Nat
<1> QED BY <1>3, <1>6 DEF r, m

\* Fewer than Size consecutive elements are in different slots.
LEMMA SlotsDiffer ==
    ASSUME NEW j \in Nat, NEW k \in Nat, j < k, k < j + Size
    PROVE  j % Size # k % Size
<1> DEFINE dj == j \div Size
           dk == k \div Size
<1> SUFFICES ASSUME j % Size = k % Size PROVE FALSE
  OBVIOUS
<1>1. dj \in Nat /\ dk \in Nat /\ j = Size * dj + (j % Size) /\ k = Size * dk + (k % Size)
      /\ j % Size \in Nat
  BY SizesAssumption
<1> HIDE DEF dj, dk
<1>2. k - j = Size * (dk - dj)
  BY <1>1, SizesAssumption
<1>3. CASE dk - dj <= 0
  <2>1. Size * (dk - dj) <= 0
    BY <1>1, <1>3, SizesAssumption
  <2> QED BY <1>2, <2>1
<1>4. CASE dk - dj >= 1
  <2>1. Size * (dk - dj) >= Size
    BY <1>1, <1>4, SizesAssumption
  <2> QED BY <1>2, <2>1, SizesAssumption
<1> QED BY <1>1, <1>3, <1>4


-----------------------------------------------------------------------------
(* The order of the log *)

\* How many messages were announced, and how many of them popped.
Pushed == Len(accepted)
Popped == Len(accepted) - numElements

\* The read index belongs to one thread, so it is right in any case.
ReadInv ==
    /\ Popped \in Nat /\ nextIndexToRead = (Popped + Len(elem)) % Size

\* While calls do not overlap, one thread at most is in push, and what it knows
\* at each point of it is what the only producer of an LFQueue knows.
PushInv ==
    /\ \A t, u \in Threads : pc[t] # "idle" /\ pc[u] # "idle" => t = u
    /\ (\A t \in Threads : pc[t] # "announce") => nextIndexToWrite = Pushed % Size
    /\ \A t \in Threads :
          /\ pc[t] # "idle" => numElements < Size
          /\ pc[t] \in {"write", "load", "store"} => index[t] = Pushed % Size
          /\ pc[t] \in {"load", "store", "announce"} => queue[Pushed % Size] = call[t]
          /\ pc[t] = "announce" => nextIndexToWrite = (Pushed + 1) % Size

\* The slots hold the messages not popped, and pop has copied the first one.
HoldInv ==
    /\ \A k \in Popped + 1 .. Pushed : queue[(k - 1) % Size] = accepted[k]
    /\ Len(elem) = 1 => elem[1] = accepted[Popped + 1]

\* The files and the batch hold those popped.
WrittenInv ==
    ~missed => \A k \in 1 .. Popped : (written \o buffer)[k] = accepted[k]

LogInv == ReadInv /\ (~overlapped => PushInv /\ HoldInv /\ WrittenInv)

\* A step that does not touch what is logged.
LEMMA SameLog ==
    ASSUME LogInv, UNCHANGED <<queueVars, pc, call, index, accepted, overlapped, elem, missed>>,
           UNCHANGED <<written, buffer>>
    PROVE  LogInv'
  BY DEF LogInv, ReadInv, PushInv, HoldInv, WrittenInv, Pushed, Popped, queueVars

\* The numbers of the proofs.
LEMMA Positions ==
    ASSUME TypeInv, LogInv
    PROVE  /\ Pushed \in Nat /\ Popped \in Nat /\ numElements \in Nat
           /\ Popped + numElements = Pushed /\ Size \in Nat \ {0}
           /\ Pushed % Size \in Slot /\ Popped % Size \in Slot
<1>1. Len(accepted) \in Nat /\ numElements \in Nat
  BY DEF TypeInv, TypeOK, LogType, QueueType
<1>2. Pushed \in Nat /\ Popped \in Nat /\ Popped + numElements = Pushed
  BY <1>1 DEF LogInv, ReadInv, Pushed, Popped
<1> QED BY <1>1, <1>2, SlotInRange, SizesAssumption

LEMMA logLog == ASSUME TypeInv, LogInv, NEW t \in Threads, log(t) PROVE LogInv'
<1>1. /\ UNCHANGED <<queue, nextIndexToRead, nextIndexToWrite, numElements, index, accepted,
                     elem, buffer, written, missed>>
      /\ pc[t] = "idle" /\ call' = [call EXCEPT ![t] = calls']
      /\ pc' = [pc EXCEPT ![t] = IF hasRoom THEN "slot" ELSE "idle"]
  BY DEF log, queueVars, writerVars, fileVars
<1>2. ReadInv'
  BY <1>1 DEF LogInv, ReadInv, Popped
<1>3. ASSUME ~overlapped' PROVE PushInv' /\ HoldInv' /\ WrittenInv'
  <2>1. ~overlapped /\ (hasRoom => \A u \in Threads : pc[u] = "idle")
    BY <1>3 DEF log
  <2>2. HoldInv' /\ WrittenInv'
    BY <1>1, <2>1 DEF LogInv, HoldInv, WrittenInv, Pushed, Popped
  <2>3. \A u \in Threads \ {t} : pc'[u] = pc[u] /\ call'[u] = call[u]
    BY <1>1 DEF TypeInv, TypeOK, LogType
  <2>4. pc'[t] = IF hasRoom THEN "slot" ELSE "idle"
    BY <1>1 DEF TypeInv, TypeOK, LogType
  <2>5. PushInv
    BY <2>1 DEF LogInv
  <2>6. Pushed' = Pushed
    BY <1>1 DEF Pushed
  <2>7. PushInv'
    BY <1>1, <2>1, <2>3, <2>4, <2>5, <2>6 DEF PushInv, hasRoom
  <2> QED BY <2>2, <2>7
<1> QED BY <1>2, <1>3 DEF LogInv

\* The steps of push before the announcement.
LEMMA pushLog ==
    ASSUME TypeInv, LogInv, NEW t \in Threads,
           getNextToWrite(t) \/ writeSlot(t) \/ loadIndex(t) \/ storeIndex(t)
    PROVE  LogInv'
<1>1. UNCHANGED <<nextIndexToRead, numElements, call, accepted, overlapped, elem, buffer, written,
                  missed>>
  BY DEF getNextToWrite, writeSlot, loadIndex, storeIndex, Step, queueVars, writerVars, fileVars
<1>2. Pushed' = Pushed /\ Popped' = Popped
  BY <1>1 DEF Pushed, Popped
<1>3. ReadInv'
  BY <1>1, <1>2 DEF LogInv, ReadInv
<1>4. ASSUME ~overlapped' PROVE PushInv' /\ HoldInv' /\ WrittenInv'
  <2>1. PushInv /\ HoldInv /\ WrittenInv
    BY <1>1, <1>4 DEF LogInv
  <2>2. WrittenInv'
    BY <1>1, <1>2, <2>1 DEF WrittenInv
  <2>3. pc[t] # "idle" /\ \A u \in Threads \ {t} : pc[u] = "idle"
    BY <2>1 DEF PushInv, getNextToWrite, writeSlot, loadIndex, storeIndex, Step
  <2>4. \A u \in Threads \ {t} : pc'[u] = "idle"
    BY <2>3 DEF getNextToWrite, writeSlot, loadIndex, storeIndex, Step, TypeInv, TypeOK, LogType
  <2>5. pc[t] # "announce" => nextIndexToWrite = Pushed % Size
    BY <2>1, <2>3 DEF PushInv
  <2>6. numElements < Size
    BY <2>1, <2>3 DEF PushInv
  <2>7. CASE getNextToWrite(t) \/ loadIndex(t)
    <3>1. /\ UNCHANGED <<queue, nextIndexToWrite>>
          /\ pc[t] \in {"slot", "load"} /\ index'[t] = nextIndexToWrite
          /\ pc'[t] = IF pc[t] = "slot" THEN "write" ELSE "store"
      BY <2>7 DEF getNextToWrite, loadIndex, Step, queueVars, TypeInv, TypeOK, LogType
    <3>2. HoldInv'
      BY <1>1, <1>2, <2>1, <3>1 DEF HoldInv
    <3>3. PushInv'
      BY <1>1, <1>2, <2>1, <2>4, <2>5, <2>6, <3>1 DEF PushInv
    <3> QED BY <2>2, <3>2, <3>3
  <2>8. CASE writeSlot(t)
    <3>1. /\ UNCHANGED <<nextIndexToWrite, index>> /\ pc[t] = "write" /\ pc'[t] = "load"
          /\ queue' = [queue EXCEPT ![index[t]] = call[t]]
      BY <2>8 DEF writeSlot, Step, TypeInv, TypeOK, LogType
    <3>2. index[t] = Pushed % Size /\ index[t] \in Slot
      BY <2>1, <3>1 DEF PushInv, TypeInv, TypeOK, LogType
    <3>3. queue'[Pushed % Size] = call[t]
      BY <3>1, <3>2 DEF TypeInv, TypeOK, QueueType
    <3>4. PushInv'
      BY <1>1, <1>2, <2>1, <2>4, <2>5, <2>6, <3>1, <3>2, <3>3 DEF PushInv
    <3>5. ASSUME NEW k \in Popped + 1 .. Pushed PROVE queue'[(k - 1) % Size] = accepted[k]
      <4>1. k - 1 \in Nat /\ k - 1 < Pushed /\ Pushed < (k - 1) + Size
        BY <2>6, Positions
      <4>2. (k - 1) % Size # Pushed % Size /\ (k - 1) % Size \in Slot
        BY <4>1, Positions, SlotsDiffer, SlotInRange
      <4>3. queue[(k - 1) % Size] = accepted[k]
        BY <2>1 DEF HoldInv
      <4> QED BY <3>1, <3>2, <4>2, <4>3 DEF TypeInv, TypeOK, QueueType
    <3>6. HoldInv'
      BY <1>1, <1>2, <2>1, <3>5 DEF HoldInv
    <3> QED BY <2>2, <3>4, <3>6
  <2>9. CASE storeIndex(t)
    <3>1. /\ UNCHANGED <<queue, index>> /\ pc[t] = "store" /\ pc'[t] = "announce"
          /\ nextIndexToWrite' = advance(index[t])
      BY <2>9 DEF storeIndex, Step, TypeInv, TypeOK, LogType
    <3>2. index[t] = Pushed % Size
      BY <2>1, <3>1 DEF PushInv
    <3>3. nextIndexToWrite' = (Pushed + 1) % Size
      BY <3>1, <3>2, Positions, SlotSucc
    <3>4. HoldInv'
      BY <1>1, <1>2, <2>1, <3>1 DEF HoldInv
    <3>5. PushInv'
      BY <1>1, <1>2, <2>1, <2>4, <2>6, <3>1, <3>3 DEF PushInv
    <3> QED BY <2>2, <3>4, <3>5
  <2> QED BY <2>7, <2>8, <2>9
<1> QED BY <1>3, <1>4 DEF LogInv

\* The announcement.
LEMMA announceLog == ASSUME TypeInv, LogInv, NEW t \in Threads, announce(t) PROVE LogInv'
<1>1. /\ UNCHANGED <<queue, nextIndexToRead, nextIndexToWrite, call, index, overlapped, elem,
                     buffer, written, missed>>
      /\ numElements' = numElements + 1 /\ accepted' = Append(accepted, call[t])
      /\ pc[t] = "announce" /\ pc' = [pc EXCEPT ![t] = "idle"]
  BY DEF announce, addOne, Step, writerVars, fileVars
<1>2. accepted \in Seq(1 .. MaxCalls) /\ call[t] \in 1 .. MaxCalls
  BY <1>1, BoundsAssumption DEF TypeInv, TypeOK, LogType, CallInv
<1>3. /\ Len(accepted') = Len(accepted) + 1 /\ accepted'[Len(accepted) + 1] = call[t]
      /\ \A k \in 1 .. Len(accepted) : accepted'[k] = accepted[k]
  BY <1>1, <1>2, Announces
<1>4. /\ Pushed' = Pushed + 1 /\ Popped' = Popped
      /\ accepted'[Pushed + 1] = call[t] /\ \A k \in 1 .. Pushed : accepted'[k] = accepted[k]
  <2>1. Len(accepted) \in Nat /\ numElements \in Nat
    BY Positions DEF Pushed
  <2> QED BY <1>1, <1>3, <2>1 DEF Pushed, Popped
<1>5. ReadInv'
  BY <1>1, <1>4 DEF LogInv, ReadInv
<1>6. ASSUME ~overlapped' PROVE PushInv' /\ HoldInv' /\ WrittenInv'
  <2>1. PushInv /\ HoldInv /\ WrittenInv
    BY <1>1, <1>6 DEF LogInv
  <2>2. \A u \in Threads : pc'[u] = "idle"
    BY <1>1, <2>1 DEF PushInv, TypeInv, TypeOK, LogType
  <2>3. nextIndexToWrite' = Pushed' % Size
    BY <1>1, <1>4, <2>1 DEF PushInv
  <2>4. PushInv'
    BY <2>2, <2>3 DEF PushInv
  <2>5. \A k \in 1 .. Popped : k \in 1 .. Pushed
    BY Positions
  <2>6. WrittenInv'
    BY <1>1, <1>4, <2>1, <2>5 DEF WrittenInv
  <2>7. ASSUME NEW k \in Popped + 1 .. Pushed + 1 PROVE queue[(k - 1) % Size] = accepted'[k]
    <3>1. CASE k = Pushed + 1
      <4>1. k - 1 = Pushed
        BY <3>1, Positions
      <4> QED BY <1>1, <1>4, <2>1, <3>1, <4>1 DEF PushInv
    <3>2. CASE k # Pushed + 1
      <4>1. k \in 1 .. Pushed /\ k \in Popped + 1 .. Pushed
        BY <3>2, Positions
      <4> QED BY <1>4, <2>1, <4>1 DEF HoldInv
    <3> QED BY <3>1, <3>2
  <2>8. Len(elem) = 1 => Popped + 1 \in 1 .. Pushed
    <3>1. Len(elem) = 1 => numElements > 0
      BY DEF TypeInv, WriterInv
    <3> QED BY <3>1, Positions
  <2>9. HoldInv'
    BY <1>1, <1>4, <2>1, <2>7, <2>8 DEF HoldInv
  <2> QED BY <2>4, <2>6, <2>9
<1> QED BY <1>5, <1>6 DEF LogInv

\* pop copies the oldest element.
LEMMA readSlotLog == ASSUME TypeInv, LogInv, readSlot PROVE LogInv'
<1>1. /\ UNCHANGED <<queue, nextIndexToWrite, numElements, buffer, written, missed, pc, call, index,
                     accepted, overlapped>>
      /\ writer = "read" /\ elem' = <<queue[nextIndexToRead]>>
      /\ nextIndexToRead' = advance(nextIndexToRead)
  BY DEF readSlot, Writer, advance, fileVars, logVars
<1>2. Len(elem) = 0 /\ numElements > 0 /\ Len(elem') = 1 /\ elem'[1] = queue[nextIndexToRead]
  BY <1>1 DEF TypeInv, WriterInv
<1>3. Pushed' = Pushed /\ Popped' = Popped
  BY <1>1 DEF Pushed, Popped
<1>4. nextIndexToRead = Popped % Size
  <2>1. Popped + 0 = Popped
    BY Positions
  <2> QED BY <1>2, <2>1 DEF LogInv, ReadInv
<1>5. nextIndexToRead' = (Popped + 1) % Size
  BY <1>1, <1>4, Positions, SlotSucc
<1>6. ReadInv'
  BY <1>2, <1>3, <1>5, Positions DEF ReadInv
<1>7. ASSUME ~overlapped' PROVE PushInv' /\ HoldInv' /\ WrittenInv'
  <2>1. PushInv /\ HoldInv /\ WrittenInv
    BY <1>1, <1>7 DEF LogInv
  <2>2. PushInv' /\ WrittenInv'
    BY <1>1, <1>3, <2>1 DEF PushInv, WrittenInv
  <2>3. Popped + 1 \in Popped + 1 .. Pushed /\ (Popped + 1) - 1 = Popped
    BY <1>2, Positions
  <2>4. elem'[1] = accepted[Popped + 1]
    BY <1>2, <1>4, <2>1, <2>3 DEF HoldInv
  <2> QED BY <1>1, <1>3, <2>1, <2>2, <2>4 DEF HoldInv
<1> QED BY <1>6, <1>7 DEF LogInv

\* The element joins the batch.
LEMMA releaseLog == ASSUME TypeInv, CountInv, LogInv, release PROVE LogInv'
<1>1. /\ UNCHANGED <<queue, nextIndexToRead, nextIndexToWrite, written, missed, pc, call, index,
                     accepted, overlapped>>
      /\ numElements' = numElements - 1 /\ numElements > 0
      /\ buffer' = buffer \o elem /\ elem' = <<>> /\ Len(elem) = 1 /\ Len(elem') = 0
  BY releaseData DEF fileVars, logVars
<1>2. Pushed' = Pushed /\ Popped' = Popped + 1 /\ Popped + 1 \in Nat /\ (Popped + 1) + 0 = Popped + 1
  <2>1. Len(accepted) \in Nat /\ numElements \in Nat
    BY Positions DEF Pushed
  <2>2. Pushed' = Pushed /\ Popped' = Popped + 1
    BY <1>1, <2>1 DEF Pushed, Popped
  <2> QED BY <2>2, Positions
<1>3. ReadInv'
  BY <1>1, <1>2 DEF LogInv, ReadInv
<1>4. ASSUME ~overlapped' PROVE PushInv' /\ HoldInv' /\ WrittenInv'
  <2>1. PushInv /\ HoldInv /\ WrittenInv
    BY <1>1, <1>4 DEF LogInv
  <2>2. numElements < Size => numElements' < Size
    BY <1>1, Positions
  <2>3. PushInv'
    BY <1>1, <1>2, <2>1, <2>2 DEF PushInv
  <2>4. \A k \in (Popped + 1) + 1 .. Pushed : k \in Popped + 1 .. Pushed
    BY Positions
  <2>5. HoldInv'
    BY <1>1, <1>2, <2>1, <2>4 DEF HoldInv
  <2>6. ASSUME ~missed, NEW k \in 1 .. Popped + 1 PROVE (written \o buffer')[k] = accepted[k]
    <3> DEFINE w == written \o buffer
    <3>1. written \in Seq(Msg) /\ buffer \in Seq(Msg) /\ elem \in Seq(Msg)
      BY DEF TypeInv, TypeOK, WriterType, FileType, Msg
    <3>2. written \o buffer' = w \o elem
      BY <1>1, <3>1, JoinsAssociate
    <3>3. w \in Seq(Msg) /\ Len(w) = Popped
      <4>1. Len(w) = Len(written) + Len(buffer) /\ w \in Seq(Msg)
        BY <3>1, Joins
      <4> HIDE DEF w
      <4>2. numElements = Len(accepted) - Len(w)
        BY <2>6, <4>1 DEF CountInv, Exact
      <4>3. Len(w) \in Nat /\ Len(accepted) \in Nat
        BY <4>1, Positions DEF Pushed
      <4> QED BY <4>1, <4>2, <4>3 DEF Popped
    <3> HIDE DEF w
    <3>4. (w \o elem)[k] = IF k <= Popped THEN w[k] ELSE elem[k - Popped]
      <4>1. k \in 1 .. Len(w) + Len(elem)
        BY <1>1, <3>3
      <4>2. (w \o elem)[k] = IF k <= Len(w) THEN w[k] ELSE elem[k - Len(w)]
        BY <3>1, <3>3, <4>1, Joins
      <4> QED BY <3>3, <4>2
    <3>5. CASE k <= Popped
      <4>1. k \in 1 .. Popped
        BY <3>5, Positions
      <4> QED BY <2>1, <2>6, <3>2, <3>4, <3>5, <4>1 DEF WrittenInv, w
    <3>6. CASE ~(k <= Popped)
      <4>1. k = Popped + 1 /\ k - Popped = 1
        BY <3>6, Positions
      <4> QED BY <1>1, <2>1, <3>2, <3>4, <3>6, <4>1 DEF HoldInv
    <3> QED BY <3>5, <3>6
  <2>7. WrittenInv'
    BY <1>1, <1>2, <2>6 DEF WrittenInv
  <2> QED BY <2>3, <2>5, <2>7
<1> QED BY <1>3, <1>4 DEF LogInv

\* The batch is written.
LEMMA writeLog == ASSUME TypeInv, LogInv, writeToFile PROVE LogInv'
<1>1. /\ UNCHANGED <<queueVars, logVars, elem>> /\ buffer' = <<>>
      /\ \/ written' = written \o buffer /\ missed' = missed
         \/ missed' = TRUE
  BY DEF writeToFile, Writer
<1>2. Pushed' = Pushed /\ Popped' = Popped
  BY <1>1 DEF Pushed, Popped, queueVars, logVars
<1>3. ReadInv' /\ (PushInv => PushInv') /\ (HoldInv => HoldInv')
  BY <1>1, <1>2 DEF LogInv, ReadInv, PushInv, HoldInv, queueVars, logVars
<1>4. written' = written \o buffer => written' \o buffer' = written \o buffer
  <2>1. written \in Seq(Msg) /\ buffer \in Seq(Msg)
    BY DEF TypeInv, TypeOK, WriterType, FileType, Msg
  <2>2. written \o buffer \in Seq(Msg)
    BY <2>1, Joins
  <2> QED BY <1>1, <2>2, ConcatEmptySeq
<1>5. WrittenInv => WrittenInv'
  BY <1>1, <1>2, <1>4 DEF WrittenInv, logVars
<1> QED BY <1>1, <1>3, <1>5 DEF LogInv, logVars

LEMMA NextLog == ASSUME TypeInv, CountInv, LogInv, [Next]_vars PROVE LogInv'
<1>1. CASE \/ UNCHANGED vars \/ getInstance \/ setLogFile \/ race \/ interrupt \/ shutdown
           \/ loop \/ beginPop \/ endBatch \/ \E t \in Threads : useAfterFree(t)
  <2>1. UNCHANGED <<queueVars, pc, call, index, accepted, overlapped, elem, missed, written>>
    BY <1>1 DEF vars, getInstance, setLogFile, closeFile, openFile, race, interrupt, shutdown,
       exitProcess, destroyLogger, loop, beginPop, endBatch, Writer, useAfterFree, logVars,
       writerVars, fileVars
  <2>2. buffer' = buffer
    BY <1>1 DEF vars, getInstance, setLogFile, closeFile, openFile, race, interrupt, shutdown,
       exitProcess, destroyLogger, loop, beginPop, endBatch, Writer, useAfterFree,
       writerVars, TypeInv, WriterInv
  <2> QED BY <2>1, <2>2, SameLog
<1> QED BY <1>1, logLog, pushLog, announceLog, readSlotLog, releaseLog, writeLog
        DEF Next, Calls, flushQueue

\* The order, with what it needs to be inductive.
THEOREM LogInvariance == Spec => []LogInv
<1>1. Init => LogInv
  <2> SUFFICES ASSUME Init PROVE LogInv
    OBVIOUS
  <2>1. Pushed = 0 /\ Popped = 0 /\ Len(elem) = 0 /\ 0 % Size = 0
        /\ nextIndexToRead = 0 /\ nextIndexToWrite = 0 /\ \A t \in Threads : pc[t] = "idle"
    BY SizesAssumption DEF Init, Pushed, Popped
  <2>2. ReadInv
    BY <2>1 DEF ReadInv
  <2>3. PushInv
    BY <2>1 DEF PushInv
  <2>4. HoldInv /\ WrittenInv
    BY <2>1 DEF HoldInv, WrittenInv
  <2> QED BY <2>2, <2>3, <2>4 DEF LogInv
<1>2. TypeInv /\ CountInv /\ LogInv /\ [Next]_vars => LogInv'
  BY NextLog
<1> QED BY <1>1, <1>2, TypeInvariance, CountInvariance, PTL DEF Spec

\* As long as no two threads are in log at once, which is what the queue is
\* made for, and setLogFile has not closed the file under the writer, the log
\* holds every accepted message once and in order, wherever the writer is in
\* its batch.
THEOREM LogsInOrder == Spec => []LogInOrder
<1>1. TypeInv /\ CountInv /\ LogInv => LogInOrder
  <2> SUFFICES ASSUME TypeInv, CountInv, LogInv, ~overlapped, ~missed
               PROVE  written \o buffer \o elem \o Queued = accepted
    BY DEF LogInOrder
  <2> DEFINE w == written \o buffer
             e == Len(elem)
             n == numElements - e
             v == w \o elem
             all == v \o Queued
  <2>1. /\ written \in Seq(Msg) /\ buffer \in Seq(Msg) /\ elem \in Seq(Msg)
        /\ accepted \in Seq(Msg)
    <3>1. written \in Seq(Msg) /\ buffer \in Seq(Msg) /\ elem \in Seq(Msg)
      BY DEF TypeInv, TypeOK, WriterType, FileType, Msg
    <3>2. accepted \in Seq(1 .. MaxCalls) /\ 1 .. MaxCalls \subseteq Msg
      BY BoundsAssumption DEF TypeInv, TypeOK, LogType, Msg
    <3>3. \A k \in 1 .. Len(accepted) : accepted[k] \in Msg
      <4>1. \A S : accepted \in Seq(S) => \A k \in 1 .. Len(accepted) : accepted[k] \in S
        OBVIOUS
      <4>2. \A k \in 1 .. Len(accepted) : accepted[k] \in 1 .. MaxCalls
        BY <3>2, <4>1
      <4> QED BY <3>2, <4>2
    <3>4. Len(accepted) \in Nat /\ accepted = [k \in 1 .. Len(accepted) |-> accepted[k]]
      BY <3>2
    <3>5. \A m \in Nat : \A f : (\A k \in 1 .. m : f[k] \in Msg) => [k \in 1 .. m |-> f[k]] \in Seq(Msg)
      OBVIOUS
    <3>6. accepted \in Seq(Msg)
      BY <3>3, <3>4, <3>5
    <3> QED BY <3>1, <3>6
  <2>2. w \in Seq(Msg) /\ Len(w) = Popped
    <3>1. Len(w) = Len(written) + Len(buffer) /\ w \in Seq(Msg)
      BY <2>1, Joins
    <3> HIDE DEF w
    <3>2. numElements = Len(accepted) - Len(w)
      BY <3>1 DEF CountInv, Exact
    <3>3. Len(w) \in Nat /\ Len(accepted) \in Nat
      BY <3>1, Positions DEF Pushed
    <3> QED BY <3>1, <3>2, <3>3 DEF Popped
  <2>3. e \in {0, 1} /\ n \in Nat /\ (e = 1 => numElements > 0) /\ Popped + e + n = Pushed
    <3>1. e \in {0, 1} /\ (e = 1 => numElements > 0)
      BY DEF TypeInv, WriterInv
    <3> HIDE DEF e
    <3> QED BY <3>1, Positions
  <2>4. /\ Queued \in Seq(Msg) /\ Len(Queued) = n
        /\ \A k \in 1 .. n : Queued[k] = accepted[Popped + e + k]
    <3>1. Queued = [k \in 1 .. n |-> queue[(nextIndexToRead + k - 1) % Size]]
      BY DEF Queued
    <3> HIDE DEF n, e
    <3>2. ASSUME NEW k \in 1 .. n
          PROVE  queue[(nextIndexToRead + k - 1) % Size] = accepted[Popped + e + k]
      <4>1. nextIndexToRead = (Popped + e) % Size
        BY DEF LogInv, ReadInv, e
      <4>2. Popped + e \in Nat /\ k - 1 \in Nat /\ nextIndexToRead \in Nat
        <5>1. nextIndexToRead \in Nat
          BY SizesAssumption DEF TypeInv, TypeOK, QueueType, Slot
        <5>2. Popped \in Nat /\ e \in Nat /\ n \in Nat
          BY <2>3, Positions
        <5> QED BY <5>1, <5>2
      <4>3. (nextIndexToRead + (k - 1)) % Size = ((Popped + e) + (k - 1)) % Size
        BY <4>1, <4>2, SlotShift
      <4>4. /\ nextIndexToRead + k - 1 = nextIndexToRead + (k - 1)
            /\ (Popped + e + k) - 1 = (Popped + e) + (k - 1)
        BY <4>2
      <4>5. Popped + e + k \in Popped + 1 .. Pushed
        BY <2>3, Positions
      <4>6. queue[((Popped + e + k) - 1) % Size] = accepted[Popped + e + k]
        BY <4>5 DEF LogInv, HoldInv
      <4> QED BY <4>3, <4>4, <4>6
    <3>3. \A k \in 1 .. n : accepted[Popped + e + k] \in Msg
      <4>1. \A k \in 1 .. n : Popped + e + k \in 1 .. Len(accepted)
        BY <2>3, Positions DEF Pushed
      <4> QED BY <2>1, <4>1
    <3>4. Queued = [k \in 1 .. n |-> accepted[Popped + e + k]]
      BY <3>1, <3>2
    <3> QED BY <2>3, <3>3, <3>4
  <2>5. /\ v \in Seq(Msg) /\ Len(v) = Popped + e
        /\ \A k \in 1 .. Popped + e : v[k] = IF k <= Popped THEN w[k] ELSE elem[k - Popped]
    BY <2>1, <2>2, Joins
  <2>6. /\ all \in Seq(Msg) /\ Len(all) = Popped + e + n
        /\ \A k \in 1 .. Popped + e + n :
              all[k] = IF k <= Popped + e THEN v[k] ELSE Queued[k - (Popped + e)]
    <3> HIDE DEF v, e, n
    <3>1. /\ all \in Seq(Msg) /\ Len(all) = Len(v) + Len(Queued)
          /\ \A k \in 1 .. Len(v) + Len(Queued) :
                all[k] = IF k <= Len(v) THEN v[k] ELSE Queued[k - Len(v)]
      BY <2>4, <2>5, Joins
    <3> HIDE DEF all
    <3>2. Len(v) = Popped + e /\ Len(Queued) = n
      BY <2>4, <2>5
    <3> QED BY <3>1, <3>2
  <2> HIDE DEF w, v, all, e, n
  <2>7. ASSUME NEW k \in 1 .. Len(accepted) PROVE all[k] = accepted[k]
    <3>0. k \in 1 .. Popped + e + n
      BY <2>3 DEF Pushed
    <3>1. CASE k <= Popped
      <4>1. k \in 1 .. Popped /\ k \in 1 .. Popped + e /\ k <= Popped + e
        BY <2>3, <3>0, <3>1, Positions
      <4>2. all[k] = w[k]
        BY <2>5, <2>6, <3>0, <3>1, <4>1
      <4>3. w[k] = accepted[k]
        BY <4>1 DEF LogInv, WrittenInv, w
      <4> QED BY <4>2, <4>3
    <3>2. CASE k > Popped /\ k <= Popped + e
      <4>1. k = Popped + 1 /\ e = 1 /\ k - Popped = 1 /\ k \in 1 .. Popped + e
        BY <2>3, <3>0, <3>2, Positions
      <4>2. ~(k <= Popped)
        BY <4>1, Positions
      <4>3. all[k] = elem[1]
        BY <2>5, <2>6, <3>0, <3>2, <4>1, <4>2
      <4>4. elem[1] = accepted[Popped + 1]
        BY <4>1 DEF LogInv, HoldInv, e
      <4> QED BY <4>1, <4>3, <4>4
    <3>3. CASE k > Popped + e
      <4>1. k - (Popped + e) \in 1 .. n /\ Popped + e + (k - (Popped + e)) = k
            /\ ~(k <= Popped + e)
        <5>1. Popped \in Nat /\ e \in Nat /\ n \in Nat
          BY <2>3, Positions
        <5> QED BY ONLY <5>1, <3>0, <3>3
      <4> QED BY <2>4, <2>6, <3>0, <4>1
    <3> QED BY <2>3, <3>0, <3>1, <3>2, <3>3, Positions
  <2>8. Len(all) = Len(accepted)
    BY <2>3, <2>6 DEF Pushed
  <2>9. all = accepted
    BY <2>1, <2>6, <2>7, <2>8, SeqEqual
  <2> QED BY <2>9 DEF all, v, w
<1> QED BY <1>1, TypeInvariance, CountInvariance, LogInvariance, PTL
=============================================================================
