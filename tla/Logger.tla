------------------------------- MODULE Logger -------------------------------
(***************************************************************************)
(* utils::Logger (src/lib/logger.{h,cpp}) as the process uses it.  Every   *)
(* thread that logs pushes into one LFQueue, a queue made for a single     *)
(* producer; the logger's own thread pops, formats and writes.  One action *)
(* per access to the shared memory that several threads write; accesses    *)
(* take effect in program order (LFQueueRelaxed drops that).               *)
(*                                                                         *)
(* The process is the one of main.cpp: the main thread logs for ever until *)
(* SIGINT runs shutdown_handler on it, whose exit() destroys the static    *)
(* Logger while the other threads go on.                                   *)
(*                                                                         *)
(* The k-th call of log carries the number k; 0 is a LogElement that       *)
(* nobody has written.                                                     *)
(***************************************************************************)
EXTENDS Integers, Sequences, FiniteSets

CONSTANTS
    Threads,     \* the threads that log
    Main,        \* the one that runs main
    Size,        \* LOG_QUEUE_SIZE
    Batch,       \* elements that are written together, 100 in the code
    MaxCalls,    \* bound on the calls of log
    MaxSwitches  \* bound on the calls of setLogFile

ASSUME ThreadsAssumption == Main \in Threads /\ IsFiniteSet(Threads)
ASSUME SizesAssumption   == Size \in Nat \ {0} /\ Batch \in Nat \ {0}
ASSUME BoundsAssumption  == MaxCalls \in Nat /\ MaxSwitches \in Nat

VARIABLES
    \* logQueue_
    queue, nextIndexToRead, nextIndexToWrite, numElements,
    \* The threads in log
    pc,          \* where a thread is
    call,        \* the number of its call
    index,       \* what it last loaded from nextIndexToWrite_
    calls,       \* how many calls there were
    accepted,    \* history: the messages announced, in that order
    overlapped,  \* history: a call began before another one ended
    \* The logger's thread in flushQueue
    writer, buffer,
    elem,        \* the element that pop has copied, in a sequence of its own
    running,
    \* logFile_ and setLogFile
    logFile,     \* "closed" or "open"
    written,     \* what is in the files, in the order of writing
    missed,      \* history: something was written to a closed file
    switching,   \* setLogFile has closed the file and not opened the next
    switches,
    \* The static instance and the process
    instance,    \* "none", "alive", "joining" (in its destructor), "destroyed"
    interrupted, \* shutdown_handler has taken over the main thread
    status       \* "ok", or how the process went wrong

queueVars  == <<queue, nextIndexToRead, nextIndexToWrite, numElements>>
logVars    == <<pc, call, index, calls, accepted, overlapped>>
writerVars == <<writer, buffer, elem>>
fileVars   == <<logFile, written, missed, switching, switches>>
lifeVars   == <<running, instance, interrupted, status>>
vars == <<queueVars, logVars, writerVars, fileVars, lifeVars>>

Slot == 0 .. Size - 1

Init ==
    /\ queue = [s \in Slot |-> 0]
    /\ nextIndexToRead = 0 /\ nextIndexToWrite = 0 /\ numElements = 0
    /\ pc = [t \in Threads |-> "idle"] /\ call = [t \in Threads |-> 0]
    /\ index = [t \in Threads |-> 0]
    /\ calls = 0 /\ accepted = <<>> /\ overlapped = FALSE
    /\ writer = "none" /\ buffer = <<>> /\ elem = <<>> /\ running = TRUE
    /\ logFile = "closed" /\ written = <<>> /\ missed = FALSE
    /\ switching = FALSE /\ switches = 0
    /\ instance = "none" /\ interrupted = FALSE /\ status = "ok"

-----------------------------------------------------------------------------
(* log, in thread t *)

\* The constructor opens the file and starts the thread.
constructLogger == logFile' = "open" /\ writer' = "top"

\* The first use, by whichever thread, constructs the static instance.
getInstance ==
    /\ status = "ok" /\ instance = "none"
    /\ instance' = "alive"
    /\ constructLogger
    /\ UNCHANGED <<queueVars, logVars, buffer, elem, running, written, missed,
                   switching, switches, interrupted, status>>

\* Thread t can take a step: a destroyed queue it uses is the end, and the
\* main thread does not come back from its signal handler.
CanStep(t) == /\ status = "ok" /\ instance \in {"alive", "joining"}
              /\ ~(t = Main /\ interrupted)

\* Thread t goes from one place to the next and changes only the queue.
Step(t, from, to) ==
    /\ CanStep(t) /\ pc[t] = from
    /\ pc' = [pc EXCEPT ![t] = to]
    /\ UNCHANGED <<calls, overlapped, writerVars, fileVars, lifeVars>>

hasRoom == numElements < Size

\* log builds its element and getNextToWrite looks at the count.  With no
\* room push returns false, which log ignores.
log(t) ==
    /\ CanStep(t) /\ pc[t] = "idle" /\ calls < MaxCalls
    /\ calls' = calls + 1
    /\ call' = [call EXCEPT ![t] = calls']
    /\ pc' = [pc EXCEPT ![t] = IF hasRoom THEN "slot" ELSE "idle"]
    /\ overlapped' = (overlapped \/ (hasRoom /\ \E u \in Threads : pc[u] # "idle"))
    /\ UNCHANGED <<queueVars, index, accepted, writerVars, fileVars, lifeVars>>

\* getNextToWrite takes the address of a slot.
getNextToWrite(t) ==
    /\ Step(t, "slot", "write")
    /\ index' = [index EXCEPT ![t] = nextIndexToWrite]
    /\ UNCHANGED <<queueVars, call, accepted>>

\* *slot = value.
writeSlot(t) ==
    /\ Step(t, "write", "load")
    /\ queue' = [queue EXCEPT ![index[t]] = call[t]]
    /\ UNCHANGED <<nextIndexToRead, nextIndexToWrite, numElements, call, index, accepted>>

\* updateWriteIndex loads the index, for the second time,
loadIndex(t) ==
    /\ Step(t, "load", "store")
    /\ index' = [index EXCEPT ![t] = nextIndexToWrite]
    /\ UNCHANGED <<queueVars, call, accepted>>

\* Mutant: the index does not wrap around.
advance_NoWrap(i) == i + 1

\* Mutant: the index does not move.
advance_Skipped(i) == i

advance(i) == (i + 1) % Size

\* stores its successor,
storeIndex(t) ==
    /\ Step(t, "store", "announce")
    /\ nextIndexToWrite' = advance(index[t])
    /\ UNCHANGED <<queue, nextIndexToRead, numElements, call, index, accepted>>

\* Mutant: the count is computed from the two indices.
addOne_Indices == numElements' = (nextIndexToWrite - nextIndexToRead) % Size

addOne == numElements' = numElements + 1

\* and announces the element.
announce(t) ==
    /\ Step(t, "announce", "idle")
    /\ addOne
    /\ accepted' = Append(accepted, call[t])
    /\ UNCHANGED <<queue, nextIndexToRead, nextIndexToWrite, call, index>>

\* The destructor of the queue has run, and t goes on with its call.
useAfterFree(t) ==
    /\ status = "ok" /\ instance = "destroyed"
    /\ ~(t = Main /\ interrupted)
    /\ (pc[t] # "idle" \/ calls < MaxCalls)
    /\ status' = "useAfterFree"
    /\ UNCHANGED <<queueVars, logVars, writerVars, fileVars, running, instance, interrupted>>

-----------------------------------------------------------------------------
(* flushQueue *)

Writer(from, to) ==
    /\ status = "ok" /\ writer = from
    /\ writer' = to
    /\ UNCHANGED <<logVars, lifeVars>>

\* Another round, or the end of the thread: what is still queued stays there.
loop ==
    /\ Writer("top", IF running THEN "batch" ELSE "exited")
    /\ buffer' = <<>>
    /\ UNCHANGED <<queueVars, elem, fileVars>>

\* Mutant: the last element is left in the queue.
batchOpen_AllButLast == Len(buffer) < Batch /\ numElements > 1

batchOpen == Len(buffer) < Batch /\ numElements > 0

\* There is an element and room in the batch: pop begins.  Only this thread
\* takes elements away, so pop finds what size has found.
beginPop ==
    /\ batchOpen
    /\ Writer("batch", "read")
    /\ UNCHANGED <<queueVars, buffer, elem, fileVars>>

\* T value = *elem.  The read index is this thread's own.
readSlot ==
    /\ Writer("read", "release")
    /\ elem' = <<queue[nextIndexToRead]>>
    /\ nextIndexToRead' = (nextIndexToRead + 1) % Size
    /\ UNCHANGED <<queue, nextIndexToWrite, numElements, buffer, fileVars>>

\* The line of the element: a level, a time, and the format string with its
\* arguments put in; the element stands for it.
appendToBuffer(e) == buffer' = buffer \o e

\* The fetch_sub that gives the slot back, and appendToBuffer.  The assertion
\* on the count comes before.
release ==
    /\ IF numElements > 0
       THEN /\ Writer("release", "batch")
            /\ numElements' = numElements - 1
            /\ appendToBuffer(elem) /\ elem' = <<>>
       ELSE /\ status = "ok" /\ writer = "release"
            /\ status' = "assertion"
            /\ UNCHANGED <<numElements, logVars, writerVars, running, instance, interrupted>>
    /\ UNCHANGED <<queue, nextIndexToRead, nextIndexToWrite, fileVars>>

\* The batch is over; an empty one is not written.
endBatch ==
    /\ ~batchOpen
    /\ Writer("batch", IF buffer = <<>> THEN "top" ELSE "file")
    /\ UNCHANGED <<queueVars, buffer, elem, fileVars>>

\* writeToFile.  On a closed file the stream fails and the lines are gone, but
\* for a message on stderr.
writeToFile ==
    /\ Writer("file", "top")
    /\ IF logFile = "open" THEN written' = written \o buffer /\ UNCHANGED missed
                           ELSE missed' = TRUE /\ UNCHANGED written
    /\ buffer' = <<>>
    /\ UNCHANGED <<queueVars, elem, logFile, switching, switches>>

-----------------------------------------------------------------------------
(* setLogFile, by some other thread.  Its mutex is one the writer does not   *)
(* take.                                                                     *)

\* setLogFile may be called.
CanClose == instance = "alive" /\ switches < MaxSwitches /\ ~switching

closeFile ==
    /\ status = "ok" /\ CanClose
    /\ switching' = TRUE /\ switches' = switches + 1
    /\ logFile' = "closed"
    /\ UNCHANGED <<queueVars, logVars, writerVars, written, missed, lifeVars>>

\* A file that cannot be opened is FATAL.
openFile ==
    /\ status = "ok" /\ switching
    /\ \/ logFile' = "open" /\ UNCHANGED status
       \/ status' = "assertion" /\ UNCHANGED logFile
    /\ switching' = FALSE
    /\ UNCHANGED <<queueVars, logVars, writerVars, written, missed, switches, running,
                   instance, interrupted>>

-----------------------------------------------------------------------------
(* Accesses of two threads that nothing orders: one of them writes.  Each     *)
(* order of the two is a behaviour above; this is the remaining outcome.      *)

SlotRace ==
    \E t \in Threads :
        /\ pc[t] = "write"
        /\ \/ \E u \in Threads \ {t} : pc[u] = "write" /\ index[u] = index[t]
           \/ writer = "read" /\ index[t] = nextIndexToRead

FileRace == writer = "file" /\ (CanClose \/ switching)

race ==
    /\ status = "ok" /\ (SlotRace \/ FileRace)
    /\ status' = "race"
    /\ UNCHANGED <<queueVars, logVars, writerVars, fileVars, running, instance, interrupted>>

-----------------------------------------------------------------------------
(* main *)

\* SIGINT, wherever the main thread is.
interrupt ==
    /\ status = "ok" /\ instance = "alive" /\ ~interrupted
    /\ interrupted' = TRUE
    /\ UNCHANGED <<queueVars, logVars, writerVars, fileVars, running, instance, status>>

\* Mutant: the flag is not cleared.
clearRunning_Skipped == UNCHANGED running

clearRunning == running' = FALSE

\* exit, which calls ~Logger up to its join,
exitProcess ==
    /\ status = "ok" /\ interrupted /\ instance = "alive"
    /\ clearRunning
    /\ instance' = "joining"
    /\ UNCHANGED <<queueVars, logVars, writerVars, fileVars, interrupted, status>>

\* and the rest of it.
destroyLogger ==
    /\ status = "ok" /\ instance = "joining" /\ writer = "exited"
    /\ instance' = "destroyed" /\ logFile' = "closed"
    /\ UNCHANGED <<queueVars, logVars, writerVars, running, written, missed, switching,
                   switches, interrupted, status>>

-----------------------------------------------------------------------------
(* Specification *)

Calls(t) == \/ getNextToWrite(t) \/ writeSlot(t) \/ loadIndex(t) \/ storeIndex(t)
            \/ announce(t)

flushQueue == \/ loop \/ beginPop \/ readSlot \/ release \/ endBatch \/ writeToFile

setLogFile == closeFile \/ openFile

shutdown == exitProcess \/ destroyLogger

Next == \/ getInstance
        \/ \E t \in Threads : log(t) \/ Calls(t) \/ useAfterFree(t)
        \/ flushQueue \/ setLogFile \/ race \/ interrupt \/ shutdown

\* Every thread is scheduled: the writer, a call of log that has begun, and the
\* signal handler with the destructor.
Spec == /\ Init /\ [][Next]_vars
        /\ WF_vars(flushQueue) /\ WF_vars(shutdown)
        /\ \A t \in Threads : WF_vars(Calls(t))

-----------------------------------------------------------------------------
(* Properties *)

QueueType ==
    /\ queue \in [Slot -> 0 .. MaxCalls]
    /\ nextIndexToRead \in Slot /\ nextIndexToWrite \in Slot /\ numElements \in Nat

LogType ==
    /\ pc \in [Threads -> {"idle", "slot", "write", "load", "store", "announce"}]
    /\ call \in [Threads -> 0 .. MaxCalls] /\ index \in [Threads -> Slot]
    /\ calls \in 0 .. MaxCalls /\ accepted \in Seq(1 .. MaxCalls)
    /\ overlapped \in BOOLEAN

WriterType ==
    /\ writer \in {"none", "top", "batch", "read", "release", "file", "exited"}
    /\ buffer \in Seq(0 .. MaxCalls) /\ Len(buffer) <= Batch
    /\ elem \in Seq(0 .. MaxCalls) /\ Len(elem) <= 1

FileType ==
    /\ logFile \in {"closed", "open"} /\ written \in Seq(0 .. MaxCalls)
    /\ missed \in BOOLEAN /\ switching \in BOOLEAN /\ switches \in 0 .. MaxSwitches

LifeType ==
    /\ running \in BOOLEAN /\ interrupted \in BOOLEAN
    /\ instance \in {"none", "alive", "joining", "destroyed"}
    /\ status \in {"ok", "race", "useAfterFree", "assertion"}

\* Every variable has its type.
TypeOK == QueueType /\ LogType /\ WriterType /\ FileType /\ LifeType

\* The elements announced and not popped, oldest first.
Queued ==
    LET taken == Len(elem)
    IN  [k \in 1 .. numElements - taken |-> queue[(nextIndexToRead + k - 1) % Size]]

\* While no two calls of log overlap and no line met a closed file, the log is
\* complete and in order: the files, the batch, the element being popped and
\* the queue hold every accepted message once, as they were announced.
LogInOrder ==
    ~overlapped /\ ~missed => written \o buffer \o elem \o Queued = accepted

\* Whatever the producers do to the slots and to the write index, the count is
\* exact, pop's assertion holds, and each of the calls that run at the same
\* time can bring the queue at most one element over its size.
CountRight ==
    /\ ~missed => numElements = Len(accepted) - Len(written \o buffer)
    /\ writer = "release" => numElements > 0
    /\ numElements + Cardinality({t \in Threads : pc[t] # "idle"})
          <= Size + Cardinality(Threads) - 1

\* Every accepted message leaves the queue, unless the logger is destroyed or
\* the process dies.
Flushed == numElements > 0 ~> numElements = 0 \/ ~running \/ status # "ok"

\* The process exits: the writer's round ends and the destructor's join
\* returns, however much the other threads still log.
ShutdownEnds == interrupted ~> instance = "destroyed" \/ status # "ok"
=============================================================================
