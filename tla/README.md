# Verification of the HFT_sys exchange in TLA+

This directory holds a TLA+ model of the exchange in `src/`: TLC configurations
that check it on small instances, and proofs, checked by TLAPS, of what holds for
every instance. Paths in this file are relative to the repository root; "book"
means `src/core/matching_engine/order_book.{h,cpp}`.

## 1. The system

| Component | State | Operations | Talks to |
|---|---|---|---|
| `OrderBook` (`core/matching_engine/order_book.*`) | orders in one circular list per price level, levels in one circular list per side, `bidsByPrice_`/`asksByPrice_`, a price map (price mod 256) and a client map, `nextMarketOid_` | `addOrder`, `cancelOrder`, destructor | two `MemoryPool`s; sends responses and market updates through the engine |
| `MemoryPool` (`lib/memory_pool.h`) | blocks with `isFree`, free count, cursor | `allocate`, `deallocate` | owned by a book |
| `LFQueue` (`lib/lock_free_queue.h`) | ring of slots, two indices, a count | `push`, `pop`, `getNextToRead`/`updateReadIndex`, `size` | gateway -> engine (requests), engine -> gateway (responses), engine -> publisher (updates), everyone -> logger |
| `MatchingEngine` (`core/matching_engine/matching_engine.*`) | eight books, a thread, `isRunning_` | start, stop, `handleClientRequest`, `dispatchClientResponse`, `publishMarketUpdate` | three queues |
| `OrderGatewayServer`, `FIFOSequencer` (`core/gateway`) | per client: socket, next sequence number each way; pending requests | `run`, `rxCallback`, `rxDoneCallback`, `sequenceAndPublish` | TCP server, request and response queues |
| `TCPServer`, `TCPSocket` (`lib/tcp_*`) | sockets, epoll/kqueue set, buffers | `poll`, `sendAndReceive`, `send` | gateway callbacks |
| `Logger` (`lib/logger.*`) | queue, thread, `running_`, the file | `getInstance`, `log`, `setLogFile`, `flushQueue`, destructor | all threads |
| `main.cpp` | - | wiring, endless logging, `shutdown_handler` | engine, logger |
| `thread_utils.h`, `socket_utils.h`, `time_utils.h`, `assertion.h` | - | wrappers | - |

What is hard here:

- *Shared memory.* The queue is written by two threads with three variables that
  are not updated together, and the count is updated with `memory_order_relaxed`.
- *Pointers.* The book never searches: it decides by single tests (`prev_ == order`,
  `next_ == level`, a null map cell) that are right only if the lists and maps agree
  after every possible sequence of adds, fills and cancels.
- *Index collisions.* Two prices 256 apart share a cell of the price map, so orders
  of two prices, even of two sides, can share a level.
- *Limits.* Pools, queues and pending arrays are bounded; some callers do not look
  at the result.
- *Loops inside a call* (`findMatch`, `addPriceLevel`) that must end.
- *Several producers.* The logger's queue, made for one producer, has one per thread.
- *Shutdown.* Threads joined without being told to stop, a destructor that throws, a
  static logger destroyed by `exit` while other threads still log.

`PROJECT.json` lists each hazard with the line where it bites and the properties
that would catch it.

## 2. Modules

| Module | Models | Remarks |
|---|---|---|
| `PoolSpec` | the promise of a memory pool | abstract: a set of held blocks |
| `MemoryPool` | `memory_pool.h` | a call is a step; failing assertions end the behaviour (`failed`) |
| `MemoryPoolProofs` | theorems about `MemoryPool` | |
| `FifoSpec` | the promise of a bounded queue | abstract: a sequence |
| `LFQueue` | `lock_free_queue.h` | a step per access to shared memory, in program order |
| `LFQueueProofs` | theorems about `LFQueue` | |
| `LFQueueRelaxed` | the same with the ordering the code asks for | slot accesses may be performed late |
| `SortedRing`, `SortedRingProofs` | when pointers form sorted circular lists, and which changes keep that | pure operators |
| `OrderBook` | the book | see below |
| `MCOrderBook` | symmetry sets for TLC | |
| `OrderBookProofs` | theorems about `OrderBook` for every request sequence | |
| `PriceTimeProofs` | theorems about `OrderBook` in the regime of `book_priority` | EXTENDS `OrderBookProofs` |
| `MatchingEngine` | the engine's thread, composed with `OrderBook` | EXTENDS `OrderBook`; see below |
| `MatchingEngineProofs` | theorems about `MatchingEngine` | EXTENDS `OrderBookProofs`: the engine is the book with more state |
| `OrderGateway` | gateway, sequencer, TCP server and sockets | see below |
| `OrderGatewayProofs` | theorems about `OrderGateway` | |
| `Logger` | `logger.*` and the main thread of `main.cpp` | see below |
| `LoggerProofs` | theorems about `Logger` | |
| `MCOrderGateway` | symmetry sets for TLC | |

### OrderBook and the code

The variables are the fields of the book, `Order` and `OrdersAtPrice`: `onext`,
`oprev`, `lnext`, `lprev`, `order0`, `best` (both side pointers), the two maps,
`nextMarketOid`. `liveOrders` and `liveLevels` are the blocks in use in the two
pools, which are taken at the interface `PoolSpec`: a free block, or nullptr if
there is none. The book is owned by one thread, so requests do not interleave. The
two loops of `addOrder` are unrolled into steps, with `pc` saying where the call is:

| Action | Code |
|---|---|
| `addOrder` | `addOrder` up to the call of `findMatch` |
| `matchOrder` | one iteration of `findMatch`, `matchOrder` and `removeOrderFromBook` included |
| `Discard` | `findMatch` returned and nothing rests (a request for zero) |
| `AppendToLevel` | rest of `addOrder`, level exists |
| `OpenSide` | rest of `addOrder`, `addPriceLevel` on an empty side |
| `BeginSeek`, `SeekNext` | the search of `addPriceLevel` |
| `InsertAfter`, `InsertBefore` | the two ways of linking, and the rest of `addOrder` |
| `cancelOrder` | `cancelOrder` |
| `destroy` | destructor, with the validity check of `toString` |
| `Fault`, `CancelThrows` | `Fault` is one of `ReadsOffStack`, `FollowsDangling`, `FollowsNull`, `WritesOutOfBounds`: the read of a fill leaves the stack; a freed level is followed; `allocate`'s nullptr is followed; the client map is written outside. `CancelThrows`: `at()` throws in a `noexcept` function |

The last row ends a behaviour: nothing is claimed of a process after undefined
behaviour. `matchOrder` models what the code does to the remaining quantity: it
decrements a *pointer*, so the caller's quantity stays, and then reads through it, out of
bounds: either some word of the stack is reported (any member of `StackWords`), or the
process faults (`ReadsOffStack`). Every fill has both outcomes. `responses` and `updates` hold what the last step sent;
ticker ids are left out (one book is one ticker). `taker.filled` is history.

The environment is set by constants. `UniqueIds`: no client reuses the id of a
resting order. `DeepTails = FALSE`: no request opens a worst level behind two others
(the case the code gets wrong, see section 4). Both are off unless said
otherwise. `AnyBlock`: `allocate` may return any free block; the runs take one, the
proofs cover both. `UniqueIds` is a hypothesis of one theorem, `RestingOrdersCancellable`, and
`~DeepTails` is one of the theorems of `PriceTimeProofs`; no other proof assumes either.

### MatchingEngine and the code

The module adds to the book the request queue (as two counts), the thread, its owner,
and `view`, the book that a subscriber builds by applying every published update.

| Action | Code |
|---|---|
| `forward` | the gateway's `push` into `rxRequests_`, when there is room |
| `startMatchingEngine`, `enterLoop` | the thread exists; the thread has set `isRunning_` and is in its loop |
| `stopMatchingEngine` | `request_stop` and the call of `join`. The loop watches `isRunning_` only and nothing clears it, so there is no step in which the join returns (section 4, `engine_stop`) |
| `destroyEngine` | the destructor of an engine that was not started |
| `takeRequest` | `pop` and `handleClientRequest`: `handleNew` or `cancelOrder` on this ticker's book, `handleElsewhere` on another, `ignore` for any other type, `readsPastBooks` for a ticker id that `operator[]` does not check |
| `continueRequest` | the loops and the end of `addOrder` |

What a request says is chosen when it is taken: nobody looks at it before. A push into
the update queue may always find it full, as its consumer is not part of this code; the
update is then lost (`view` is `Null` from there on). How full the response queue is, and
what the gateway does with it, is in `OrderGateway!engineAnswers`. That action answers
only clients whose requests were taken; `AnswersHeardClients` is why it may. One ticker's
book is there in full; the others share no state with it except the queues.

### OrderGateway and the code

One server thread runs `run`; `pc`, `pass`, `turn` and `i` say where it is.

| Action | Code |
|---|---|
| `start`, `stop`, `join`, `destroy` | `start`, with a failing `listen` (`noListener`; always so for a second `start`, as the first listener still has the port); `stop` up to and from the join; `stop` without `start` follows a null `serverThread_`; the destructors, that of the TCP server included |
| `poll`, `exit` | the loop condition, and `TCPServer::poll` if it holds: accept everything, take sockets from the pool |
| `recvmsg` | the receiving half of `sendAndRecv` on the socket `turn` of the list of this pass |
| `acceptRequest`, `dropRequest`, `failRequest` | one iteration of `rxCallback`'s loop: passed on to `pushClientRequest`; wrong socket or number; client id out of range or `FATAL` |
| `flush` | the end of `rxCallback` and the sending half of `sendAndRecv` |
| `rxDone`, `publish` | `rxDoneCallback`: the sort, then one `push` at a time |
| `respond`, `respondDone` | the response loop |
| `connect`, `arrive` | the network: a connection waits, a piece of a request is received by the kernel |
| `engineTakes`, `engineAnswers` | the matching engine at the queues |

A request is `RequestPieces` pieces, so with two of them a receive can end inside one;
`recvmsg` reads what the kernel holds as far as the buffer of `BufferSize` pieces has
room, and its time is that of the last piece, as `SCM_TIMESTAMP` gives it. Where no time
comes with the data (`Stamps = FALSE`) the code looks at an uninitialised control buffer, so
the time is any. The clock is wall-clock time and may be set back. `timely` is history: it
says whether receive times have told the order of receipt so far, that is, no clock was set
back, no data came without a time, and no sort exchanged requests of equal time. A response is
two pieces because the code calls `send` twice; `send` does not look at the room left,
and writing past the end of the buffer ends the behaviour (`outOfBounds`). Both queues are
sequences with a limit (`FifoSpec`); the request queue is kept as the log `forwarded`
and the count `taken`. The `at` and `socket` fields, `forwarded`, `lost`, `delivered`
and `cut` are history.

`Kqueue` chooses between the two builds: epoll never reports a writable socket,
because `addSocketToEventSystem` asks for `EPOLLIN` only, so `sendSockets_` stays
empty; with kqueue each socket is read a second time in every iteration, after
the finished callback. `poll` appends the reported sockets in any order: neither
call promises one. `std::sort` promises nothing about equal elements; libstdc++
keeps their order up to 16 elements, which is what `StableLimit` stands for.

### Logger and the code

| Action | Code |
|---|---|
| `getInstance` | the first use constructs the logger: the file is opened, the thread started |
| `log`, `getNextToWrite`, `writeSlot`, `loadIndex`, `storeIndex`, `announce` | one call of `log` in some thread, at each access to the queue: the test for room, the slot's address, the slot, the two halves of `nextIndexToWrite_ = (nextIndexToWrite_ + 1) % size`, the count |
| `loop`, `beginPop`, `readSlot`, `release`, `endBatch`, `writeToFile` | `flushQueue`: the loop condition, one element of a batch, the write |
| `closeFile`, `openFile` | `setLogFile`; its mutex is not taken by the writer |
| `interrupt`, `exitProcess`, `destroyLogger` | SIGINT on the main thread, `exit` up to the join in `~Logger`, the rest |
| `race`, `useAfterFree` | two unordered accesses of which one writes; a call of `log` after the destruction |

The last row ends a behaviour. In a data race either order of the two accesses is a
behaviour of the model as well, so `race` is the remaining outcome. A message is the
number of the call that made it. Formatting is left out.

## 3. Passing runs

| Run | Instance | Shows |
|---|---|---|
| `pool` | 5 blocks, one wild pointer | counter and cursor right (`CursorAtFree`), the pool's own assertions never fail (`OnlyCallersFail`), refinement of `PoolSpec` |
| `lfq` | 3 slots, 8 pushes (more than two laps) | `PopsInOrder`, `SlotsHoldWindow`, refinement of `FifoSpec`, and `Delivered` under fairness |
| `engine` | one book of 3 orders, 3 levels, 4 prices on 3 indices, three sides, quantities 0..2, reused ids, every type of request, tickers, ids and clients in and out of range, 3 requests through a queue of one, start, stop and destruction | `OrderRings`, `LevelRings`, `ClientMapSound`, `SearchSafe`, `LevelBlockAvailable` although prices and sides collide and `best` may dangle; every call ends (`HandlerReturns`), and until stop every request that is queued is handled (`EveryRequestHandled`); the updates are exactly what happened to the book, step by step (`FeedFollowsBook`) and over the whole run (`FeedMatchesBook`); answers go to clients that were heard of (`AnswersHeardClients`) |
| `book_priority` | 4 prices, levels and orders, 4 ids and one out of range, no collisions, `UniqueIds`, `DeepTails = FALSE`, quantities 0 and 1, 5 adds | sorted sides, levels with one price and side, never crossed between requests, price-time priority, every order can be cancelled, and no fault but the read of a fill, an id out of range, and a request that finds all order blocks in use (`OnlyKnownFaults`) |
| `gateway_rx` | 2 connections, 2 clients, numbers 1 and 2, two requests in four pieces, a buffer of three, a queue of one, two receive times in any order, `StableLimit = 1`, kqueue | `Framed`, `PublishedInOrder`, `OneSocketPerClient` |
| `gateway_tx` | 2 connections, 2 clients and one out of range, two requests, three responses, queues of two, a buffer of two responses, room for one pending request, partial sends, no time stamps, epoll | `SocketKnown`, `RespondsInOrder`, and under fairness `Forwards`, `SendsResponses`, `StopReturns` |
| `logger` | 2 threads, 3 calls, 2 slots, batches of 2, one change of file, SIGINT at any time | the log is complete and in order while calls do not overlap (`LogInOrder`); the count is exact and pop's assertion holds however they overlap (`CountRight`); messages leave the queue (`Flushed`) and the process exits (`ShutdownEnds`) |

Bounds. Three slots are the least that tells wrap-around from full and empty; with
eight pushes each slot is reused at every offset. Three indices and four prices give
both a collision and free indices; three orders give a list with a first, a middle
and a last. Four levels let a side have an insertion before, between and behind; a fifth
add finds the order pool empty. Partial fills, and the faults that the regime of
`book_priority` excludes, happen in `engine`.
`MaxMarketOid` and `MaxPush` bound only the length of a behaviour. The pool run has
no such bound. Two requests are enough for a repeated, a skipped and a swapped
number, for a second request that is torn after a whole first one, and for a full
queue; `MaxPieces`, `MaxResponses` and `MaxTime` bound the gateway's environment.
A buffer of three pieces cuts a second request in two. In `engine` three requests
(`MaxRequests`) make a level with two orders, a trade and a cancel of what is left; a
queue of one (`QueueSize`) is both full and empty. In `logger` three calls
(`MaxCalls`) on two slots wrap around, overlap, and find the queue full; `MaxSwitches`
bounds the calls of `setLogFile`.
`StableLimit` is 1 in `gateway_rx`, so that two requests are enough for the sort to
exchange equal times: `PublishedInOrder` claims the order only while that has not
happened, and the rest of it in any case. `CHECK_DEADLOCK FALSE`: a behaviour may stop at those bounds, after
`destroy`, or after a crash.

Fairness. `LFQueue!FairSpec`: the consumer polls in an endless loop
(`runMatchingEngine`, `run`, `flushQueue`), and a push that was started is finished.
`MatchingEngine!EngineSpec`: the engine's thread is scheduled, though never owed the
fault of `ReadsOffStack`; nothing makes a request arrive, and neither start nor stop is owed. `Logger!Spec`: the writer, a call of `log`
that was started, and the signal handler with the destructor are scheduled; no thread
owes a new call, and nothing sends SIGINT. `OrderGateway!FairSpec`: the server thread is scheduled and
a join returns once its thread has ended; clients and engine owe nothing. That the
response loop ends rests on the engine not answering for ever (`MaxResponses`).
`engine`, `gateway_tx`, `logger` and `lfq` use no symmetry, as they check liveness.

Each property of a passing run has a mutant, an operator defined just before the one
it replaces and marked "Mutant", that changes the code as a plausible mistake would
and makes TLC find the property violated.

## 4. Violated properties

- `lfq_relaxed`: with late slot accesses a pop returns a stale slot. `push` and `pop`
  need a release on the update of the count (the implicit loads are already
  sequentially consistent).
- `book_remainder`: `order_book.h` says the remainder rests in the book; the full
  quantity does, because `matchOrder` subtracts from a pointer. As a consequence an
  aggressive order takes all the liquidity it reaches, whatever its quantity.
- `book_deeptail`: a new worst level behind two others is linked after the best one.
  The validity check of `toString` rejects the book, from a destructor.
- `engine_stop`: `matching_engine.h` says of `stopMatchingEngine` "Stops the matching
  thread." It asks a `jthread` to stop, but the loop never looks at the stop token, only
  at `isRunning_`, and nothing clears that: the loop goes on and the join never returns.
  The counterexample is under the fairness of the thread.
- `gateway_order`: `fifo_Sequencer.h` promises processing in the order of reception
  across sockets. Only requests of one pass are sorted, and a pass reads the sockets
  one after the other.

## 5. Proofs

All proofs are for every value of the constants, under the named assumptions of the
modules: sizes are positive, `Null` is no pointer, no message and no client
(`PointerAssumption`, `NullAssumption`), sides are out of three, and the level pool
has as many blocks as the price map has cells (`PoolAssumption`: the constructor of
`OrderBook` gives both `MAX_PRICE_LEVELS`). Some theorems have a hypothesis of their
own, named below: `UniqueIds` and `Regime`. Each is met by a run
of section 3 that checks the property in question. TLC checked each inductive
invariant on those runs before it was proved.

**MemoryPool.** The inductive invariant is `TypeOK`, `CursorAtFree` and
`OnlyCallersFail`: the cursor can only be trusted because the counter counts the
flags, so that "count is positive" yields a free block for the scan to find.
Theorems `TypeCorrect`, `CursorCorrect`, `AssertionsHold`, and `Refinement` of `PoolSpec`.

**LFQueue.** The invariant ties the two indices to `pushed` and `popped`, modulo
`Size`, with an offset that depends on where each thread stands between its two
updates, and says which slots hold which elements; it is needed because
`PopsInOrder` says nothing of the element already copied but not yet returned.
Theorems `TypeCorrect`, `InOrder`, `WindowSafe`, and `Refinement` of `FifoSpec` (push takes effect
at the increment of the count, pop at the decrement).

**OrderBook.** `IInv` is `BookInv` (types, `OrderRings`, `LevelRings`,
`ClientMapSound`) and `CallInv` (types, `SearchSafe`). The parts need each other:
`removeOrderFromBook` unlinks a whole level on the strength of `prev_ == order`,
which means "alone" only in a sorted ring (`RingAlone`); that no other level loses
its first order follows from the price map being injective (`LevelIndex`);
`cancelOrder` needs `ClientMapSound` to know that what it removes is in a ring.
`SortedRingProofs` has one lemma for each way of changing a list, `RemoveKeeps`,
`FillKeeps`, `AppendKeeps` and `NewLevelKeeps` lift them to the book, and each
action has a lemma. Theorems `TypeCorrect`, `OrderListsIntact`, `LevelListsIntact`,
`CancelsOwnOrders`, `SearchOnLiveLevels`: they hold with collisions, INVALID sides,
reused ids and ids out of range, up to the step in which a process crashes.

`FeedIsFaithful` (`FeedFollowsBook`) adds `FeedInv`: market order ids grow
(`IdsGrow`), no two resting orders have the same one (`IdsDiffer`), nothing is
published while a level is searched for (`SearchSilent`), and what is published has
one of three shapes (`UpdateShape`). Without distinct ids a CANCEL would take two
orders out of a subscriber's book. `LevelPoolSuffices` (`LevelBlockAvailable`) is a
counting argument: each level in use fills the one cell of its own index, so a free
cell leaves fewer levels than cells, and there are as many blocks as cells.
`RestingOrdersCancellable` (`Cancellable`), under `UniqueIds`, needs `IdInv`: an order
that is being added has an id no resting order of that client has (`FreshIds`), which
must survive every iteration of `findMatch`.

**Price-time priority.** The theorems of `PriceTimeProofs` assume `Regime`: requests are BUY
or SELL, no two prices share an index, and `DeepTails` is `FALSE`. Outside of it the code
does not keep them: `book_deeptail` shows one case, and prices that share an index share
a level. The inductive invariant is `SortedInv`.

- `SortedBook`: the levels of a side form a sorted ring, best price first, whose first node is
  the best pointer (`LevelsSorted`, `BestInv`). It is the same `Ring` that the orders
  of a level form, so that `SortedRingProofs` serves both. Levels hold one price and
  side, older orders are in front (`FirstCome`), and bids are below asks also
  during a call (`NeverCross`).
- `SortedCall`: the search of `addPriceLevel` has passed only levels that the new one goes
  after, and back at the best level it has passed all of them (`Passed`). That the
  new level is then linked right after the best one is correct only if the
  best one is alone: this is where `~DeepTails` is used (`NoDeepTail`, `SearchEnds`). While
  it searches, the taker reaches no order of the other side (`TakerClear`, established
  by `MatchedClear` when `findMatch` returns), without which resting it could cross the book.

Theorems `LevelsHoldTheirOrders`, `NeverCrossed` (`Uncrossed`), `PriceTimeKept`
(`PriceTimePriority`) and `BookPrintsSorted` (`SortedLevels`). For the last one,
`WalksItsBook` shows that following next pointers from the best level meets every level of
the side: of the levels not met, the one with the least distance in price from the best (`Least`, from the
well-foundedness of the naturals) has a better one before it, which was met.
`FaultsAreKnown` (`OnlyKnownFaults`): no freed level is followed, the destructor does not
throw, a write leaves the client map only for an id out of range, and a nullptr is followed
only when every order block is in use. The read of a fill is not excluded: any fill may
end in it.

**MatchingEngine.** Every step of the engine either is a step of the book or leaves
the book alone, so `IInv` and `FeedInv` carry over; `EngineInv` adds that the clients
owning resting orders, and the client of the call in progress, were heard of
(`OwnersHeard`), which `AnswersHeardClients` needs because a trade answers the owner
of an order that was added many requests ago. Theorems `SubscribersFollow`
(`FeedMatchesBook`: `FeedFollowsBook` summed over the whole run, up to the first lost
update) and `AnswersOnlyHeard`.

**OrderGateway.** Four layers, each proved action by action on top of the first.

- `TypeInvariance`: `TypeOK`, with where the thread stands (`LoopInv`: `turn` and `i`
  are inside the list and the buffer they index) and which half of a pass it is in
  (`HalfInv`).
- `SocketInvariance`, for `OneSocketPerClient` and `SocketKnown` (theorems
  `ClientsKeepSockets` and `AssertionHolds`): every client with a pending, forwarded
  or answered request has a socket, and what was forwarded came through it. That
  `respond`'s `ASSERT` cannot fail rests on the whole path from the first request.
- `FrameInvariance`, for `Framed` (`RequestsStayFramed`): the pieces in the buffer
  followed by those the kernel still holds are whole requests up to the last one,
  and `rxCallback` stops at a boundary. `Framed` alone is not inductive, since a receive
  may bring any piece.
- `ResponseInvariance`, for `RespondsInOrder` (`ResponsesInOrder`): what was delivered,
  what is in the buffer and the next number of each client follow one another.
- `TimeInvariance` and `NumberInvariance`, for `PublishedInOrder` (`RequestsInOrder`).
  `TimeInv` says that receive times grow along a connection: through the kernel's
  queue, the residue in the buffer, and the pending array. Therefore sorting by time
  cannot turn two requests of one client around, unless they have equal times and the
  sort exchanges them. `TimeInv` holds while `timely` does, and `timely` never comes back
  (`TimelyBefore`). `NumberInv` says that the numbers forwarded and pending of each client
  are distinct and, while `timely`, grow (`OrderInv`), lie below the expected one
  (`RangeInv`), and leave no gap (`CoverInv`); the last two need no assumption on times.

**Logger.** `TypeInvariance` has where the writer is (`WriterInv`). `CountInvariance`,
for `CountRight` (`CountIsRight`), balances the count with the calls that have stored
and not announced, however calls overlap. `LogInvariance`, for `LogInOrder`
(`LogsInOrder`), says what the writer has read (`ReadInv`) and, until two calls have
overlapped, which slots hold which messages while a call is between two accesses
(`PushInv`, `HoldInv`) and what is in the file (`WrittenInv`).

Only model-checked: liveness (`Delivered`, `HandlerReturns`, `EveryRequestHandled`,
`Forwards`, `SendsResponses`, `StopReturns`, `Flushed`, `ShutdownEnds`), out of the
prover's reach under fairness.

## 6. Not modelled, and the plan

Not modelled for good: string conversions, logging text, wire layout, thread
affinity, socket options (thin wrappers, or pure I/O). Integer widths: ids,
priorities and quantities are far from their limits in any run; the sum in
`toString` is not modelled. Of the TCP layer: failing system calls other than `listen`, closed connections
(the code never removes a socket), the client side of `connect`.

Remarks on the code that no run is about, as no property says more than one line does:

- `logger.h` calls the logger thread-safe and says all logs are flushed at the end.
  Overlapping calls may race for a slot (`race`), and what is queued when `running_` is
  cleared stays there; `LogInOrder` and `Flushed` state what is left.
- A market order id is unique per book, not per market as its comment says: each book
  counts for itself.

Left to do, on the modelling side: a composition of gateway and engine at an abstract
book would join what `AnswersHeardClients` and `engineAnswers` join by hand.
