# options-engine in TLA+

A model of the limit-order-book engine in `src/` and `include/`: modules that
translate the code, TLC configurations that check them on small instances, and
TLAPS proofs of the central properties for instances of every size.

## The system

| Part | Code | Owner at run time |
|---|---|---|
| Order book: two sorted arrays of price levels, intrusive lists of orders, matching | `src/core/order_book.cpp` | one thread per book |
| Slot pool: LIFO free list of order slots | same file, `SlotPool` | inside a book |
| Order index: open-addressed map from order id to slot | same file, `OrderIndex` | inside a book |
| SPSC queue: ring between two threads | `include/core/spsc_queue.hpp` | one producer, one consumer |
| MPMC queue: Vyukov queue | `include/core/mpmc_queue.hpp` | any threads |
| Matching engine: a thread between an inbound and an outbound SPSC queue, with a book per symbol | `src/core/matching_engine.cpp` | one thread |
| Demo: main thread, simulation thread, signal handler around an engine | `src/main.cpp` | three threads |
| Market data ingestion: datagrams to messages, gap detection | `src/core/market_data.cpp` | feed thread |
| Execution layer: reports to positions | `src/core/execution_layer.cpp` | one thread, or its caller's |
| Logger: an SPSC queue and an I/O thread | `src/util/logger.cpp` | one logging thread, one I/O thread |
| Latency histogram: atomic counters | `include/util/histogram.hpp` | any threads |
| Trace writer and order-flow replay | `include/core/replay.hpp` | one thread, and an engine |
| Multi-symbol engine: shards | `include/core/multi_symbol_engine.hpp` | template, never instantiated |
| Pool allocator, deterministic replay harness, perf counters, `function_ref` | `include/util`, `src/util`, `tools/` | various |

A message enters through `MatchingEngine::submit` (an SPSC push), is popped by
the engine thread and applied to the book of its symbol; the book calls back
once per fill; the callback pushes a report on the outbound queue, where
`poll_report` finds it.

## Modules

The state variables and actions carry the names of the members and functions
they stand for.  History variables, which no action reads to decide anything,
are marked `history` in the declarations.

**`Types`, `BookTypes`** - prices, quantities (modulo `QtyMod`, for `2^32`),
orders, reports, and the parallel arrays of `Side` and `SlotPool` seen as one
record per index.  A position `-1` or `NULL_IDX` of the code is `0` or the
constant `NULL_IDX`; array positions count from 1.

**`Levels`, `Lists`** - the pure parts of the book: finding, inserting and
removing levels (`memmove` of five arrays is `InsertAt`/`RemoveAt`), and what
linking and unlinking a slot does to a level and to the slots.  The AVX2 and the
scalar search compute the same function and are one operator.

**`OrderBook`** - the book.  `add_order` decides fill-or-kill and enters the
matching loop; `FillPartial` and `FillAndDequeue` are one pass of `try_match`'s
inner loop (with the level removal that may follow); `FinishUnrested`,
`RejectNoLevel`, `RejectNoSlot` and `RestOrder` are the ways `add_order` ends;
`cancel_order` and `modify_order` are one step each.  A fill is a step because
the match callback shows it to the outside.  `fifo` (history) is the queue of
slots at each price, `ledger` (history) what should be resting according to
reports and results.  The pool is used as "some free slot" and the index as a
map; the next two modules show that the code behind them is that.

**`SlotPool`**, **`OrderIndex`** - the free list and the hash table in detail.
`OrderIndex` chooses the hash function in `IndexInit`; `remove` re-probes one
entry per step.  **`BookStore`** puts the two together with the ids kept in the
slots and calls them the way `add_order`, `cancel_order` and `try_match` do.

**`PriceTimeBook`** - what a book promises, with one queue of orders per price
and nothing else.  **`OrderBookRefinement`** maps `OrderBook` to it.

**`BoundedQueue`** - what a queue promises.  **`SPSCQueue`** and **`MPMCQueue`**
implement it, one atomic access per step.  An acquire load may return any value
the variable has had since the loading thread last saw it (SPSC), or ever (MPMC,
whose loads are decided only by the compare-and-swap that follows).  A CAS may
fail spuriously.

**`Logger`** - extends `SPSCQueue`: `log` is its push, `drain_loop` its consumer,
and a third thread calls `start` and `stop` at any time.  `SeenInOrder` is the
x86 guarantee that a load after the one that returned `false` from `running_` is
at least as new.

**`MatchingEngine`** - the engine thread against a producer, a poller and a
caller of `start`/`stop`.  The check of `running_` and the pop are separate
steps.  Its queues are bounded FIFO queues, which `SPSCQueue` implements.  A book
is the sequence of operations applied to it and a new order executes any number
of times up to `MaxFills`.

**`Demo`** - `main()`, `run_simulation` and the signal handler composed with
`MatchingEngine`, whose actions it calls.

**`MarketData`** - `ingest` is one action with all of its returns; a datagram is
its number, its type and at most one flaw, and any message of the feed may arrive
at any time.  **`ExecutionLayer`** - `process_report` on integers, the thread with
its batches and its drain, and direct calls of `poll`.  **`Pipeline`** composes
the two: `Forward` is the program that carries messages through an engine, whose
fills are fixed with the feed.

**`LatencyHistogram`** - the bucket arithmetic as operators, `record` and
`take_snapshot` one atomic access per step.  `percentile` takes thousandths where
the code takes a `double`.

**`Replay`** - extends `MatchingEngine`: a `TraceWriter` whose output stdio
buffers, a crash, a full disk, and `OrderFlowReplay::replay` in `MaxSpeed` mode
with its bounded retries.

`MC*` modules hold the sets the configurations need.  An operator whose comment
begins with "Mutant" is a plausible bug in the definition below it, kept to show
that a property can tell.

## Runs

| Run | Configuration | States | What it shows |
|---|---|---|---|
| `book_core` | `OrderBook_core.cfg` | 1.4 M | Lists, counts and links equal the queues they stand for, also after rollbacks; level quantities are right modulo 2^w; levels sorted; no slot leaked or shared; index entries lead to live orders; quantity conserved |
| `book_stp` | `OrderBook_stp.cfg` | 258 k | Never crossed between operations; fill-or-kill all or nothing; every resting order found by id; price-time priority and no self-trades; implements `PriceTimeBook`; every operation returns |
| `store` | `BookStore.cfg` | 269 k | The free list is a chain over exactly the free slots and `used` counts the others; the table is the map it stands for and stays compact; an entry never leads to a freed or reused slot; removal ends |
| `logger` | `Logger.cfg` | 187 k | No data race and a FIFO queue under stale loads; `stop` writes what was logged before it and returns; records come out |
| `mpmc` | `MPMCQueue.cfg` | 438 k | Exclusive cells; pops in claim order; sequence numbers advance as documented; implements the FIFO queue |
| `engine` | `MatchingEngine.cfg` | 698 k | Messages applied once, in order; `stop` drains and returns; synthetic ids unique; reports accounted for |
| `demo` | `Demo.cfg` | 27 k | A signal ends the program; no accepted message is left unprocessed |
| `pipeline` | `Pipeline.cfg` | 4.3 M | If no statistic and no full queue shows trouble, the positions are those of an unbroken part of the feed; realized profit agrees with cash; `stop` books what was queued |
| `histogram` | `LatencyHistogram.cfg` | 647 k | No sample and no maximum lost; a snapshot lies between what was recorded before and after; percentiles right up to a bucket |
| `replay` | `Replay.cfg` | 144 k | The engine gets the recorded messages in order, without those counted as skipped; nothing of a crashed recording; replays end |
| `demo_reports`, `demo_loop` | `Demo_*.cfg` | - | Findings 1 and 2 |

### Bounds

- `book_core`: three slots are enough for a middle element of a list; with two
  levels per side and three prices the level table fills, with three slots the
  pool fills, both with and without a level to roll back; with `QtyMod` 3 two
  orders of quantity 2 already wrap a level's quantity.  Callers may submit the
  id of a resting order.
- `book_stp`: two accounts and the untracked account 0, unique ids.  Two slots
  put a wall behind another order of its level or on the next level.
- `store`: three slots, three ids, which may be reused, and six cells, as in the
  code (`kTableSize = 2 * kMaxOrders`), under every hash function up to rotation,
  so every pattern of collision and wrap-around, and an exhausted pool.
- `logger`: a ring of four cells, two values, unboundedly many records and
  restarts.
- `mpmc`: two cells, three pushes (`MaxPushes`), so that each cell is reused.
- `engine`: queues of two places, three messages (`MaxMessages`), two executions
  per order (`MaxFills`), two starts (`MaxStarts`); a message for a symbol beyond
  the table and messages for symbols not registered.
- `demo`: the same with one symbol and one start.
- `pipeline`: feeds of three messages, which open, close, add to and turn round a
  position, and four datagrams (`MaxDatagrams`), so that one can be repeated or
  late; queues of one and two places, so that both fill, and a batch of one, so
  that the drain has more than a batch to do.
- `histogram`: three threads, three records (`MaxRecords`) between resets, and
  latencies on both sides of the first range limit, inside a wide bucket and in
  the overflow bucket.  Threads are symmetric.
- `replay`: three events (`MaxEvents`), two replays (`MaxReplays`) of the file,
  two tries of `submit` for the code's 1000 (`kSpins`), a queue of one place, one
  event of warm-up.

`CHECK_DEADLOCK FALSE` is used where the system really ends: a stopped engine
with no more messages, a finished program, a table that has been filled.

### Fairness

- Book and store: an operation that has started is carried on by its own thread
  (weak fairness of the continuing steps); nobody need start one.
- Logger: a push that has begun is finished, the I/O thread runs and a `join`
  whose thread has exited returns; strong fairness of the load that returns the
  newest position, because the memory model makes stores visible in finite time.
  Nobody need log, start or stop, and `StopEnds` supposes that logging ceases.
- Engine: the engine thread runs, and a `join` whose thread has exited returns.
  Producers are not fair, and `MaxMessages` makes them go quiet in the end: the
  drain loop has no other end, so `stop` need not return under a producer that
  keeps submitting.
- Demo: the three threads run and the simulation's deadline passes.  No signal
  need come.
- Replay: the replaying thread and, once started, the engine's thread run.
- Pipeline, histogram: safety only, no fairness.
- MPMC: no fairness and no liveness: a thread stalled between claim and release
  makes others report full or empty, by design.

## Findings

1. `src/main.cpp:150` "Drain remaining reports." happens before `engine.stop()`,
   which still executes messages.  `EveryReportReceived`.
2. `src/main.cpp:139` "Check if sim thread is done." tests `joinable()`, which
   stays true until `join()`; without a signal the loop never ends.
   `LoopEndsWithSim`.

Met on the way, not checked by a run: reports carry no sequence number, although
`matching_engine.cpp:113` wants gaps detected by one; `add_order` returns false
also after it has reported fills (capacity rejection of the remainder); messages
handled by the drain loop are not counted in `messages_processed`; synthetic ids
and client ids both start at 1; the comment in `spsc_queue.hpp:17` that a relaxed
store of `read_pos_` would suffice is not what the code does (it uses release,
and the model relies on it: a producer that sees the position may overwrite the
cell); the hash of the index maps consecutive ids to cells 0.618 apart, so ids
handed out in sequence pile up and probes grow longer than the 1.5 cells of
`docs/design.md:292`; `ingest` counts nothing when its queue is full, after the
expected number has advanced; `avg_cost` keeps the first price when a fill adds to
a position or turns it round (`BooksBalance` excludes the two); the upper bound
of the histogram's overflow bucket lies below its lower bound; `ReplayResult` has
counters without initial values, to which `replay` only adds.

## Proofs

| Theorem | Module | For every |
|---|---|---|
| `BookWellFormed`: `TypeOK`, `ListsMatchQueues`, `LevelsSorted`, `NotCrossed`, `IndexSound` always hold | `OrderBookProofs` | set of prices, ids, slots, inputs; number of levels; unique ids or not |
| `FillsHonourPriority`: `PriceTimePriority` | `OrderBookProofs` | same |
| `FreeList`: `FreeListExact` | `SlotPoolProofs` | pool size |
| `Safety`: `TypeOK`, `NoDataRace` | `SPSCQueueProofs` | capacity above 1, any values |
| `Refinement`: implements `BoundedQueue` | `SPSCQueueProofs` | same |
| `BucketHolds`: a latency lies within the bounds of its bucket | `LatencyHistogramProofs` | latency (upper bound: below 1 ms) |
| `MaxIsLargest`: `MaxCovers`, the part of `QuietIsExact` about the maximum | `LatencyHistogramProofs` | set of threads and latencies, number of records |
| `Balance`: `BooksBalance` | `ExecutionLayerProofs` | set of symbols and reports, queue length, batch |
| `StopBooks`: `StopBooksAll` | `ExecutionLayerProofs` | same |
| `Exclusive`: `ExclusiveCells` | `MPMCQueueProofs` | capacity above 1, set of producers, consumers and values |
| `PopOrder`: `PopsInClaimOrder` | `MPMCQueueProofs` | same |
| `Advances`: `SequenceAdvances` | `MPMCQueueProofs` | same |
| `Refinement`: implements `BoundedQueue` | `MPMCQueueProofs` | same |

Assumptions: those named in the modules (`TypesAssumption`, `RecordsAssumption`,
`BookAssumption`, `PoolAssumption`, `QueueAssumption`, `HistogramAssumption`,
`ExecAssumption`, `MPMCAssumption`): prices are integers, the pool is finite,
markers are not values, an input has all of its quantity left, no thread is both
producer and consumer.

**Book.**  The invariant `IInv` is `BookOK /\ OpInv`.  `BookOK(levels, slots,
index, fifo)` says that the levels are sorted and describe the queues, that each
queue is linked in both directions and no slot occurs twice in the queues, and
that index entries lead to queued slots with their id.  It is stronger than the
checked invariants exactly where they are not inductive: without "no slot occurs
twice" an unlink could damage another queue.  `OpInv` types the operation in
progress and says that outside matching the best prices do not cross.  The
argument is layered: `LevelLemmas` shows what linking and unlinking do to one
queue and what inserting and removing do to a sorted array,
`BookLemmas` that each edit (leave, change quantity, move to the tail, rest)
preserves `BookOK`, and `OrderBookProofs` that each action is such an edit.
`NotCrossed` after resting needs that `try_match` returned without a wall, so the
opposite best does not cross the order (`RestClear`).  `FillsHonourPriority`
follows from `IInv`: in a sorted array with a level for every queue nothing is
better than the first level, whose head is its queue's oldest order.

**Pool.**  `PoolInv` relates `free_nexts` and `free_head` to the history variable
`stack` and `stack` to `live`; cardinalities come from `FiniteSetTheorems`.

**SPSC.**  The invariant orders the four positions on the ring: what the producer
has seen of `read_pos_`, `read_pos_` itself, what the consumer has seen of
`write_pos_`, `write_pos_`.  An old `rseen` only makes the ring look fuller, an
old `wseen` emptier.

**Histogram.**  `MaxInv` adds to `MaxCovers` what a thread in the loop knows: its
latency has been counted as begun, and `cur_max` is a value the maximum has had,
so no larger than it is now.  A thread leaves the loop only when its latency is
not above `cur_max` or has just been stored, and the maximum never falls, except
by `reset`, which finds no thread inside.

**Execution layer.**  `BookInv` adds the types of the queue and the positions to
`BooksBalance`.  `FillBalances` is the algebra of one fill, by cases: from a flat
position, at cost in either direction, and closing a part or all at any price.
`StopInv` says that what `stop` still owes is at the front of the queue, and that
the thread is in the final drain, or has left, only after `stop` was called.

**MPMC.**  `MPMCInv` has one conjunct per party.  `CellOK`: a cell waits for a push
less than a lap ahead of the pops, or holds the item claimed at the position before
its sequence number.  `ProducerOK` and `ConsumerOK`: the sequence number a thread
loaded may be old, so before its compare-and-swap it is only a lower bound; when
the swap succeeds, `CellOK` bounds the number from above, the two meet, and the
cell stays as it is until the thread releases it.  Two threads inside one cell
would have positions less than a lap apart in the same cell (`SameCell`), so the
same position, which is claimed once (`Distinct`).  The refinement maps the queue
to the claimed items not yet popped; only the two swaps change it.

Only model-checked: liveness (needs fairness and `ENABLED`, outside the prover);
`Conservation`, `LevelQuantities`, `FillOrKill` (sums and folds over sequences
need induction over data); `SlotsPartitioned`, `IndexComplete`; the refinement of
`PriceTimeBook` (`MapThenSumSet`, `FlattenSeq`); `OrderIndex`, `BookStore`,
`MatchingEngine`, `Demo`, `Logger` beyond its ring, `MarketData`,
`Pipeline` and `Replay`; the sums of the histogram.

## Not modelled

Abstractions: timestamps, statistics that nothing reads, printed text, thread
pinning and priority, `mmap`/`mlock`.  `running_` and `g_shutdown` are read
relaxed; the build is x86 only (`__builtin_ia32_pause`), where the later acquire
load is not reordered before them, and the models take their current value.
Datagrams hold the bytes their header announces: `ingest` asks `subspan` for them
before it checks.  `log` is called by one thread, as the ring requires.

- Multi-symbol engine: the template calls members that do not exist
  (`SPSCQueue::push`, `MatchingEngine::on_message`), so nothing of it runs.
- Pool allocator: the slot pool's free list again, in the objects themselves, and
  used by no other component.
- Replay in the `WallClock` and `Throttled` modes: sleeps computed from the clock.
- `tools/replay_trace.cpp`: parsing and printing around one book, sequential.
- `get_position` of the execution layer: it changes nothing, and calling it while
  the thread runs is a data race on the map as a whole.
- `perf_counters` (system calls), `function_ref` (no state), benchmarks and the
  fuzz driver (drivers only).

Proofs still open: `SlotsPartitioned` and `IndexComplete` for the book;
`AppliedInOrder` and `StopDrains` for the engine; `Compact` for the index.
