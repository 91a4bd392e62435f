# Formal verification of the Order Flow Engine

TLA+ specifications of the Order Flow Engine (OFE), the TLC configurations that
check them on small instances, and proofs of their most important properties
for every value of the constants.  `PROJECT.json` ties every definition to the
lines it models and lists runs, mutants, hazards, findings and theorems.

The repository holds two implementations of the engine.

* **A**, the header-only library under `include/ofe/`: the code the top-level
  `README.md`, `tests/` and `examples/` describe and build.
* **B**, the first-session code under `ofe_session1_code/ofe/` (`src/*.cpp` and
  `include/`), an earlier design with a logger and a registry of symbols.
  `ofe_session1_code/ofe_session1/` repeats it file by file and is not modelled
  separately.

## 1. Inventory

### Threads and data flow

```
feed threads --route/dispatch--> TickRouter --> ring or shard queue
                                                     |
                        SymbolWorker (one thread per symbol) pops
                                                     |
     stages: classify -> bars -> delta, profile, VWAP, imbalance -> signal
                                                     |
                                                 EventBus
any thread --write--> Logger queue --I/O thread--> dated files        (B only)
```

Ticks and records pass between threads in four places only: the ring buffers (lock-free, two threads),
the shard queues of A's router (a mutex each), the registry of B's router (a
shared mutex around B's rings) and the logger's queue (a mutex and a condition
variable), and in the start/stop protocol of the worker. Everything a worker
does to a tick is sequential. Beside this flow, API threads register symbols
under quotas that come from the configuration.

### Components of A

| Component | State | Operations | What is hard | What makes it correct |
|---|---|---|---|---|
| `RingBuffer` | `head_`, `tail_` (free-running), slots with placement-new objects | `emplace`, `try_push`, `try_pop`, `clear`, `empty`, `size_approx`, destructor | two threads, late loads, counters that wrap, object lifetimes | never two threads in a slot, each object built and destroyed once, a bounded FIFO queue |
| `SymbolWorker` | `running_`, `worker_`, ingress ring, stages, bus | `submit`, `start`, `stop`, `run`, `set_stage`, `set_event_bus` | racing starts, a thread constructor that throws, restart with ticks waiting | one consumer at a time, the flag tells the truth, every tick once through the whole pipeline, `stop` returns |
| `TickRouter` | shard queues and mutexes | `dispatch`, `try_pop` | several feeds and workers per shard, unfair mutex | per-symbol order, nothing lost or stuck |
| `BarEngine`/`BarSeries` | series per symbol, bar in progress, completed bars | `add_series`, `ingest`, `completed`, `clear_completed` | which bar a tick belongs to when it closes one, clears, thresholds of zero, timestamps out of order | bars partition the ticks and say what the ticks say |
| `LeeReadyClassifier` | none | `classify` | locked and crossed quotes | differs from the sides the bars take where it is known to, and nowhere else |
| `DeltaEngine` | cumulative, extremes, last close | `update`, `reset` | session boundaries | sums of the bars of the session |
| `VolumeProfileEngine` | volume per price | `add`, `reset`, `snapshot` | ties, edges, empty levels in the value-area walk | covering and minimal value area |
| `VwapEngine` | running sums | `add`, `reset`, `snapshot` | variance as a difference of sums | is the weighted variance |
| `ImbalanceDetector` | none | `compare` | zero volumes, both sides at once | flags are consistent with each other |
| `SignalDetector` | none | `evaluate` | contradicting evidence | the type of a signal tells what it should of the session |
| `SymbolQuotaEnforcer` (`api_server.h`) | limits per tier under a mutex | `set_limits`, `can_allocate` | a verdict on a count read before, used after the lock | racing registrations overshoot by a known number at most |
| `EngineConfig` | 48 fields | `from_yaml`, `load_from_file` | a conversion that throws half way, keys that go away | a key that is missing, null or gone has its default |
| `EventBus`, feed adapters, `IApiServer`, `LicenseEngine` | interfaces, input | | | not modelled (section 8) |

### Components of B

| Component | State | Operations | What is hard | What makes it correct |
|---|---|---|---|---|
| `SPSCRingBuffer` | masked indices, one spare slot, drop counter | `try_push` (copy, move), `try_pop` | full/empty at the wrap, several producers | no slot conflict, FIFO, drops counted |
| `TickRouter` | symbol map under a shared mutex, three counters | `register_symbol`, `unregister_symbol`, `route` (copy, move) | a ring destroyed while routed into; counters read again for a warning; adapters sharing a symbol | a released ring is never touched, counters account for every tick |
| `Logger` | queue, batch, open file, size, date | `init`, `write`, I/O loop, rotation, purge, `shutdown` | shutdown against the last batch, rollovers, files that do not open, `init()` on a live logger | what was queued is written once and in order unless no file opened, the current file survives |
| `LeeReadyClassifier` | prevailing quote, last price and side | `classify_trade`, `update_quote` | unclassified trades | once classified, always classified |
| `BarEngine`/`BarSeries` | up to four series, footprint levels | `on_tick`, `on_session_open`, `on_session_close`, `add_series`, `remove_series` | a bar is found due before the tick is counted; forced closes | footprints are those of the trades, bars close when due |
| `DeltaEngine` | bar and session sums, moving average | `on_tick`, `on_bar_close`, `on_session_open`, four detectors | sums kept apart from the bars' | agree with the bars; surges stand out |
| `ImbalanceDetector` | zone registry | `detect_all` | order of its five steps, streaks over a vector | stacked signals are those of adjacent prices |
| `SymbolWorker`, `EventBus`, `SignalDetector`, API, license, config, feed | headers only | | | no implementation in the repository |

The hazards these lead to are listed one by one, at their lines, in
`PROJECT.json`.

## 2. Modules and plan

The order is the order of importance: what threads share first, then the
sequential engines.

1. Core of A: `BoundedQueue` (what a ring promises), `RingBuffer` (implements
   it), `SymbolWorker` (uses a bounded queue as its ingress and is one itself),
   `OrderedStreams` (what a router promises), `TickRouter` (implements it).
2. The threaded parts of B: `RingBufferS1`, `TickRouterS1` (extends the ring
   and composes it with the router's registry), `Logger`.
3. Engines of A as pure operators, `LeeReady`, `BarSeries`, `DeltaEngine`,
   `VolumeProfile`, `VwapEngine`, `ImbalanceDetector`, `SignalDetector`,
   composed by `SymbolPipeline`.
4. Engines of B the same way: `LeeReadyS1`, `BarSeriesS1`, `DeltaEngineS1`,
   `ImbalanceDetectorS1`, composed by `SymbolPipelineS1`.
5. Configuration and quotas of A: `EngineConfig` (how a file is read),
   `SymbolQuota` (extends it with the enforcer and the threads that ask it).
6. Proofs: `RingBufferProofs`, `SymbolWorkerProofs`, `TickRouterProofs`,
   `TickRouterS1Proofs`, `LoggerProofs`, `SymbolPipelineProofs`,
   `SymbolPipelineS1Proofs`, `SymbolQuotaProofs`.

A module `XMC` gives `X` its values for TLC; a module `XProofs` proves
theorems about `X`. A definition that follows a comment "Mutant:" is not part
of a specification; it is the same operation with a plausible mistake, and
replaces it to show that a property notices.

All of these exist. What the plan has left is in section 9.

## 3. How the models correspond to the code

**RingBuffer** (`include/ofe/core/ring_buffer.h`). `head`, `tail` and `slots`
are `head_`, `tail_` and `storage_`; the counters run modulo `IndexModulus`
(2^64 in the code) and only the slot number is masked. A push is
`TryPushRoom`/`TryPushFull` (the two loads and the comparison),
`PushConstruct` (placement new) and `PushPublish` (the release store); a pop
is `TryPopReady`/`TryPopEmpty`, `PopMove`, `PopDestroy`, `PopPublish`;
`clear` repeats pops. An acquire load may return *any* value the other index
has had since this thread last looked (`tailSeen`, `headSeen`), which is what
the C++ memory model allows for one atomic; the release/acquire pair is what
makes the slot's contents visible with the index. `BoundedQueue` is the
abstract queue, `Queue == INSTANCE BoundedQueue WITH ...` in `RingBuffer` the
refinement mapping (the elements between the indices, oldest first: a push
takes effect when `head_` is stored, a pop when its object is moved out).
`BoundedQueue` loses elements in one step only, `Close`, which is the
destruction of the buffer and after which nothing happens.

**SymbolWorker** (`symbol_worker.h`). `start()` is the compare-exchange
(`StartCas`), the creation of the thread (`Spawn`, which may throw) and the
assignment of `worker_`; `stop()` is the exchange and the join; `run()` is
split at the flag check, the pop, every stage and the publication. The ring is
a bounded sequence, which `RingBufferProofs` justifies.

**TickRouter** (`tick_router.h`). A call is split at the acquisition of its
shard's mutex and at the access to the deque: a critical section works on the
deque it found when it began (`seen`) and writes back the result. Two sections
of a shard that overlapped would undo each other's work, so order and
completeness depend on the mutex. One worker per symbol polls its shard.

**TickRouterS1/RingBufferS1** (B's `tick_router.cpp`, `ring_buffer.cpp`).
`route()` is split into the lookup, the three steps of `try_push`, the counter
and the second load of the counter for the warning. The set of adapters inside
`route()` stands for the shared mutex: register and unregister need it empty.
`warned` keeps, for each adapter and reason, the counts it warned at.

**Logger** (`logger.cpp`). Everything a `LoggerImpl` keeps is indexed by the
object, as two can live at once: `init()` on a live logger builds the new one
(`StartSession`: its file is opened and its thread runs), sets `g_impl`
(`AssignImpl`) and then destroys the old one, whose join returns in `Joined`;
`Shutdown` is the same without a new one. `Write` is `write()` and `enqueue()`;
`IoTake` swaps the queue for an empty batch; `IoCheck` is the loop's condition.
`write_record()` is split where another thread's file operations fit in between:
`IoDayRollover` opens the file of the new day and `IoPurge` removes old ones;
`IoRename` closes and renames a full file and `IoReopen` opens the next;
`IoWrite` appends the record. Opening may fail; a rename of a name that is gone
throws and ends the process (`IoRenameThrows`). A file is a sequence of records
and keeps its identity when it is renamed, an open stream goes on with it; a
record counts one unit of size; dates only move forward. `outcome` remembers
for every record which file took it, or that none was open, `failures` the days
whose file an object could not open, `shared` the objects that have overlapped.

**SymbolQuota/EngineConfig** (`api_server.h`, `engine_config.h`). A
configuration file gives each key a value, null, nothing, or something that
does not convert; `FromYaml` is the rule `read_value` applies to all 48 fields,
and a file that makes `as<T>()` throw is no `LoadConfig` step. `SetLimits` and
`CanAllocate` are the enforcer's two methods, one lock each; `Count`, `Add` and
`Remove` are the server behind `IApiServer`, which the repository does not have
and which is marked external: it follows the names and parameters of the
interface, and its threads interleave freely between the enforcer's calls.

**SymbolPipeline** (A) and **SymbolPipelineS1** (B). Each engine is a module
of operators on its state record, named like its methods, and the pipeline's
variables are the engines' states. `Ingest`, `AddSeries`, `ReadCompleted` and
`ResetSession` are A's actions; `Quote`, `Trade`, `TradeUnclassified`,
`SessionClose`, `SessionOpen`, `AddSeries` and `RemoveSeries` are B's. The
wiring of the stages is the user's in A (README, "The Big Picture") and only
declared in B (`include/core/symbol_worker.h`): the order of the stages is
taken from there and the definition that stands for it in B (`Analyse`) is
marked external. The delta engine is fed by the completed bars of the first
series in A, by every trade and by the bars of the series `main` in B. Prices
are whole ticks, and sums of doubles are exact integers; divisions are avoided
by multiplying out.

## 4. Runs: what is checked, and within which bounds

Twelve runs, one per question. A passing run holds in all the states listed; a
"violation" run refutes one sentence of the repository's documentation
(section 6). Every property of a passing run has a mutant in `PROJECT.json`
that it catches under the same configuration.

| Run | States | Bounds |
|---|---|---|
| `ring` | 75 366 | capacity 4, counters modulo 16, two values |
| `worker` | 20 120 | two callers, ring of 2, two stages, 3 ticks, 2 threads, thread creation may fail |
| `router` | 179 296 | two feeds of 2 ticks, symbols 0, 1, 2 on two shards |
| `s1_routing` | 4 378 895 | two adapters, three symbols (one never trades), four rings of 4 slots, 5 ticks, limit of 2 symbols, 3 registry changes, warning periods 3 and 2 |
| `s1_shared_feed` (violation) | | both adapters carry both symbols, one ring |
| `logger` | 433 896 | queue of 2 records, files of 1, 1 file kept, 4 records, 2 days, 2 calls of `init()` (the second after a shutdown or on a live logger), opening may fail |
| `logger_rotation` (violation) | | one day, one call of `init()`, files and queue of 2 records, 5 records |
| `pipeline` | 445 557 | 4 ticks of 6 kinds, one series of 4 kinds, 2 reads or resets |
| `pipeline_cvd` (violation) | | as `pipeline` |
| `s1_pipeline` | 385 983 | 4 ticks of 8 kinds, two of three series, 1 session edge, 2 series changes |
| `s1_zones` (violation) | | as `s1_pipeline`, one change |
| `quota` | 69 734 | three API threads, two tiers and one other key, limits 0 to 2, three files (one with a missing key, one with a null, one that does not convert) |

Why the bounds are enough for what they are asked:

* `ring`: four slots and sixteen counter values let the counters wrap after
  four laps, so every slot is reused under different counter values and every
  late load spans up to a full lap. The proofs remove the bound.
* `worker`: two callers suffice for a race of `start()` with itself; two
  threads for a stop and a restart with ticks left; a ring of two for a refused
  `submit()`. The proofs remove the bounds, for the lifecycle and for the ticks.
* `router`: symbols 0 and 2 share a shard, 1 has its own, so both sharing and
  independence happen; two feeds contend with two workers for one mutex.
* `s1_routing`: a ring of four slots holds three ticks, so ticks wait behind
  each other and across the wrap, producer and consumer are in slots of one ring
  at once, and five ticks fill it and drop; `es` may move to a second ring and so release the first; three
  changes allow register, move, unregister; the third symbol meets the limit.
* `logger`: four records exceed the queue and fill several files; with one file
  kept the second day purges; two calls of `init()` reopen a file that exists or
  overlap, which is all `g_init_mutex` allows.
* `pipeline`: the feed has a trade at each side, one inside the spread, one
  without size, a locked and a crossed quote, and timestamps that go
  backwards; thresholds include zero; four ticks close up to four bars.
* `s1_pipeline`: four prices in a row and volumes of 20 and 60 make ratios
  above and below 3, stacks of two, deltas that turn, and every way a trade is
  classified; each bar type closes within four ticks, and a fourth size is one
  the constructor of `BarSeries` throws on.

* `quota`: three threads overshoot a limit by two; limits go up and down, so
  verdicts go stale both ways. Registrations need no bound of their own: the
  property bounds them.

`CHECK_DEADLOCK FALSE` stands in every configuration but those of the router
and the quotas: bounded
feeds end, a destroyed ring takes no step, nobody is obliged to start a worker.
The router's workers poll and a configuration
can always be loaded again, so there TLC checks for deadlock too.

### The properties

* `ring`: `NoSlotRace` (no plain access of the two threads meets in a slot),
  `LifetimesExact` (exactly the slots between the indices hold an object),
  `OwnerObservationsHold` (what a thread learns from `empty`/`size_approx` it
  can rely on), `ImplementsBoundedQueue` (refinement), `EveryElementLeaves` and
  `RetriedPushAccepted` (liveness).
* `worker`: `AtMostOneLoop`, `FlagMatchesLoop`, `NeverTerminates` (no
  assignment to a joinable `std::thread`), `TicksConserved` (processed, in
  hand and waiting ticks are the accepted ones in order, also those that a
  `stop()` leaves for the next loop), `PublishedComplete`
  (action property: published only after every configured stage, once, in
  order), `AcceptedIsProcessed` and `StopCompletes` (liveness).
* `router`: `TicksKept` (order and completeness),
  `EveryTickIsPopped` (liveness).
* `s1_routing`: `ReleasedRingUntouched` (after `unregister_symbol` returns no
  adapter is inside a push to the ring, which its owner may destroy),
  `StatsAccount`, `WarningsRare` (for each adapter), `NoSlotConflict`,
  `DeliveryExact`.
* `logger`: `RecordsConserved` (what the queue took is in the file that was
  open, in none after a failed open, in the batch or waiting, once and in order),
  `CurrentFileKept` (for an object that has never overlapped another),
  `EveryRecordSettled` and `ShutdownCompletes` (liveness; both except a process
  that a throwing rename has ended).
* `pipeline`: `BarsMatchTicks`, `BarsCloseOnThreshold` (a bar is closed by the
  first tick with which its ticks reach the threshold, neither before nor after
  it), `DeltaMatchesBars`, `VarianceExact`, `ValueAreaSound`,
  `ClassifiersDifferInside` (exactly when the bars and the classifier take opposite
  sides of a trade), `SignalFitsSession` (what each type of signal tells of the
  session's ticks and bars); each compares an engine's running state with a
  definition over the history of ticks, or two engines with each other.
* `s1_pipeline`: `BarsMatchTrades`, `BarsCloseWhenDue`, `DeltaMatchesTrades`,
  `SurgeStandsOut`, `StackSignalsExact`, `ClassificationSticks`.
* `quota`: `OvershootBounded` (at most one symbol for each thread but one above
  the highest limit there was).

Where code and documentation differ and no run is left for the difference, the
property is stated so that both readings satisfy it, and a theorem says which of
them the code has (`DeltaMatchesBars`, `BarsCloseWhenDue` and `DeltaMatchesTrades`;
section 6 lists the theorems).

`RingBuffer!TypeOK` is proved and not run again. The worker's, the router's
and the other types are part of the invariants the proofs use.

## 5. Fairness

Only weak fairness of threads that exist and are able to run is assumed.

* `RingBuffer`: both owners keep calling (the worker's loop polls, a feed
  retries), and a stored index becomes visible in finite time. Nothing is
  assumed about `clear` or destruction.
* `SymbolWorker`: a live loop takes steps (a handler returns), a lifecycle
  call that has begun goes on. Nobody has to submit, start or stop.
* `TickRouter`: workers poll; a call that holds or can take its mutex goes on.
  The mutex is *not* fair: only weak fairness of `Acquire` is assumed, so a
  thread may lose every race for it. `EveryTickIsPopped` holds all the same,
  because feeds dispatch finitely many ticks and an idle worker finds the lock
  free again.
* `Logger`: the I/O thread is scheduled and a join that can return does.
* The pipelines and B's router have safety properties only. In particular
  nothing is claimed about `register_symbol` getting its exclusive lock: that
  depends on the platform's lock.

## 6. What disagrees with the documentation

Each is a violation run, quoted in `PROJECT.json` "findings".

* `s1_shared_feed`: two adapters that carry the same symbol are two producers
  of B's single-producer ring; an accepted tick is overwritten.
* `logger_rotation`: the second size rollover of a day renames over the first
  one's file.
* `pipeline_cvd`: A's `BarRecord::cvd` restarts with each bar and adds the
  bar's whole delta at every tick.
* `s1_zones`: the bar that creates a stacked zone always resolves it.

The other disagreements met while modelling have no run. The models have what
the code does; where a theorem states it, it is named.

| Code | Documentation | Stated by |
|---|---|---|
| A's `stop()` leaves accepted ticks in the ring for the next `start()`, as `run()` looks at `running_` before the ring | README.md:68 has the worker pop them; B's header of the same name says it drains, and has no code | `TicksConserved` counts them as waiting |
| A's `classify()` has no midpoint test and takes every trade inside an open spread for a purchase | README.md:53, README.md:183 | |
| In a locked or crossed quote whose ask has no size, A's bars book a trade inside it as a sale and `classify()` calls it a buy | README.md:51 and :52 give such a trade both sides | `ClassifiersOnlyDifferInside` |
| A's `max_delta` and `min_delta` take in zero | README.md:200 "highest delta seen across updates"; README.md:81 | `DeltaExtremesAlwaysTakeZero` |
| A's volume bars may hold more than their threshold: the tick that reaches it is not split | README.md:188 "exactly at the volume threshold" | `BarsAlwaysCloseOnThreshold` |
| A's long turn needs no buying (`surge` is the absolute value of the delta); a sweep has one type for both sides | the names of the types | `SignalAlwaysFitsSession` |
| B's extremes of the running delta and of the session's bars take in zero | delta_engine.h:32 "Highest running_delta seen in current bar"; delta_engine.h:40 | `ExtremesAlwaysTakeZero` |
| B's `EXTREME_DELTA` compares with a maximum that includes the bar itself and is never given | delta_engine.h:133 "Fires when ABS(bar_delta) exceeds the session maximum" | `ExtremeDeltaIsNeverGiven` |
| B's range bars close on a move of exactly their size (`>=`, bar_engine.cpp:223) | bar_engine.h:107, bar_engine.cpp:218 "more than" | `BarsAlwaysCloseAsCoded` |
| B's volume bars close with the trade after the one that reaches their size | bar_engine.h:112 "should close after this tick" | `BarsAlwaysCloseAsCoded` |
| B's time bars take in the first trade of the next period | the same sentence | |
| B's trapped-trader test measures a quarter of the range from the open | its comment, "closed in lower half" | |
| B's `imbalance_detector.cpp` reads `absorption_vol_threshold` | its header calls the field `absorption_vol_thresh` | |
| Opening the logger's file purges nothing, so an engine restarted every day keeps every daily file | logger.h:66 "Keep last N daily log files" | `LogFilesAreBounded`, `RolloversPurge` |
| While `init()` replaces a live logger two objects rename and purge each other's files: the old one may go on writing into a `.log.1` or a file that is gone, and the second rename of a name throws in the I/O thread and ends the process | logger.h:90 "subsequent calls update the configuration" | `RecordsConserved` and `CurrentFileKept` say what survives |

## 7. Proofs

`tlapm` proves about 14 500 obligations. A listed theorem states every safety
invariant and every action property of every passing run; each holds for every
value of the constants that satisfies the named assumptions, which are what the
types of the code's parameters and fields already say.

* **RingBuffer** (`RingAssumption`: the capacity divides the counter range at
  least twice; three distinct kinds of slot contents). `TypeCorrect`,
  `SlotRaceFree`, `LifetimesCorrect`, `ObservationsCorrect`,
  `RingImplementsQueue`. `NoSlotRace` alone is not inductive: a state with a
  producer about to construct in a full ring satisfies it and breaks it in one
  step. The invariant `IInv` adds, for the indices, that both late views lie
  between the true indices (`IndexOrder`) and that a thread past its test has
  seen room, respectively an element; and, for the slots, what each offset
  from `tail_` may hold (`SlotInv`). Under it sit lemmas on counters modulo a
  multiple of the capacity (`DistanceCases`, `WrapKeepsSlot`,
  `OffsetsDistinct`, ...): masking free-running counters is injective over one
  lap. `RingImplementsQueue` maps initial states to initial states and each
  step to a step of `BoundedQueue` or a stutter; the only step that maps to
  `Close` is the destruction of the buffer.
* **SymbolWorker** (`WorkerAssumption`). `OneConsumer`, `FlagTellsTruth`,
  `StartNeverTerminates` follow from `LifecycleInv`: whoever wins the exchange
  in `start()` is alone until it has assigned `worker_` (`StartAlone`), a
  `stop()` that joins is alone (`StopAlone`), and outside `start()` the handle
  is the only loop there can be (`HandleIsLoop`). `NoTickLost` proves
  `TicksConserved` on top of it: the one loop holds at most one tick, and what it
  holds with what it has finished and what waits is what `submit()` accepted.
  `PublishedAfterAllStages` proves the action property `PublishedComplete` from
  the order in which the loop walks the stages. `WorkerIsAQueue` sums the
  component up: with any races of `start()` and any restarts the worker
  implements `BoundedQueue` with one place more than its ring. What is between
  its ends is the tick in the stages followed by the ring (`Pipe`), a tick goes
  in with `submit()` and out with the end of the stages; the step that needs the
  invariant is the pop, which may not find a tick already in the stages.
* **TickRouter** (`RouterAssumption`). `NoTickLostOrReordered` proves `TicksKept`:
  a shard's dispatched ticks are the popped ones followed by the queue. It rests
  on the mutex: a thread inside a critical section owns the mutex of the shard its
  call was routed to (`HeldIsOwned`), hence the deque it found is still the
  shard's when it writes back (`SeenIsQueue`).
  `RouterImplementsStreams` maps the router to `OrderedStreams`, which knows no
  shards, queues or mutexes: the ticks in some shard's history are sent, the
  popped ones are taken. A push is the next `Send` of its feed, because what a
  feed has dispatched it has numbered in order; a pop is a `Take`, because the
  head of a shard's queue is the oldest of the shard, and all ticks of a stream
  go through one shard.
* **TickRouterS1 and RingBufferS1** (`RouterS1Assumption`,
  `RingS1Assumption`). `ReleasedRingsAreFree` holds for all adapters: a push in
  progress belongs to a symbol that is in the map, since the map changes only
  when nobody is in `route()` (`RegistryInvariant`). `RoutedIsDelivered` and
  `SlotsAreNotShared` are proved under `OneProducerPerRing`, that no two
  adapters reach the same ring, which is a hypothesis of the theorem and not of
  the code: `s1_shared_feed` shows what happens without it. Their invariant adds
  that the slot a producer writes is outside what the consumer may read
  (`ProducerHasSlot`) and that the slot being moved out is the oldest
  (`ConsumerHasTick`); the arithmetic of masked indices is in `DistanceGrows`,
  `DistanceShrinks` and `OffsetReaches`.
  From the same invariant `RingsImplementQueues` shows step by step that each
  ring implements `BoundedQueue`, the abstract queue of A's ring: what waits is
  what was accepted without what was popped, so a step takes one tick in, gives
  one out, or stutters, and none is a `Close`. (No run lists it, as TLC does not take a property with
  an instance that has a parameter.)
  `WarningsStayRare` is not inductive in the form the run checks: what an adapter
  warns at next is the counter it will load. `WarnedBefore` says that the counts it
  has warned at are no higher than the counter, and lower while it is about to
  warn (`AboutToWarn`): its own increment came after its last warning, and the counter
  only grows. A count is warned at when it begins a period, so two
  different ones are in different periods (`PeriodsDiffer`).
  `StatsAlwaysAccount` is about
  totals over all rings, so it needs their number finite; `SumsUp` says what a
  total is without recursion, and `TotalsFollow` how it moves when one ring does.
* **Logger** (`LoggerAssumption`). `LifecycleInvariant` says which objects are alive
  at each point of `init()` and `shutdown()`, and that no more than two are.
  `NoRecordLost` proves `RecordsConserved` from two more: in `RecordInvariant` what was
  settled, the batch and the queue are together what was accepted, there is a
  batch only while the thread writes, and a thread that has left its loop leaves
  nothing queued; in `FileInvariant` an object without a stream has failed to open
  the file of its date or is between closing and reopening (`StreamsKnown`), and
  what was written is in its file, since files only grow (`OutcomesPlaced`).
  `CurrentFileIsKept` is about an object that has never overlapped another
  (`AloneInvariant`): nobody else renames or purges, and its own file is the newest of
  all and the last a purge would take.
  `LogFilesAreBounded` says what restarts cost, since opening a file purges
  nothing: at most `max_files` dated files, one for each call of `init()` but the
  first, and one for each rollover that has opened its file and is about to purge.
  Its invariant (`DirectoryInvariant`) counts the files; the step that matters is
  the purge: the oldest file it keeps has all the others that are kept among
  those newer than it, which are fewer than `max_files` (`PurgeLeavesMaxFiles`).
  `RolloversPurge` proves that a rollover's purge leaves no more than `max_files`,
  however many restarts had left and whoever else writes to the directory.
* **SymbolQuota** (`QuotaAssumption`). `OvershootIsBounded` is not inductive: a full
  tier with a stale verdict outstanding satisfies it and breaks it in one step.
  `Headroom` says, for *every* `L` no lower than any limit so far, that the
  symbols there are and the registrations that have read a count below `L` are
  together at most `L` plus the number of threads less one: a registration can
  join them only while the count itself is below `L`.
* **SymbolPipeline** (`FeedAssumption`, `LevelsAssumption`, `KindsAssumption`:
  prices are integers, sizes, times and levels are not negative, the ratio is
  above one, thresholds are not negative).
  `ClassifiersOnlyDifferInside` holds for every feed, quotes in any order included;
  `TwoSidedAlwaysSweep` for every ratio above one and all volumes.
  `BarsAlwaysMatchTicks`: a bar's fields are compared with the ticks it stands
  for, and which ticks these are is itself what has to be shown, so the invariant
  (`Partitions`) says that there are cuts of the tick history, one for each bar
  and one for the bar in progress, at each of which the bar `Says` its slice. A
  tick extends the last slice, begins a new one, or both (a time bar).
  `BarCvdAlwaysAddsUp` adds to that invariant what `BarRecord::cvd` does hold,
  the sum over the bar's ticks of the delta so far, for open and completed bars.
  `BarsAlwaysCloseOnThreshold` adds that each slice is `Quiet`: it reaches the
  threshold with its last tick at most. The engine asks this of its own high,
  low, volume and start time, the property of the ticks; `Fits` ties the two.
  `DeltaAlwaysMatchesBars` and `DeltaExtremesAlwaysTakeZero` are `SessionAccount`,
  extremes over the session's deltas and zero. `SignalAlwaysFitsSession` combines it with
  the sums of `VwapEngine` and the sides of the classifier: the score a type is
  chosen by is a sum of signs (`DeltaSign`, `ImbalanceSign`, `VwapSign`), and
  each sign is one of the session's facts (`TypeTells`, `TurnNeeds`).
  `VarianceAlwaysExact` proves the identity between the engine's three sums and
  the sum over all pairs of trades: a trade adds a row of pairs, and the row is
  what the sums change by. `ValueAreaAlwaysSound` follows the walk of
  `value_area()` outwards from the point of control: `Area` holds at each turn,
  the area before the last turn does not cover 70%, and every turn adds a traded
  level until all are in.
* **SymbolPipelineS1** (`S1FeedAssumption`, `S1SizesAssumption`,
  `S1ConfigAssumption`: prices and volumes are positive, which is what a tick
  that is not dropped has; series have one of the three types the runs use;
  ratio, streak length and number of series are positive).
  `OnceClassifiedAlways` is an action property with `LeeTyped`: what makes a
  trade unclassified is a price that has not moved since the first.
  `BarsAlwaysMatchTrades` and `BarsAlwaysCloseWhenDue` come from `SeriesHold`:
  the bar in progress `Stands` for the trades since the last one, its levels
  match them price by price (`LevelsMatch`), and no proper prefix of them was
  due. A prefix that is due is followed by one that is ripe (`DueRipens`), which is
  where the code's reading and the comments' meet; `BarsAlwaysCloseAsCoded` states
  the code's. `DeltaAlwaysMatchesTrades`, `ExtremesAlwaysTakeZero`, `SurgesStandOut`
  and `ExtremeDeltaIsNeverGiven` come from `DeltaAccounts`, which keeps the engine's own sums beside those of the bars.
  `StackSignalsAlwaysExact` is the longest argument: sorting by rank gives the
  levels in ascending order (`Ascending`), a streak of the walk over them is a
  run of adjacent prices of the trades (`Streaked`, `Run`), and no stacked zone of
  an earlier bar is left (`Settled`), so that a signal can only come from this bar.
  `ZonesAlwaysEndWithTheirBar` turns `Settled` round: what `s1_zones` finds on one
  instance, that a stacked zone never outlives its bar, is so for every feed and
  configuration.

Sums over histories, sets of rings and profiles need induction over data, and no
theorem of the library that takes an operator as a parameter can be cited here.
The proofs use the least counterexample instead: a set of natural numbers that
is not empty has a least element (`LeastElement`), and the same for finite sets
by their cardinality (`SubsetInduction`). A recursive function of the community
modules is met by a function that satisfies its equations (`SumsUp`, `Folds`,
`Turns`), which is shown to exist.

`RouterImplementsStreams`, `WorkerIsAQueue`, `RingsImplementQueues`,
`LogFilesAreBounded`, `RolloversPurge`, `TwoSidedAlwaysSweep`, `BarCvdAlwaysAddsUp`,
`DeltaExtremesAlwaysTakeZero`, `BarsAlwaysCloseAsCoded`, `ExtremesAlwaysTakeZero`,
`ExtremeDeltaIsNeverGiven` and `ZonesAlwaysEndWithTheirBar` state formulas no run
lists.

Model-checked only: the liveness properties `EveryElementLeaves`,
`RetriedPushAccepted`, `AcceptedIsProcessed`, `StopCompletes`,
`EveryTickIsPopped`, `EveryRecordSettled` and `ShutdownCompletes`. They rest on
fairness, and `ENABLED` is out of this prover's reach.

## 8. Assumptions and what is not modelled

* `stop()` overlaps no other lifecycle call, and stages and bus are set while no
  thread runs: the class has no protection for either (both are hazards with a
  note).
* No `write()` is under way while the `LoggerImpl` it has loaded is destroyed: that
  would be an access to a dead object. An `init()` on a live logger, with writes
  before and after it, is modelled.
* In `s1_routing` each symbol comes from one adapter, as the rings need;
  `s1_shared_feed` drops that assumption.
* Atomics are sequentially consistent except for the late loads of
  `RingBuffer`. B's ring is modelled without late loads.
* Doubles are exact integers; 32-bit sums of volumes are not bounded in the
  models.
* A's workers, and in both versions the destruction of a ring by its owner, are
  modelled from their use.

Not modelled: `EventBus`, feed adapters and `IApiServer` (interfaces), the
`LicenseEngine` (it reads hardware identifiers and passes on the verdict of a
verifier the repository does not have: no state, no steps), tick records (data),
signal strength, confidence and metadata, console output and formatting of the
logger, and B's headers without an implementation.

The mapped lines are a small share of all lines, and most of the rest is of the
kinds just named: `ofe_session1` repeats `ofe` line by line, half of B's headers
declare classes that have no source file, and the records of both versions are
long lists of fields of which the models keep those a step reads.

## 9. What the plan has left

1. B's router as a whole against an abstract specification, registry, drops and
   all; so far each of its rings is shown to be a bounded queue, as are A's ring
   and worker, and A's router is shown to implement `OrderedStreams`.
2. Late loads for B's ring, and counters of signed 32 bits in the delta
   engines.
3. Runs for the disagreements of section 6 that have none, in place of
   properties a theorem has made redundant.

## 10. Running the checks

```
tlc -workers 2 -config RingBuffer.cfg RingBufferMC
tlapm RingBufferProofs.tla
```

Each passing run ends in a few minutes or less on two workers, each proof
module in a few.
