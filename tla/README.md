# TLA+ models of the pd3 estimators library

This directory holds TLA+ models of the C library in `src/`. The library measures packet loss and reordering for application flows. Every module is translated from the C source, and every check listed below runs with TLC. `PROJECT.json` lists the components, the runs, the mutants, the map from each definition to the source lines it models, the findings and the hazards.

## 1. The system

| Part | Source | State it keeps | Operations |
|---|---|---|---|
| Sequence arithmetic | `datatypes.c` | none | `seqcmp`, `modular_distance` over the 32-bit `SEQNO` |
| Flow-state algebra | `flowstate.c/.h` | one symbol per epoch and stream | `delimit`, `packet`, `concatenate` |
| Batched queue (fistq) | `fistq.c` | a private batch per producer handle, one shared FIFO under a mutex, a refcount | push (DEFAULT/FLUSH/NOFLUSH), flush, timed dequeue, get/destroy handle |
| Aggregator thread | `pd3_estimator.c` 322-452 | the working epoch map, a deadline `ref` | packet arrival, `period_transition`, `setNextInterval` |
| Epoch maps and free lists | `pd3_estimator.c` 745-1066 (hashmap2), `unnamed/part_002` (`hashmap2.h`) | items with `next` and `hashnext`, maps with a hash table, lists of maps (working and free, per thread), free lists of items | force, retrieve, add map, move one, move all, move items, zero out, destroy |
| Loss estimator | `lossdata.c` | per epoch: a range list and a flow state. Per stream: `lossState` and a tracker entry | `lossdata_arrival`, `lossdata_a2r`, accumulation |
| Reorder extent and density | `reorderdata.c` | per epoch: a range list. Per stream: `nextExp`, `numArrivals`, missing records, window, buffer, `RI` | `reorderdata_arrival`, `reorderdata_a2r` |
| Reporter thread | `pd3_estimator.c` 589-717 | local epoch list, per-stream state, trackers | drain hand-off, process epochs while `count >= W`, fire schedules |
| Report schedule | `reportschedule.c` | per slot: interval and `next_run` | parse, `schedule_outlets`, `schedule_reset` |
| Lifecycle | `pd3_estimator.c` 93-316, 405-417, 598-627 | `started`, `done`, `init_mutex`, the thread ids | init, destroy, handles, thread start and exit |

**How the parts interact.** Producers push packet records into their handle's batch and flush it onto the fistq. The aggregator takes them off with a timed dequeue whose deadline is the end of the current epoch. For each packet it updates the stream's item in the working epoch map: the loss range list (head first) and the reorder range list (tail first). At the deadline it moves the map into the hand-off list under `shared_mutex`, and signals the reporter if the reporter is asleep.

The reporter drains the hand-off list into its own list. While at least `W` (`reporter_min_batches`) epochs wait there, it processes the earliest one: for each stream item it runs `lossdata_a2r` (which also reads, and rewrites, the stream's ranges in the next `W-1` epochs) and then `reorderdata_a2r`, and adds the results into one tracker entry per schedule slot. When a slot is due, the results are rolled up to flows, the callback is invoked, and the slot is reset.

## 2. Modules

| Module | Models | Mapped from |
|---|---|---|
| `SeqArith` | `SEQNO` as a `SeqBits`-bit unsigned; `seqcmp`, `modular_distance`, the `rangecmp` difference | `datatypes.c` 62-85, `lossdata.c` 97-108 |
| `FlowState` | the flow-state symbols and transition functions | `flowstate.c` 28-66, `flowstate.h` 29-38 |
| `ReorderData` | `reorderdata_arrival` and `reorderdata_a2r` (density, then extent, per range; pruning) as operators on the stream's state | `reorderdata.c` 118-561 |
| `LossEstimator` | one stream through network, aggregator and reporter: `handle_packet_arrival`, `period_transition`, one pass of the reporter's inner loop with `lossdata_a2r`, `reorderdata_a2r` and `lossdata_accumulate_time` | `lossdata.c` 41-341, `pd3_estimator.c` 359-403, 635-706 |
| `FistQChannel` | the abstract promise of a fistq pair: open handles, per-producer held and committed items, FIFO between commit points, losses only when a handle closes | (abstract specification) |
| `FistQ` | one fistq (src,dst) pair: get/destroy handle with the refcount, enqueue with every option, flush, both dequeues | `fistq.c` 121-612 |
| `Lifecycle` | `pd3_estimator_init` and `pd3_estimator_destroy` from several application threads, the start and exit of the two threads, and the report schedule (`set_schedule`, `destroy_schedule`, `schedule_outlets`, `schedule_reset`) as the reporter uses it | `pd3_estimator.c` 47-178, 236-316, 405-452, 598-697, `reportschedule.c` 59-144 |
| `HashMap2` | the hashmap2 code at the level of its pointers, and every handler that uses it: aggregator start, `handle_packet_arrival`, `period_transition`, the reporter's drain, processing pass (process, report with its callback selection, recycle) and exit, `pd3_estimator_destroy`; items carry `packet_count` | `unnamed/part_000` 47-66, `pd3_estimator.c` 64-85, 264-302, 346-468, 592-716, 750-1066, `unnamed/part_002` 33-83 |
| `HashMapSeq` | the same handlers on plain sequences: what HashMap2 promises (refined by it) | the same lines |
| `Pipeline` | the threads: producer handles, fistq flush and timed dequeue, the aggregator loop and timer, the condition-variable hand-off, the reporter loop, `pd3_estimator_destroy` | `pd3_estimator.c` 199-468, 589-706, 840-911, `fistq.c` 400-611 |

### LossEstimator (with ReorderData)

**State.**

- **Network:** `nextSend`, `inflight` and `arrived` hold packet indices. Packet `i` carries `(Start + i) mod 2^SeqBits`.
- **Epochs:** `cur` is the working epoch's item for the stream: whether it exists, the loss range list (head first), the flow state, and the reorder range list `rranges` (tail first). `handed` is the list of epochs the reporter has not yet processed, earliest first.
- **Reporter state:** `lstate` is `struct lossState`, without `last_range.low`, which the code never reads. `tracker` is the stream's tracker entry, a `struct lossDataR` summed by `lossdata_accumulate_time`. `origin` is a history variable: the fabricated `last_range` of the first computation. `rst` is `struct reorderState` together with the summed extent histogram, assumed drops and density histogram `FD`.

**Actions.**

- `Send`, `Lose` and `Duplicate` are the network.
- `Arrive` is `handle_packet_arrival`: `lossdata_arrival` and `reorderdata_arrival`.
- `ArriveAllocFail` is the same handler when `malloc` of a loss range fails. The item exists, the loss list is untouched, and the reorder list still records the arrival (it allocates separately).
- `PeriodTransition` is `period_transition`.
- `ReportEpoch` is one pass of the reporter's `while (working_r.count >= periods_to_wait)` loop for this stream: `lossdata_a2r`, accumulation into the tracker, then `reorderdata_a2r`.

**How `lossdata_a2r` is modelled.**

- `AssemblyChain` builds the chain exactly as `lossdata_a2r_begin` and `lossdata_a2r_add` do.
- `QsortOutcomes` is the set of arrangements sorted by `rangecmp`. qsort is not stable, so every order of equal lows is a possible outcome. The wrap-detection pass marks a prefix that is already first; while all lows lie within half the space it cannot change the order.
- `SweepStep` is the body of the sweep loop, including the in-place rewrite and the gap statistics. `WriteBack` carries rewritten FUTURE ranges back into their epochs.
- `lossdata_accumulate` and `lossdata_accumulate_time` are translated line by line, including the copy into an empty accumulator and the plain `min` of `gap_min`.

**How `reorderdata_a2r` is modelled.** It is a fold over the epoch's ranges; each range is a fold over its numbers, first through `DensityStep` (bootstrap, seek, process, seek again, as at lines 440-479) and then through case 1 (`extent_in_order`) or case 2 (`ExtentStep`) of the extent estimator, followed by `reorderdata_prune_missing_packets`. The loops `for (SEQNO i = r->low; i <= r->high; i++)` never end when `high = 2^U-1`; `LoopNeverEnds` marks the stream's state `hung`, and `ReportEpoch` is never enabled again, as the reporter thread never returns.

**What is abstracted.**

- Hash maps and free lists are abstracted to "the stream's item exists or not".
- The two reporter lists (shared hand-off and local) are one sequence. This is faithful because the inner loop only runs while at least `W` epochs are local, so the `W-1` look-ahead epochs are always present.
- The timer is abstracted away here: a period transition may happen at any time. `Pipeline` models the timer.
- One tracker slot, never reset: the tracker entry is the sum over all reports. Schedule resets only split this sum into intervals.
- Allocation failures inside `reorderdata_a2r` are not modelled.

### FistQ and FistQChannel

**State.** `hopen[u]` (u holds a handle), `lq[u]` (its local queue), `fqExists`, `refCount` and `internal` (the `fistq_t` on `fistq_list`, its `ref_count` and shared queue), `listLock` (`fistq_list_lock`, `"free"` or `"leaked"`), `stuck` (threads blocked on a leaked lock for good), `sent[p]`, `ret` (the consumer's last type and item), `allocFails`. Users are two producers and one consumer, each with at most one handle at a time, as the library has them.

**Actions.** `fistq_getHandle(u)` has one disjunct per outcome: the handle's `calloc` fails; the lock has leaked (the caller blocks); `fistq_find_unsafe` takes a reference; `fistq_create_unsafe` makes the queue; the create's `calloc` fails and the function returns with `fistq_list_lock` held. `fistq_destroyHandle(u)` frees the local queue, drops the reference, and with the last one unlinks and frees the `fistq_t` and what its shared queue holds. `fistq_enqueue_any(p, op)`: a failed node `calloc`; `FISTQ_FLUSH` through `fistq_direct`; otherwise append and, unless `FISTQ_NOFLUSH`, flush at the threshold. `Flush(p)` is `fistq_flush`. `fistq_dequeue_any` blocks while both queues are empty (the action is disabled); `fistq_timeddequeue_any` returns `FISTQ_TYPE_TIMEOUT` instead. Each call is one step: a local queue is private to its thread and every shared part changes under `fq->mutex` or `fistq_list_lock`.

**Refinement.** `FistQChannel` has `open` (the users holding a handle), `held[p]`, `chan[p]` and `next[p]`. Its steps are `Open`, `Send`, `Direct`, `Commit`, `Take`, `CloseProducer` and `CloseConsumer`. Items are lost only in the two close steps: a producer's held items with its handle, a prefix of each `chan` (what the consumer had moved to its local queue) with the consumer's handle, and everything committed with the last handle. The constant `FlushOvertakes` decides what an item sent with `FISTQ_FLUSH` does. With `TRUE` (`Direct`) it is committed alone, ahead of the producer's held items, as `fistq_enqueue_any`'s code does. With `FALSE` it joins the held items and all are committed in order, as the function's comment (`fistq.c:394-395`) says. FistQ maps to it with `open` = the users with `hopen`, `held[p] = lq[p]`, `chan[p]` = p's items in the consumer's local queue followed by p's items in the shared queue, and `next = sent`. `ImplementsChannel` checks the code's order (`Channel`, `FlushOvertakes = TRUE`) and passes. `FlushKeepsOrder` checks the comment's order (`DocumentedChannel`), and `MCFistQ_flush.cfg` finds it violated: a NOFLUSH item stays in the local queue, and the next FLUSH item of the same handle is taken first. The library itself only enqueues with `FISTQ_NOFLUSH` (`pd3_estimator.c:217`).


**State.** `pushed`, `lq[p]` (a handle's local batch), `internal` (the fistq's shared queue), `alq` (the aggregator's local queue), `aggPc`, `slack` (`ref - now`), `working`, `sh` (`working_sh`), `rlist` (`working_r`), `repPc`, `sleeping` (`reporter_sleeping`), `done` (`pd3_estimator_done`), `destroyPc`, and the history `reported`. A record is `<<p, k>>`, the `k`-th record pushed through handle `p`; an epoch map is the sequence of records applied to it.

**Actions.**

- Producers: `PushPacketInfo` (`pd3_estimator_push_packet_info`: NOFLUSH `fistq_enqueue_any`), `Flush` (`fistq_flush`: splice onto `internal`, signal).
- Aggregator, one action per branch of `aggregator_thread` and `fistq_timeddequeue_any`: `AggExit` (done), `AggLate` (`timeCmp(now, ref) > 0`: `period_transition` then `setNextInterval`; `period_transition` is `data_exchange_aggregator_unsafe`, built from `moveone_hashmap`, `pop_earliest` and `push_latest`, then `add_hashmap`), `AggTakeLocal`, `AggSplice`, `AggWait`, `AggTimeout` (ETIMEDOUT with nothing queued: rotate).
- Clock: `Tick` lets `now` advance.
- Reporter: `RepTop` (unlocked `done` check), `RepSleep`, `RepSpurious` (a spurious wake-up), `RepQuit`, `RepDrain` (`data_exchange_reporter_unsafe`), `RepProcess`, `RepIdle`.
- Destroy: `Destroy` (`done = 1` without a lock), `DestroySignal` (after joining the aggregator), `DestroyFinish` (after joining the reporter; `done` reset).

`setNextInterval` is translated as the code has it: it adds only `tv_nsec`.

**Fairness.** The aggregator and the reporter are threads that run whenever they are not blocked: weak fairness on each thread's disjunction. The clock advances: weak fairness on `Tick`. `AggTakeLocal` and `AggSplice` get strong fairness: a dequeue that is repeatedly possible is eventually taken, rather than losing every race against the clock. The destroy call's joins get weak fairness. Producers and the call to `pd3_estimator_destroy` get none: an application may stop pushing or never destroy. Liveness runs use no symmetry.

### HashMap2 and HashMapSeq

State: `items` (each hashMapItem's key, `next`, `hashnext`), `il` (the head and tail of every item list: each map's items, `free_hashmapitems_a/_sh/_r` and the reporter's `free_hmis_local`), `maps` (hash table, `previous`, `next`), `lists` (count, earliest, latest of `working_a/_sh/_r` and `free_hashmaps_a/_sh/_r`), the addresses malloc has handed out (`an`, `am`) and `running`. The reporter's `state_data` and one tracker are maps `"st"` and `"trk"` outside the lists. Each item also has its `packet_count` (`count`), and `callbacks` is the set of (flow, packet count) pairs of the last report's callbacks. Three history variables record what a report should say: `pkts` (packets of each flow that arrived in each map's epoch), `since` (packets of the epochs processed since the last report) and `expected` (what the last report should have called back).

- Each C function is an operator from the whole memory to the whole memory (`add_hashmapitem`, `move_hmilist`, `pop_earliest`, `push_latest`, `add_hashmap`, `moveone_hashmap`, `moveall_hashmap`, `hashmap_force`, `hashmap_retrieve` by walking the bucket's chain, `zeroout_hashmap`). A handler is the composition of the calls it makes, in the code's order.
- `malloc` is `CHOOSE` over the addresses not in use. Keys are values (`set_streamtuple`, `set_flowtuple`); `equal_key` compares whole keys and every key is hashed before it is compared or copied, so equality of model keys is `equal_key`. `Hash` maps every key to one bucket, so chains are as long as they get.
- Actions: `Start` (`add_hashmap(&working_a, NULL)`), `Arrival` (`hashmap_force` on `working_a.latest`, then `packetdata_arrival` increments the item's count), `PeriodTransition` (`data_exchange_aggregator_unsafe`, then `add_hashmap` from `free_hashmaps_a`), `ReporterDrain` (`data_exchange_reporter_unsafe` once `working_sh.count > 0`), `ReporterProcess` (one pass of `while (working_r.count >= periods_to_wait)`: each item of the earliest map forced into `state_data` and the tracker and its count added to the tracker item's (`accumulate_time`), following `next` as it is; if the tracker's outlets are not NULL, the consolidation loop adding each stream's count to its flow item (`accumulate_flow`), the callback loop (one callback per flow item with `packet_count > 0`) and `zeroout_hashmap`; then the epoch's items and map go to the reporter's free lists), `Destroy` (the reporter's exit zeroes the tracker and `state_data`, then every free list and every list of maps is freed and the lists are memset).
- The thread actions are atomic: outside `shared_mutex` each thread touches only its own lists, which `StorageOwnedOnce` checks.
- `HashMapSeq` has sequences `ml` (lists of maps) and `seq` (item lists), and the same actions with `Force` (search, else take the free list's head or a fresh item and put it in front). Its report loop folds over the tracker's items as they were when the loop started. HashMap2 maps to it by reading every list through its pointers (`SeqSpec`).
- The guards on the pools (`CanForce`, `PassNeeds`) only stop the model from allocating more than `Node` and `Map` hold.

### Lifecycle

State: `pc` per application thread (idle, waiting for `init_mutex`, each step of destroy, or stuck in a join), `owner` of `init_mutex`, `started`, `done`, the sequence of aggregator and reporter threads ever created (each start, run, exit or joined; the last one is the one `aggregator_tid`/`reporter_tid` names), each reporter's `ntrackers`, and the schedule: one record per entry, `iv` (the interval) and `due` (`next_run - now`, in time units). `nitems` and `nalloc` are the global item count and the size of the last `calloc`; `overflow` records a write past it.

- `set_schedule` is a fold of `ParseItem` over the parsed fields of the string. A field is abstracted to its first character class and its `atof` value, which is all the code looks at. The string is a constant of `MCLifecycle.tla`: `"c,2"`, `"c,1,x;c,2,3"`, `"c,2;c,-1"` (rejected at the second item) and `"c,0"`.
- `pd3_estimator_init` is one action once `init_mutex` is free: already started; `set_schedule` failing (the mutex stays held); either `pthread_create` failing (after the schedule is set, and for the reporter with the aggregator running); success.
- Destroy is five actions: lock and check `started`, set `done`, join the aggregator, join the reporter, clean up. A join of a thread already joined is undefined: the model lets it return an error or block.
- `AggStart` (fistq handle or not), `AggExit`, `RepStart` (`ntrackers = nitems`; none, or a failed `calloc`, ends it), `RepBatch` (one pass of the processing loop: every due tracker reports and is reset; all of them in one step) and `RepExit`.
- `Tick` is `now()` advancing: every live entry's `due` drops by one. Time does not run more than `MaxLag` past a live entry's due point, as the reporter sees a batch at least every aggregation interval.
- `schedule_reset` returns the set of its outcomes: for interval 0 the division gives inf or NaN and its conversion is undefined, so `next_run` either stays or moves out of reach.

**Fairness.** Weak fairness on `RepBatch` and on `Tick`. The reporter processes a batch whenever one is pending, and the aggregator delivers one every interval (`pipeline_live` checks that part). Application threads get no fairness: they may stop calling.

## 3. Runs

| Run | Result | What it shows |
|---|---|---|
| `loss_reorder` | pass (1.48M states) | With losses and any reordering across epochs and W = 2: `Conservation`, `NoPhantomReceipt`, and `DensityPending` (the density estimator's `RI` never overtakes every pending number while processing). |
| `loss_allocfail_inorder` | pass | With in-order delivery, a failed allocation does not break `Conservation`. |
| `loss_dup_nolookahead` | pass (1.1M states) | With W = 1, a duplicate under reordering and loss: `Conservation`, `NoPhantomReceipt`, and `ExtentConservation`. |
| `loss_dup_lookahead` | violation | With W = 2, a duplicate that lands in the next epoch leaves `high_seqno` behind `last_range.high`. The next call counts a gap of `2^U-2`. |
| `loss_wrap` | violation | Packets 14 and 0 with 15 lost give `dropped = 0` (`modular_distance` is one short across the wrap). |
| `reorder_wrap` | violation | A range ending at `2^U-1` sends `reorderdata_a2r` into a loop that never ends. |
| `fistq_handles` | pass (6k states) | `RefCountMatchesHandles` and `ImplementsChannel` with two producers and a consumer that open and close handles at will, every enqueue option, threshold 2, three items and one failed allocation. Deadlock is not checked: after the leaked `fistq_list_lock` every thread that next opens or closes a handle blocks for good. |
| `pipeline_live` | pass (393k states) | `PipelineOrder`, `EventuallyReported` and `ShutdownCompletes` with two handles, W = 2, a sub-second interval and destroy possible at any time. |
| `pipeline_whole_second` | violation | With a whole-second interval the deadline never advances; flushed records are never processed. |
| `lifecycle` | pass (13k states) | One application thread, three calls, every schedule string, one failed `pthread_create` and one failed allocation: `StartedMeansThreads`, `ResetToFirstSlot`, `EveryTrackerReports`. Deadlock is not checked: the calls run out, and a rejected schedule leaves `init_mutex` held. |
| `lifecycle_destroy_race` | violation | Two application threads: a stale concurrent destroy joins the aggregator of the next init while the library is started. |
| `hashmap_recycling` | pass (133k states) | Maps and items cycle from the aggregator through the shared area to the reporter and back through the free lists, across destroy and restart, with and without reports, carrying packet counts: `RetrieveMatchesItems`, `StorageOwnedOnce`, `ReportCountsArrivals`, `SeqSpec`. |

`MCLoss_gap_min.cfg` (`GapMinIsSmallestGap`), `MCLoss_allocfail_reorder.cfg` (`Conservation`, a failed range allocation), `MCPipeline_w0.cfg` (`NoNullEarliest`) and `MCFistQ_flush.cfg` (`FlushKeepsOrder`, the FLUSH order against the comment) each reproduce one more finding below. They are not in the run list, which is capped at twelve runs.

**The properties.**

- `Conservation`: `received + dropped` in the tracker equals the count of sequence numbers after `origin` up to `last_range.high`.
- `NoPhantomReceipt`: `received` is at most the number of distinct arrived packets in that interval.
- `ExtentConservation`: every number from the extent estimator's first `nextExp` up to the current one is counted exactly once: in `hist[0]`, in `hist[k]` as a late packet, as an assumed drop, or as a still-unobserved missing record. A duplicate of a resolved late packet must not be counted again.
- `DensityPending`: while the density estimator is processing, some number in the window or buffer is at or after `RI`. Otherwise `RI` runs ahead one step per arrival, no arrival is ever admitted again, and `FD` stops counting.
- `GapMinIsSmallestGap`, `ReorderReturns`: see the findings.
- `RefCountMatchesHandles`: `ref_count` is the number of open handles and the `fistq_t` is on the list exactly while it is positive, across find, create, destroy and the last destroy's free.
- `ImplementsChannel`: see FistQ above.
- `PipelineOrder`: for each handle, the records in the pipeline (reported, in the reporter's list, handed over, in the working map, in the aggregator's queue, in the shared queue, in the handle's batch), read in that order, are exactly `0..pushed-1`. Nothing is lost, duplicated or reordered across splices, epochs and hand-offs.
- `EventuallyReported`: every flushed record is eventually processed by the reporter, unless destroy has begun.
- `ShutdownCompletes`: once destroy has set `done`, both threads are joined.
- `NoNullEarliest`: the reporter never processes an epoch from an empty list.
- `StartedMeansThreads`: while `pd3_estimator_started` is set and `done` is not, the last aggregator and reporter init created have not been joined.
- `ResetToFirstSlot`: after a report, a positive-interval tracker's `next_run` is on its grid (`offset + k*interval`), not in the past, and less than one interval ahead.
- `RetrieveMatchesItems`: in every map that holds data (the working maps, `state_data`, the tracker) item keys are distinct and `hashmap_retrieve(k)` is the item of the map's list with key `k`, or NULL. Recycled maps keep chains into recycled items; only `add_hashmap`'s memset and `zeroout_hashmap` stop them being followed.
- `StorageOwnedOnce`: every list is acyclic, holds only allocated items or maps, and its tail (latest), count and `previous` links agree with it; every allocated item is on exactly one item list and every allocated map on exactly one list of maps. So no item is shared between threads or maps, and after destroy nothing is left allocated.
- `ReportCountsArrivals`: every report calls back exactly the flows that had packets since the tracker's last report, each with the number of packets of its streams that arrived in the epochs processed since then. The counts pass through items recycled between maps and threads; only `add_hashmapitem`'s memset and `zeroout_hashmap` keep an old count out of the next report.
- `SeqSpec`: HashMap2 implements HashMapSeq under the mapping that reads each list through its pointers. This covers the report loop's forcing into the tracker it is iterating over.
- `EveryTrackerReports`: a tracker with a positive interval, served by a running reporter and aggregator, eventually reports, or stops being served.

**Mutants.** Each property of each passing run has a mutant in `PROJECT.json`. The mutant replaces a mapped definition with a plausible slip, and TLC must find the property violated. The slips are: the gap taken as the whole distance; a head range extended by any later number; no subsumption skip; a rewritten low that keeps the overlap point; `fistq_find_unsafe` not taking a reference; the two minima of `rd_advance_RI` compared the wrong way round; a resolved missing record never marked observed; `fistq_flush` prepending instead of appending; `period_transition` never signalling; the reporter's wait ignoring `done`; destroy's cleanup not clearing `started`; `schedule_reset` using floor for ceil; the tracker loop stopping one short; `add_hashmap` resetting a map's links but not its hash table; `move_hmilist` not emptying the source list; `add_hashmapitem` without its memset, so a recycled item keeps its old count; `move_hmilist` prepending instead of appending.

### Findings

- **`setNextInterval` drops the seconds** (`pd3_estimator.c:324`). With `aggregation_interval = 1.0` the aggregator rotates empty epochs forever.
- **`W = 0` dereferences NULL** (`pd3_estimator.c:635`).
- **`modular_distance` is one short across the wrap** (`datatypes.c:84`), so a loss across `2^U-1 -> 0` is missed.
- **A duplicate in a look-ahead epoch** (`lossdata.c:249`) and **a failed range allocation** (`lossdata.c:302`, `MCLoss_allocfail_reorder.cfg`) leave the PAST anchor stale or absent, and the next computation counts a wrap-sized gap.
- **`gap_min` becomes 0** (`lossdata.c:50`) as soon as one epoch of the interval has no gap.
- **`reorderdata_a2r` never returns** (`reorderdata.c:440`, also 505) when a range ends at `2^U-1`. For the 32-bit `SEQNO` this is sequence number 4294967295: every long-lived stream reaches it.
- **`FISTQ_FLUSH` overtakes held items** (`fistq.c:421`): `fistq_direct` appends the item to the shared queue ahead of the handle's local queue, while the comment at `fistq.c:394-395` says the local queue is flushed after the enqueue (`MCFistQ_flush.cfg`, `FlushKeepsOrder`). The library never sends `FISTQ_FLUSH`.
- **Concurrent destroy** (`pd3_estimator.c:244`): destroy releases `init_mutex` before it sets `done` and joins. Two destroys both pass the check. TLC's trace: `a2` inits; `a1` and `a2` both enter destroy and pass the check; `a1` joins both threads, cleans up and re-inits; the new aggregator exits early (failed `fistq_getHandle`); `a2`, still at its join of the aggregator, joins the new one, so the library is started with its aggregator joined. The trace ends there. In the code `a2` would next block in `pthread_join(reporter_tid)`, because the new reporter runs with `done = 0`, until a later destroy sets `done`. Other outcomes of the same race: both destroys joining the same thread (undefined), and one destroy's `done = 1` landing after the other's cleanup, so that the next init's threads exit at once.
- Reached by `lifecycle` and not checked by a property:
  - `set_schedule` indexes from the global `nitems`, which only `destroy_schedule` resets (`reportschedule.c:84`). After a failed `pthread_create`, the next init writes past its `calloc`.
  - Init leaves `init_mutex` held on a rejected schedule (`pd3_estimator.c:144`).
  - A failed reporter `pthread_create` leaves the aggregator running with `started` 0 (`pd3_estimator.c:168`).
  - Interval 0 makes `schedule_reset` undefined (`reportschedule.c:142`).
  - `now == next_run` resets by 0, so the slot is reported twice.
- Not checked by a run: `fistq_getHandle` returns NULL with `fistq_list_lock` held when `fistq_create_unsafe` fails (`fistq.c:241`); `FistQ` reaches it, and the threads that next call `fistq_getHandle` block for good.
- Not checked by a run: the flow-state transition table of spec section 4.B differs from the code on PD, DP and DPD. The library only ever calls `flowstate_packet` (`lossdata.c:338`), so it produces NULL and P only, and the difference is not reachable.

### Bounds

- **SeqBits = 4**: 16 sequence numbers. This is enough to reach the wrap with a 4-packet stream, and keeps the half-space window (8) above the stream length.
- **NumPackets 4 to 6**: every order of up to 6 packets, each lost or delivered.
- **W ∈ {1, 2}, MaxBacklog = 2 or 3 epochs**: the look-ahead window plus one spare epoch (W = 1 with MaxBacklog = 2 in `loss_dup_nolookahead`, W = 2 with 3 elsewhere). An epoch can be empty, hold one range, or hold several.
- **MaxDup ≤ 1 and MaxAllocFail ≤ 1**: one fault is enough to reach every violation found.
- **MaxExtent = 2, DT = 2** (255 and 8 in the library): `MAX_HISTORY = 4`, so records are pruned and extents capped within 6 packets, and the density window (3 entries) bootstraps and then admits, buffers and drops packets. TLC reaches states with assumed drops, with capped extents, and with `FD` entries at -2, +1 and +2.
- **FistQ**: two producers and a consumer reach find and create, the last close freeing a non-empty queue, every option with and without reaching the threshold (2), and both allocation failures; three items give two-item batches, a FLUSH overtaking a held item, and splices of items of both producers.
- **Lifecycle**: one application thread and three calls reach init failures followed by re-init over the stale `nitems`, and destroy followed by init. Two threads with two calls each reach the destroy race. `MaxLag = 1` lets time run one unit past a due entry, so a report is late and the reset has to round up to the grid. With intervals 1 and 2 and an offset of 3, a reset happens both exactly on a due point (`due = 0`) and one unit after it.
- **HashMap2**: five item and three map addresses, two streams of one flow, one bucket, `periods_to_wait = 1`. Three maps are what a cycle needs (one being filled, one handed over, one being processed); with `periods_to_wait = 2` the aggregator needs a fourth before the first comes back, and four maps with six items is past 15 minutes. Five items hold an epoch's two streams in `state_data` and the tracker plus the flow. TLC reaches maps reused from `free_hashmaps_a` with stale tables (the `add_hashmap` mutant is caught), items reused across maps, reports, and destroy from every reachable state. `MaxPackets = 1` (packets a stream item counts per epoch) and `MaxPending = 1` (packets a flow may collect over passes without a report) still give a flow two packets in one report: two streams roll up into one flow, or a pass without a report is followed by one with a report. So a report adds counts across epochs and across streams, and a recycled item with an old count gets into a report (the memset mutant is caught). With both bounds at 2 the run takes over 6 minutes.
- **Pipeline**: two handles, 3 records in total, W = 2, at most 3 epochs held (lifted once `done` is set, so shutdown is never blocked by the bound), a clock of 2 units per second, an interval of one unit, and `now` at most one unit past `ref`.

The loss model has no liveness property and no fairness. Its properties are invariants over all interleavings of the network, the aggregator and the reporter.

## 4. Not modelled yet, and the plan

1. Several (src,dst) pairs in `FistQ`, `fistq_destroy` and `fistq_setThreshold`; the library uses one pair and never calls them.
2. The reported extent histogram: `reorderdata_accumulate` and the results copy bins below `REORDER_MAX_EXTENT` only, so the capped bin is counted and never reported.
3. `lossdata_accumulate_flows`: the roll-up across streams is modelled for the packet count in `HashMap2`, not for the loss tallies.
4. `get_duration` (a lookup for the callback), and the data the trackers accumulate: `Lifecycle` keeps the schedule and the thread states only; the data path is `LossEstimator` and `Pipeline`.
5. The leak of the handle in `pd3_estimator_create_handle` when `fistq_getHandle` fails: a leak on an error return, with no effect on later state.
6. More than one tracker in `HashMap2`: the trackers are independent maps handled alike.

Some parts will not be modelled:

- CRC hashing, which only decides bucket placement.
- `purge_hmilist`, `purge_hashmap`, `hashlist_contains`, `partition_hashmap` and `partition_cleanup`: nothing calls them, and `marked_for_deletion` is never set.
- A failed `malloc` in hashmap2: the result is not checked, so it is a NULL dereference.
- Packet min/max statistics, which are plain accumulators. `packet_count` is modelled in `HashMap2`.
- Building the callback results, which is formatting. Which callbacks are made, and their packet counts, are modelled in `HashMap2`.
- The tests.
