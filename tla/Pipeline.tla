------------------------------ MODULE Pipeline ------------------------------
(***************************************************************************)
(* The thread pipeline of pd3_estimator.c and fistq.c: producer handles    *)
(* that batch packet records locally and flush them into the shared fistq, *)
(* the aggregator thread with its deadline timer and timed dequeue, the    *)
(* hand-off of epoch maps to the reporter under shared_mutex/shared_cond,  *)
(* the reporter's wait/drain/process loop, and pd3_estimator_destroy.      *)
(*                                                                         *)
(* Data is abstracted to packet identities <<p, k>>: the k-th record       *)
(* pushed through producer handle p.  An epoch map is the sequence of the  *)
(* records handle_packet_arrival applied to it.  Time is the slack         *)
(* ref - now of the aggregator's deadline, in units of 1/UnitsPerSecond s. *)
(***************************************************************************)
EXTENDS Integers, Sequences, SequencesExt

CONSTANTS
    Producers,      \* producer handles (pd3_estimator_create_handle)
    MaxPush,        \* records pushed, over all handles
    W,              \* periods_to_wait (reporter_min_batches)
    UnitsPerSecond, \* clock resolution of the model
    IntervalSec,    \* aggregator_interval.tv_sec
    IntervalNsec,   \* aggregator_interval.tv_nsec, in model units
    MaxLag,         \* how far now may run past ref
    MaxEpochs,      \* bound on epochs held by the hand-off and the reporter
    Shutdown        \* whether pd3_estimator_destroy is called

ASSUME /\ MaxPush \in Nat /\ W \in Nat /\ MaxLag \in Nat \ {0}
       /\ IntervalSec \in Nat /\ IntervalNsec \in 0..(UnitsPerSecond - 1)
       /\ MaxEpochs > W /\ Shutdown \in BOOLEAN

Packets == Producers \X (0..(MaxPush - 1))

VARIABLES
    pushed,     \* pushed[p]: records pushed through handle p so far
    lq,         \* lq[p]: handle p's local queue (fh->lq)
    internal,   \* the fistq's shared queue (fq->internal)
    alq,        \* the aggregator handle's local queue
    aggPc,      \* "top" | "wait" (in pthread_cond_timedwait) | "exited"
    slack,      \* ref - now
    working,    \* working_a.latest: the epoch map being filled
    sh,         \* working_sh: epochs handed over, earliest first
    rlist,      \* working_r: the reporter's epochs, earliest first
    repPc,      \* "top" | "lock" | "wait" | "woken" | "process" | "exited"
    sleeping,   \* reporter_sleeping
    done,       \* pd3_estimator_done
    destroyPc,  \* "running" | "joinAgg" | "joinRep" | "finished"
    reported    \* history: records of the epochs the reporter processed

vars == <<pushed, lq, internal, alq, aggPc, slack, working, sh, rlist,
          repPc, sleeping, done, destroyPc, reported>>

TypeOK ==
    /\ pushed \in [Producers -> 0..MaxPush]
    /\ lq \in [Producers -> Seq(Packets)]
    /\ internal \in Seq(Packets) /\ alq \in Seq(Packets)
    /\ working \in Seq(Packets) /\ reported \in Seq(Packets)
    /\ sh \in Seq(Seq(Packets)) /\ rlist \in Seq(Seq(Packets))
    /\ aggPc \in {"top", "wait", "exited"}
    /\ slack \in -MaxLag..(IntervalSec * UnitsPerSecond + IntervalNsec)
    /\ repPc \in {"top", "lock", "wait", "woken", "process", "exited"}
    /\ sleeping \in BOOLEAN /\ done \in BOOLEAN
    /\ destroyPc \in {"running", "joinAgg", "joinRep", "finished"}

\* aggregator_thread start-up: add_hashmap, then ref = now + interval.
Init ==
    /\ pushed = [p \in Producers |-> 0]
    /\ lq = [p \in Producers |-> <<>>]
    /\ internal = <<>> /\ alq = <<>>
    /\ aggPc = "top"
    /\ slack = IntervalNsec
    /\ working = <<>> /\ sh = <<>> /\ rlist = <<>>
    /\ repPc = "top" /\ sleeping = FALSE
    /\ done = FALSE /\ destroyPc = "running"
    /\ reported = <<>>

(***************************************************************************)
(* Producers                                                               *)
(***************************************************************************)

\* fistq_enqueue_any with FISTQ_NOFLUSH: the node goes to the tail of the
\* handle's local queue and is never flushed there.
fistq_enqueue_any(p, x) == lq' = [lq EXCEPT ![p] = Append(@, x)]

\* pd3_estimator_push_packet_info: copy the record and enqueue it with
\* FISTQ_NOFLUSH.  A failed malloc returns -1 before anything is queued,
\* which the stream sees as a record never pushed; it is left out.
PushPacketInfo(p) ==
    /\ SumFunction(pushed) < MaxPush
    /\ fistq_enqueue_any(p, <<p, pushed[p]>>)
    /\ pushed' = [pushed EXCEPT ![p] = @ + 1]
    /\ UNCHANGED <<internal, alq, aggPc, slack, working, sh, rlist, repPc,
                   sleeping, done, destroyPc, reported>>

\* Variant: the local batch spliced in front of the shared queue.
fistq_flush_prepend(p) ==
    /\ lq[p] # <<>>
    /\ internal' = lq[p] \o internal
    /\ lq' = [lq EXCEPT ![p] = <<>>]

\* fistq_flush (via pd3_estimator_flush): an empty local queue returns -1;
\* otherwise the batch is spliced onto the tail of the shared queue under
\* fq->mutex, and fq->cond is signalled.
fistq_flush(p) ==
    /\ lq[p] # <<>>
    /\ internal' = internal \o lq[p]
    /\ lq' = [lq EXCEPT ![p] = <<>>]

Flush(p) ==
    /\ fistq_flush(p)
    /\ UNCHANGED <<pushed, alq, aggPc, slack, working, sh, rlist, repPc,
                   sleeping, done, destroyPc, reported>>

(***************************************************************************)
(* Aggregator                                                              *)
(***************************************************************************)

\* pthread_cond_signal(&shared_cond): wakes the reporter if it is blocked
\* in pthread_cond_wait; a signal with no waiter is lost.
SignalReporter ==
    repPc' = IF repPc = "wait" THEN "woken" ELSE repPc

\* Model bound: the hand-off and the reporter hold fewer than MaxEpochs
\* epochs.  Once done is set the aggregator rotates at most once more, so
\* the bound is lifted there: a reporter that has already exited must not
\* block the aggregator's last rotation.
EpochRoom == Len(sh) + Len(rlist) < MaxEpochs \/ done

\* pop_earliest: the earliest map leaves the list (NULL when empty).
pop_earliest(l) == IF l = << >> THEN l ELSE Tail(l)

\* push_latest: the map becomes the list's latest.
push_latest(l, hm) == Append(l, hm)

\* moveone_hashmap: the earliest map of from, if any, becomes the latest
\* of to (from' is pop_earliest(from)).
moveone_hashmap(to, from) == IF from = << >> THEN to ELSE push_latest(to, Head(from))

\* add_hashmap: a map from the free list, or a new one, zeroed.
add_hashmap == << >>

\* data_exchange_aggregator_unsafe: the aggregator's only working map
\* moves to working_sh; the free-list moves carry no packet records and
\* are left out.
data_exchange_aggregator_unsafe == sh' = moveone_hashmap(sh, <<working>>)

\* Variant: the hand-off without the wake-up of a sleeping reporter.
period_transition_nosignal ==
    /\ EpochRoom
    /\ data_exchange_aggregator_unsafe
    /\ working' = add_hashmap
    /\ UNCHANGED repPc

\* period_transition: under shared_mutex data_exchange_aggregator_unsafe
\* and signal shared_cond if reporter_sleeping; then add_hashmap a fresh
\* working map.
period_transition ==
    /\ EpochRoom
    /\ data_exchange_aggregator_unsafe
    /\ working' = add_hashmap
    /\ IF sleeping THEN SignalReporter ELSE UNCHANGED repPc

\* setNextInterval(&ref, &aggregator_interval): adds tv_nsec, with carry
\* into tv_sec; the interval's tv_sec is never added.
setNextInterval(s) == s + IntervalNsec

\* handle_packet_arrival: the record is applied to the working map.
handle_packet_arrival(x) == working' = Append(working, x)

\* Epoch rotation, as the loop body does it: period_transition, then
\* setNextInterval, then continue.
Rotate ==
    /\ period_transition
    /\ slack' = setNextInterval(slack)
    /\ aggPc' = "top"
    /\ UNCHANGED <<pushed, lq, internal, alq, rlist, sleeping, done,
                   destroyPc, reported>>

\* while (!pd3_estimator_done): the loop ends and the handle is destroyed.
AggExit ==
    /\ aggPc = "top" /\ done
    /\ aggPc' = "exited"
    /\ UNCHANGED <<pushed, lq, internal, alq, slack, working, sh, rlist,
                   repPc, sleeping, done, destroyPc, reported>>

\* timeCmp(&now, &ref) > 0: the deadline has passed; rotate without
\* dequeuing.
AggLate ==
    /\ aggPc = "top" /\ ~done /\ slack < 0
    /\ Rotate

\* fistq_timeddequeue_any with a non-empty local queue: pop its head.
AggTakeLocal ==
    /\ aggPc = "top" /\ ~done /\ slack >= 0
    /\ alq # <<>>
    /\ handle_packet_arrival(Head(alq))
    /\ alq' = Tail(alq)
    /\ UNCHANGED <<pushed, lq, internal, aggPc, slack, sh, rlist, repPc,
                   sleeping, done, destroyPc, reported>>

\* fistq_timeddequeue_any with an empty local queue and a non-empty shared
\* queue, taken either at once or on waking from the timed wait: splice
\* the shared queue into the local one under fq->mutex, pop its head.
AggSplice ==
    /\ \/ aggPc = "top" /\ ~done /\ slack >= 0 /\ alq = <<>>
       \/ aggPc = "wait"
    /\ internal # <<>>
    /\ handle_packet_arrival(Head(internal))
    /\ alq' = Tail(internal)
    /\ internal' = <<>>
    /\ aggPc' = "top"
    /\ UNCHANGED <<pushed, lq, slack, sh, rlist, repPc, sleeping, done,
                   destroyPc, reported>>

\* Both queues empty and ref not yet reached: pthread_cond_timedwait.
AggWait ==
    /\ aggPc = "top" /\ ~done /\ slack > 0
    /\ alq = <<>> /\ internal = <<>>
    /\ aggPc' = "wait"
    /\ UNCHANGED <<pushed, lq, internal, alq, slack, working, sh, rlist,
                   repPc, sleeping, done, destroyPc, reported>>

\* pthread_cond_timedwait returns ETIMEDOUT (at once if ref == now) with
\* the shared queue still empty: FISTQ_TYPE_TIMEOUT, and the loop rotates.
AggTimeout ==
    /\ \/ aggPc = "top" /\ ~done /\ slack = 0 /\ alq = <<>>
       \/ aggPc = "wait" /\ slack <= 0
    /\ internal = <<>>
    /\ Rotate

\* The monotonic clock advances.
Tick ==
    /\ slack > -MaxLag
    /\ slack' = slack - 1
    /\ UNCHANGED <<pushed, lq, internal, alq, aggPc, working, sh, rlist,
                   repPc, sleeping, done, destroyPc, reported>>

(***************************************************************************)
(* Reporter                                                                *)
(***************************************************************************)

pending_hashmaps == Len(sh)

\* moveall_hashmap(to, from): from's maps are more recent than to's and
\* are appended after them; from is left empty.
moveall_hashmap(to, from) == to \o from

\* Variant: the wait loop that does not look at pd3_estimator_done.
ReporterWaits_nodone == pending_hashmaps = 0

\* The condition of while (!pending_hashmaps() && !pd3_estimator_done).
ReporterWaits == pending_hashmaps = 0 /\ ~done

\* while (!pd3_estimator_done), read without the lock.
RepTop ==
    /\ repPc = "top"
    /\ repPc' = IF done THEN "exited" ELSE "lock"
    /\ UNCHANGED <<pushed, lq, internal, alq, aggPc, slack, working, sh,
                   rlist, sleeping, done, destroyPc, reported>>

\* Under shared_mutex: reporter_sleeping = 1, then, while nothing is
\* pending and not done, pthread_cond_wait (the mutex is released).  The
\* same test is made again by a woken reporter once it holds the mutex.
RepSleep ==
    /\ repPc \in {"lock", "woken"}
    /\ ReporterWaits
    /\ repPc' = "wait"
    /\ sleeping' = TRUE
    /\ UNCHANGED <<pushed, lq, internal, alq, aggPc, slack, working, sh,
                   rlist, done, destroyPc, reported>>

\* pthread_cond_wait may return without a signal.
RepSpurious ==
    /\ repPc = "wait"
    /\ repPc' = "woken"
    /\ UNCHANGED <<pushed, lq, internal, alq, aggPc, slack, working, sh,
                   rlist, sleeping, done, destroyPc, reported>>

\* reporter_sleeping = 0; pd3_estimator_done: unlock and leave the loop.
RepQuit ==
    /\ repPc \in {"lock", "woken"}
    /\ ~ReporterWaits /\ done
    /\ repPc' = "exited"
    /\ sleeping' = FALSE
    /\ UNCHANGED <<pushed, lq, internal, alq, aggPc, slack, working, sh,
                   rlist, done, destroyPc, reported>>

\* reporter_sleeping = 0; data_exchange_reporter_unsafe: moveall_hashmap
\* appends every handed-over epoch to working_r; unlock.
RepDrain ==
    /\ repPc \in {"lock", "woken"}
    /\ ~ReporterWaits /\ ~done
    /\ rlist' = moveall_hashmap(rlist, sh)
    /\ sh' = <<>>
    /\ repPc' = "process"
    /\ sleeping' = FALSE
    /\ UNCHANGED <<pushed, lq, internal, alq, aggPc, slack, working, done,
                   destroyPc, reported>>

\* One pass of while (working_r.count >= periods_to_wait): the earliest
\* epoch's records go to the estimators and trackers, and the map is
\* recycled (moveone_hashmap to free_hashmaps_r).
RepProcess ==
    /\ repPc = "process"
    /\ Len(rlist) >= W /\ rlist # <<>>
    /\ reported' = reported \o Head(rlist)
    /\ rlist' = pop_earliest(rlist)
    /\ UNCHANGED <<pushed, lq, internal, alq, aggPc, slack, working, sh,
                   repPc, sleeping, done, destroyPc>>

\* The processing loop ends: fewer than periods_to_wait epochs are left.
RepIdle ==
    /\ repPc = "process"
    /\ Len(rlist) < W
    /\ repPc' = "top"
    /\ UNCHANGED <<pushed, lq, internal, alq, aggPc, slack, working, sh,
                   rlist, sleeping, done, destroyPc, reported>>

(***************************************************************************)
(* pd3_estimator_destroy                                                   *)
(***************************************************************************)

\* pd3_estimator_done = 1, written without a lock.
Destroy ==
    /\ Shutdown /\ destroyPc = "running"
    /\ done' = TRUE
    /\ destroyPc' = "joinAgg"
    /\ UNCHANGED <<pushed, lq, internal, alq, aggPc, slack, working, sh,
                   rlist, repPc, sleeping, reported>>

\* pthread_join(aggregator_tid) returns; shared_cond is signalled under
\* shared_mutex.
DestroySignal ==
    /\ destroyPc = "joinAgg" /\ aggPc = "exited"
    /\ SignalReporter
    /\ destroyPc' = "joinRep"
    /\ UNCHANGED <<pushed, lq, internal, alq, aggPc, slack, working, sh,
                   rlist, sleeping, done, reported>>

\* pthread_join(reporter_tid) returns; the lists are freed, and started
\* and done are reset.
DestroyFinish ==
    /\ destroyPc = "joinRep" /\ repPc = "exited"
    /\ destroyPc' = "finished"
    /\ done' = FALSE
    /\ UNCHANGED <<pushed, lq, internal, alq, aggPc, slack, working, sh,
                   rlist, repPc, sleeping, reported>>

(***************************************************************************)
(* Specification                                                           *)
(***************************************************************************)

Aggregator ==
    AggExit \/ AggLate \/ AggTakeLocal \/ AggSplice \/ AggWait \/ AggTimeout

Reporter ==
    RepTop \/ RepSleep \/ RepQuit \/ RepDrain \/ RepProcess \/ RepIdle

Next ==
    \/ \E p \in Producers : PushPacketInfo(p) \/ Flush(p)
    \/ Aggregator \/ Reporter \/ RepSpurious \/ Tick
    \/ Destroy \/ DestroySignal \/ DestroyFinish

\* Each thread runs whenever it can; the clock always advances.  A dequeue
\* that keeps becoming possible is eventually taken: the clock does not
\* tick past every deadline before the aggregator's next step.  Producers
\* and the caller of destroy are under no obligation to act.
Fairness ==
    /\ WF_vars(Aggregator) /\ WF_vars(Reporter) /\ WF_vars(Tick)
    /\ SF_vars(AggTakeLocal) /\ SF_vars(AggSplice)
    /\ WF_vars(DestroySignal) /\ WF_vars(DestroyFinish)

Spec == Init /\ [][Next]_vars /\ Fairness

(***************************************************************************)
(* Properties                                                              *)
(***************************************************************************)

\* Every record a handle has pushed, wherever it is now.
InPipeline(p) ==
    reported \o FlattenSeq(rlist) \o FlattenSeq(sh) \o working
             \o alq \o internal \o lq[p]

\* End to end, for every producer handle, the records processed by the
\* reporter, followed by those in the reporter's epochs, in the hand-off,
\* in the working map and in the fistq queues, are exactly the records
\* the handle pushed, once each, in push order: flush, timed dequeue,
\* period_transition and the reporter's drain neither lose, duplicate
\* nor reorder a handle's packets (spec: "pushes are FIFO end-to-end",
\* "epochs are delivered to the reporter in strict creation order").
PipelineOrder ==
    \A p \in Producers :
        SelectSeq(InPipeline(p), LAMBDA x : x[1] = p)
            = [i \in 1..pushed[p] |-> <<p, i - 1>>]

Flushed(x) == x[2] < pushed[x[1]] /\ x \notin Range(lq[x[1]])

\* A record that has been flushed is eventually processed by the
\* reporter, unless pd3_estimator_destroy has begun (destroy does not
\* drain the pipeline): the aggregator's timer keeps rotating epochs, and
\* the reporter_sleeping / shared_cond hand-off never leaves the reporter
\* asleep while epochs are pending.
EventuallyReported ==
    \A x \in Packets :
        Flushed(x) ~> (x \in Range(reported) \/ destroyPc # "running")

\* Once destroy has set pd3_estimator_done, both joins return: neither
\* thread is left blocked in its timed or untimed wait.
ShutdownCompletes ==
    (destroyPc = "joinAgg") ~> (destroyPc = "finished")

\* The reporter never enters an iteration of its processing loop with no
\* epoch left: working_r.earliest is dereferenced in every iteration.
NoNullEarliest ==
    (repPc = "process" /\ Len(rlist) >= W) => rlist # <<>>

=============================================================================
