------------------------------ MODULE Lifecycle ------------------------------
(***************************************************************************)
(* The library's lifecycle (pd3_estimator.c) and its report schedule      *)
(* (reportschedule.c).  Application threads call pd3_estimator_init and   *)
(* pd3_estimator_destroy; init parses the schedule under init_mutex and   *)
(* starts an aggregator and a reporter thread; the reporter asks the      *)
(* schedule, for every batch it processes, which trackers are due         *)
(* (schedule_outlets) and moves each one it reports to its next slot      *)
(* (schedule_reset).                                                      *)
(*                                                                         *)
(* A schedule string is a sequence of items whose interval and offset     *)
(* fields are abstracted to their first character (a digit or '.', or    *)
(* another) and their atof value in time units.  Time is relative: an    *)
(* entry's due is next_run - now.  The data the threads exchange is       *)
(* Pipeline's subject and is left out here.                               *)
(***************************************************************************)
EXTENDS Integers, Sequences, SequencesExt, FiniteSets

CONSTANTS
    App,            \* application threads calling init and destroy
    Schedules,      \* reporter_schedule strings the application passes
    MaxCalls,       \* bound on API calls per application thread
    MaxCreateFail,  \* bound on failed pthread_create calls
    MaxAllocFail,   \* bound on failed allocations
    MaxLag          \* bound on how far past due a tracker falls

NoOwner == "none"

\* next_run + 2^63 or more: a slot that never comes.
DueNever == 1000

\* A zeroed struct repeating_item: interval 0, next_run 0, long past.
ZeroItem == [iv |-> 0, due |-> -MaxLag]

Threads == {"start", "run", "exit", "joined"}

VARIABLES
    pc,          \* pc[a]: where application thread a is
    calls,       \* calls[a]: API calls a has made
    owner,       \* init_mutex: the thread holding it, or NoOwner
    started,     \* pd3_estimator_started
    done,        \* pd3_estimator_done
    agg,         \* agg[k]: the k-th aggregator thread; aggregator_tid = Len(agg)
    rep,         \* rep[k]: the k-th reporter thread; reporter_tid = Len(rep)
    ntrackers,   \* ntrackers[k]: reporter k's local copy of nitems
    schedule,    \* reportschedule.c's schedule[]: index -> [iv, due]
    nalloc,      \* the number of entries its calloc allocated
    nitems,      \* reportschedule.c's nitems
    overflow,    \* set_schedule wrote past the allocation
    fired,       \* trackers the last reporter step reported
    createFails, \* pthread_create failures so far
    allocFails   \* allocation failures so far

vars == <<pc, calls, owner, started, done, agg, rep, ntrackers, schedule,
          nalloc, nitems, overflow, fired, createFails, allocFails>>

TypeOK ==
    /\ pc \in [App -> {"idle", "i_lock", "d_lock", "d_done", "d_join_agg",
                       "d_join_rep", "d_cleanup", "stuck"}]
    /\ calls \in [App -> 0..MaxCalls]
    /\ owner \in App \cup {NoOwner}
    /\ started \in BOOLEAN /\ done \in BOOLEAN
    /\ agg \in Seq(Threads) /\ rep \in Seq(Threads)
    /\ ntrackers \in Seq(Nat) /\ Len(ntrackers) = Len(rep)
    /\ DOMAIN schedule \subseteq Nat
    /\ \A i \in DOMAIN schedule : schedule[i].iv \in Nat /\ schedule[i].due \in Int
    /\ nalloc \in Nat /\ nitems \in Nat /\ overflow \in BOOLEAN
    /\ fired \subseteq DOMAIN schedule
    /\ createFails \in 0..MaxCreateFail /\ allocFails \in 0..MaxAllocFail

Init ==
    /\ pc = [a \in App |-> "idle"]
    /\ calls = [a \in App |-> 0]
    /\ owner = NoOwner
    /\ started = FALSE /\ done = FALSE
    /\ agg = << >> /\ rep = << >> /\ ntrackers = << >>
    /\ schedule = << >> /\ nalloc = 0 /\ nitems = 0 /\ overflow = FALSE
    /\ fired = {}
    /\ createFails = 0 /\ allocFails = 0

AllocFail == allocFails < MaxAllocFail /\ allocFails' = allocFails + 1
CreateFail == createFails < MaxCreateFail /\ createFails' = createFails + 1

(***************************************************************************)
(* reportschedule.c                                                       *)
(***************************************************************************)

\* A field that set_schedule accepts as a number: it starts with a digit
\* or '.'.  An absent field has lead "none" and atof value 0.
Numeric(f) == f.lead = "digit"

\* One iteration of set_schedule's loop: outlets are stored at
\* schedule[nitems]; the interval must be numeric; an offset whose atof is
\* not 0 must be numeric and replaces the first run, otherwise the first
\* run is one interval after timezero (now).  nitems counts the item.
ParseItem(acc, it) ==
    IF ~acc.ok THEN acc
    ELSE LET idx  == acc.nitems
             over == acc.over \/ idx >= acc.n
             hasOff == it.off.val # 0
         IN  IF ~Numeric(it.iv) \/ (hasOff /\ ~Numeric(it.off))
             THEN [acc EXCEPT !.ok = FALSE, !.over = over]
             ELSE [acc EXCEPT !.over = over, !.nitems = idx + 1,
                     !.items = (idx :> [iv |-> it.iv.val,
                                        due |-> IF hasOff THEN it.off.val
                                                ELSE it.iv.val]) @@ @]

\* set_schedule after its calloc: n entries counted from the ';'s, zeroed,
\* then the items parsed from index nitems on, which destroy_schedule
\* alone resets.  Entries below nitems that the new array does not hold
\* read as zero.
set_schedule(spec) ==
    LET n  == Len(spec)
        r  == FoldLeft(ParseItem,
                       [ok |-> TRUE, n |-> n, nitems |-> nitems, over |-> overflow,
                        items |-> [i \in 0..(n - 1) |-> ZeroItem]], spec)
    IN  [r EXCEPT !.items = r.items @@ [i \in 0..(r.nitems - 1) |-> ZeroItem]]

\* destroy_schedule: free the array, nitems = 0.
destroy_schedule ==
    /\ schedule' = << >>
    /\ nalloc' = 0
    /\ nitems' = 0

\* schedule_outlets: NULL while now < next_run.
schedule_outlets(e) == e.due <= 0

\* Variant: the comparison inverted.
schedule_outlets_inverted(e) == e.due > 0

\* The first multiple of d not below x, for x >= 0: ceil(x / d) * d.
CeilMul(x, d) == ((x + d - 1) \div d) * d

\* Variant: floor in place of ceil.
schedule_reset_floor(e) ==
    IF e.iv > 0 THEN {[e EXCEPT !.due = @ + ((-@) \div e.iv) * e.iv]}
    ELSE {e, [e EXCEPT !.due = DueNever]}

\* schedule_reset: next_run += interval * ceil((now - next_run) / interval).
\* With interval 0 the quotient is inf or NaN and its conversion to
\* TIMEINTERVAL is undefined: next_run either stays or moves 2^63 on.
\* The set of outcomes.
schedule_reset(e) ==
    IF e.iv > 0 THEN {[e EXCEPT !.due = @ + CeilMul(-@, e.iv)]}
    ELSE {e, [e EXCEPT !.due = DueNever]}

(***************************************************************************)
(* pd3_estimator_init                                                     *)
(***************************************************************************)

Call(a) == calls[a] < MaxCalls /\ calls' = [calls EXCEPT ![a] = @ + 1]

\* The call: a negative aggregation_interval returns -1 before the lock.
InitCall(a) ==
    /\ pc[a] = "idle" /\ Call(a)
    /\ \/ UNCHANGED pc
       \/ pc' = [pc EXCEPT ![a] = "i_lock"]
    /\ UNCHANGED <<owner, started, done, agg, rep, ntrackers, schedule, nalloc,
                   nitems, overflow, createFails, allocFails>>

\* A successful set_schedule installed.
Install(r, n) ==
    /\ schedule' = r.items /\ nalloc' = n
    /\ nitems' = r.nitems /\ overflow' = r.over

\* The body, once init_mutex is taken: with the library started, unlock
\* and return 0.  Otherwise set_schedule; its failure (calloc, or a field
\* it rejects) returns -1 with init_mutex still held.  Then the aggregator
\* and the reporter are created; a failed pthread_create unlocks and
\* returns -1, after the schedule is set and, for the reporter, with the
\* aggregator already running.  Success sets pd3_estimator_started.
pd3_estimator_init(a) ==
    /\ pc[a] = "i_lock" /\ owner = NoOwner
    /\ pc' = [pc EXCEPT ![a] = "idle"]
    /\ \/ /\ started
          /\ UNCHANGED <<owner, started, agg, rep, ntrackers, schedule, nalloc,
                         nitems, overflow, createFails, allocFails>>
       \/ /\ ~started /\ AllocFail
          /\ owner' = a
          /\ schedule' = << >> /\ nalloc' = 0
          /\ UNCHANGED <<started, agg, rep, ntrackers, nitems, overflow, createFails>>
       \/ \E spec \in Schedules :
          LET r == set_schedule(spec)
          IN  /\ ~started
              /\ \/ /\ ~r.ok
                    /\ owner' = a
                    /\ Install(r, Len(spec))
                    /\ UNCHANGED <<started, agg, rep, ntrackers, createFails>>
                 \/ /\ r.ok /\ CreateFail
                    /\ Install(r, Len(spec))
                    /\ UNCHANGED <<owner, started, agg, rep, ntrackers>>
                 \/ /\ r.ok /\ CreateFail
                    /\ Install(r, Len(spec))
                    /\ agg' = Append(agg, "start")
                    /\ UNCHANGED <<owner, started, rep, ntrackers>>
                 \/ /\ r.ok
                    /\ Install(r, Len(spec))
                    /\ agg' = Append(agg, "start")
                    /\ rep' = Append(rep, "start")
                    /\ ntrackers' = Append(ntrackers, 0)
                    /\ started' = TRUE
                    /\ UNCHANGED <<owner, createFails>>
              /\ UNCHANGED allocFails
    /\ UNCHANGED <<calls, done>>

(***************************************************************************)
(* pd3_estimator_destroy                                                  *)
(***************************************************************************)

DestroyCall(a) ==
    /\ pc[a] = "idle" /\ Call(a)
    /\ pc' = [pc EXCEPT ![a] = "d_lock"]
    /\ UNCHANGED <<owner, started, done, agg, rep, ntrackers, schedule, nalloc,
                   nitems, overflow, createFails, allocFails>>

Others == <<calls, owner, agg, rep, ntrackers, schedule, nalloc, nitems,
            overflow, createFails, allocFails>>

\* Lock init_mutex; not started: unlock and return 0; started: unlock
\* and go on.
DestroyCheck(a) ==
    /\ pc[a] = "d_lock" /\ owner = NoOwner
    /\ pc' = [pc EXCEPT ![a] = IF started THEN "d_done" ELSE "idle"]
    /\ UNCHANGED <<started, done>> /\ UNCHANGED Others

DestroyDone(a) ==
    /\ pc[a] = "d_done"
    /\ done' = TRUE
    /\ pc' = [pc EXCEPT ![a] = "d_join_agg"]
    /\ UNCHANGED started /\ UNCHANGED Others

\* pthread_join on thread k of a sequence: waits while it runs; on a
\* thread already joined the result is undefined: an error return (the
\* destroy returns -1) or a caller blocked for good.
Join(a, ts, next) ==
    LET k == Len(ts)
    IN  \/ /\ ts[k] = "exit"
           /\ pc' = [pc EXCEPT ![a] = next]
        \/ /\ ts[k] = "joined"
           /\ pc' \in {[pc EXCEPT ![a] = "idle"], [pc EXCEPT ![a] = "stuck"]}

JoinAgg(a) ==
    /\ pc[a] = "d_join_agg"
    /\ Join(a, agg, "d_join_rep")
    /\ agg' = [agg EXCEPT ![Len(agg)] = "joined"]
    /\ UNCHANGED <<calls, owner, started, done, rep, ntrackers, schedule, nalloc,
                   nitems, overflow, createFails, allocFails>>

\* The signal of shared_cond that wakes the reporter is folded into the
\* reporter's exit, which needs only pd3_estimator_done.
JoinRep(a) ==
    /\ pc[a] = "d_join_rep"
    /\ Join(a, rep, "d_cleanup")
    /\ rep' = [rep EXCEPT ![Len(rep)] = "joined"]
    /\ UNCHANGED <<calls, owner, started, done, agg, ntrackers, schedule, nalloc,
                   nitems, overflow, createFails, allocFails>>

\* Variant: the cleanup forgets to clear pd3_estimator_started.
DestroyCleanup_keep_started(a) ==
    /\ pc[a] = "d_cleanup"
    /\ destroy_schedule
    /\ done' = FALSE
    /\ pc' = [pc EXCEPT ![a] = "idle"]
    /\ UNCHANGED <<calls, owner, started, agg, rep, ntrackers, overflow,
                   createFails, allocFails>>

\* The free lists and working storage (Pipeline's state) are released,
\* destroy_schedule runs, and started and done are cleared.
DestroyCleanup(a) ==
    /\ pc[a] = "d_cleanup"
    /\ destroy_schedule
    /\ started' = FALSE /\ done' = FALSE
    /\ pc' = [pc EXCEPT ![a] = "idle"]
    /\ UNCHANGED <<calls, owner, agg, rep, ntrackers, overflow, createFails,
                   allocFails>>

(***************************************************************************)
(* The threads                                                            *)
(***************************************************************************)

\* aggregator_thread: its fistq_getHandle failing returns at once.
AggStart(k) ==
    /\ agg[k] = "start"
    /\ \/ AllocFail /\ agg' = [agg EXCEPT ![k] = "exit"]
       \/ agg' = [agg EXCEPT ![k] = "run"] /\ UNCHANGED allocFails
    /\ UNCHANGED <<pc, calls, owner, started, done, rep, ntrackers, schedule,
                   nalloc, nitems, overflow, createFails>>

\* while (!pd3_estimator_done) ... ends.
AggExit(k) ==
    /\ agg[k] = "run" /\ done
    /\ agg' = [agg EXCEPT ![k] = "exit"]
    /\ UNCHANGED <<pc, calls, owner, started, done, rep, ntrackers, schedule,
                   nalloc, nitems, overflow, createFails, allocFails>>

\* reporter_thread: ntrackers = schedule_parallelism(); with none, or the
\* trackers' calloc failing, it returns at once.
RepStart(k) ==
    /\ rep[k] = "start"
    /\ ntrackers' = [ntrackers EXCEPT ![k] = nitems]
    /\ \/ nitems = 0 /\ rep' = [rep EXCEPT ![k] = "exit"] /\ UNCHANGED allocFails
       \/ nitems > 0 /\ AllocFail /\ rep' = [rep EXCEPT ![k] = "exit"]
       \/ nitems > 0 /\ rep' = [rep EXCEPT ![k] = "run"] /\ UNCHANGED allocFails
    /\ UNCHANGED <<pc, calls, owner, started, done, agg, schedule, nalloc, nitems,
                   overflow, createFails>>

\* Variant: the loop over the trackers stops one short.
Trackers_short(k) == 0..(ntrackers[k] - 2)

\* The trackers reporter k asks the schedule about.
Trackers(k) == 0..(ntrackers[k] - 1)

\* One pass of the reporter's processing loop over a batch from a running
\* aggregator: every tracker whose schedule_outlets is not NULL reports
\* and is schedule_reset; the others only accumulate.
RepBatch(k) ==
    LET D == {i \in Trackers(k) : schedule_outlets(schedule[i])}
    IN  /\ rep[k] = "run" /\ ~done
        /\ \E j \in DOMAIN agg : agg[j] = "run"
        /\ D # {}
        /\ \E e \in [D -> UNION {schedule_reset(schedule[i]) : i \in D}] :
              /\ \A i \in D : e[i] \in schedule_reset(schedule[i])
              /\ schedule' = [i \in DOMAIN schedule |->
                                 IF i \in D THEN e[i] ELSE schedule[i]]
        /\ fired' = D
        /\ UNCHANGED <<pc, calls, owner, started, done, agg, rep, ntrackers,
                       nalloc, nitems, overflow, createFails, allocFails>>

\* The wait on shared_cond ends with pd3_estimator_done, and the loop.
RepExit(k) ==
    /\ rep[k] = "run" /\ done
    /\ rep' = [rep EXCEPT ![k] = "exit"]
    /\ UNCHANGED <<pc, calls, owner, started, done, agg, ntrackers, schedule,
                   nalloc, nitems, overflow, createFails, allocFails>>

\* Time passes while a reporter runs; it cannot leave a tracker with an
\* interval more than MaxLag past due unserved.
Tick ==
    LET Live(e) == e.iv > 0 /\ e.due # DueNever
    IN  /\ \E k \in DOMAIN rep : rep[k] = "run"
        /\ \A i \in DOMAIN schedule : Live(schedule[i]) => schedule[i].due > -MaxLag
        /\ schedule' = [i \in DOMAIN schedule |->
                          IF schedule[i].due = DueNever \/ schedule[i].due <= -MaxLag
                          THEN schedule[i]
                          ELSE [schedule[i] EXCEPT !.due = @ - 1]]
        /\ fired' = {}
        /\ UNCHANGED <<pc, calls, owner, started, done, agg, rep, ntrackers,
                       nalloc, nitems, overflow, createFails, allocFails>>

\* A step that reports nothing.
Quiet == fired' = {}

Next ==
    \/ \E a \in App : InitCall(a) /\ Quiet
    \/ \E a \in App : pd3_estimator_init(a) /\ Quiet
    \/ \E a \in App : DestroyCall(a) /\ Quiet
    \/ \E a \in App : DestroyCheck(a) /\ Quiet
    \/ \E a \in App : DestroyDone(a) /\ Quiet
    \/ \E a \in App : JoinAgg(a) /\ Quiet
    \/ \E a \in App : JoinRep(a) /\ Quiet
    \/ \E a \in App : DestroyCleanup(a) /\ Quiet
    \/ \E k \in DOMAIN agg : AggStart(k) /\ Quiet
    \/ \E k \in DOMAIN agg : AggExit(k) /\ Quiet
    \/ \E k \in DOMAIN rep : RepStart(k) /\ Quiet
    \/ \E k \in DOMAIN rep : RepExit(k) /\ Quiet
    \/ \E k \in DOMAIN rep : RepBatch(k)
    \/ Tick

\* The reporter thread runs whenever a batch is pending, and time passes.
Spec == Init /\ [][Next]_vars
        /\ WF_vars(\E k \in DOMAIN rep : RepBatch(k))
        /\ WF_vars(Tick)

(***************************************************************************)
(* Properties                                                             *)
(***************************************************************************)

\* Every index nitems can reach: each init parses one string from nitems.
TrackerIds ==
    0..(Cardinality(App) * MaxCalls * Max({Len(sp) : sp \in Schedules}) - 1)

\* schedule_reset moves a reported tracker with a positive interval to the
\* first slot of its series that is not before now: next_run stays on the
\* grid offset + k * interval, is not in the past, and is less than one
\* interval ahead.  This is the ceil in schedule_reset; it is what lets
\* the reporter skip the slots it missed while it was late.
ResetToFirstSlot ==
    [][\A i \in fired' :
          schedule[i].iv > 0 =>
              LET d == schedule'[i].due  iv == schedule[i].iv
              IN  /\ d \in 0..(iv - 1)
                  /\ (d - schedule[i].due) % iv = 0]_vars

\* While pd3_estimator_started is set and no destroy has set
\* pd3_estimator_done, the aggregator and the reporter that init created
\* last exist and have not been joined: init sets started only after both
\* pthread_creates, and destroy clears it only after both joins.
StartedMeansThreads ==
    started /\ ~done =>
        /\ Len(agg) >= 1 /\ agg[Len(agg)] # "joined"
        /\ Len(rep) >= 1 /\ rep[Len(rep)] # "joined"

\* Tracker i of a running reporter, fed by a running aggregator.
Serving(i) ==
    \E k \in DOMAIN rep :
        /\ rep[k] = "run" /\ ~done /\ i < ntrackers[k]
        /\ \E j \in DOMAIN agg : agg[j] = "run"
        /\ schedule[i].iv > 0

\* Every tracker with a positive interval reports again, as long as its
\* reporter keeps running and batches keep coming: schedule_reset never
\* moves next_run out of reach and schedule_outlets answers once it is due.
EveryTrackerReports ==
    \A i \in TrackerIds : Serving(i) ~> (i \in fired \/ ~Serving(i))

=============================================================================
