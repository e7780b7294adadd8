-------------------------------- MODULE FistQ --------------------------------
(***************************************************************************)
(* fistq.c: one (src,dst) pair's shared queue and the handles on it.      *)
(* Producer handles enqueue (with the DEFAULT, FLUSH and NOFLUSH options) *)
(* and flush; the consumer handle dequeues with fistq_dequeue_any or      *)
(* fistq_timeddequeue_any.  Every handle can be closed and reopened;      *)
(* fistq_getHandle finds or creates the fistq_t under fistq_list_lock,    *)
(* fistq_destroyHandle frees the handle's local queue and, with the last  *)
(* reference, the fistq_t and what its shared queue still holds.          *)
(*                                                                         *)
(* Each operation is one step: a handle's local queue is private to its   *)
(* thread and every shared part is touched under fq->mutex or             *)
(* fistq_list_lock.  Allocation failures (calloc of a node, a handle or a *)
(* fistq_t) share the budget MaxAllocFail.                                *)
(***************************************************************************)
EXTENDS Naturals, Sequences, SequencesExt, FiniteSets

CONSTANTS
    Producers,      \* producer handles' owners
    Consumer,       \* the consumer handle's owner
    Threshold,      \* fh->threshold (DEFAULT_THRESHOLD unless set)
    MaxSend,        \* bound on items enqueued by all producers
    MaxAllocFail    \* bound on failed allocations

Users == Producers \cup {Consumer}

Options == {"FISTQ_DEFAULT", "FISTQ_FLUSH", "FISTQ_NOFLUSH"}

Items == Producers \X (0..MaxSend)

NoItem == <<"none", 0>>

VARIABLES
    hopen,      \* hopen[u]: u holds a handle
    lq,         \* lq[u]: the handle's local queue
    fqExists,   \* the fistq_t is on fistq_list
    refCount,   \* fq->ref_count
    internal,   \* fq->internal, the shared queue
    listLock,   \* fistq_list_lock: "free" or "leaked" (never unlocked)
    stuck,      \* users blocked forever on fistq_list_lock
    sent,       \* sent[p]: items p has enqueued
    ret,        \* the consumer's last result: <<type, item>>
    allocFails  \* allocations that failed so far

vars == <<hopen, lq, fqExists, refCount, internal, listLock, stuck, sent,
          ret, allocFails>>

TypeOK ==
    /\ hopen \in [Users -> BOOLEAN]
    /\ lq \in [Users -> Seq(Items)]
    /\ fqExists \in BOOLEAN
    /\ refCount \in Nat
    /\ internal \in Seq(Items)
    /\ listLock \in {"free", "leaked"}
    /\ stuck \subseteq Users
    /\ sent \in [Producers -> 0..MaxSend]
    /\ ret \in {"FISTQ_TYPE_NULL", "FISTQ_TYPE_TIMEOUT", "FISTQ_TYPE_PINFO"}
                \X (Items \cup {NoItem})
    /\ allocFails \in 0..MaxAllocFail

\* fistq_init: an empty fistq_list, fistq_list_lock initialised.
Init ==
    /\ hopen = [u \in Users |-> FALSE]
    /\ lq = [u \in Users |-> << >>]
    /\ fqExists = FALSE
    /\ refCount = 0
    /\ internal = << >>
    /\ listLock = "free"
    /\ stuck = {}
    /\ sent = [p \in Producers |-> 0]
    /\ ret = <<"FISTQ_TYPE_NULL", NoItem>>
    /\ allocFails = 0

Ready(u) == u \notin stuck

SumSent == FoldFunction(+, 0, sent)

AllocFail == allocFails < MaxAllocFail /\ allocFails' = allocFails + 1

(***************************************************************************)
(* Handles                                                                 *)
(***************************************************************************)

\* Variant: a match is returned without taking a reference.
fistq_find_unsafe_noref == UNCHANGED refCount

\* fistq_find_unsafe: a match takes a reference under fq->mutex.
fistq_find_unsafe == refCount' = refCount + 1

\* fistq_create_unsafe: a new fistq_t with ref_count 1 and an empty queue.
fistq_create_unsafe ==
    /\ fqExists' = TRUE
    /\ refCount' = 1
    /\ internal' = << >>

\* fistq_getHandle: calloc the handle (NULL on failure), then under
\* fistq_list_lock find or create the fistq_t.  A failed create frees the
\* handle and returns NULL without unlocking fistq_list_lock.
fistq_getHandle(u) ==
    /\ Ready(u) /\ ~hopen[u]
    /\ \/ /\ AllocFail
          /\ UNCHANGED <<hopen, lq, fqExists, refCount, internal, listLock, stuck>>
       \/ /\ listLock = "leaked"
          /\ stuck' = stuck \cup {u}
          /\ UNCHANGED <<hopen, lq, fqExists, refCount, internal, listLock,
                         allocFails>>
       \/ /\ listLock = "free"
          /\ fqExists
          /\ fistq_find_unsafe
          /\ hopen' = [hopen EXCEPT ![u] = TRUE]
          /\ lq' = [lq EXCEPT ![u] = << >>]
          /\ UNCHANGED <<fqExists, internal, listLock, stuck, allocFails>>
       \/ /\ listLock = "free"
          /\ ~fqExists
          /\ fistq_create_unsafe
          /\ hopen' = [hopen EXCEPT ![u] = TRUE]
          /\ lq' = [lq EXCEPT ![u] = << >>]
          /\ UNCHANGED <<listLock, stuck, allocFails>>
       \/ /\ listLock = "free"
          /\ ~fqExists
          /\ AllocFail
          /\ listLock' = "leaked"
          /\ UNCHANGED <<hopen, lq, fqExists, refCount, internal, stuck>>
    /\ UNCHANGED <<sent, ret>>

\* fistq_free: the fistq_t leaves with whatever its shared queue holds
\* (queue_free frees the remaining nodes).
fistq_free ==
    /\ fqExists' = FALSE
    /\ internal' = << >>

\* fistq_destroyHandle: queue_free the local queue (before any lock), then
\* under fistq_list_lock and fq->mutex drop the reference; the last one
\* unlinks the fistq_t, which is freed after the unlocks.  fistq_list_lock
\* can only have leaked while no handle was open (create runs only when
\* the pair has no fistq_t), so an open handle always finds it free.
fistq_destroyHandle(u) ==
    /\ Ready(u) /\ hopen[u]
    /\ lq' = [lq EXCEPT ![u] = << >>]
    /\ refCount' = refCount - 1
    /\ hopen' = [hopen EXCEPT ![u] = FALSE]
    /\ IF refCount - 1 = 0 THEN fistq_free ELSE UNCHANGED <<fqExists, internal>>
    /\ UNCHANGED <<listLock, stuck, sent, ret, allocFails>>

(***************************************************************************)
(* Enqueue and flush                                                       *)
(***************************************************************************)

NewItem(p) == <<p, sent[p]>>

\* Variant: the local batch is spliced in front of the shared queue.
fistq_flush_prepend(u, q) ==
    /\ q # << >>
    /\ internal' = q \o internal
    /\ lq' = [lq EXCEPT ![u] = << >>]

\* fistq_flush: an empty local queue returns -1; otherwise the local queue
\* is spliced onto the tail of the shared queue under fq->mutex and
\* fq->cond is signalled.  q is the handle's local queue.
fistq_flush(u, q) ==
    /\ q # << >>
    /\ internal' = internal \o q
    /\ lq' = [lq EXCEPT ![u] = << >>]

\* fistq_direct: one node appended to the shared queue under fq->mutex,
\* whatever the handle's local queue holds.
fistq_direct(x) == internal' = Append(internal, x)

\* fistq_enqueue_any: calloc the node (-1 on failure); FISTQ_FLUSH hands it
\* to fistq_direct; otherwise it is appended to the local queue, which is
\* flushed when the option is not FISTQ_NOFLUSH and the size has reached
\* the threshold.
fistq_enqueue_any(p, op) ==
    /\ Ready(p) /\ hopen[p]
    /\ SumSent < MaxSend
    /\ \/ /\ AllocFail
          /\ UNCHANGED <<lq, internal, sent>>
       \/ /\ op = "FISTQ_FLUSH"
          /\ fistq_direct(NewItem(p))
          /\ sent' = [sent EXCEPT ![p] = @ + 1]
          /\ UNCHANGED <<lq, allocFails>>
       \/ /\ op # "FISTQ_FLUSH"
          /\ sent' = [sent EXCEPT ![p] = @ + 1]
          /\ LET q == Append(lq[p], NewItem(p))
             IN  IF op # "FISTQ_NOFLUSH" /\ Len(q) >= Threshold
                 THEN fistq_flush(p, q)
                 ELSE /\ lq' = [lq EXCEPT ![p] = q]
                      /\ UNCHANGED internal
          /\ UNCHANGED allocFails
    /\ UNCHANGED <<hopen, fqExists, refCount, listLock, stuck, ret>>

Flush(p) ==
    /\ Ready(p) /\ hopen[p]
    /\ fistq_flush(p, lq[p])
    /\ UNCHANGED <<hopen, fqExists, refCount, listLock, stuck, sent, ret,
                   allocFails>>

(***************************************************************************)
(* Dequeue                                                                 *)
(***************************************************************************)

\* The common tail of both dequeues: with an empty local queue, move the
\* whole shared queue into it under fq->mutex; then pop the local head.
TakeHead ==
    LET q == IF lq[Consumer] = << >> THEN internal ELSE lq[Consumer]
    IN  /\ q # << >>
        /\ lq' = [lq EXCEPT ![Consumer] = Tail(q)]
        /\ internal' = IF lq[Consumer] = << >> THEN << >> ELSE internal
        /\ ret' = <<"FISTQ_TYPE_PINFO", Head(q)>>

\* fistq_dequeue_any: blocks on fq->cond while both queues are empty.
fistq_dequeue_any ==
    /\ Ready(Consumer) /\ hopen[Consumer]
    /\ TakeHead
    /\ UNCHANGED <<hopen, fqExists, refCount, listLock, stuck, sent,
                   allocFails>>

\* fistq_timeddequeue_any: as fistq_dequeue_any, but with both queues
\* empty at the deadline it returns NULL with type FISTQ_TYPE_TIMEOUT.
fistq_timeddequeue_any ==
    /\ Ready(Consumer) /\ hopen[Consumer]
    /\ \/ TakeHead
       \/ /\ lq[Consumer] = << >> /\ internal = << >>
          /\ ret' = <<"FISTQ_TYPE_TIMEOUT", NoItem>>
          /\ UNCHANGED <<lq, internal>>
    /\ UNCHANGED <<hopen, fqExists, refCount, listLock, stuck, sent,
                   allocFails>>

Next ==
    \/ \E u \in Users : fistq_getHandle(u) \/ fistq_destroyHandle(u)
    \/ \E p \in Producers, op \in Options : fistq_enqueue_any(p, op)
    \/ \E p \in Producers : Flush(p)
    \/ fistq_dequeue_any
    \/ fistq_timeddequeue_any

Spec == Init /\ [][Next]_vars

(***************************************************************************)
(* Properties                                                              *)
(***************************************************************************)

\* fq->ref_count counts exactly the open handles, and the fistq_t is on the
\* list exactly while one is open: fistq_find_unsafe, fistq_create_unsafe
\* and fistq_destroyHandle keep the count and the list in step, so the last
\* close frees the queue and no handle is left pointing at a freed one.
RefCountMatchesHandles ==
    /\ refCount = Cardinality({u \in Users : hopen[u]})
    /\ fqExists = (refCount > 0)

\* The refinement mapping: p's held items are its local queue; its
\* committed items are those in the consumer's local queue and then those
\* in the shared queue, in that order.
ItemsOf(s, p) == SelectSeq(s, LAMBDA x : x[1] = p)

CommittedOf(p) == ItemsOf(lq[Consumer], p) \o ItemsOf(internal, p)

Channel == INSTANCE FistQChannel WITH FlushOvertakes <- TRUE,
    open <- {u \in Users : hopen[u]},
    held <- [p \in Producers |-> lq[p]],
    chan <- [p \in Producers |-> CommittedOf(p)],
    next <- sent

DocumentedChannel == INSTANCE FistQChannel WITH FlushOvertakes <- FALSE,
    open <- {u \in Users : hopen[u]},
    held <- [p \in Producers |-> lq[p]],
    chan <- [p \in Producers |-> CommittedOf(p)],
    next <- sent

\* fistq implements FistQChannel with the FLUSH order of its code: the
\* consumer takes each producer's items in the order they were committed,
\* never an item twice, never one that was not sent; items are lost only
\* when a handle is closed (fistq_destroyHandle's queue_free of the local
\* queue, and fistq_free of the shared queue with the last reference).
ImplementsChannel == Channel!Spec

\* fistq implements FistQChannel with the FLUSH order that the comment of
\* fistq_enqueue_any states: "the local queue is flushed immediately after
\* the enqueue", so a FISTQ_FLUSH item follows the handle's held items.
FlushKeepsOrder == DocumentedChannel!Spec

=============================================================================
