---------------------------- MODULE LossEstimator ---------------------------
(***************************************************************************)
(* The loss estimator of lossdata.c for one stream, inside the epoch      *)
(* pipeline that feeds it.                                                 *)
(*                                                                         *)
(*  - The network delivers the stream's packets 0..NumPackets-1, carrying  *)
(*    sequence numbers Start, Start+1, ... modulo 2^SeqBits.  Packets may  *)
(*    be lost, reordered (when Reordering) and duplicated.                 *)
(*  - The aggregator applies lossdata_arrival to the current epoch and     *)
(*    rotates epochs into the hand-off list (period_transition).           *)
(*  - The reporter runs lossdata_a2r on the earliest epoch once at least   *)
(*    W epochs are waiting, borrowing the ranges of the next W-1 epochs    *)
(*    as FUTURE ranges and rewriting those ranges in place.               *)
(*                                                                         *)
(* A range is [low, high].  In an epoch the list is kept head first, as    *)
(* lossdata_arrival prepends.  lossState is kept whole except last_range's *)
(* low, which the code never reads.                                        *)
(***************************************************************************)
EXTENDS Integers, Sequences, SequencesExt, FiniteSets, FlowState, SeqArith,
        ReorderData

CONSTANTS
    Start,          \* sequence number of the stream's first packet
    NumPackets,     \* number of packets the sender emits
    W,              \* reporter_min_batches (periods_to_wait)
    MaxBacklog,     \* bound on epochs waiting in the hand-off list
    Reordering,     \* may the network deliver packets out of order?
    MaxDup,         \* bound on duplicated deliveries
    MaxAllocFail    \* bound on failed range allocations in lossdata_arrival

ASSUME /\ Start \in SEQNO
       /\ NumPackets \in 1..Half
       /\ W \in 1..MaxBacklog
       /\ Reordering \in BOOLEAN
       /\ MaxDup \in Nat /\ MaxAllocFail \in Nat

VARIABLES
    nextSend,   \* next packet index the sender emits
    inflight,   \* packet indices in the network
    arrived,    \* packet indices the aggregator has recorded (history)
    dupsLeft, failsLeft,
    cur,        \* the aggregator's working epoch: this stream's item
    handed,     \* epochs handed to the reporter, earliest first
    lstate,     \* struct lossState of the stream
    tracker,    \* the stream's tracker entry (struct lossDataR), summed
                \* over all reports by lossdata_accumulate_time
    origin,     \* the fabricated last_range of the first computation
    rst         \* struct reorderState of the stream, with its histograms

net  == <<nextSend, inflight, arrived, dupsLeft, failsLeft>>
vars == <<net, cur, handed, lstate, tracker, origin, rst>>

Packets == 0 .. (NumPackets - 1)
SeqNo(i) == SeqAdd(Start, i)

RangeRec == [low : SEQNO, high : SEQNO]
\* A stream's item of one epoch map; item = FALSE when the stream had no
\* arrival in that epoch (hashmap_force was never called for it).
EmptyEpoch == [item |-> FALSE, ranges |-> << >>, flowstate |-> FS_NULL,
               rranges |-> << >>]

\* struct lossDataR after memset: the reporter's rd and a new tracker entry.
LossZero ==
    [received |-> 0, dropped |-> 0, consecutive |-> 0, gap_total |-> 0,
     gap_count |-> 0, gap_min |-> 0, gap_max |-> 0, flowstate |-> FS_NULL]

TypeOK ==
    /\ nextSend \in 0..NumPackets
    /\ inflight \subseteq Packets /\ arrived \subseteq Packets
    /\ cur.item \in BOOLEAN /\ cur.ranges \in Seq(RangeRec)
    /\ cur.flowstate \in FlowStates /\ cur.rranges \in Seq(RangeRec)
    /\ Len(handed) <= MaxBacklog
    /\ lstate \in [has_high_seqno : BOOLEAN, high_seqno : SEQNO,
                   has_last_range : BOOLEAN, last_high : SEQNO]
    /\ tracker \in [received : Nat, dropped : Nat, consecutive : Nat,
                    gap_total : Nat, gap_count : Nat, gap_min : Nat,
                    gap_max : Nat, flowstate : FlowStates]

Init ==
    /\ nextSend = 0 /\ inflight = {} /\ arrived = {}
    /\ dupsLeft = MaxDup /\ failsLeft = MaxAllocFail
    /\ cur = EmptyEpoch
    /\ handed = << >>
    /\ lstate = [has_high_seqno |-> FALSE, high_seqno |-> 0,
                 has_last_range |-> FALSE, last_high |-> 0]
    /\ tracker = LossZero
    /\ origin = 0
    /\ rst = ReorderInit

(***************************************************************************)
(* Aggregator side: lossdata_arrival                                       *)
(***************************************************************************)

\* Variant: extend the head range with any later sequence number.
ExtendsHead_any(ranges, seqno) ==
    ranges # << >> /\ seqcmp(Head(ranges).high, seqno) < 0

\* The arrival continues the head range: it is the next sequence number
\* and not 0 (a range never wraps through 0).
ExtendsHead(ranges, seqno) ==
    ranges # << >> /\ Head(ranges).high = SeqSub(seqno, 1) /\ seqno # 0

\* Extend the head range, otherwise prepend [seqno, seqno]; then advance
\* the flow state by a packet.
lossdata_arrival(ep, seqno) ==
    [ep EXCEPT
        !.item = TRUE,
        !.ranges =
            IF ExtendsHead(@, seqno)
            THEN [@ EXCEPT ![1].high = seqno]
            ELSE << [low |-> seqno, high |-> seqno] >> \o @,
        !.flowstate = flowstate_packet(@)]

\* The packet the aggregator dequeues next: any in-flight one when the
\* network reorders, the oldest otherwise.
Deliverable == {i \in inflight : Reordering \/ \A j \in inflight : i <= j}

Send ==
    /\ nextSend < NumPackets
    /\ inflight' = inflight \cup {nextSend}
    /\ nextSend' = nextSend + 1
    /\ UNCHANGED <<arrived, dupsLeft, failsLeft, cur, handed, lstate, tracker, origin, rst>>

Lose ==
    /\ \E i \in inflight : inflight' = inflight \ {i}
    /\ UNCHANGED <<nextSend, arrived, dupsLeft, failsLeft, cur, handed, lstate, tracker, origin, rst>>

Duplicate ==
    /\ dupsLeft > 0
    /\ \E i \in arrived \ inflight : inflight' = inflight \cup {i}
    /\ dupsLeft' = dupsLeft - 1
    /\ UNCHANGED <<nextSend, arrived, failsLeft, cur, handed, lstate, tracker, origin, rst>>

\* handle_packet_arrival: hashmap_force creates the stream's item, then
\* lossdata_arrival and reorderdata_arrival record the sequence number.
handle_packet_arrival(ep, seqno) ==
    [lossdata_arrival(ep, seqno) EXCEPT
        !.rranges = reorderdata_arrival(@, seqno)]

Arrive ==
    \E i \in Deliverable :
        /\ cur' = handle_packet_arrival(cur, SeqNo(i))
        /\ inflight' = inflight \ {i}
        /\ arrived' = arrived \cup {i}
        /\ UNCHANGED <<nextSend, dupsLeft, failsLeft, handed, lstate, tracker, origin, rst>>

\* The same handler when no range can be allocated: the item exists, the
\* arrival is dropped and lossdata_arrival returns -1 (ignored by the
\* caller) before touching the flow state.  reorderdata_arrival, which
\* allocates on its own, still records it.
ArriveAllocFail ==
    \E i \in Deliverable :
        /\ failsLeft > 0
        /\ cur' = [cur EXCEPT !.item = TRUE,
                              !.rranges = reorderdata_arrival(@, SeqNo(i))]
        /\ inflight' = inflight \ {i}
        /\ failsLeft' = failsLeft - 1
        /\ UNCHANGED <<nextSend, arrived, dupsLeft, handed, lstate, tracker, origin, rst>>

\* period_transition: the working map joins the hand-off list and a fresh
\* one is started.
PeriodTransition ==
    /\ Len(handed) < MaxBacklog
    /\ handed' = Append(handed, cur)
    /\ cur' = EmptyEpoch
    /\ UNCHANGED <<net, lstate, tracker, origin, rst>>

(***************************************************************************)
(* Reporter side: lossdata_a2r and lossdata_a2r_compute                    *)
(***************************************************************************)

\* A range on the assembly chain, with where it came from: epoch ep of the
\* hand-off list and position pos in that epoch's list.
Tagged(r, period, ep, pos) ==
    [low |-> r.low, high |-> r.high, period |-> period, ep |-> ep, pos |-> pos]

\* lossdata_a2r_begin, the PAST range and the FUTURE ranges of epochs
\* 2..W, each prepended in turn by lossdata_a2r_add.
AssemblyChain ==
    LET E       == Head(handed)
        present == [k \in 1..Len(E.ranges) |-> Tagged(E.ranges[k], "PRESENT", 1, k)]
        past    == IF flowstate_beginp(E.flowstate) /\ lstate.has_high_seqno
                   THEN << Tagged([low |-> lstate.high_seqno,
                                   high |-> lstate.high_seqno], "PAST", 0, 0) >>
                   ELSE << >>
        fut(e)  == [k \in 1..Len(handed[e].ranges) |-> Tagged(handed[e].ranges[k], "FUTURE", e, k)]
        futures == FlattenSeq([j \in 1..(W - 1)
                                 |-> fut(j + 1)])
    IN  Reverse(futures) \o past \o present

\* qsort with rangecmp: ascending by (int)(low - low').  With all lows
\* within half the sequence space this is a total preorder, and the wrap
\* detection pass only marks a prefix that is already first, so it leaves
\* the order as it is.  qsort is not stable: ranges with equal lows may
\* come out in any order, so every such arrangement is an outcome.
QsortOutcomes(chain) ==
    LET n == Len(chain)
        arrangements == { [k \in 1..n |-> chain[p[k]]] : p \in Permutations(1..n) }
    IN  { a \in arrangements :
            \A k \in 1..(n - 1) : SignedDiff(a[k].low, a[k + 1].low) <= 0 }

MinOf(a, b) == IF a <= b THEN a ELSE b

\* Variant: no range is ever skipped as subsumed.
Subsumed_never(dLow, dHigh, dPrev) == FALSE

\* A range whose both ends lie at or before prev.high, measured from
\* base, is subsumed by the previous one.
Subsumed(dLow, dHigh, dPrev) == dLow <= dPrev /\ dHigh <= dPrev

\* Variant: the gap is the whole distance.
GapOf_whole(distance) == distance

\* The numbers missing between prev.high and r.low.
GapOf(distance) == IF distance > 0 THEN distance - 1 ELSE 0

\* Variant: the overlap point itself is kept in the rewritten range.
RewriteLow_keep(high, prevHigh) == MinOf(high, prevHigh)

\* The new low of a range overlapping the previous one: one past the
\* overlap point (plain unsigned min, as in the code).
RewriteLow(high, prevHigh) == SeqAdd(MinOf(high, prevHigh), 1)

\* One iteration of the sweep over array[i], with prev = last_range.
SweepStep(acc, i, base) ==
    LET r     == acc.array[i]
        dPrev == modular_distance(base, acc.last_high)
        dLow  == modular_distance(base, r.low)
        dHigh == modular_distance(base, r.high)
        low   == IF dLow <= dPrev THEN RewriteLow(r.high, acc.last_high)
                 ELSE r.low
        high  == IF r.high < low THEN SeqSub(base, 1) ELSE r.high
        recd  == SeqAdd(SeqSub(high, low), 1)
        gap   == GapOf(modular_distance(acc.last_high, low))
    IN  IF Subsumed(dLow, dHigh, dPrev)
        THEN acc
        ELSE [acc EXCEPT
                !.array[i]   = [r EXCEPT !.low = low, !.high = high],
                !.last_high  = high,
                !.received   = @ + recd,
                !.dropped    = @ + gap,
                !.consecutive = @ + (IF gap > 1 THEN gap - 1 ELSE 0),
                !.gap_min     = IF gap > 0 /\ (acc.gap_count = 0 \/ gap < @) THEN gap ELSE @,
                !.gap_max     = IF gap > 0 /\ (acc.gap_count = 0 \/ gap > @) THEN gap ELSE @,
                !.gap_total   = @ + gap,
                !.gap_count   = IF gap > 0 THEN @ + 1 ELSE @]

\* The sweep of array[begin..end] with the fabricated or stored last_range.
Sweep(array, begin, end, last) ==
    FoldLeft(LAMBDA acc, i : SweepStep(acc, i, last), 
             [array |-> array, last_high |-> last, received |-> 0, dropped |-> 0,
              consecutive |-> 0, gap_total |-> 0, gap_count |-> 0,
              gap_min |-> 0, gap_max |-> 0],
             [k \in 1..(end - begin + 1) |-> begin + k - 1])

\* Write the rewritten FUTURE ranges back into the epochs they belong to.
WriteBack(hl, array) ==
    [e \in DOMAIN hl |->
        [hl[e] EXCEPT !.ranges =
            [k \in DOMAIN @ |->
                LET m == {j \in DOMAIN array : array[j].period = "FUTURE"
                                               /\ array[j].ep = e /\ array[j].pos = k}
                IN  IF m = {} THEN @[k]
                    ELSE LET j == CHOOSE j \in m : TRUE
                         IN  [low |-> array[j].low, high |-> array[j].high]]]]

\* lossdata_accumulate: add a non-empty unit, or copy it whole into an
\* empty accumulator; gap_min and gap_max are combined by plain min/max.
lossdata_accumulate(accum, unit) ==
    CASE accum.received + accum.dropped # 0 /\ unit.received + unit.dropped # 0 ->
            [accum EXCEPT !.received    = @ + unit.received,
                          !.dropped     = @ + unit.dropped,
                          !.consecutive = @ + unit.consecutive,
                          !.gap_total   = @ + unit.gap_total,
                          !.gap_count   = @ + unit.gap_count,
                          !.gap_min     = MinOf(@, unit.gap_min),
                          !.gap_max     = IF @ >= unit.gap_max THEN @ ELSE unit.gap_max]
      [] unit.received + unit.dropped # 0 -> unit
      [] OTHER -> accum

\* lossdata_accumulate_time, as accumulate_time applies it to the
\* stream's tracker entry after every a2r.
lossdata_accumulate_time(accum, unit) ==
    [lossdata_accumulate(accum, unit) EXCEPT
        !.flowstate = flowstate_concatenate(@, unit.flowstate)]

\* lossdata_a2r followed by lossdata_a2r_compute on the earliest epoch.
\* Compute gives up when no range is PRESENT, and lossdata_a2r then
\* clears has_high_seqno; the unit, holding only the epoch's flow state,
\* is still accumulated.
lossdata_a2r ==
  \E array \in QsortOutcomes(AssemblyChain) :
    LET n     == Len(array)
        begin == SelectLastInSeq(array, LAMBDA r : r.period = "PAST") + 1
        end   == SelectLastInSeq(array, LAMBDA r : r.period # "FUTURE")
        last  == IF lstate.has_last_range THEN lstate.last_high
                 ELSE SeqSub(array[begin].low, 1)
        res   == Sweep(array, begin, end, last)
    IN  IF n = 0 \/ end = 0
        THEN /\ lstate' = [lstate EXCEPT !.has_high_seqno = FALSE]
             /\ tracker' = lossdata_accumulate_time(tracker,
                              [LossZero EXCEPT !.flowstate = Head(handed).flowstate])
             /\ UNCHANGED origin
             /\ handed' = Tail(handed)
        ELSE /\ lstate' = [has_high_seqno |-> TRUE,
                           high_seqno |-> res.array[end].high,
                           has_last_range |-> TRUE,
                           last_high |-> res.last_high]
             /\ origin' = IF lstate.has_last_range THEN origin ELSE last
             /\ tracker' = lossdata_accumulate_time(tracker,
                              [f \in DOMAIN LossZero |->
                                 IF f = "flowstate" THEN Head(handed).flowstate
                                 ELSE res[f]])
             /\ handed' = Tail(WriteBack(handed, res.array))

\* One pass of reporter_thread's inner loop: the earliest epoch is
\* processed once W epochs wait, and then recycled.  For the stream's
\* item lossdata_a2r runs, then reorderdata_a2r; a reorderdata_a2r that
\* never returns stops the reporter thread for good.
ReportEpoch ==
    /\ Len(handed) >= W
    /\ ~rst.hung
    /\ IF Head(handed).item
       THEN /\ lossdata_a2r
            /\ rst' = reorderdata_a2r(rst, Head(handed).rranges)
       ELSE /\ handed' = Tail(handed)
            /\ UNCHANGED <<lstate, tracker, origin, rst>>
    /\ UNCHANGED <<net, cur>>

Next ==
    \/ Send \/ Lose \/ Duplicate \/ Arrive \/ ArriveAllocFail
    \/ PeriodTransition \/ ReportEpoch

Spec == Init /\ [][Next]_vars

(***************************************************************************)
(* Properties                                                              *)
(***************************************************************************)

\* Sequence numbers strictly after origin up to and including s.
Covered(s) == SeqSub(s, origin)

\* Conservation (spec section 8): every sequence number between the first
\* one accounted for and last_range.high is counted once, either received
\* or dropped, by the sweep in lossdata_a2r_compute.
Conservation ==
    lstate.has_last_range =>
        tracker.received + tracker.dropped = Covered(lstate.last_high)

\* The sweep never counts as received more sequence numbers than distinct
\* packets lossdata_arrival has recorded in the accounted interval.
NoPhantomReceipt ==
    lstate.has_last_range =>
        tracker.received <=
            Cardinality({i \in arrived :
                            Covered(SeqNo(i)) \in 1..Covered(lstate.last_high)})

\* Histogram entries the extent estimator has counted.
ExtentCounted == FoldFunction(+, 0, rst.hist)

\* Extent accounting (RFC 4737 in reorderdata_a2r): every sequence number
\* from the first one the estimator saw up to nextExp is, exactly once,
\* counted in order (hist[0]), resolved late with an extent, pruned as an
\* assumed drop, or still waiting as an unobserved missing record; a
\* duplicate is never counted twice.
ExtentConservation ==
    rst.initialized =>
        ExtentCounted + rst.assumed
            + Cardinality({s \in DOMAIN rst.missing : ~rst.missing[s].observed})
        = SeqSub(rst.nextExp, rst.first)

\* The density estimator never lets RI overtake every pending number while
\* it is processing: otherwise no later arrival is ever taken in.
DensityPending ==
    rst.winit /\ rst.rdstate = 0 =>
        \E x \in Range(rst.window) \cup rst.buffer : x >= rst.RI

\* Reporter progress: reorderdata_a2r returns for every epoch.
ReorderReturns == ~rst.hung

\* lossdata_accumulate keeps gap_min the smallest gap counted: once any
\* gap was counted in the stream's tracker entry it is at least 1 (spec
\* section 4.F: accumulation takes the min of gap_min).
GapMinIsSmallestGap ==
    tracker.gap_count > 0 => tracker.gap_min >= 1

====
