----------------------------- MODULE ReorderData -----------------------------
(***************************************************************************)
(* The reorder estimators of reorderdata.c: the aggregator's range list    *)
(* (reorderdata_arrival) and the reporter's reorderdata_a2r, which feeds   *)
(* the stream's sequence numbers, range by range, first to the density    *)
(* estimator (RFC 5236: window, buffer, receive index RI) and then to the  *)
(* extent estimator (RFC 4737: nextExp, numArrivals, missing records).     *)
(*                                                                         *)
(* The per-stream struct reorderState and the reorderDataR results are    *)
(* one record; the histograms are summed over every call, as the          *)
(* reporter's trackers sum them.  Both estimators are enabled, as the     *)
(* library's defaults and its tests have them.                            *)
(***************************************************************************)
EXTENDS Integers, Sequences, SequencesExt, FiniteSets, FiniteSetsExt, SeqArith

CONSTANTS
    MaxExtent,      \* REORDER_MAX_EXTENT (255 in the library)
    DT              \* REORDER_DT, the displacement threshold (8)

ASSUME MaxExtent \in 1..Half /\ DT \in 1..Half

MAX_HISTORY == MaxExtent * 2

Displacements == -DT..DT

\* struct reorderState after the memset of a new stream's item, with the
\* stream's summed histograms.  first is a history field: the nextExp
\* the extent estimator started from.  hung records that reorderdata_a2r
\* entered a loop it never leaves.
ReorderInit ==
    [initialized |-> FALSE, numArrivals |-> 0, nextExp |-> 0,
     missing |-> << >>,
     rdstate |-> 0, RI |-> 0, window |-> << >>, buffer |-> {}, winit |-> FALSE,
     hist |-> [k \in 0..MaxExtent |-> 0], assumed |-> 0,
     FD |-> [d \in Displacements |-> 0],
     first |-> 0, hung |-> FALSE]

(***************************************************************************)
(* Aggregator side                                                         *)
(***************************************************************************)

\* reorderdata_arrival: extend the tail range with the next sequence
\* number (never through 0), otherwise append [seqno, seqno].
reorderdata_arrival(ranges, seqno) ==
    IF ranges # << >> /\ Last(ranges).high = SeqSub(seqno, 1) /\ seqno # 0
    THEN [ranges EXCEPT ![Len(ranges)].high = seqno]
    ELSE Append(ranges, [low |-> seqno, high |-> seqno])

(***************************************************************************)
(* Density (RFC 5236).  Window and buffer lookups compare plain integers.  *)
(***************************************************************************)

\* rd_maybe_add_seq_to_window during bootstrap: add i unless present;
\* once DT+1 distinct numbers are held, RI starts at 0.
rd_bootstrap(st, i) ==
    LET w == IF i \in Range(st.window) THEN st.window ELSE Append(st.window, i)
    IN  IF Len(w) = DT + 1
        THEN [st EXCEPT !.window = w, !.RI = 0, !.winit = TRUE]
        ELSE [st EXCEPT !.window = w]

\* rd_maybe_add_new_arrival_to_window: only while seeking (state 1), and
\* only a number at or after RI that is neither in the window nor buffered.
rd_maybe_add_new_arrival_to_window(st, s) ==
    IF /\ st.rdstate = 1
       /\ s >= st.RI
       /\ s \notin Range(st.window)
       /\ s \notin st.buffer
    THEN [st EXCEPT !.window = Append(@, s), !.rdstate = 0]
    ELSE st

\* rd_window_min / rd_buffer_min: (SEQNO)-1 when empty.
MinOrTop(S) == IF S = {} THEN Modulus - 1 ELSE Min(S)

\* Variant: the two minima are compared the wrong way round.
rd_advance_RI_maxmin(st) ==
    LET m == Max({MinOrTop(Range(st.window)), MinOrTop(st.buffer)})
    IN  [st EXCEPT !.RI = IF @ < m THEN m ELSE SeqAdd(@, 1), !.rdstate = 0]

\* rd_advance_RI: jump to the smallest pending number, or step by one.
rd_advance_RI(st) ==
    LET m == Min({MinOrTop(Range(st.window)), MinOrTop(st.buffer)})
    IN  [st EXCEPT !.RI = IF @ < m THEN m ELSE SeqAdd(@, 1), !.rdstate = 0]

\* rd_process_next_packet: when RI is pending, pop the window head e and
\* record D = RI - e (an unsigned difference read as int) if |D| <= DT,
\* buffering e when it came early; otherwise advance RI.
rd_process_next_packet(st) ==
    IF st.RI \in Range(st.window) \/ st.RI \in st.buffer
    THEN LET e == Head(st.window)
             D == SignedDiff(st.RI, e)
         IN  IF D \in Displacements
             THEN [st EXCEPT !.window = Tail(@), !.FD[D] = @ + 1,
                     !.buffer = (@ \ {st.RI}) \cup (IF D < 0 THEN {e} ELSE {}),
                     !.RI = SeqAdd(@, 1), !.rdstate = 1]
             ELSE [st EXCEPT !.window = Tail(@), !.rdstate = 1]
    ELSE rd_advance_RI(st)

\* One iteration of the density loop over a range, for number i.
DensityStep(st, i) ==
    LET s1 == IF st.winit THEN st ELSE rd_bootstrap(st, i)
        s2 == rd_maybe_add_new_arrival_to_window(s1, i)
        s3 == IF s2.rdstate = 0 THEN rd_process_next_packet(s2) ELSE s2
    IN  CASE ~s1.winit        -> s1
          [] s1.rdstate = 1   -> s3
          [] OTHER            -> rd_maybe_add_new_arrival_to_window(s3, i)

(***************************************************************************)
(* Extent (RFC 4737)                                                       *)
(***************************************************************************)

\* The numbers from a up to but excluding b: for (i = a; i != b; i++).
MissingSpan(a, b) == {SeqAdd(a, k) : k \in 0..(SeqSub(b, a) - 1)}

\* reorderdata_record_missing_packet: a new record, not yet observed.  Its
\* malloc failure (-1, ignored by the caller) is left out.
reorderdata_record_missing_packet(refIndex) ==
    [observed |-> FALSE, refIndex |-> refIndex]

\* Case 1 of reorderdata_a2r: the range starts at or after nextExp.  Every
\* skipped number gets a missing record with refIndex numArrivals + 1
\* (reorderdata_record_missing_packet); the range counts as in order.
extent_in_order(st, r) ==
    LET gap  == [s \in MissingSpan(st.nextExp, r.low) |->
                    reorderdata_record_missing_packet(st.numArrivals + 1)]
        size == SeqAdd(SeqSub(r.high, r.low), 1)
    IN  [st EXCEPT !.missing     = gap @@ @,
                   !.nextExp     = SeqAdd(r.high, 1),
                   !.numArrivals = @ + size,
                   !.hist[0]     = @ + size]

\* Variant: a resolved record is never marked observed.
reorderdata_resolve_missing_packet_noobs(st, s) ==
    CASE s \notin DOMAIN st.missing -> st
      [] ~st.missing[s].observed ->
            LET extent == Min({st.numArrivals - st.missing[s].refIndex, MaxExtent})
            IN  [st EXCEPT !.hist[extent] = @ + 1]
      [] OTHER -> [st EXCEPT !.numArrivals = @ - 1]

\* reorderdata_resolve_missing_packet, numArrivals already incremented.
reorderdata_resolve_missing_packet(st, s) ==
    CASE s \notin DOMAIN st.missing -> st
      [] ~st.missing[s].observed ->
            LET extent == Min({st.numArrivals - st.missing[s].refIndex, MaxExtent})
            IN  [st EXCEPT !.missing[s].observed = TRUE, !.hist[extent] = @ + 1]
      [] OTHER -> [st EXCEPT !.numArrivals = @ - 1]

\* One iteration of the loop of case 2 (the range starts before nextExp).
ExtentStep(st, i) ==
    LET s1 == [st EXCEPT !.numArrivals = @ + 1]
    IN  IF seqcmp(i, s1.nextExp) >= 0
        THEN [s1 EXCEPT !.nextExp = SeqAdd(i, 1), !.hist[0] = @ + 1]
        ELSE reorderdata_resolve_missing_packet(s1, i)

\* reorderdata_prune_missing_packets: records more than MAX_HISTORY behind
\* nextExp go; an unobserved one is an assumed drop.
Pruned(st, s) ==
    seqcmp(s, st.nextExp) < 0 /\ modular_distance(s, st.nextExp) > MAX_HISTORY

reorderdata_prune_missing_packets(st) ==
    LET gone == {s \in DOMAIN st.missing : Pruned(st, s)}
    IN  [st EXCEPT !.missing = Restrict(@, DOMAIN @ \ gone),
                   !.assumed = @ + Cardinality({s \in gone : ~st.missing[s].observed})]

(***************************************************************************)
(* reorderdata_a2r                                                         *)
(***************************************************************************)

\* The numbers low..high of a range, in loop order.
RangeSeqnos(r) == [k \in 1..(r.high - r.low + 1) |-> r.low + k - 1]

\* for (SEQNO i = r->low; i <= r->high; i++) never ends when high is the
\* largest SEQNO: i wraps to 0, which is again <= high.
LoopNeverEnds(r) == r.high = Modulus - 1

\* The body of the range loop: first-range initialisation, the density
\* loop, then case 1 or case 2 of the extent estimator.
RangeStep(st, r) ==
    LET s0 == IF st.initialized THEN st
              ELSE [st EXCEPT !.initialized = TRUE, !.nextExp = r.low,
                              !.rdstate = 0, !.winit = FALSE, !.RI = 0,
                              !.first = r.low]
        s1 == FoldLeft(DensityStep, s0, RangeSeqnos(r))
    IN  CASE LoopNeverEnds(r)                -> [s0 EXCEPT !.hung = TRUE]
          [] seqcmp(r.low, s1.nextExp) >= 0  -> extent_in_order(s1, r)
          [] OTHER                           -> FoldLeft(ExtentStep, s1, RangeSeqnos(r))

\* reorderdata_a2r over an epoch's range list, then the pruning pass.
reorderdata_a2r(st, ranges) ==
    LET s == FoldLeft(LAMBDA acc, r : IF acc.hung THEN acc ELSE RangeStep(acc, r),
                      st, ranges)
    IN  IF s.hung THEN s ELSE reorderdata_prune_missing_packets(s)

=============================================================================
