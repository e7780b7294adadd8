------------------------------ MODULE HashMapSeq ------------------------------
(***************************************************************************)
(* What the hashmap2 code promises the library, without pointers: a list  *)
(* of maps is a sequence of maps, a map's items and a free list of items  *)
(* are sequences of items, and a map is a dictionary read by searching    *)
(* its items.  The handlers of the aggregator, the reporter and           *)
(* pd3_estimator_destroy are stated on these sequences; HashMap2 is shown *)
(* to implement them.  The report loop ranges over the tracker's items as *)
(* they are when it starts.                                                *)
(***************************************************************************)
EXTENDS Naturals, Sequences, SequencesExt, FiniteSets

CONSTANTS Node, Map, StreamKey, Flow, periods_to_wait

FlowKey == {Flow[k] : k \in StreamKey}
NoKey == "zero"
MList == {"working_a", "working_sh", "working_r", "free_a", "free_sh", "free_r"}
FreeList == {"fi_a", "fi_sh", "fi_r", "fi_local"}
IList == Map \cup {"trk", "st"} \cup FreeList

VARIABLES ml, seq, key, am, an, running

avars == <<ml, seq, key, am, an, running>>

T == [ml |-> ml, seq |-> seq, key |-> key, am |-> am, an |-> an]

Put(t) == /\ ml' = t.ml /\ seq' = t.seq /\ key' = t.key /\ am' = t.am /\ an' = t.an

\* A map holds k when one of its items has key k; otherwise an item is
\* taken from the front of free list f, or a fresh one, and put in front.
Force(t, m, k, f) ==
    IF \E n \in ToSet(t.seq[m]) : t.key[n] = k THEN t
    ELSE LET n  == IF t.seq[f] # << >> THEN Head(t.seq[f]) ELSE CHOOSE x \in Node \ t.an : TRUE
             t1 == IF t.seq[f] # << >> THEN [t EXCEPT !.seq[f] = Tail(@)]
                   ELSE [t EXCEPT !.an = @ \cup {n}]
         IN  [t1 EXCEPT !.key[n] = k, !.seq[m] = <<n>> \o @]

\* Items of list from go after those of to.
Append2(t, to, from) == [t EXCEPT !.seq[to] = @ \o t.seq[from], !.seq[from] = << >>]
\* The earliest map of from, if any, becomes the latest of to.
MoveOne(t, to, from) ==
    IF t.ml[from] = << >> THEN t
    ELSE [t EXCEPT !.ml[to] = Append(@, Head(t.ml[from])), !.ml[from] = Tail(@)]
MoveAll(t, to, from) == [t EXCEPT !.ml[to] = @ \o t.ml[from], !.ml[from] = << >>]
\* A map from free list f, or a fresh one, emptied and made the latest.
NewLatest(t, l, f) ==
    LET m  == IF f # "none" /\ t.ml[f] # << >> THEN Head(t.ml[f]) ELSE CHOOSE x \in Map \ t.am : TRUE
        t1 == IF f # "none" /\ t.ml[f] # << >> THEN [t EXCEPT !.ml[f] = Tail(@)]
              ELSE [t EXCEPT !.am = @ \cup {m}]
    IN  [t1 EXCEPT !.ml[l] = Append(@, m), !.seq[m] = << >>]

Start ==
    /\ ~running
    /\ am # Map
    /\ Put(NewLatest(T, "working_a", "none"))
    /\ running' = TRUE

Arrival ==
    \E k \in StreamKey :
        /\ running
        /\ \/ \E n \in ToSet(seq[Last(ml["working_a"])]) : key[n] = k
           \/ seq["fi_a"] # << >>
           \/ an # Node
        /\ Put(Force(T, Last(ml["working_a"]), k, "fi_a"))
        /\ UNCHANGED running

PeriodTransition ==
    LET t == Append2(MoveAll(MoveOne(T, "working_sh", "working_a"), "free_a", "free_sh"),
                     "fi_a", "fi_sh")
    IN  /\ running
        /\ t.ml["free_a"] # << >> \/ am # Map
        /\ Put(NewLatest(t, "working_a", "free_a"))
        /\ UNCHANGED running

ReporterDrain ==
    /\ running
    /\ ml["working_sh"] # << >>
    /\ Put(Append2(MoveAll(MoveAll(T, "working_r", "working_sh"), "free_sh", "free_r"),
                   "fi_sh", "fi_r"))
    /\ UNCHANGED running

\* The items a pass adds to state_data and the tracker: the epoch's keys
\* neither holds, and on a report the flows of the tracker's streams.
Keys(m) == {key[n] : n \in ToSet(seq[m])}
PassNeeds(e, due) ==
    LET EK == Keys(e)  TK == Keys("trk")
    IN  Cardinality(EK \ Keys("st")) + Cardinality(EK \ TK)
          + (IF due THEN Cardinality({Flow[k] : k \in (EK \cup TK) \cap StreamKey} \ (EK \cup TK))
             ELSE 0)

\* Each key of the earliest map into state_data and the tracker; on a
\* report, each stream of the tracker's items (as they were) into
\* state_data and its flow into the tracker, then the tracker emptied;
\* then the epoch's items and map go to the reporter's free lists.
ReporterProcess ==
    \E due \in BOOLEAN :
        LET e  == Head(ml["working_r"])
            t1 == FoldLeft(LAMBDA t, n : Force(Force(t, "st", key[n], "fi_local"),
                                               "trk", key[n], "fi_local"),
                           T, seq[e])
            rp == FoldLeft(LAMBDA t, n :
                              IF t.key[n] \in StreamKey
                              THEN Force(Force(t, "st", t.key[n], "fi_local"),
                                         "trk", Flow[t.key[n]], "fi_local")
                              ELSE t,
                           t1, t1.seq["trk"])
            t2 == IF due THEN Append2(rp, "fi_local", "trk") ELSE t1
        IN  /\ running
            /\ Len(ml["working_r"]) >= periods_to_wait
            /\ PassNeeds(e, due) <= Cardinality(Node \ an) + Len(seq["fi_local"])
            /\ Put(MoveOne(Append2(t2, "fi_r", e), "free_r", "working_r"))
            /\ UNCHANGED running

\* Everything is freed and every list is empty again.
Destroy ==
    LET fm == UNION {ToSet(ml[l]) : l \in MList}
        fn == UNION {ToSet(seq[l]) : l \in FreeList \cup fm \cup {"trk", "st"}}
    IN  /\ running
        /\ ml' = [l \in MList |-> << >>]
        /\ seq' = [l \in IList |-> << >>]
        /\ key' = [n \in Node |-> NoKey]
        /\ am' = am \ fm /\ an' = an \ fn
        /\ running' = FALSE

Init ==
    /\ ml = [l \in MList |-> << >>]
    /\ seq = [l \in IList |-> << >>]
    /\ key = [n \in Node |-> NoKey]
    /\ am = {} /\ an = {} /\ running = FALSE

Next == Start \/ Arrival \/ PeriodTransition \/ ReporterDrain \/ ReporterProcess \/ Destroy

Spec == Init /\ [][Next]_avars
====
