------------------------------ MODULE HashMap2 ------------------------------
(***************************************************************************)
(* The hashmap2 code at the end of pd3_estimator.c at the level of its    *)
(* pointers: hashMapItem nodes with next and hashnext, hashMapItemLists   *)
(* (head, tail), hashMaps (hash_table, items, previous, next) and         *)
(* hashMapLists (count, earliest, latest).  The operations are the ones   *)
(* the library calls, composed as the aggregator, the reporter and        *)
(* pd3_estimator_destroy compose them: every map and every item circulates *)
(* from the aggregator's working list to the reporter and back through    *)
(* the free lists.  Each operation is a function of the whole memory      *)
(* Mem, so that a handler is the composition of the calls it makes.       *)
(***************************************************************************)
EXTENDS Naturals, Sequences, SequencesExt, FiniteSets, Functions

CONSTANTS
    Node,          \* addresses malloc can return for a hashMapItem
    Map,           \* addresses malloc can return for a hashMap
    StreamKey,     \* stream tuples (HMK_STREAMTUPLE keys)
    Flow,          \* Flow[k]: the flow tuple set_flowtuple makes of stream k
    HashSize,      \* HASHTABLESIZE
    Hash,          \* Hash[k]: hash_key(k) % HASHTABLESIZE
    periods_to_wait,
    NULL,
    MaxPackets,    \* bound: packets one epoch's item counts
    MaxPending     \* bound: packets of a flow a tracker holds unreported

FlowKey == {Flow[k] : k \in StreamKey}
Key == StreamKey \cup FlowKey
NoKey == "zero"                   \* the key of a memset item
Bucket == 0..(HashSize - 1)

\* The hashMapLists of the library: the working lists of the aggregator,
\* the shared area and the reporter, and the free lists of maps.
MList == {"working_a", "working_sh", "working_r", "free_a", "free_sh", "free_r"}
\* The trackers[0] map and state_data of the reporter, not on any list.
Standalone == {"trk", "st"}
HMap == Map \cup Standalone
\* free_hashmapitems_a/_sh/_r and the reporter's free_hmis_local.
FreeList == {"fi_a", "fi_sh", "fi_r", "fi_local"}
IList == HMap \cup FreeList

VARIABLES
    lists,     \* [MList -> [count, earliest, latest]]
    maps,      \* [HMap -> [table, previous, next]]
    items,     \* [Node -> [key, next, hashnext]]
    il,        \* [IList -> [head, tail]]: a map's items, or a free list
    am,        \* the hashMaps malloc has handed out and free has not taken
    an,        \* the same for hashMapItems
    running,   \* between the aggregator's start and pd3_estimator_destroy
    callbacks, \* the callbacks of the tracker's last report: [flow, count]
    \* History variables, not in the code: what the reports must say.
    pkts,      \* pkts[m][f]: packets of flow f that arrived into epoch map m
    since,     \* since[f]: packets of f in epochs processed since the last report
    expected   \* the callbacks the last report should have made

vars == <<lists, maps, items, il, am, an, running, callbacks, pkts, since, expected>>
hvars == <<pkts, since, expected>>

Mem == [lists |-> lists, maps |-> maps, items |-> items, il |-> il,
        am |-> am, an |-> an]

Store(s) ==
    /\ lists' = s.lists /\ maps' = s.maps /\ items' = s.items
    /\ il' = s.il /\ am' = s.am /\ an' = s.an

Ptr(S) == S \cup {NULL}
EmptyHeader == [count |-> 0, earliest |-> NULL, latest |-> NULL]
EmptyMap == [table |-> [b \in Bucket |-> NULL], previous |-> NULL, next |-> NULL]
EmptyList == [head |-> NULL, tail |-> NULL]
\* count is the item's value.rep_data (or agg_data) .received.packet_count.
EmptyItem == [key |-> NoKey, next |-> NULL, hashnext |-> NULL, count |-> 0]

\* Memory as the static initialisers and the memsets of init leave it.
Empty == [lists |-> [l \in MList |-> EmptyHeader],
          maps |-> [m \in HMap |-> EmptyMap],
          items |-> [n \in Node |-> EmptyItem],
          il |-> [l \in IList |-> EmptyList],
          am |-> {}, an |-> {}]

TypeOK ==
    /\ lists \in [MList -> [count : Nat, earliest : Ptr(Map), latest : Ptr(Map)]]
    /\ maps \in [HMap -> [table : [Bucket -> Ptr(Node)],
                          previous : Ptr(Map), next : Ptr(Map)]]
    /\ items \in [Node -> [key : Key \cup {NoKey}, next : Ptr(Node),
                           hashnext : Ptr(Node), count : Nat]]
    /\ il \in [IList -> [head : Ptr(Node), tail : Ptr(Node)]]
    /\ am \subseteq Map /\ an \subseteq Node /\ running \in BOOLEAN
    /\ callbacks \subseteq [flow : FlowKey, count : Nat]

(***************************************************************************)
(* Following pointers                                                     *)
(***************************************************************************)

\* The items met from p along next, and the maps met from m along next;
\* fuel stops a cycle.
RECURSIVE ItemWalk(_, _, _)
ItemWalk(s, p, fuel) ==
    IF p = NULL \/ fuel = 0 THEN << >> ELSE <<p>> \o ItemWalk(s, s.items[p].next, fuel - 1)
RECURSIVE MapWalk(_, _, _)
MapWalk(s, m, fuel) ==
    IF m = NULL \/ fuel = 0 THEN << >> ELSE <<m>> \o MapWalk(s, s.maps[m].next, fuel - 1)

ItemSeq(s, l) == ItemWalk(s, s.il[l].head, Cardinality(Node) + 1)
MapSeq(s, l) == MapWalk(s, s.lists[l].earliest, Cardinality(Map) + 1)

\* malloc: some address not in use.  Which one does not matter.
NewNode(s) == CHOOSE n \in Node \ s.an : TRUE
NewMap(s) == CHOOSE m \in Map \ s.am : TRUE

(***************************************************************************)
(* Item lists                                                             *)
(***************************************************************************)

\* Mutant: the item is linked in without the memset, keeping its old value.
add_hashmapitem_nomemset(s, l, f) ==
    LET fl  == s.il[f]
        hmi == IF fl.head # NULL THEN fl.head ELSE NewNode(s)
        s1  == IF fl.head # NULL
               THEN [s EXCEPT !.il[f] = [head |-> s.items[hmi].next,
                                         tail |-> IF hmi = fl.tail THEN NULL ELSE fl.tail]]
               ELSE [s EXCEPT !.an = @ \cup {hmi}]
        s2  == [s1 EXCEPT !.items[hmi].next = s1.il[l].head,
                          !.il[l] = [head |-> hmi,
                                     tail |-> IF @.tail = NULL THEN hmi ELSE @.tail]]
    IN  [s |-> s2, hmi |-> hmi]

\* add_hashmapitem: the head of the free list, or a malloc'ed item,
\* memset and pushed on the front of list l.  [s |-> memory, hmi |-> item]
add_hashmapitem(s, l, f) ==
    LET fl  == s.il[f]
        hmi == IF fl.head # NULL THEN fl.head ELSE NewNode(s)
        s1  == IF fl.head # NULL
               THEN [s EXCEPT !.il[f] = [head |-> s.items[hmi].next,
                                         tail |-> IF hmi = fl.tail THEN NULL ELSE fl.tail]]
               ELSE [s EXCEPT !.an = @ \cup {hmi}]
        s2  == [s1 EXCEPT !.items[hmi] = [EmptyItem EXCEPT !.next = s1.il[l].head],
                          !.il[l] = [head |-> hmi,
                                     tail |-> IF @.tail = NULL THEN hmi ELSE @.tail]]
    IN  [s |-> s2, hmi |-> hmi]

\* Mutant: from is not emptied after the move.
move_hmilist_keepfrom(s, to, from) ==
    LET F == s.il[from]  T == s.il[to]
    IN  IF F.head = NULL THEN s
        ELSE IF T.head = NULL THEN [s EXCEPT !.il[to] = F]
             ELSE [s EXCEPT !.items[T.tail].next = F.head, !.il[to].tail = F.tail]
\* Mutant: from's items go in front of to's.
move_hmilist_prepend(s, to, from) ==
    LET F == s.il[from]  T == s.il[to]
    IN  IF F.head = NULL THEN s
        ELSE IF T.head = NULL THEN [s EXCEPT !.il[to] = F, !.il[from] = EmptyList]
             ELSE [s EXCEPT !.items[F.tail].next = T.head,
                            !.il[to].head = F.head, !.il[from] = EmptyList]

\* move_hmilist: append from's items to to's and empty from.
move_hmilist(s, to, from) ==
    LET F == s.il[from]  T == s.il[to]
    IN  IF F.head = NULL THEN s
        ELSE IF T.head = NULL
             THEN [s EXCEPT !.il[to] = F, !.il[from] = EmptyList]
             ELSE [s EXCEPT !.items[T.tail].next = F.head,
                            !.il[to].tail = F.tail, !.il[from] = EmptyList]

(***************************************************************************)
(* Lists of maps                                                          *)
(***************************************************************************)

\* pop_earliest: [s |-> memory, hm |-> the map or NULL].
pop_earliest(s, from) ==
    IF from = NULL \/ s.lists[from].earliest = NULL THEN [s |-> s, hm |-> NULL]
    ELSE LET L  == s.lists[from]
             hm == L.earliest
             nx == s.maps[hm].next
             s1 == [s EXCEPT !.lists[from].count = @ - 1,
                             !.lists[from].earliest = nx]
             s2 == IF nx # NULL
                   THEN [s1 EXCEPT !.maps[nx].previous = NULL, !.maps[hm].next = NULL]
                   ELSE s1
         IN  [s |-> IF hm = L.latest THEN [s2 EXCEPT !.lists[from].latest = NULL] ELSE s2,
              hm |-> hm]

\* push_latest: link hm after to's latest.
push_latest(s, to, hm) ==
    LET L  == s.lists[to]
        s1 == IF L.earliest = NULL THEN [s EXCEPT !.lists[to].earliest = hm] ELSE s
        s2 == IF L.latest # NULL THEN [s1 EXCEPT !.maps[L.latest].next = hm] ELSE s1
    IN  [s2 EXCEPT !.lists[to].count = @ + 1, !.maps[hm].previous = L.latest,
                   !.lists[to].latest = hm]

\* Mutant: the map's links and items are reset but not its hash_table.
add_hashmap_keeptable(s, list, freelist) ==
    LET p  == pop_earliest(s, freelist)
        hm == IF p.hm # NULL THEN p.hm ELSE NewMap(s)
        s1 == IF p.hm # NULL THEN p.s ELSE [p.s EXCEPT !.am = @ \cup {hm}]
    IN  push_latest([s1 EXCEPT !.maps[hm].previous = NULL, !.maps[hm].next = NULL,
                               !.il[hm] = EmptyList], list, hm)

\* add_hashmap: a map from the free list, or a malloc'ed one, memset
\* (hash_table, items, links) and made the latest of list.
add_hashmap(s, list, freelist) ==
    LET p  == pop_earliest(s, freelist)
        hm == IF p.hm # NULL THEN p.hm ELSE NewMap(s)
        s1 == IF p.hm # NULL THEN p.s ELSE [p.s EXCEPT !.am = @ \cup {hm}]
    IN  push_latest([s1 EXCEPT !.maps[hm] = EmptyMap, !.il[hm] = EmptyList], list, hm)

moveone_hashmap(s, to, from) ==
    LET p == pop_earliest(s, from)
    IN  IF p.hm # NULL THEN push_latest(p.s, to, p.hm) ELSE p.s

\* moveall_hashmap: from's maps, all more recent than to's, go after them.
moveall_hashmap(s, to, from) ==
    LET F == s.lists[from]  T == s.lists[to]
    IN  IF F.earliest = NULL THEN s
        ELSE LET s1 == IF T.earliest = NULL
                       THEN [s EXCEPT !.lists[to].earliest = F.earliest,
                                      !.lists[to].latest = F.latest]
                       ELSE [s EXCEPT !.maps[T.latest].next = F.earliest,
                                      !.maps[F.earliest].previous = T.latest,
                                      !.lists[to].latest = F.latest]
             IN  [s1 EXCEPT !.lists[to].count = @ + F.count,
                            !.lists[from] = EmptyHeader]

(***************************************************************************)
(* Hash maps                                                              *)
(***************************************************************************)

\* The loop over the chain of bucket Hash[k]: the first item with key k.
RECURSIVE FindKey(_, _, _, _)
FindKey(s, p, k, fuel) ==
    IF p = NULL \/ fuel = 0 THEN NULL
    ELSE IF s.items[p].key = k THEN p
    ELSE FindKey(s, s.items[p].hashnext, k, fuel - 1)

hashmap_retrieve(s, hm, k) ==
    FindKey(s, s.maps[hm].table[Hash[k]], k, Cardinality(Node))

\* hashmap_force: the item with key k, or a new one (add_hashmapitem, the
\* key copied in) pushed on the front of bucket Hash[k].
hashmap_force(s, hm, k, f) ==
    IF hashmap_retrieve(s, hm, k) # NULL THEN s
    ELSE LET a == add_hashmapitem(s, hm, f)
             b == Hash[k]
         IN  [a.s EXCEPT !.items[a.hmi].key = k,
                         !.items[a.hmi].hashnext = a.s.maps[hm].table[b],
                         !.maps[hm].table[b] = a.hmi]

\* zeroout_hashmap: clear the table and hand every item to the free list.
zeroout_hashmap(s, hm, f) ==
    move_hmilist([s EXCEPT !.maps[hm].table = [b \in Bucket |-> NULL]], f, hm)

(***************************************************************************)
(* The handlers                                                           *)
(***************************************************************************)

\* The maps that hold data: the working lists and the reporter's own.
LiveMaps(s) ==
    UNION {ToSet(MapSeq(s, l)) : l \in {"working_a", "working_sh", "working_r"}}
        \cup Standalone

\* hashmap_force can get its item: the key is there, the free list has
\* one, or the node pool (the model's bound on malloc) is not used up.
CanForce(s, hm, k, f) ==
    \/ hashmap_retrieve(s, hm, k) # NULL
    \/ s.il[f].head # NULL
    \/ s.an # Node

\* packetdata_accumulate, for the count: accum->packet_count += unit's.
packetdata_accumulate(s, hm, k, c) ==
    LET p == hashmap_retrieve(s, hm, k)
    IN  [s EXCEPT !.items[p].count = @ + c]

NoPackets == [f \in FlowKey |-> 0]
\* The history of a map that add_hashmap has just made the latest of l.
NewEpoch(s, l) == pkts' = [pkts EXCEPT ![s.lists[l].latest] = NoPackets]

\* aggregator_thread's start: add_hashmap(&working_a, NULL).  The
\* reporter's state_data and trackers start zeroed (memset, calloc).
Start ==
    LET s == add_hashmap(Mem, "working_a", NULL)
    IN  /\ ~running
        /\ am # Map
        /\ Store(s)
        /\ running' = TRUE
        /\ NewEpoch(s, "working_a")
        /\ UNCHANGED <<callbacks, since, expected>>

\* handle_packet_arrival: hashmap_force on the latest working map, then
\* packetdata_arrival counts the packet in the item.
Arrival ==
    \E k \in StreamKey :
        LET hm == lists["working_a"].latest
            s  == hashmap_force(Mem, hm, k, "fi_a")
            p  == hashmap_retrieve(s, hm, k)
        IN  /\ running
            /\ CanForce(Mem, hm, k, "fi_a")
            /\ s.items[p].count < MaxPackets
            /\ Store([s EXCEPT !.items[p].count = @ + 1])
            /\ pkts' = [pkts EXCEPT ![hm][Flow[k]] = @ + 1]
            /\ UNCHANGED <<running, callbacks, since, expected>>

\* data_exchange_aggregator_unsafe: the earliest working map to the
\* shared area, the shared free lists back to the aggregator.
data_exchange_aggregator_unsafe(s) ==
    move_hmilist(moveall_hashmap(moveone_hashmap(s, "working_sh", "working_a"),
                                 "free_a", "free_sh"),
                 "fi_a", "fi_sh")

\* period_transition: the exchange under shared_mutex, then add_hashmap.
PeriodTransition ==
    LET s == data_exchange_aggregator_unsafe(Mem)
    IN  /\ running
        /\ s.lists["free_a"].earliest # NULL \/ s.am # Map
        /\ Store(add_hashmap(s, "working_a", "free_a"))
        /\ NewEpoch(add_hashmap(s, "working_a", "free_a"), "working_a")
        /\ UNCHANGED <<running, callbacks, since, expected>>

\* data_exchange_reporter_unsafe, once pending_hashmaps() is not 0.
data_exchange_reporter_unsafe(s) ==
    move_hmilist(moveall_hashmap(moveall_hashmap(s, "working_r", "working_sh"),
                                 "free_sh", "free_r"),
                 "fi_sh", "fi_r")

ReporterDrain ==
    /\ running
    /\ lists["working_sh"].count > 0
    /\ Store(data_exchange_reporter_unsafe(Mem))
    /\ UNCHANGED <<running, callbacks, pkts, since, expected>>

\* The loop over working_r.earliest's items (following next as it is):
\* each key is forced into state_data and into the tracker, and the item's
\* data is added to the tracker's (accumulate_time).
RECURSIVE ProcessLoop(_, _, _)
ProcessLoop(s, p, fuel) ==
    IF p = NULL \/ fuel = 0 THEN s
    ELSE LET k  == s.items[p].key
             s1 == hashmap_force(hashmap_force(s, "st", k, "fi_local"),
                                 "trk", k, "fi_local")
             s2 == packetdata_accumulate(s1, "trk", k, s1.items[p].count)
         IN  ProcessLoop(s2, s2.items[p].next, fuel - 1)

\* The report loop over the tracker's items: for a stream, state_data is
\* forced and the flow tuple is forced into the same tracker, which
\* prepends it before the point of iteration; the stream's data is added
\* to the flow's (accumulate_flow).
RECURSIVE ReportLoop(_, _, _)
ReportLoop(s, p, fuel) ==
    IF p = NULL \/ fuel = 0 THEN s
    ELSE LET k  == s.items[p].key
             s1 == IF k \in StreamKey
                   THEN packetdata_accumulate(
                            hashmap_force(hashmap_force(s, "st", k, "fi_local"),
                                          "trk", Flow[k], "fi_local"),
                            "trk", Flow[k], s.items[p].count)
                   ELSE s
         IN  ReportLoop(s1, s1.items[p].next, fuel - 1)

consolidate(s) == ReportLoop(s, s.il["trk"].head, Cardinality(Node) + 1)

\* The callback loop: one callback per flow item of the tracker whose
\* packet_count is not 0 (build_callback_results).
build_callbacks(s) ==
    {[flow |-> s.items[n].key, count |-> s.items[n].count] :
        n \in {n \in ToSet(ItemSeq(s, "trk")) : s.items[n].key \in FlowKey /\ s.items[n].count > 0}}

\* Recycle storage: the epoch's items to the reporter's free list, the
\* map to the reporter's free list of maps.
recycle(s, e) ==
    moveone_hashmap(move_hmilist(s, "fi_r", e), "free_r", "working_r")

\* The items one pass forces into state_data and the tracker that neither
\* holds yet: the epoch's keys, and on a report the flows of the streams.
Keys(m) == {items[n].key : n \in ToSet(ItemSeq(Mem, m))}
PassNeeds(e, due) ==
    LET EK == Keys(e)  TK == Keys("trk")
    IN  Cardinality(EK \ Keys("st")) + Cardinality(EK \ TK)
          + (IF due THEN Cardinality({Flow[k] : k \in (EK \cup TK) \cap StreamKey} \ (EK \cup TK))
             ELSE 0)

\* One pass of 'while (working_r.count >= periods_to_wait)': process the
\* earliest map, report if the schedule says so (schedule_outlets of the
\* tracker is not NULL), recycle.  The node pool must hold the items the
\* pass mallocs.
ReporterProcess ==
    \E due \in BOOLEAN :
        LET e  == lists["working_r"].earliest
            s1 == ProcessLoop(Mem, il[e].head, Cardinality(Node) + 1)
            c  == consolidate(s1)
            s2 == IF due THEN zeroout_hashmap(c, "trk", "fi_local") ELSE s1
            sn == [f \in FlowKey |-> since[f] + pkts[e][f]]
        IN  /\ running
            /\ lists["working_r"].count >= periods_to_wait
            /\ PassNeeds(e, due) <= Cardinality(Node \ an) + Len(ItemSeq(Mem, "fi_local"))
            /\ due \/ \A f \in FlowKey : sn[f] <= MaxPending
            /\ Store(recycle(s2, e))
            /\ callbacks' = IF due THEN build_callbacks(c) ELSE callbacks
            /\ since' = IF due THEN NoPackets ELSE sn
            /\ expected' = IF due THEN {[flow |-> f, count |-> sn[f]] : f \in {g \in FlowKey : sn[g] > 0}}
                            ELSE expected
            /\ UNCHANGED <<running, pkts>>

\* reporter_thread's exit zeroes the trackers and state_data into
\* free_hmis_local and frees trackers; pd3_estimator_destroy then frees
\* every free list of items and every list of maps with their items, and
\* memsets the lists.
Destroy ==
    LET s  == zeroout_hashmap(zeroout_hashmap(Mem, "trk", "fi_local"), "st", "fi_local")
        fm == UNION {ToSet(MapSeq(s, l)) : l \in MList}
        fn == UNION {ToSet(ItemSeq(s, l)) : l \in FreeList \cup fm}
    IN  /\ running
        /\ Store([Empty EXCEPT !.am = s.am \ fm, !.an = s.an \ fn])
        /\ running' = FALSE
        /\ callbacks' = {} /\ since' = NoPackets /\ expected' = {}
        /\ UNCHANGED pkts

Init ==
    /\ lists = Empty.lists /\ maps = Empty.maps /\ items = Empty.items
    /\ il = Empty.il /\ am = {} /\ an = {} /\ running = FALSE
    /\ callbacks = {} /\ pkts = [m \in Map |-> NoPackets]
    /\ since = NoPackets /\ expected = {}

Next ==
    \/ Start
    \/ Arrival
    \/ PeriodTransition
    \/ ReporterDrain
    \/ ReporterProcess
    \/ Destroy

Spec == Init /\ [][Next]_vars

(***************************************************************************)
(* Properties                                                             *)
(***************************************************************************)

\* Every map that holds data answers hashmap_retrieve(k) with the one item
\* of its items list whose key is k, or NULL when it has none: its
\* hash_table and its items list agree.  Maps are recycled with hash
\* chains into items that went back to the free lists, and items are
\* reused by other maps; only add_hashmap's memset and zeroout_hashmap's
\* clearing of the table keep stale chains from being followed.
RetrieveMatchesItems ==
    \A m \in LiveMaps(Mem) :
        LET S == ItemSeq(Mem, m)
        IN  /\ \A i, j \in DOMAIN S : i # j => items[S[i]].key # items[S[j]].key
            /\ \A k \in Key :
                   hashmap_retrieve(Mem, m, k)
                       = IF \E i \in DOMAIN S : items[S[i]].key = k
                         THEN CHOOSE n \in ToSet(S) : items[n].key = k
                         ELSE NULL

\* A list read through its pointers: no cycle, nothing freed on it, and
\* the tail (latest) and count kept by the header are its own.
WellFormedItems(l) ==
    LET S == ItemSeq(Mem, l)
    IN  /\ IsInjective(S) /\ ToSet(S) \subseteq an
        /\ il[l].tail = IF S = << >> THEN NULL ELSE Last(S)
WellFormedMaps(l) ==
    LET S == MapSeq(Mem, l)
    IN  /\ IsInjective(S) /\ ToSet(S) \subseteq am
        /\ lists[l].latest = IF S = << >> THEN NULL ELSE Last(S)
        /\ lists[l].count = Len(S)
        /\ \A i \in DOMAIN S : maps[S[i]].previous = IF i = 1 THEN NULL ELSE S[i - 1]

\* Every hashMapItem malloc has handed out is on exactly one item list
\* (a map's or a free list), and every hashMap on exactly one list of
\* maps: no item is shared by two maps or by a map and a free list across
\* the exchanges between the threads and the recycling, and nothing is
\* leaked -- after pd3_estimator_destroy nothing is left allocated.
StorageOwnedOnce ==
    /\ \A l \in IList : WellFormedItems(l)
    /\ \A l \in MList : WellFormedMaps(l)
    /\ \A n \in an : Cardinality({l \in IList : n \in ToSet(ItemSeq(Mem, l))}) = 1
    /\ \A m \in am : Cardinality({l \in MList : m \in ToSet(MapSeq(Mem, l))}) = 1

\* Every report calls back, for each flow that had packets, the number of
\* packets of the flow's streams that arrived in the epochs the reporter
\* processed since the tracker's last report, and calls back no other
\* flow.  The counts pass from the aggregator's items to the tracker's
\* stream items (accumulate_time) and to the flow items the report
\* prepends (accumulate_flow), in items recycled through the free lists:
\* only add_hashmapitem's memset and zeroout_hashmap after each report
\* keep a count from being carried into the next epoch or report.
ReportCountsArrivals == callbacks = expected

\* The refinement mapping: each list is the sequence its pointers spell.
Seqs == INSTANCE HashMapSeq WITH
    ml  <- [l \in MList |-> MapSeq(Mem, l)],
    seq <- [l \in IList |-> ItemSeq(Mem, l)],
    key <- [n \in Node |-> items[n].key]

\* The pointer code implements the library's handlers on plain sequences:
\* what the aggregator and reporter do to their lists of maps and items,
\* the report loop included (its "prepending before point of iteration"),
\* is what the same steps do to sequences.
SeqSpec == Seqs!Spec

====
