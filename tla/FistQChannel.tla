---------------------------- MODULE FistQChannel ----------------------------
(***************************************************************************)
(* What a fistq (src,dst) pair promises its single consumer about the     *)
(* items of each producer handle.  open is the set of users holding a     *)
(* handle; held[p] is what p has enqueued and not yet committed to the    *)
(* shared side; chan[p] is what is committed and not yet taken, in the    *)
(* order the consumer will take it; next[p] numbers p's items, so none is *)
(* invented or sent twice.                                                 *)
(*                                                                         *)
(* Items are lost only when a handle is closed: a producer's held items   *)
(* with its handle, what the consumer has taken off the shared queue      *)
(* (a prefix of each chan) with the consumer's handle, and everything     *)
(* committed with the last handle.                                        *)
(*                                                                         *)
(* FlushOvertakes says what an item sent with FISTQ_FLUSH does.  FALSE is *)
(* the comment of fistq_enqueue_any: the item joins the held items and    *)
(* all of them are committed, in order.  TRUE is fistq_enqueue_any's     *)
(* code: the item alone is committed, ahead of p's held items (Direct).   *)
(***************************************************************************)
EXTENDS Naturals, Sequences, SequencesExt

CONSTANTS Producers, Consumer, FlushOvertakes

VARIABLES open, chan, held, next

NoItems == [p \in Producers |-> << >>]

Init ==
    /\ open = {}
    /\ chan = NoItems
    /\ held = NoItems
    /\ next = [p \in Producers |-> 0]

Item(p) == <<p, next[p]>>

\* u gets a handle.
Open(u) ==
    /\ u \notin open
    /\ open' = open \cup {u}
    /\ UNCHANGED <<chan, held, next>>

\* p sends an item; it is held, or it and everything held are committed.
Send(p) ==
    /\ p \in open
    /\ next' = [next EXCEPT ![p] = @ + 1]
    /\ \/ /\ held' = [held EXCEPT ![p] = Append(@, Item(p))]
          /\ UNCHANGED chan
       \/ /\ chan' = [chan EXCEPT ![p] = @ \o Append(held[p], Item(p))]
          /\ held' = [held EXCEPT ![p] = << >>]
    /\ UNCHANGED open

\* p sends an item that is committed at once, ahead of p's held items.
Direct(p) ==
    /\ FlushOvertakes
    /\ p \in open
    /\ next' = [next EXCEPT ![p] = @ + 1]
    /\ chan' = [chan EXCEPT ![p] = Append(@, Item(p))]
    /\ UNCHANGED <<open, held>>

\* p commits everything it holds.
Commit(p) ==
    /\ p \in open
    /\ held[p] # << >>
    /\ chan' = [chan EXCEPT ![p] = @ \o held[p]]
    /\ held' = [held EXCEPT ![p] = << >>]
    /\ UNCHANGED <<open, next>>

\* The consumer takes p's oldest committed item.
Take(p) ==
    /\ Consumer \in open
    /\ chan[p] # << >>
    /\ chan' = [chan EXCEPT ![p] = Tail(@)]
    /\ UNCHANGED <<open, held, next>>

\* What is committed once u's handle is gone: nothing after the last one.
Remaining(u, c) == IF open \ {u} = {} THEN NoItems ELSE c

\* A producer closes its handle; what it holds is lost.
CloseProducer(p) ==
    /\ p \in open
    /\ open' = open \ {p}
    /\ held' = [held EXCEPT ![p] = << >>]
    /\ chan' = Remaining(p, chan)
    /\ UNCHANGED next

\* The consumer closes its handle; a prefix of each chan is lost.
CloseConsumer ==
    /\ Consumer \in open
    /\ open' = open \ {Consumer}
    /\ \E kept \in [Producers -> UNION {Suffixes(chan[p]) : p \in Producers}] :
          /\ \A p \in Producers : IsSuffix(kept[p], chan[p])
          /\ chan' = Remaining(Consumer, kept)
    /\ UNCHANGED <<held, next>>

Next ==
    \/ \E p \in Producers :
          Send(p) \/ Direct(p) \/ Commit(p) \/ Take(p) \/ CloseProducer(p)
    \/ \E u \in Producers \cup {Consumer} : Open(u)
    \/ CloseConsumer

Spec == Init /\ [][Next]_<<open, chan, held, next>>

=============================================================================
