---------------------------- MODULE MCHashMap2 ----------------------------
(* HashMap2 for TLC: two streams of one flow that share a hash bucket.   *)
EXTENDS HashMap2

MCFlow == [k \in StreamKey |-> "f1"]
MCHash == [k \in Key |-> 0]
====
