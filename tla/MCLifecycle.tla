----------------------------- MODULE MCLifecycle -----------------------------
(***************************************************************************)
(* Schedule strings for Lifecycle.  A field is Absent or its           *)
(* first character class and atof value, in time units.                  *)
(***************************************************************************)
EXTENDS Lifecycle

Num(v) == [lead |-> "digit", val |-> v]
Other(v) == [lead |-> "other", val |-> v]
Absent == [lead |-> "none", val |-> 0]

\* "c,2": one tracker every 2 units, first after one interval.
OneTracker == << [iv |-> Num(2), off |-> Absent] >>

\* "c,1,x;c,2,3": an offset that atof reads as 0 is ignored; a numeric
\* offset sets the first run.
TwoTrackers == << [iv |-> Num(1), off |-> Other(0)],
                  [iv |-> Num(2), off |-> Num(3)] >>

\* "c,2;c,-1": the second interval is rejected after the first is parsed.
BadSecond == << [iv |-> Num(2), off |-> Absent],
                [iv |-> Other(-1), off |-> Absent] >>

\* "c,0": interval 0, which set_schedule accepts.
ZeroInterval == << [iv |-> Num(0), off |-> Absent] >>

MCSchedules == {OneTracker, TwoTrackers, BadSecond, ZeroInterval}

=============================================================================
