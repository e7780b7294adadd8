------------------------------ MODULE FlowState -----------------------------
(***************************************************************************)
(* The flow-state algebra of flowstate.c / flowstate.h.  A flow state      *)
(* summarises an epoch's arrivals as a word over the events D (delimiter)  *)
(* and P (run of packets).  The code's transition functions make both      *)
(* events idempotent: a second P after P, or a second D after D, is        *)
(* absorbed.                                                               *)
(***************************************************************************)

FS_NULL  == "NULL"
FS_D     == "D"
FS_P     == "P"
FS_DP    == "DP"
FS_PD    == "PD"
FS_DPD   == "DPD"
FS_ERROR == "ERROR"

FlowStates == {FS_NULL, FS_D, FS_P, FS_DP, FS_PD, FS_DPD, FS_ERROR}

\* flowstate_delimit
flowstate_delimit(fs) ==
    CASE fs \in {FS_NULL, FS_D} -> FS_D
      [] fs \in {FS_P, FS_PD}   -> FS_PD
      [] fs \in {FS_DP, FS_DPD} -> FS_DPD
      [] OTHER                  -> FS_ERROR

\* flowstate_packet
flowstate_packet(fs) ==
    CASE fs \in {FS_NULL, FS_P} -> FS_P
      [] fs \in {FS_D, FS_DP}   -> FS_DP
      [] OTHER                  -> FS_ERROR

\* flowstate_concatenate: replay the events of fs2 onto fs1.
flowstate_concatenate(fs1, fs2) ==
    CASE fs2 = FS_NULL -> fs1
      [] fs2 = FS_D    -> flowstate_delimit(fs1)
      [] fs2 = FS_P    -> flowstate_packet(fs1)
      [] fs2 = FS_DP   -> flowstate_packet(flowstate_delimit(fs1))
      [] fs2 = FS_PD   -> flowstate_delimit(flowstate_packet(fs1))
      [] fs2 = FS_DPD  -> flowstate_delimit(flowstate_packet(flowstate_delimit(fs1)))
      [] OTHER         -> FS_ERROR

\* The flowstate.h predicates.
flowstate_beginp(fs) == fs \in {FS_P, FS_PD}
flowstate_endp(fs)   == fs \in {FS_P, FS_DP}
flowstate_error(fs)  == fs = FS_ERROR

=============================================================================
