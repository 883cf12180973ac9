--------------------------- MODULE MCQueryHistory ---------------------------
(***************************************************************************)
(* QueryHistory for TLC.  Calls differ only in name, and so do stores:     *)
(* naming them in the order in which they come loses no behaviour.         *)
(***************************************************************************)
EXTENDS QueryHistory

InOrder ==
  /\ \A e, f \in Entry : e < f /\ add[f].pc # "new" => add[e].pc # "new"
  /\ \A s, t \in Store : s < t /\ store[t].at # "new" => store[s].at # "new"

MCSpec ==
  /\ Init /\ [][Next /\ InOrder']_vars
  /\ \A s \in Store : WF_vars(Thread(s))
=============================================================================
