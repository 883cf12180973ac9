-------------------------- MODULE MCConnectionPool --------------------------
(***************************************************************************)
(* ConnectionPool for TLC.  Requests differ only in name, so naming them   *)
(* in the order in which they arrive loses no behaviour and, unlike a      *)
(* SYMMETRY set, is sound for liveness.                                    *)
(***************************************************************************)
EXTENDS ConnectionPool

InArrivalOrder ==
  \A r, s \in Request : r < s /\ req[s].pc # "new" => req[r].pc # "new"

MCSpec ==
  /\ Init /\ [][Next /\ InArrivalOrder']_vars
  /\ Fairness
=============================================================================
