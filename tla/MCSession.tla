----------------------------- MODULE MCSession -----------------------------
(* Session for TLC: connects, and queries, are interchangeable. *)
EXTENDS Session, TLC

Symmetry == Permutations(Conn) \cup Permutations(Query)
=============================================================================
