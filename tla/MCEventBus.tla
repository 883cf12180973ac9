----------------------------- MODULE MCEventBus -----------------------------
(***************************************************************************)
(* EventBus for TLC: one subscription to every event with a channel of     *)
(* two, and one to the terminal events with a channel of one.              *)
(***************************************************************************)
EXTENDS EventBus

CONSTANTS all, ends, progress, completed

MCWants == (all :> Kind) @@ (ends :> Terminal)
MCCapacity == (all :> 2) @@ (ends :> 1)
=============================================================================
