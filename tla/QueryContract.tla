---------------------------- MODULE QueryContract ----------------------------
(***************************************************************************)
(* What a query run promises whoever watches its events and iterates its   *)
(* rows (registro_engine/executor.py, QueryRun and QueryExecutor.run): the *)
(* batches come one by one and none after a cancellation was asked for, a  *)
(* run that was opened ends with one terminal event, no run is told of     *)
(* twice, and "completed" only when every batch was delivered.             *)
(***************************************************************************)
EXTENDS Naturals, Sequences

CONSTANTS Run

VARIABLES batches,  \* per run: how many batches its result has
          phase,    \* per run: not started, open, or over
          given,    \* per run: the batches its consumer was given
          stopped,  \* the runs whose cancellation was asked for
          told      \* per run: the terminal events published of it
vars == <<batches, phase, given, stopped, told>>

Init ==
  /\ batches \in [Run -> Nat]
  /\ phase = [r \in Run |-> "new"] /\ given = [r \in Run |-> 0]
  /\ stopped = {} /\ told = [r \in Run |-> <<>>]

Open(r) ==
  /\ phase[r] = "new" /\ phase' = [phase EXCEPT ![r] = "open"]
  /\ UNCHANGED <<batches, given, stopped, told>>

Deliver(r) ==
  /\ phase[r] = "open" /\ r \notin stopped /\ given[r] < batches[r]
  /\ given' = [given EXCEPT ![r] = @ + 1]
  /\ UNCHANGED <<batches, phase, stopped, told>>

Stop(r) == stopped' = stopped \cup {r} /\ UNCHANGED <<batches, phase, given, told>>

End(r, event) ==
  /\ phase[r] # "over"
  /\ event = "completed" => phase[r] = "open" /\ given[r] = batches[r]
  /\ phase' = [phase EXCEPT ![r] = "over"]
  /\ told' = [told EXCEPT ![r] = Append(@, event)]
  /\ UNCHANGED <<batches, given, stopped>>

\* Nobody is told of a run that was never opened.
Vanish(r) ==
  /\ phase[r] = "new" /\ phase' = [phase EXCEPT ![r] = "over"]
  /\ UNCHANGED <<batches, given, stopped, told>>

Next ==
  \E r \in Run :
    \/ Open(r) \/ Deliver(r) \/ Stop(r) \/ Vanish(r)
    \/ \E event \in {"completed", "failed", "cancelled"} : End(r, event)

Spec == Init /\ [][Next]_vars
=============================================================================
