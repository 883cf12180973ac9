---------------------------- MODULE EventDelivery ----------------------------
(***************************************************************************)
(* What an event bus promises its subscribers (registro_core/events.py):   *)
(* each event is taken at most once, in the order of publication; one may  *)
(* be lost to make room for another, but never a terminal one, whose loss  *)
(* would leave a query "running" for ever.                                 *)
(***************************************************************************)
EXTENDS Naturals, Sequences

CONSTANTS Subscriber, Kind, Terminal, Wants

VARIABLES log,      \* the kinds of the events published so far
          pending,  \* per subscriber: the events it will be given
          taken,    \* per subscriber: the events it was given
          absent   \* the subscribers that are not subscribed, or no longer
vars == <<log, pending, taken, absent>>

Init ==
  /\ log = <<>> /\ absent \in SUBSET Subscriber
  /\ pending = [s \in Subscriber |-> {}] /\ taken = [s \in Subscriber |-> {}]

Publish(kind) ==
  LET event == Len(log) + 1 IN
  /\ log' = Append(log, kind)
  /\ pending' \in [Subscriber -> SUBSET (1..event)]
  /\ \A s \in Subscriber :
       LET offered == IF kind \in Wants[s] /\ s \notin absent
                      THEN pending[s] \cup {event} ELSE pending[s]
           lost == offered \ pending'[s]
       IN  /\ pending'[s] \subseteq offered
           /\ \A e, f \in lost : e = f /\ log'[e] \notin Terminal
  /\ UNCHANGED <<taken, absent>>

Take(s) ==
  /\ \E e \in pending[s] :
       /\ \A f \in pending[s] : e <= f
       /\ pending' = [pending EXCEPT ![s] = @ \ {e}]
       /\ taken' = [taken EXCEPT ![s] = @ \cup {e}]
  /\ UNCHANGED <<log, absent>>

\* A subscriber joins with nothing pending, or leaves what is pending behind.
ComeOrGo ==
  /\ absent' \in SUBSET Subscriber
  /\ UNCHANGED <<log, pending, taken>>

Next ==
  \/ \E kind \in Kind : Publish(kind)
  \/ \E s \in Subscriber : Take(s)
  \/ ComeOrGo

Spec == Init /\ [][Next]_vars
=============================================================================
