----------------------------- MODULE HistoryLog -----------------------------
(***************************************************************************)
(* What the query history promises (registro_engine/history.py): an        *)
(* append-only log with a bounded retention window.  Rows are numbered in  *)
(* the order of insertion; a row goes only to make room for newer ones, of *)
(* which MaxEntries are always left; a number that add() returned is one   *)
(* of a row that is or was in the file, and no two calls return the same.  *)
(***************************************************************************)
EXTENDS Naturals, FiniteSets

CONSTANTS MaxEntries

VARIABLES last,  \* the number of the newest row there ever was
          rows,  \* the rows in the file
          told   \* the numbers that calls of add() returned
vars == <<last, rows, told>>

Init == last \in Nat /\ rows = 1..last /\ told = {}

\* A transaction appends rows, or none, and forgets the oldest of all.
Commit ==
  /\ last' >= last
  /\ LET offered == rows \cup (last + 1)..last' IN
       /\ rows' \subseteq offered
       /\ rows' # offered => Cardinality(rows') >= MaxEntries
       /\ \A i \in offered \ rows', j \in rows' : i < j

\* A call returns the number of its row, which nobody was told.
Tell == \E i \in 1..last' : i \notin told /\ told' = told \cup {i}

Next == Commit /\ (Tell \/ UNCHANGED told)

Spec == Init /\ [][Next]_vars
=============================================================================
