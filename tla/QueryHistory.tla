---------------------------- MODULE QueryHistory ----------------------------
(***************************************************************************)
(* registro_engine/history.py: the query history, a SQLite file that       *)
(* several QueryHistory objects may have open: the old and the new session *)
(* of a program that reconnects, or several programs.                      *)
(*                                                                         *)
(* A Store is one such object, opened and closed once.  An Entry is one    *)
(* call of add().  The rows are their ids (AUTOINCREMENT, so an id is used *)
(* once unless its transaction is rolled back).  What a store awaits is a  *)
(* job of its connection's thread, done in the order of the calls even if  *)
(* nobody awaits it any more; one store at a time can hold the write lock  *)
(* of the file, from its first change to its commit.  The end of a job and *)
(* the resumption of the task that awaits it are one step.                 *)
(***************************************************************************)
EXTENDS Naturals, Sequences, FiniteSets

CONSTANTS Store, Entry,
          MaxEntries, \* max_entries
          TrimEvery,  \* inserts between trims: 50, or 1 when max <= 10
          OldRows,    \* how many rows the file has at first
          Nobody      \* no store holds the lock; a job of close()

ASSUME StoreAssumption == IsFiniteSet(Store) /\ IsFiniteSet(Entry) /\ Nobody \notin Store \cup Entry
ASSUME MaxAssumption == MaxEntries \in Nat \ {0} /\ TrimEvery \in Nat \ {0} /\ OldRows \in Nat

VARIABLES
  file,    \* the committed table: its rows, and the last id that was given
  draft,   \* the table as whoever holds the lock has changed it
  writer,  \* the store that holds the write lock
  store,   \* per store: how far open() and close() are, _inserts_since_trim, its jobs
  add      \* per call: where it is, on which store, and the id of its row
vars == <<file, draft, writer, store, add>>

Table == [last : Nat, rows : SUBSET Nat]
Job == [kind : {"insert", "cursor", "trim", "commit", "close"}, of : Entry \cup {Nobody},
        awaited : BOOLEAN]
StoreState == [at : {"new", "open", "closing", "closed", "refused", "crashed"},
               inserts : Nat, jobs : Seq(Job)]
AddState == [pc : {"new", "insert", "cursor", "trim", "commit", "returned", "failed",
                   "cancelled", "crashed"},
             on : Store \cup {Nobody}, id : Nat]

\* A transaction is open on a connection that is.
TypeOK ==
  /\ file \in Table /\ draft \in Table /\ writer \in Store \cup {Nobody}
  /\ store \in [Store -> StoreState] /\ add \in [Entry -> AddState]
  /\ writer # Nobody => store[writer].at \in {"open", "closing"}

Init ==
  /\ file = [last |-> OldRows, rows |-> 1..OldRows]
  /\ draft = file /\ writer = Nobody
  /\ store = [s \in Store |-> [at |-> "new", inserts |-> 0, jobs |-> <<>>]]
  /\ add = [e \in Entry |-> [pc |-> "new", on |-> Nobody, id |-> 0]]

-----------------------------------------------------------------------------
(* The table, and the connection's thread *)

\* Mutant: an offset of max + 1.
OldestKeptPlusOne(rows) == {k \in rows : Cardinality({j \in rows : j > k}) = MaxEntries + 1}

\* "OFFSET max": the newest row with so many newer ones.  None: nothing goes.
OldestKept(rows) == {k \in rows : Cardinality({j \in rows : j > k}) = MaxEntries}

Trimmed(table) ==
  [table EXCEPT !.rows = {i \in @ : \A k \in OldestKept(table.rows) : i > k}]
Inserted(table) == [last |-> table.last + 1, rows |-> table.rows \cup {table.last + 1}]

\* The table as store s sees it; a change takes the lock, if nobody else has it.
Seen(s) == IF writer = s THEN draft ELSE file
LeavesLock(s) == writer' = IF writer = s THEN Nobody ELSE writer
MayWrite(s) == writer \in {s, Nobody}
Changes(s, table) == MayWrite(s) /\ draft' = table /\ writer' = s /\ UNCHANGED file

\* Mutant: add() returns without a commit, which is left to the next trim.
CommitsLater(s) == UNCHANGED <<file, draft, writer>>

\* Python's commit() does nothing outside a transaction.
Commits(s) == file' = Seen(s) /\ LeavesLock(s) /\ UNCHANGED draft
RollsBack(s) == draft' = (IF writer = s THEN file ELSE draft) /\ LeavesLock(s) /\ UNCHANGED file

NewJob(kind, e) == [kind |-> kind, of |-> e, awaited |-> TRUE]

\* The thread of s ends its next job, of this kind and for this call.
Does(s, kind, e) ==
  /\ store[s].jobs # <<>>
  /\ Head(store[s].jobs).kind = kind /\ Head(store[s].jobs).of = e

Awaited(s) == Head(store[s].jobs).awaited
Usable(s) == store[s].at \in {"open", "closing"}

\* The call goes on with its next job.
GoesOn(s, e, kind, inserts, id) ==
  /\ add' = [add EXCEPT ![e].pc = kind, ![e].id = id]
  /\ store' = [store EXCEPT ![s].inserts = inserts,
                            ![s].jobs = Append(Tail(@), NewJob(kind, e))]

\* The call ends, or its task is not there any more.
Ends(s, e, end) ==
  /\ add' = IF ~Awaited(s) THEN add
            ELSE [add EXCEPT ![e].pc = end, ![e].id = IF end = "returned" THEN @ ELSE 0]
  /\ store' = [store EXCEPT ![s].jobs = Tail(@)]

-----------------------------------------------------------------------------
(* open *)

\* One transaction.  It is a step, because nobody cancels open() short of leaving
\* the program, and a crash in the middle of it changes nothing.
Open(s) ==
  /\ store[s].at = "new" /\ writer = Nobody
  /\ file' = Trimmed(file) /\ draft' = file'
  /\ store' = [store EXCEPT ![s].at = "open"]
  /\ UNCHANGED <<writer, add>>

\* "database is locked", after busy_timeout; open_session() closes it again.
OpenBusy(s) ==
  /\ store[s].at = "new" /\ writer # Nobody
  /\ store' = [store EXCEPT ![s].at = "refused"]
  /\ UNCHANGED <<file, draft, writer, add>>

-----------------------------------------------------------------------------
(* add *)

Add(s, e) ==
  /\ add[e].pc = "new" /\ Usable(s)
  /\ add' = [add EXCEPT ![e].pc = "insert", ![e].on = s]
  /\ store' = [store EXCEPT ![s].jobs = Append(@, NewJob("insert", e))]
  /\ UNCHANGED <<file, draft, writer>>

Insert(s, e) ==
  /\ Does(s, "insert", e) /\ Usable(s)
  /\ Changes(s, Inserted(Seen(s)))
  /\ \/ Awaited(s) /\ GoesOn(s, e, "cursor", store[s].inserts, Inserted(Seen(s)).last)
     \/ ~Awaited(s) /\ Ends(s, e, "cancelled")

Trims(n) == n >= TrimEvery

\* The cursor is closed and the insert counted.
Count(s, e) ==
  /\ Does(s, "cursor", e) /\ Usable(s)
  /\ LET n == store[s].inserts + 1 IN
     \/ Awaited(s) /\ GoesOn(s, e, IF Trims(n) THEN "trim" ELSE "commit", n, add[e].id)
     \/ ~Awaited(s) /\ Ends(s, e, "cancelled")
  /\ UNCHANGED <<file, draft, writer>>

\* Mutant: an add() that trimmed returns without a commit.
TrimReturns(s, e) ==
  /\ Does(s, "trim", e) /\ Usable(s)
  /\ Changes(s, Trimmed(Seen(s)))
  /\ Ends(s, e, "returned")

Trim(s, e) ==
  /\ Does(s, "trim", e) /\ Usable(s)
  /\ Changes(s, Trimmed(Seen(s)))
  /\ \/ Awaited(s) /\ GoesOn(s, e, "commit", 0, add[e].id)
     \/ ~Awaited(s) /\ Ends(s, e, "cancelled")

Commit(s, e) ==
  /\ Does(s, "commit", e) /\ Usable(s)
  /\ Commits(s)
  /\ Ends(s, e, "returned")

\* The lock is somebody else's for longer than busy_timeout, or the connection
\* was closed before its thread came to this job.
JobFails(s, e) ==
  /\ \/ (Does(s, "insert", e) \/ Does(s, "trim", e)) /\ ~MayWrite(s)
     \/ store[s].jobs # <<>> /\ Head(store[s].jobs).of = e /\ ~Usable(s)
  /\ Ends(s, e, "failed")
  /\ UNCHANGED <<file, draft, writer>>

UnderWay(e) == add[e].pc \in {"insert", "cursor", "trim", "commit"}

\* The task that awaits add() is cancelled; its job is done all the same.
CancelAdd(s, e) ==
  /\ UnderWay(e) /\ add[e].on = s
  /\ add' = [add EXCEPT ![e].pc = "cancelled", ![e].id = 0]
  /\ store' = [store EXCEPT ![s].jobs = [i \in 1..Len(@) |->
       IF @[i].of = e THEN [@[i] EXCEPT !.awaited = FALSE] ELSE @[i]]]
  /\ UNCHANGED <<file, draft, writer>>

-----------------------------------------------------------------------------
(* close *)

Close(s) ==
  /\ store[s].at = "open"
  /\ store' = [store EXCEPT ![s].at = "closing", ![s].jobs =
       Append(@, NewJob(IF store[s].inserts > 0 THEN "trim" ELSE "close", Nobody))]
  /\ UNCHANGED <<file, draft, writer, add>>

ClosingJob(s, kind) ==
  /\ store' = [store EXCEPT ![s].jobs = Append(Tail(@), NewJob(kind, Nobody))]
  /\ UNCHANGED add

\* "contextlib.suppress(Exception)": a trim that fails is done without.
CloseTrims(s) ==
  /\ Does(s, "trim", Nobody)
  /\ \/ Changes(s, Trimmed(Seen(s))) /\ ClosingJob(s, "commit")
     \/ ~MayWrite(s) /\ ClosingJob(s, "close") /\ UNCHANGED <<file, draft, writer>>

CloseCommits(s) == Does(s, "commit", Nobody) /\ Commits(s) /\ ClosingJob(s, "close")

\* Mutant: the object forgets its connection and does not close it.
CloseConnectionForgets(s) ==
  /\ Does(s, "close", Nobody)
  /\ store' = [store EXCEPT ![s].at = "closed", ![s].inserts = 0, ![s].jobs = Tail(@)]
  /\ UNCHANGED <<file, draft, writer, add>>

\* The connection is closed: what is not committed is rolled back.
CloseConnection(s) ==
  /\ Does(s, "close", Nobody)
  /\ RollsBack(s)
  /\ store' = [store EXCEPT ![s].at = "closed", ![s].inserts = 0, ![s].jobs = Tail(@)]
  /\ UNCHANGED add

-----------------------------------------------------------------------------

\* The program that has this store open dies.
Crash(s) ==
  /\ Usable(s)
  /\ RollsBack(s)
  /\ store' = [store EXCEPT ![s].at = "crashed", ![s].inserts = 0, ![s].jobs = <<>>]
  /\ add' = [e \in Entry |-> IF add[e].on = s /\ UnderWay(e)
                             THEN [add[e] EXCEPT !.pc = "crashed", !.id = 0] ELSE add[e]]

Thread(s) ==
  /\ store[s].jobs # <<>>
  /\ \/ \E e \in Entry \cap {Head(store[s].jobs).of} :
          Insert(s, e) \/ Count(s, e) \/ Trim(s, e) \/ Commit(s, e) \/ JobFails(s, e)
     \/ CloseTrims(s) \/ CloseCommits(s) \/ CloseConnection(s)

Next ==
  \E s \in Store :
    \/ Open(s) \/ OpenBusy(s) \/ Thread(s) \/ Close(s) \/ Crash(s)
    \/ \E e \in Entry : Add(s, e) \/ CancelAdd(s, e)

\* Fairness: the thread of a connection does its jobs.
Spec == Init /\ [][Next]_vars
FairSpec == Spec /\ \A s \in Store : WF_vars(Thread(s))

-----------------------------------------------------------------------------
(* Properties *)

\* The retention window, as whoever writes sees it: a store that opens the file
\* leaves MaxEntries rows, to which come the ones counted since a trim, and those
\* whose add() was broken off before it counted them.  (A store that is closed or
\* dies between a trim and its commit leaves more: the next open() sees to that.)
Counted == Cardinality(UNION {{s} \X (1..store[s].inserts) : s \in Store})
Uncounted == {e \in Entry : add[e].pc \in {"cursor", "cancelled", "failed"}}
RetentionBound ==
  (\E s \in Store : Usable(s)) /\ (\A s \in Store : store[s].at \notin {"closed", "crashed"}) =>
    Cardinality(draft.rows) <= MaxEntries + Counted + Cardinality(Uncounted)

\* Entries are appended, an add() that returned is in the file and has its own
\* id, and only the oldest rows go, whatever calls, stores, cancellations and
\* crashes interleave.
Log == INSTANCE HistoryLog
  WITH last <- file.last, rows <- file.rows,
       told <- {add[e].id : e \in {f \in Entry : add[f].pc = "returned"}}
KeepsLog == Log!Spec

\* No add() that runs to its end leaves the file locked for the others: a
\* transaction ends, unless the task that would have committed it was cancelled.
Orphaned(s) == \E e \in Entry : add[e].on = s /\ add[e].pc = "cancelled"
LockReleased == \A s \in Store : writer = s ~> writer # s \/ Orphaned(s)
=============================================================================
