------------------------ MODULE QueryHistory_proofs ------------------------
(***************************************************************************)
(* QueryHistory keeps its types, implements HistoryLog and keeps to its    *)
(* window of retention, for any stores, any calls, any window, any         *)
(* interval of trims and any file to begin with.                           *)
(*                                                                         *)
(* IInv is inductive: what a transaction has not committed appends to what *)
(* is (FileOk), the jobs of a connection are those that calls await, or    *)
(* did (JobsOk), and the ids that calls may yet return are safe (IdsOk).   *)
(* RInv adds that every row of a call that was broken off is accounted for *)
(* from the step that inserts it (Window), in the table that the next      *)
(* writer begins with (Settled).                                           *)
(***************************************************************************)
EXTENDS QueryHistory, FiniteSetTheorems, SequenceTheorems, WellFoundedInduction, TLAPS

-----------------------------------------------------------------------------
(* Tables *)

\* The rows that there would be in table d if none of those of b had gone.
Offered(b, d) == b.rows \cup (b.last + 1)..d.last

TableOk(t) == t \in Table /\ t.rows \subseteq 1..t.last

\* d is b with rows appended and the oldest ones, if any, gone.
Grown(b, d) ==
  /\ b.last <= d.last /\ d.rows \subseteq Offered(b, d)
  /\ d.rows # Offered(b, d) => Cardinality(d.rows) >= MaxEntries
  /\ \A i \in Offered(b, d) \ d.rows, j \in d.rows : i < j

LEMMA GrownSelf ==
  ASSUME NEW t, TableOk(t) PROVE Grown(t, t)
BY DEF Grown, Offered, TableOk, Table

\* There is at most one row with so many newer ones.
LEMMA NewerOfFewer ==
  ASSUME NEW n \in Nat, NEW rows \in SUBSET (1..n), NEW a \in rows, NEW b \in rows, a < b
  PROVE  Cardinality({j \in rows : j > a}) # Cardinality({j \in rows : j > b})
<1>1. IsFiniteSet({j \in rows : j > a})
  <2>1. IsFiniteSet(1..n)
    BY FS_Interval
  <2>2. IsFiniteSet(rows)
    BY <2>1, FS_Subset
  <2>3. {j \in rows : j > a} \in SUBSET rows
    OBVIOUS
  <2> QED
    BY <2>2, <2>3, FS_Subset
<1>2. {j \in rows : j > b} \subseteq {j \in rows : j > a}
  <2>1. a \in Nat /\ b \in Nat /\ \A j \in rows : j \in Nat
    OBVIOUS
  <2>2. \A j \in rows : j > b => j > a
    BY <2>1
  <2> QED
    BY <2>2
<1>3. {j \in rows : j > b} # {j \in rows : j > a}
  <2>1. b \in {j \in rows : j > a} /\ b \notin {j \in rows : j > b}
    OBVIOUS
  <2> QED
    BY <2>1
<1> QED
  BY <1>1, <1>2, <1>3, FS_Subset

LEMMA OneOldest ==
  ASSUME NEW n \in Nat, NEW rows \in SUBSET (1..n), NEW i \in OldestKept(rows),
         NEW k \in OldestKept(rows)
  PROVE  i = k
<1>1. /\ i \in rows /\ k \in rows
      /\ Cardinality({j \in rows : j > i}) = Cardinality({j \in rows : j > k})
  BY DEF OldestKept
<1>2. i < k \/ k < i \/ i = k
  BY <1>1
<1> QED
  BY <1>1, <1>2, NewerOfFewer

\* A trim leaves the newest MaxEntries rows, or all if there are not more.
LEMMA TrimKeeps ==
  ASSUME NEW t, TableOk(t)
  PROVE  /\ TableOk(Trimmed(t)) /\ Trimmed(t).last = t.last /\ Trimmed(t).rows \subseteq t.rows
         /\ Trimmed(t).rows # t.rows => Cardinality(Trimmed(t).rows) = MaxEntries
         /\ \A i \in t.rows \ Trimmed(t).rows, j \in Trimmed(t).rows : i < j
<1>1. /\ t.last \in Nat /\ t.rows \in SUBSET (1..t.last) /\ t.rows \in SUBSET Nat
      /\ t = [last |-> t.last, rows |-> t.rows]
  BY DEF TableOk, Table
<1> DEFINE kept == {i \in t.rows : \A k \in OldestKept(t.rows) : i > k}
<1>2. Trimmed(t).last = t.last /\ Trimmed(t).rows = kept /\ Trimmed(t) \in Table
  BY <1>1 DEF Trimmed, Table
<1>3. CASE OldestKept(t.rows) = {}
  <2>1. kept = t.rows
    BY <1>3
  <2> QED
    BY <1>1, <1>2, <2>1 DEF TableOk
<1>4. CASE OldestKept(t.rows) # {}
  <2>1. PICK k \in OldestKept(t.rows) : TRUE
    BY <1>4
  <2>2. OldestKept(t.rows) = {k}
    BY <1>1, <2>1, OneOldest
  <2>3. kept = {j \in t.rows : j > k} /\ k \in Nat
    BY <1>1, <2>1, <2>2 DEF OldestKept
  <2>4. Cardinality(kept) = MaxEntries
    BY <2>1, <2>3 DEF OldestKept
  <2>5. \A i \in t.rows \ kept, j \in kept : i < j
    BY <1>1, <2>3
  <2> QED
    BY <1>1, <1>2, <2>4, <2>5 DEF TableOk
<1> QED
  BY <1>3, <1>4

LEMMA GrownTrimmed ==
  ASSUME NEW b, TableOk(b), NEW d, TableOk(d), Grown(b, d)
  PROVE  TableOk(Trimmed(d)) /\ Grown(b, Trimmed(d))
<1> DEFINE t == Trimmed(d)
<1>1. /\ TableOk(t) /\ t.last = d.last /\ t.rows \subseteq d.rows
      /\ t.rows # d.rows => Cardinality(t.rows) = MaxEntries
      /\ \A i \in d.rows \ t.rows, j \in t.rows : i < j
  BY TrimKeeps
<1> HIDE DEF t
<1>2. Offered(b, t) = Offered(b, d) /\ MaxEntries \in Nat
  BY <1>1, MaxAssumption DEF Offered
<1>3. t.rows # Offered(b, t) => Cardinality(t.rows) >= MaxEntries
  BY <1>1, <1>2 DEF Grown
<1>4. \A i \in Offered(b, t) \ t.rows, j \in t.rows : i < j
  BY <1>1, <1>2 DEF Grown
<1>5. b.last <= t.last /\ t.rows \subseteq Offered(b, t)
  BY <1>1, <1>2 DEF Grown
<1> QED
  BY <1>1, <1>3, <1>4, <1>5 DEF Grown, t

LEMMA GrownInserted ==
  ASSUME NEW b, TableOk(b), NEW d, TableOk(d), Grown(b, d)
  PROVE  /\ TableOk(Inserted(d)) /\ Grown(b, Inserted(d)) /\ Inserted(d).last = d.last + 1
<1> DEFINE t == Inserted(d)
<1>1. t.last = d.last + 1 /\ t.rows = d.rows \cup {d.last + 1}
  BY DEF Inserted
<1>2. b.last \in Nat /\ d.last \in Nat /\ d.rows \subseteq 1..d.last /\ b.rows \subseteq 1..b.last
  BY DEF TableOk, Table
<1>3. TableOk(t)
  <2>1. t = [last |-> d.last + 1, rows |-> d.rows \cup {d.last + 1}]
    BY DEF Inserted
  <2>2. d.rows \cup {d.last + 1} \subseteq 1..d.last + 1 /\ d.last + 1 \in Nat
    BY <1>2
  <2> QED
    BY <2>1, <2>2 DEF TableOk, Table
<1> HIDE DEF t
<1>4. Offered(b, t) = Offered(b, d) \cup {d.last + 1} /\ b.last <= t.last
  BY <1>1, <1>2 DEF Offered, Grown
<1>5. Offered(b, t) \ t.rows \subseteq Offered(b, d) \ d.rows
  BY <1>1, <1>4
<1>6. Offered(b, d) \subseteq 1..d.last
  BY <1>2 DEF Offered, Grown
<1>7. \A i \in Offered(b, t) \ t.rows, j \in t.rows : i < j
  BY <1>1, <1>2, <1>5, <1>6 DEF Grown
<1>8. t.rows # Offered(b, t) => Cardinality(t.rows) >= MaxEntries
  <2>1. t.rows # Offered(b, t) => d.rows # Offered(b, d)
    BY <1>1, <1>4
  <2>2. IsFiniteSet(t.rows) /\ d.rows \in SUBSET t.rows
    <3>1. IsFiniteSet(1..t.last)
      BY <1>1, <1>2, FS_Interval
    <3>2. t.rows \in SUBSET (1..t.last)
      BY <1>3 DEF TableOk
    <3> QED
      BY <1>1, <3>1, <3>2, FS_Subset
  <2>3. Cardinality(d.rows) <= Cardinality(t.rows)
    BY <2>2, FS_Subset
  <2>4. Cardinality(d.rows) \in Nat /\ Cardinality(t.rows) \in Nat
    BY <2>2, FS_Subset, FS_CardinalityType
  <2> QED
    BY <2>1, <2>3, <2>4, MaxAssumption DEF Grown
<1> QED
  BY <1>1, <1>3, <1>4, <1>7, <1>8 DEF Grown, t

-----------------------------------------------------------------------------
(* Queues of jobs *)

Queued(q) == {q[i] : i \in 1..Len(q)}
Distinct(q) == \A i, k \in 1..Len(q) : q[i].of = q[k].of => i = k

LEMMA QueuedJob ==
  ASSUME NEW q \in Seq(Job), NEW j \in Queued(q)
  PROVE  j \in Job /\ j.of \in Entry \cup {Nobody}
<1>1. PICK i \in 1..Len(q) : j = q[i]
  BY DEF Queued
<1>2. j \in Job
  BY <1>1, ElementOfSeq
<1> QED
  BY <1>2 DEF Job

LEMMA QueueTail ==
  ASSUME NEW q \in Seq(Job), q # <<>>, Distinct(q)
  PROVE  /\ Tail(q) \in Seq(Job) /\ Distinct(Tail(q)) /\ Head(q) \in Queued(q)
         /\ Head(q) \in Job
         /\ \A j \in Queued(Tail(q)) : j \in Queued(q) /\ j.of # Head(q).of
<1>1. /\ Tail(q) \in Seq(Job) /\ Head(q) = q[1] /\ Head(q) \in Job
      /\ Len(Tail(q)) = Len(q) - 1 /\ Len(q) \in Nat \ {0}
      /\ \A i \in 1..Len(Tail(q)) : Tail(q)[i] = q[i + 1]
  BY HeadTailProperties
<1> DEFINE rest == Tail(q)
<1>2. \A i \in 1..Len(rest) : i + 1 \in 1..Len(q) /\ i + 1 # 1 /\ rest[i] = q[i + 1]
  BY <1>1
<1>3. 1 \in 1..Len(q) /\ Len(rest) \in Nat
  BY <1>1
<1> HIDE DEF rest
<1>4. Distinct(rest)
  <2> SUFFICES ASSUME NEW i \in 1..Len(rest), NEW k \in 1..Len(rest), rest[i].of = rest[k].of
               PROVE  i = k
    BY DEF Distinct
  <2>1. i + 1 = k + 1
    BY <1>2 DEF Distinct
  <2> QED
    BY <1>3, <2>1
<1>5. \A j \in Queued(rest) : j \in Queued(q) /\ j.of # Head(q).of
  <2> SUFFICES ASSUME NEW i \in 1..Len(rest)
               PROVE  rest[i] \in Queued(q) /\ rest[i].of # Head(q).of
    BY DEF Queued
  <2> QED
    BY <1>1, <1>2, <1>3 DEF Queued, Distinct
<1> QED
  BY <1>1, <1>3, <1>4, <1>5 DEF Queued, rest

LEMMA QueueAppend ==
  ASSUME NEW q \in Seq(Job), NEW job \in Job, Distinct(q), \A j \in Queued(q) : j.of # job.of
  PROVE  /\ Append(q, job) \in Seq(Job) /\ Distinct(Append(q, job))
         /\ \A j \in Queued(Append(q, job)) : j \in Queued(q) \/ j = job
<1> DEFINE longer == Append(q, job)
<1>1. /\ longer \in Seq(Job) /\ Len(longer) = Len(q) + 1 /\ Len(q) \in Nat
      /\ \A i \in 1..Len(q) : longer[i] = q[i]
      /\ longer[Len(q) + 1] = job
  BY AppendProperties
<1> HIDE DEF longer
<1>2. \A i \in 1..Len(longer) : (i \in 1..Len(q) /\ longer[i] = q[i])
                               \/ (i = Len(q) + 1 /\ longer[i] = job)
  BY <1>1
<1>3. \A i \in 1..Len(q) : q[i] \in Queued(q)
  BY DEF Queued
<1>4. Distinct(longer)
  <2> SUFFICES ASSUME NEW i \in 1..Len(longer), NEW k \in 1..Len(longer),
                      longer[i].of = longer[k].of
               PROVE  i = k
    BY DEF Distinct
  <2> QED
    BY <1>2, <1>3 DEF Distinct
<1>5. \A j \in Queued(longer) : j \in Queued(q) \/ j = job
  BY <1>2, <1>3 DEF Queued
<1> QED
  BY <1>1, <1>4, <1>5 DEF longer

\* The queue as CancelAdd leaves it.
Forsaken(q, e) ==
  [i \in 1..Len(q) |-> IF q[i].of = e THEN [q[i] EXCEPT !.awaited = FALSE] ELSE q[i]]

LEMMA QueueForsaken ==
  ASSUME NEW q \in Seq(Job), NEW e, Distinct(q)
  PROVE  /\ Forsaken(q, e) \in Seq(Job) /\ Distinct(Forsaken(q, e))
         /\ \A j \in Queued(Forsaken(q, e)) :
              IF j.of = e THEN ~j.awaited /\ \E k \in Queued(q) : k.of = j.of /\ k.kind = j.kind
              ELSE j \in Queued(q)
<1> DEFINE new == Forsaken(q, e)
<1>1. Len(q) \in Nat /\ \A i \in 1..Len(q) : q[i] \in Job
  BY ElementOfSeq
<1>2. \A i \in 1..Len(q) : new[i] \in Job /\ new[i].of = q[i].of /\ new[i].kind = q[i].kind
                          /\ IF q[i].of = e THEN ~new[i].awaited ELSE new[i] = q[i]
  BY <1>1 DEF Forsaken, Job
<1>3. new = [i \in 1..Len(q) |-> new[i]]
  BY DEF Forsaken
<1> HIDE DEF new
<1>4. new \in Seq(Job) /\ Len(new) = Len(q)
  BY <1>1, <1>2, <1>3
<1>5. Distinct(new)
  BY <1>2, <1>4 DEF Distinct
<1>6. \A j \in Queued(new) : IF j.of = e THEN ~j.awaited /\ \E k \in Queued(q) : k.of = j.of /\ k.kind = j.kind
                            ELSE j \in Queued(q)
  <2> SUFFICES ASSUME NEW i \in 1..Len(q)
               PROVE  IF new[i].of = e
                      THEN ~new[i].awaited /\ \E k \in Queued(q) : k.of = new[i].of /\ k.kind = new[i].kind
                      ELSE new[i] \in Queued(q)
    BY <1>4 DEF Queued
  <2> QED
    BY <1>2 DEF Queued
<1> QED
  BY <1>4, <1>5, <1>6 DEF new

-----------------------------------------------------------------------------
(* The inductive invariant *)

StateOk == store \in [Store -> StoreState] /\ add \in [Entry -> AddState]

\* What is not committed appends to what is.
FileOk ==
  /\ TableOk(file) /\ TableOk(draft) /\ writer \in Store \cup {Nobody}
  /\ writer # Nobody => Grown(file, draft) /\ Usable(writer)

\* A job is of a call that is on its store, and the one which that awaits, or has been
\* cancelled; or it is of close().
Fits(s, j) ==
  IF j.of = Nobody THEN store[s].at = "closing"
  ELSE /\ add[j.of].on = s /\ add[j.of].pc # "new"
       /\ add[j.of].pc = IF j.awaited THEN j.kind ELSE "cancelled"
StoreJobsOk(s) ==
  /\ Distinct(store[s].jobs)
  /\ \A j \in Queued(store[s].jobs) : Fits(s, j)
JobsOk == \A s \in Store : StoreJobsOk(s)

\* An id that call e may yet return, or has.
Returned(e) == add[e].pc = "returned"
Live(e) == add[e].pc \in {"cursor", "trim", "commit"} /\ Usable(add[e].on) /\ add[e].on \in Store
Given(id) == id \in 1..file.last
Safe(s, id) == Given(id) \/ (writer = s /\ id \in 1..draft.last)
Alike(e, f) == add[e].id = add[f].id
IdsOk ==
  /\ \A e \in Entry : Returned(e) => Given(add[e].id)
  /\ \A e \in Entry : Live(e) => Safe(add[e].on, add[e].id)
  /\ \A e, f \in Entry :
       (Returned(e) \/ Live(e)) /\ (Returned(f) \/ Live(f)) /\ Alike(e, f) => e = f

\* A call is on a store that was opened.
BegunOk == \A e \in Entry : add[e].on \in Store => store[add[e].on].at # "new"

IInv == StateOk /\ FileOk /\ JobsOk /\ IdsOk /\ BegunOk

LEMMA IInvTypeOK ==
  ASSUME IInv PROVE TypeOK
BY DEF IInv, TypeOK, StateOk, FileOk, TableOk, Usable

\* What a step may do to the committed rows, and to the ids that were returned.
LogGrows == Grown(file, file')
ToldSame == \A e \in Entry :
  /\ add'[e].pc = "returned" <=> add[e].pc = "returned"
  /\ add[e].pc = "returned" => add'[e].id = add[e].id

-----------------------------------------------------------------------------
(* Steps of the file *)

SafeKept(s) == \A id \in Nat : Safe(s, id) => Safe(s, id)'
FileKept == FileOk' /\ LogGrows /\ file.last <= file'.last

LEMMA SeenOk ==
  ASSUME FileOk, NEW s \in Store
  PROVE  /\ TableOk(Seen(s)) /\ Grown(file, Seen(s)) /\ file.last <= Seen(s).last
         /\ Seen(s).last \in Nat /\ file.last \in Nat /\ draft.last \in Nat
<1>1. writer = s => writer # Nobody
  BY StoreAssumption
<1>2. Grown(file, file)
  BY GrownSelf DEF FileOk
<1> QED
  BY <1>1, <1>2 DEF FileOk, Seen, TableOk, Table, Grown

LEMMA FileUnchanged ==
  ASSUME FileOk, UNCHANGED <<file, draft, writer>>, writer # Nobody => Usable(writer)'
  PROVE  FileKept /\ \A s \in Store : SafeKept(s)
<1>1. Grown(file, file) /\ file.last <= file.last
  BY GrownSelf DEF FileOk, TableOk, Table
<1> QED
  BY <1>1 DEF FileOk, FileKept, LogGrows, SafeKept, Safe, Given

LEMMA FileChanges ==
  ASSUME FileOk, NEW s \in Store, NEW table, table \in {Trimmed(Seen(s)), Inserted(Seen(s))},
         Changes(s, table), Usable(s)'
  PROVE  /\ FileKept /\ UNCHANGED file /\ \A t \in Store : SafeKept(t)
         /\ writer' = s /\ draft' = table
<1>1. /\ draft' = table /\ writer' = s /\ file' = file /\ writer \in {s, Nobody} /\ s # Nobody
  BY StoreAssumption DEF Changes, MayWrite
<1>2. /\ TableOk(Seen(s)) /\ Grown(file, Seen(s)) /\ file.last <= Seen(s).last
      /\ Seen(s).last \in Nat /\ file.last \in Nat
  BY SeenOk
<1>3. TableOk(file)
  BY DEF FileOk
<1>4. TableOk(table) /\ Grown(file, table) /\ Seen(s).last <= table.last /\ table.last \in Nat
  <2>1. CASE table = Trimmed(Seen(s))
    BY <1>2, <1>3, <2>1, GrownTrimmed, TrimKeeps
  <2>2. CASE table = Inserted(Seen(s))
    BY <1>2, <1>3, <2>2, GrownInserted
  <2> QED
    BY <2>1, <2>2
<1>5. FileOk'
  BY <1>1, <1>3, <1>4 DEF FileOk
<1>6. LogGrows
  BY <1>1, <1>3, GrownSelf DEF LogGrows
<1>7. ASSUME NEW t \in Store, NEW id \in Nat, Safe(t, id) PROVE Safe(t, id)'
  <2>1. CASE Given(id)
    BY <1>1, <2>1 DEF Safe, Given
  <2>2. CASE writer = t /\ id \in 1..draft.last
    <3>1. t = s /\ Seen(s) = draft
      BY <1>1, <2>2, StoreAssumption DEF Seen
    <3> QED
      BY <1>1, <1>2, <1>4, <2>2, <3>1 DEF Safe
  <2> QED
    BY <1>7, <2>1, <2>2 DEF Safe
<1> QED
  BY <1>1, <1>2, <1>5, <1>6, <1>7 DEF FileKept, SafeKept

LEMMA FileCommits ==
  ASSUME FileOk, NEW s \in Store, Commits(s), writer \notin {s, Nobody} => Usable(writer)'
  PROVE  /\ FileKept /\ \A t \in Store : SafeKept(t)
         /\ \A id \in Nat : Safe(s, id) => Given(id)'
<1>1. /\ file' = Seen(s) /\ draft' = draft
      /\ writer' = (IF writer = s THEN Nobody ELSE writer) /\ s # Nobody
  BY StoreAssumption DEF Commits, LeavesLock
<1>2. /\ TableOk(Seen(s)) /\ Grown(file, Seen(s)) /\ file.last <= Seen(s).last
      /\ Seen(s).last \in Nat /\ file.last \in Nat
  BY SeenOk
<1>3. writer # s => file' = file
  BY <1>1 DEF Seen
<1>4. FileOk'
  BY <1>1, <1>2, <1>3 DEF FileOk
<1>5. LogGrows
  BY <1>1, <1>2 DEF LogGrows
<1>6. \A id : Given(id) => Given(id)'
  BY <1>1, <1>2 DEF Given
<1>7. writer = s => file' = draft
  BY <1>1 DEF Seen
<1>8. ASSUME NEW t \in Store, NEW id \in Nat, Safe(t, id)
      PROVE  Safe(t, id)' /\ (t = s => Given(id)')
  <2>1. CASE Given(id)
    BY <1>6, <2>1 DEF Safe
  <2>2. CASE writer = t /\ id \in 1..draft.last /\ t = s
    BY <1>7, <2>2 DEF Safe, Given
  <2>3. CASE writer = t /\ id \in 1..draft.last /\ t # s
    BY <1>1, <2>3 DEF Safe
  <2> QED
    BY <1>8, <2>1, <2>2, <2>3 DEF Safe
<1> QED
  BY <1>1, <1>2, <1>4, <1>5, <1>8 DEF FileKept, SafeKept

LEMMA FileRollsBack ==
  ASSUME FileOk, NEW s \in Store, RollsBack(s), writer \notin {s, Nobody} => Usable(writer)'
  PROVE  /\ FileKept /\ UNCHANGED file /\ \A t \in Store \ {s} : SafeKept(t)
<1>1. /\ draft' = (IF writer = s THEN file ELSE draft) /\ file' = file
      /\ writer' = (IF writer = s THEN Nobody ELSE writer) /\ s # Nobody
  BY StoreAssumption DEF RollsBack, LeavesLock
<1>2. FileOk'
  BY <1>1 DEF FileOk
<1>3. LogGrows /\ file.last <= file'.last
  BY <1>1, GrownSelf DEF LogGrows, FileOk, TableOk, Table
<1> QED
  BY <1>1, <1>2, <1>3 DEF FileKept, SafeKept, Safe, Given

-----------------------------------------------------------------------------
(* Steps of the calls and of the queues *)

LEMMA JobsKept ==
  ASSUME StateOk, JobsOk, NEW s \in Store, StoreJobsOk(s)',
         \A t \in Store \ {s} : store'[t] = store[t],
         \A f \in Entry : add'[f] = add[f] \/ add[f].on = s \/ add[f].pc = "new"
  PROVE  JobsOk'
<1> SUFFICES ASSUME NEW t \in Store, t # s PROVE StoreJobsOk(t)'
  BY DEF JobsOk
<1>1. StoreJobsOk(t) /\ store'[t] = store[t]
  BY DEF JobsOk
<1>2. ASSUME NEW j \in Queued(store[t].jobs) PROVE Fits(t, j)'
  <2>1. Fits(t, j)
    BY <1>1 DEF StoreJobsOk
  <2>2. j.of = Nobody \/ j.of \in Entry
    BY QueuedJob DEF StateOk, StoreState
  <2> QED
    BY <1>1, <2>1, <2>2 DEF Fits
<1> QED
  BY <1>1, <1>2 DEF StoreJobsOk

LEMMA HeadJob ==
  ASSUME StateOk, JobsOk, NEW s \in Store, store[s].jobs # <<>>
  PROVE  /\ Tail(store[s].jobs) \in Seq(Job) /\ Distinct(Tail(store[s].jobs))
         /\ Head(store[s].jobs) \in Job /\ Fits(s, Head(store[s].jobs))
         /\ \A j \in Queued(Tail(store[s].jobs)) :
              Fits(s, j) /\ j.of # Head(store[s].jobs).of
<1>1. store[s].jobs \in Seq(Job)
  BY DEF StateOk, StoreState
<1> QED
  BY <1>1, QueueTail DEF JobsOk, StoreJobsOk

LEMMA GoesOnKept ==
  ASSUME StateOk, JobsOk, NEW s \in Store, NEW e \in Entry,
         NEW kind, NEW later \in {"cursor", "trim", "commit"}, NEW inserts \in Nat, NEW id \in Nat,
         Does(s, kind, e), Awaited(s), GoesOn(s, e, later, inserts, id)
  PROVE  /\ StateOk' /\ JobsOk' /\ \A t \in Store : store'[t].at = store[t].at
         /\ add[e].on = s /\ add[e].pc = kind /\ \A f \in Entry \ {e} : add'[f] = add[f]
         /\ add'[e].pc = later /\ add'[e].on = s /\ add'[e].id = id
<1> DEFINE rest == Tail(store[s].jobs)
           job == NewJob(later, e)
<1>1. /\ rest \in Seq(Job) /\ Distinct(rest) /\ Fits(s, Head(store[s].jobs))
      /\ \A j \in Queued(rest) : Fits(s, j) /\ j.of # e
      /\ Head(store[s].jobs).of = e /\ Head(store[s].jobs).kind = kind
  BY HeadJob DEF Does
<1>2. job \in Job /\ job.of = e /\ job.kind = later /\ job.awaited /\ e # Nobody
  BY StoreAssumption DEF NewJob, Job
<1> HIDE DEF rest, job
<1>3. /\ Append(rest, job) \in Seq(Job) /\ Distinct(Append(rest, job))
      /\ \A j \in Queued(Append(rest, job)) : j \in Queued(rest) \/ j = job
  BY <1>1, <1>2, QueueAppend
<1>4. /\ store[s] \in StoreState /\ add[e] \in AddState
      /\ store' = [store EXCEPT ![s].inserts = inserts, ![s].jobs = Append(rest, job)]
      /\ add' = [add EXCEPT ![e].pc = later, ![e].id = id]
  BY DEF GoesOn, StateOk, rest, job
<1>5. StateOk'
  BY <1>3, <1>4 DEF StateOk, StoreState, AddState
<1>6. /\ \A t \in Store : store'[t].at = store[t].at
      /\ store'[s].jobs = Append(rest, job)
      /\ \A t \in Store \ {s} : store'[t] = store[t]
      /\ \A f \in Entry \ {e} : add'[f] = add[f]
  BY <1>4 DEF StateOk, StoreState
<1>7. add[e].on = s /\ add[e].pc = kind
  BY <1>1, <1>2 DEF Fits, Awaited
<1>8. add'[e].pc = later /\ add'[e].on = s /\ add'[e].id = id
  BY <1>4, <1>7 DEF StateOk, AddState
<1>9. StoreJobsOk(s)'
  <2>1. ASSUME NEW j \in Queued(rest) PROVE Fits(s, j)'
    <3>1. j.of = Nobody \/ j.of \in Entry \ {e}
      BY <1>1, QueuedJob
    <3> QED
      BY <1>1, <1>6, <3>1 DEF Fits
  <2>2. Fits(s, job)'
    BY <1>2, <1>8 DEF Fits
  <2> QED
    BY <1>3, <1>6, <2>1, <2>2 DEF StoreJobsOk
<1> QED
  BY <1>5, <1>6, <1>7, <1>8, <1>9, JobsKept

LEMMA EndsKept ==
  ASSUME StateOk, JobsOk, NEW s \in Store, NEW e \in Entry,
         NEW kind, NEW end \in {"returned", "failed", "cancelled"},
         Does(s, kind, e), Ends(s, e, end)
  PROVE  /\ StateOk' /\ JobsOk' /\ \A t \in Store : store'[t].at = store[t].at
         /\ \A f \in Entry \ {e} : add'[f] = add[f]
         /\ ~Awaited(s) => add' = add
         /\ Awaited(s) => /\ add[e].on = s /\ add[e].pc = kind
                          /\ add'[e].pc = end /\ add'[e].on = s
                          /\ end = "returned" => add'[e].id = add[e].id
<1> DEFINE rest == Tail(store[s].jobs)
<1>1. /\ rest \in Seq(Job) /\ Distinct(rest) /\ Fits(s, Head(store[s].jobs))
      /\ \A j \in Queued(rest) : Fits(s, j) /\ j.of # e
      /\ Head(store[s].jobs).of = e /\ Head(store[s].jobs).kind = kind /\ e # Nobody
  BY HeadJob, StoreAssumption DEF Does
<1> HIDE DEF rest
<1>2. add[e].on = s /\ (Awaited(s) => add[e].pc = kind)
  BY <1>1 DEF Fits, Awaited
<1>3. /\ store[s] \in StoreState /\ add[e] \in AddState
      /\ store' = [store EXCEPT ![s].jobs = rest]
      /\ add' = IF ~Awaited(s) THEN add
                ELSE [add EXCEPT ![e].pc = end, ![e].id = IF end = "returned" THEN @ ELSE 0]
  BY DEF Ends, StateOk, rest
<1>4. StateOk'
  BY <1>1, <1>3 DEF StateOk, StoreState, AddState
<1>5. /\ \A t \in Store : store'[t].at = store[t].at
      /\ store'[s].jobs = rest
      /\ \A t \in Store \ {s} : store'[t] = store[t]
      /\ \A f \in Entry \ {e} : add'[f] = add[f]
  BY <1>3 DEF StateOk, StoreState
<1>6. Awaited(s) => /\ add'[e].pc = end /\ add'[e].on = s
                    /\ end = "returned" => add'[e].id = add[e].id
  BY <1>2, <1>3 DEF StateOk, AddState
<1>7. StoreJobsOk(s)'
  <2>1. ASSUME NEW j \in Queued(rest) PROVE Fits(s, j)'
    <3>1. j.of = Nobody \/ j.of \in Entry \ {e}
      BY <1>1, QueuedJob
    <3> QED
      BY <1>1, <1>5, <3>1 DEF Fits
  <2> QED
    BY <1>1, <1>5, <2>1 DEF StoreJobsOk
<1>8. ~Awaited(s) => add' = add
  BY <1>3
<1>9. JobsOk'
  BY <1>2, <1>5, <1>7, JobsKept
<1>10. Awaited(s) => /\ add[e].on = s /\ add[e].pc = kind
                     /\ add'[e].pc = end /\ add'[e].on = s
                     /\ end = "returned" => add'[e].id = add[e].id
  BY <1>2, <1>6
<1> QED
  BY <1>4, <1>5, <1>8, <1>9, <1>10

\* A call about which a step changes nothing that its id depends on.
Stays(f) ==
  /\ Returned(f)' => Returned(f) /\ add'[f].id = add[f].id
  /\ Live(f)' => Live(f) /\ add'[f].id = add[f].id /\ add'[f].on = add[f].on /\ SafeKept(add[f].on)

LEMMA IdsKept ==
  ASSUME StateOk, IdsOk, FileOk, FileKept, NEW e \in Entry, \A f \in Entry \ {e} : Stays(f),
         Returned(e)' => Given(add[e].id)',
         Live(e)' => Safe(add[e].on, add[e].id)',
         (Returned(e) \/ Live(e))' =>
           \A f \in Entry \ {e} : Returned(f) \/ Live(f) => add[f].id # add'[e].id
  PROVE  IdsOk'
<1>1. \A id : Given(id) => Given(id)'
  BY DEF Given, FileKept, FileOk, TableOk, Table
<1>2. \A f \in Entry : Returned(f)' => Given(add[f].id)'
  BY <1>1 DEF Stays, IdsOk
<1>3. \A f \in Entry : Live(f)' => Safe(add[f].on, add[f].id)'
  <2> SUFFICES ASSUME NEW f \in Entry \ {e}, Live(f)' PROVE Safe(add[f].on, add[f].id)'
    OBVIOUS
  <2>1. /\ Live(f) /\ add'[f].id = add[f].id /\ add'[f].on = add[f].on
        /\ SafeKept(add[f].on) /\ add[f].id \in Nat
    BY DEF Stays, StateOk, AddState
  <2>2. Safe(add[f].on, add[f].id)
    BY <2>1 DEF IdsOk
  <2>3. Safe(add[f].on, add[f].id) => Safe(add[f].on, add[f].id)'
    BY <2>1 DEF SafeKept, Safe, Given
  <2> QED
    BY <2>2, <2>3
<1>4. ASSUME NEW f \in Entry, NEW g \in Entry, (Returned(f) \/ Live(f))', (Returned(g) \/ Live(g))',
             Alike(f, g)'
      PROVE  f = g
  <2>1. CASE f # e /\ g # e
    <3>1. /\ (Returned(f) \/ Live(f)) /\ add'[f].id = add[f].id
          /\ (Returned(g) \/ Live(g)) /\ add'[g].id = add[g].id
      BY <1>4, <2>1 DEF Stays
    <3> QED
      BY <1>4, <3>1 DEF IdsOk, Alike
  <2>2. CASE f = e /\ g # e
    BY <1>4, <2>2 DEF Stays, Alike
  <2>3. CASE f # e /\ g = e
    BY <1>4, <2>3 DEF Stays, Alike
  <2> QED
    BY <2>1, <2>2, <2>3
<1> QED
  BY <1>2, <1>3, <1>4 DEF IdsOk

LEMMA IdsFrame ==
  ASSUME StateOk, IdsOk, FileOk, FileKept, \A f \in Entry : Stays(f)
  PROVE  IdsOk'
<1>1. CASE Entry = {}
  BY <1>1 DEF IdsOk
<1>2. CASE Entry # {}
  <2>1. PICK e \in Entry : TRUE
    BY <1>2
  <2>2. Returned(e)' => Given(add[e].id)'
    <3>1. \A id : Given(id) => Given(id)'
      BY DEF Given, FileKept, FileOk, TableOk, Table
    <3> QED
      BY <3>1 DEF Stays, IdsOk
  <2>3. Live(e)' => Safe(add[e].on, add[e].id)'
    <3>1. add[e].id \in Nat
      BY DEF StateOk, AddState
    <3> QED
      BY <3>1 DEF Stays, IdsOk, SafeKept, Safe, Given
  <2>4. (Returned(e) \/ Live(e))' =>
           \A f \in Entry \ {e} : Returned(f) \/ Live(f) => add[f].id # add'[e].id
    BY DEF Stays, IdsOk, Alike
  <2> QED
    BY <2>2, <2>3, <2>4, IdsKept
<1> QED
  BY <1>1, <1>2

LEMMA ClosingKept ==
  ASSUME StateOk, JobsOk, NEW s \in Store, NEW kind, NEW later \in {"commit", "close"},
         Does(s, kind, Nobody), ClosingJob(s, later)
  PROVE  /\ StateOk' /\ JobsOk' /\ \A t \in Store : store'[t].at = store[t].at
         /\ add' = add /\ store[s].at = "closing"
<1> DEFINE rest == Tail(store[s].jobs)
           job == NewJob(later, Nobody)
<1>1. /\ rest \in Seq(Job) /\ Distinct(rest) /\ Fits(s, Head(store[s].jobs))
      /\ \A j \in Queued(rest) : Fits(s, j) /\ j.of # Nobody
      /\ Head(store[s].jobs).of = Nobody
  BY HeadJob DEF Does
<1>2. job \in Job /\ job.of = Nobody
  BY DEF NewJob, Job
<1> HIDE DEF rest, job
<1>3. /\ Append(rest, job) \in Seq(Job) /\ Distinct(Append(rest, job))
      /\ \A j \in Queued(Append(rest, job)) : j \in Queued(rest) \/ j = job
  BY <1>1, <1>2, QueueAppend
<1>4. /\ store[s] \in StoreState /\ add' = add
      /\ store' = [store EXCEPT ![s].jobs = Append(rest, job)]
  BY DEF ClosingJob, StateOk, rest, job
<1>5. StateOk'
  BY <1>3, <1>4 DEF StateOk, StoreState
<1>6. /\ \A t \in Store : store'[t].at = store[t].at
      /\ store'[s].jobs = Append(rest, job)
      /\ \A t \in Store \ {s} : store'[t] = store[t]
  BY <1>4 DEF StateOk, StoreState
<1>7. store[s].at = "closing"
  BY <1>1 DEF Fits
<1>8. StoreJobsOk(s)'
  <2>1. ASSUME NEW j \in Queued(rest) PROVE Fits(s, j)'
    BY <1>1, <1>4, <2>1 DEF Fits
  <2>2. Fits(s, job)'
    BY <1>2, <1>6, <1>7 DEF Fits
  <2> QED
    BY <1>3, <1>6, <2>1, <2>2 DEF StoreJobsOk
<1>9. JobsOk'
  BY <1>4, <1>6, <1>8, JobsKept
<1> QED
  BY <1>4, <1>5, <1>6, <1>7, <1>9

-----------------------------------------------------------------------------
(* The actions *)

Outcome == IInv' /\ LogGrows /\ ToldSame

LEMMA OpenKept ==
  ASSUME IInv, NEW s \in Store, Open(s) PROVE Outcome
<1>1. /\ StateOk /\ FileOk /\ JobsOk /\ IdsOk /\ BegunOk
      /\ store[s].at = "new" /\ writer = Nobody /\ writer' = writer /\ add' = add
      /\ file' = Trimmed(file) /\ draft' = file' /\ store' = [store EXCEPT ![s].at = "open"]
  BY DEF IInv, Open
<1>2. /\ StateOk' /\ store'[s].at = "open" /\ store'[s].jobs = store[s].jobs
      /\ \A t \in Store \ {s} : store'[t] = store[t]
  BY <1>1 DEF StateOk, StoreState
<1>3. TableOk(file) /\ Grown(file, file) /\ file.last \in Nat
  BY <1>1, GrownSelf DEF FileOk, TableOk, Table
<1>4. TableOk(file') /\ Grown(file, file') /\ file'.last = file.last
  BY <1>1, <1>3, GrownTrimmed, TrimKeeps
<1>5. FileKept
  BY <1>1, <1>3, <1>4 DEF FileKept, FileOk, LogGrows
<1>6. JobsOk'
  <2>1. \A j \in Queued(store[s].jobs) : Fits(s, j)'
    BY <1>1, <1>2 DEF JobsOk, StoreJobsOk, Fits
  <2>2. StoreJobsOk(s)'
    BY <1>1, <1>2, <2>1 DEF JobsOk, StoreJobsOk
  <2> QED
    BY <1>1, <1>2, <2>2, JobsKept
<1>7. \A t \in Store : SafeKept(t)
  BY <1>1, <1>4, StoreAssumption DEF SafeKept, Safe, Given
<1>8. \A f \in Entry : Stays(f)
  BY <1>1, <1>2, <1>7 DEF Stays, Returned, Live, Usable, BegunOk
<1>9. IdsOk'
  BY <1>1, <1>5, <1>8, IdsFrame
<1>10. BegunOk'
  BY <1>1, <1>2 DEF BegunOk
<1> QED
  BY <1>1, <1>2, <1>5, <1>6, <1>9, <1>10 DEF Outcome, IInv, FileKept, ToldSame

LEMMA OpenBusyKept ==
  ASSUME IInv, NEW s \in Store, OpenBusy(s) PROVE Outcome
<1>1. /\ StateOk /\ FileOk /\ JobsOk /\ IdsOk /\ BegunOk
      /\ store[s].at = "new" /\ UNCHANGED <<file, draft, writer>> /\ add' = add
      /\ store' = [store EXCEPT ![s].at = "refused"]
  BY DEF IInv, OpenBusy
<1>2. /\ StateOk' /\ store'[s].at = "refused" /\ store'[s].jobs = store[s].jobs
      /\ \A t \in Store \ {s} : store'[t] = store[t]
  BY <1>1 DEF StateOk, StoreState
<1>3. writer # Nobody => Usable(writer)'
  BY <1>1, <1>2 DEF FileOk, Usable
<1>4. FileKept /\ \A t \in Store : SafeKept(t)
  BY <1>1, <1>3, FileUnchanged
<1>5. JobsOk'
  <2>1. \A j \in Queued(store[s].jobs) : Fits(s, j)'
    BY <1>1, <1>2 DEF JobsOk, StoreJobsOk, Fits
  <2>2. StoreJobsOk(s)'
    BY <1>1, <1>2, <2>1 DEF JobsOk, StoreJobsOk
  <2> QED
    BY <1>1, <1>2, <2>2, JobsKept
<1>6. \A f \in Entry : Stays(f)
  BY <1>1, <1>2, <1>4 DEF Stays, Returned, Live, Usable
<1>7. IdsOk'
  BY <1>1, <1>4, <1>6, IdsFrame
<1>8. BegunOk'
  BY <1>1, <1>2 DEF BegunOk
<1> QED
  BY <1>1, <1>2, <1>4, <1>5, <1>7, <1>8 DEF Outcome, IInv, FileKept, ToldSame

LEMMA AddKept ==
  ASSUME IInv, NEW s \in Store, NEW e \in Entry, Add(s, e) PROVE Outcome
<1> DEFINE job == NewJob("insert", e)
<1>1. /\ StateOk /\ FileOk /\ JobsOk /\ IdsOk /\ BegunOk
      /\ add[e].pc = "new" /\ Usable(s) /\ UNCHANGED <<file, draft, writer>>
      /\ add' = [add EXCEPT ![e].pc = "insert", ![e].on = s]
      /\ store' = [store EXCEPT ![s].jobs = Append(store[s].jobs, job)]
  BY DEF IInv, Add, StateOk
<1>2. job \in Job /\ job.of = e /\ job.kind = "insert" /\ job.awaited /\ e # Nobody
  BY StoreAssumption DEF NewJob, Job
<1> HIDE DEF job
<1>3. store[s].jobs \in Seq(Job) /\ store[s] \in StoreState /\ add[e] \in AddState
  BY <1>1 DEF StateOk, StoreState
<1>4. Distinct(store[s].jobs) /\ \A j \in Queued(store[s].jobs) : Fits(s, j) /\ j.of # e
  BY <1>1, <1>2 DEF JobsOk, StoreJobsOk, Fits
<1>5. /\ Append(store[s].jobs, job) \in Seq(Job) /\ Distinct(Append(store[s].jobs, job))
      /\ \A j \in Queued(Append(store[s].jobs, job)) : j \in Queued(store[s].jobs) \/ j = job
  BY <1>2, <1>3, <1>4, QueueAppend
<1>6. /\ StateOk' /\ store'[s].jobs = Append(store[s].jobs, job)
      /\ \A t \in Store : store'[t].at = store[t].at
      /\ \A t \in Store \ {s} : store'[t] = store[t]
      /\ \A f \in Entry \ {e} : add'[f] = add[f]
      /\ add'[e].pc = "insert" /\ add'[e].on = s
  BY <1>1, <1>3, <1>5 DEF StateOk, StoreState, AddState
<1>7. JobsOk'
  <2>1. ASSUME NEW j \in Queued(store[s].jobs) PROVE Fits(s, j)'
    <3>1. j.of = Nobody \/ j.of \in Entry \ {e}
      BY <1>3, <1>4, QueuedJob
    <3> QED
      BY <1>4, <1>6, <3>1 DEF Fits
  <2>2. Fits(s, job)'
    BY <1>2, <1>6 DEF Fits
  <2>3. StoreJobsOk(s)'
    BY <1>5, <1>6, <2>1, <2>2 DEF StoreJobsOk
  <2> QED
    BY <1>1, <1>6, <2>3, JobsKept
<1>8. writer # Nobody => Usable(writer)'
  BY <1>1, <1>6 DEF FileOk, Usable
<1>9. FileKept /\ \A t \in Store : SafeKept(t)
  BY <1>1, <1>8, FileUnchanged
<1>10. \A f \in Entry : Stays(f)
  BY <1>1, <1>6, <1>9 DEF Stays, Returned, Live, Usable
<1>11. IdsOk'
  BY <1>1, <1>9, <1>10, IdsFrame
<1>12. BegunOk'
  <2>1. store'[s].at # "new"
    BY <1>1, <1>6 DEF Usable
  <2>2. ASSUME NEW f \in Entry, add'[f].on \in Store PROVE store'[add'[f].on].at # "new"
    <3>1. CASE f = e
      BY <1>6, <2>1, <3>1
    <3>2. CASE f # e
      <4>1. add'[f] = add[f] /\ add[f].on \in Store
        BY <1>6, <2>2, <3>2
      <4> QED
        BY <1>1, <1>6, <4>1 DEF BegunOk
    <3> QED
      BY <3>1, <3>2
  <2> QED
    BY <2>2 DEF BegunOk
<1>13. ToldSame
  BY <1>1, <1>6 DEF ToldSame
<1> QED
  BY <1>6, <1>7, <1>9, <1>11, <1>12, <1>13 DEF Outcome, IInv, FileKept

\* Call f goes on with the id that it has, or does not return.
Passes(f) ==
  /\ add'[f].on = add[f].on /\ add[f].pc # "returned" /\ add'[f].pc # "returned"
  /\ add'[f].pc \in {"cursor", "trim", "commit"} =>
       add[f].pc \in {"cursor", "trim", "commit"} /\ add'[f].id = add[f].id

LEMMA CallsKept ==
  ASSUME IInv, StateOk', JobsOk', FileKept,
         \A t \in Store : Usable(t)' => Usable(t) /\ SafeKept(t),
         \A t \in Store : store[t].at # "new" => store'[t].at # "new",
         \A f \in Entry : add'[f] = add[f] \/ Passes(f)
  PROVE  Outcome
<1>1. StateOk /\ FileOk /\ IdsOk /\ BegunOk
  BY DEF IInv
<1>2. ASSUME NEW f \in Entry PROVE Stays(f) /\ add'[f].on = add[f].on
  <2>1. CASE add'[f] = add[f]
    BY <2>1 DEF Stays, Returned, Live, Usable
  <2>2. CASE Passes(f)
    BY <2>2 DEF Stays, Returned, Live, Usable, Passes
  <2> QED
    BY <2>1, <2>2
<1>3. IdsOk'
  BY <1>1, <1>2, IdsFrame
<1>4. BegunOk'
  BY <1>1, <1>2 DEF BegunOk
<1>5. ToldSame
  BY DEF ToldSame, Passes
<1> QED
  BY <1>3, <1>4, <1>5 DEF Outcome, IInv, FileKept

LEMMA InsertKept ==
  ASSUME IInv, NEW s \in Store, NEW e \in Entry, Insert(s, e) PROVE Outcome
<1> DEFINE table == Inserted(Seen(s))
<1>1. /\ StateOk /\ FileOk /\ JobsOk /\ IdsOk /\ BegunOk
      /\ Does(s, "insert", e) /\ Usable(s) /\ Changes(s, table)
  BY DEF IInv, Insert
<1>2. /\ Seen(s).last \in Nat /\ table.last = Seen(s).last + 1 /\ file.last <= Seen(s).last
      /\ file.last \in Nat
  BY <1>1, SeenOk DEF Inserted
<1>3. writer = s => Seen(s) = draft
  BY DEF Seen
<1>4. writer \in {s, Nobody} /\ s # Nobody
  BY <1>1, StoreAssumption DEF Changes, MayWrite
<1> HIDE DEF table
<1>5. CASE Awaited(s) /\ GoesOn(s, e, "cursor", store[s].inserts, table.last)
  <2>1. store[s].inserts \in Nat /\ table.last \in Nat
    BY <1>1, <1>2 DEF StateOk, StoreState
  <2> PICK id \in Nat : id = table.last
    BY <2>1
  <2>2. /\ StateOk' /\ JobsOk' /\ \A t \in Store : store'[t].at = store[t].at
        /\ add[e].on = s /\ add[e].pc = "insert" /\ \A f \in Entry \ {e} : add'[f] = add[f]
        /\ add'[e].pc = "cursor" /\ add'[e].on = s /\ add'[e].id = table.last
    BY <1>1, <1>5, <2>1, GoesOnKept
  <2>3. /\ FileKept /\ UNCHANGED file /\ \A t \in Store : SafeKept(t)
        /\ writer' = s /\ draft' = table
    BY <1>1, <2>2, FileChanges DEF Usable, table
  <2>4. \A f \in Entry \ {e} : Stays(f)
    BY <2>2, <2>3 DEF Stays, Returned, Live, Usable
  <2>5. Safe(s, id)'
    BY <1>2, <2>1, <2>3 DEF Safe
  <2>6. ASSUME NEW f \in Entry \ {e}, Returned(f) \/ Live(f) PROVE add[f].id # table.last
    <3>1. CASE Returned(f)
      BY <1>1, <1>2, <3>1 DEF IdsOk, Given
    <3>2. CASE Live(f)
      <4>1. Safe(add[f].on, add[f].id) /\ add[f].on \in Store
        BY <1>1, <3>2 DEF IdsOk, Live
      <4>2. CASE Given(add[f].id)
        BY <1>2, <4>2 DEF Given
      <4>3. CASE writer = add[f].on /\ add[f].id \in 1..draft.last
        <5>1. Seen(s) = draft
          BY <1>3, <1>4, <4>1, <4>3, StoreAssumption
        <5> QED
          BY <1>2, <4>3, <5>1
      <4> QED
        BY <4>1, <4>2, <4>3 DEF Safe
    <3> QED
      BY <2>6, <3>1, <3>2
  <2>7. IdsOk'
    <3>1. ~Returned(e)' /\ Safe(add[e].on, add[e].id)'
      BY <2>2, <2>5 DEF Returned, Safe, Given
    <3> QED
      BY <1>1, <2>2, <2>3, <2>4, <2>6, <3>1, IdsKept
  <2>8. BegunOk' /\ ToldSame
    BY <1>1, <2>2 DEF BegunOk, ToldSame
  <2> QED
    BY <2>2, <2>3, <2>7, <2>8 DEF Outcome, IInv, FileKept
<1>6. CASE ~Awaited(s) /\ Ends(s, e, "cancelled")
  <2>1. /\ StateOk' /\ JobsOk' /\ \A t \in Store : store'[t].at = store[t].at /\ add' = add
    BY <1>1, <1>6, EndsKept
  <2>2. FileKept /\ \A t \in Store : SafeKept(t)
    BY <1>1, <2>1, FileChanges DEF Usable, table
  <2> QED
    BY <2>1, <2>2, CallsKept DEF Usable
<1> QED
  BY <1>5, <1>6 DEF Insert, table

\* A job of a call ends in the file as it is or as the call changed it.
LEMMA GoneOnKept ==
  ASSUME IInv, NEW s \in Store, NEW e \in Entry, NEW kind \in {"cursor", "trim"},
         NEW later \in {"trim", "commit"}, NEW inserts \in Nat,
         Does(s, kind, e), Awaited(s), GoesOn(s, e, later, inserts, add[e].id),
         (\A t \in Store : store'[t].at = store[t].at) => FileKept /\ \A t \in Store : SafeKept(t)
  PROVE  Outcome
<1>1. StateOk /\ JobsOk
  BY DEF IInv
<1>2. PICK id \in Nat : id = add[e].id
  BY <1>1 DEF StateOk, AddState
<1>3. /\ StateOk' /\ JobsOk' /\ \A t \in Store : store'[t].at = store[t].at
      /\ add[e].on = s /\ add[e].pc = kind /\ \A f \in Entry \ {e} : add'[f] = add[f]
      /\ add'[e].pc = later /\ add'[e].on = s /\ add'[e].id = id
  BY <1>1, <1>2, GoesOnKept
<1>4. Passes(e)
  BY <1>2, <1>3 DEF Passes
<1> QED
  BY <1>3, <1>4, CallsKept DEF Usable

LEMMA EndedKept ==
  ASSUME IInv, NEW s \in Store, NEW e \in Entry, NEW kind, NEW end \in {"failed", "cancelled"},
         kind \in {"insert", "cursor", "trim", "commit", "close"},
         Does(s, kind, e), Ends(s, e, end),
         (\A t \in Store : store'[t].at = store[t].at) => FileKept /\ \A t \in Store : SafeKept(t)
  PROVE  Outcome
<1>1. StateOk /\ JobsOk
  BY DEF IInv
<1>2. /\ StateOk' /\ JobsOk' /\ \A t \in Store : store'[t].at = store[t].at
      /\ \A f \in Entry \ {e} : add'[f] = add[f]
      /\ ~Awaited(s) => add' = add
  BY <1>1, EndsKept
<1>3. add'[e] = add[e] \/ Passes(e)
  <2>1. CASE ~Awaited(s)
    BY <1>2, <2>1
  <2>2. CASE Awaited(s)
    <3>1. add[e].on = s /\ add[e].pc = kind /\ add'[e].pc = end /\ add'[e].on = s
      BY <1>1, <2>2, EndsKept
    <3> QED
      BY <3>1 DEF Passes
  <2> QED
    BY <2>1, <2>2
<1> QED
  BY <1>2, <1>3, CallsKept DEF Usable

LEMMA SameFile ==
  ASSUME IInv, UNCHANGED <<file, draft, writer>>, \A t \in Store : store'[t].at = store[t].at
  PROVE  FileKept /\ \A t \in Store : SafeKept(t)
<1>1. writer # Nobody => Usable(writer)'
  BY DEF IInv, FileOk, Usable
<1> QED
  BY <1>1, FileUnchanged DEF IInv

LEMMA CountKept ==
  ASSUME IInv, NEW s \in Store, NEW e \in Entry, Count(s, e) PROVE Outcome
<1>1. store[s].inserts \in Nat
  BY DEF IInv, StateOk, StoreState
<1> DEFINE n == store[s].inserts + 1
<1>2. n \in Nat /\ Does(s, "cursor", e) /\ UNCHANGED <<file, draft, writer>>
  BY <1>1 DEF Count
<1> HIDE DEF n
<1>3. CASE Awaited(s) /\ GoesOn(s, e, IF Trims(n) THEN "trim" ELSE "commit", n, add[e].id)
  BY <1>2, <1>3, GoneOnKept, SameFile
<1>4. CASE ~Awaited(s) /\ Ends(s, e, "cancelled")
  BY <1>2, <1>4, EndedKept, SameFile
<1> QED
  BY <1>3, <1>4 DEF Count, n

LEMMA TrimKept ==
  ASSUME IInv, NEW s \in Store, NEW e \in Entry, Trim(s, e) PROVE Outcome
<1>1. Does(s, "trim", e) /\ Usable(s) /\ Changes(s, Trimmed(Seen(s))) /\ FileOk
  BY DEF IInv, Trim
<1>2. (\A t \in Store : store'[t].at = store[t].at) => FileKept /\ \A t \in Store : SafeKept(t)
  BY <1>1, FileChanges DEF Usable
<1>3. CASE Awaited(s) /\ GoesOn(s, e, "commit", 0, add[e].id)
  BY <1>1, <1>2, <1>3, GoneOnKept
<1>4. CASE ~Awaited(s) /\ Ends(s, e, "cancelled")
  BY <1>1, <1>2, <1>4, EndedKept
<1> QED
  BY <1>3, <1>4 DEF Trim

LEMMA JobFailsKept ==
  ASSUME IInv, NEW s \in Store, NEW e \in Entry, JobFails(s, e) PROVE Outcome
<1>1. store[s].jobs # <<>> /\ Head(store[s].jobs).of = e
  BY DEF JobFails, Does
<1>2. PICK kind : kind = Head(store[s].jobs).kind
  OBVIOUS
<1>3. Does(s, kind, e) /\ kind \in {"insert", "cursor", "trim", "commit", "close"}
  BY <1>1, <1>2, HeadJob DEF Does, IInv, Job
<1> QED
  BY <1>3, EndedKept, SameFile DEF JobFails

\* The id of a call that returns is one of the file, and nobody else's.
Tells(e) ==
  /\ add[e].pc # "returned" /\ add'[e].pc = "returned" /\ add'[e].id = add[e].id
  /\ Given(add[e].id)'
  /\ \A f \in Entry \ {e} : add'[f] = add[f] /\ (Returned(f) => add[f].id # add[e].id)

LEMMA CommitKept ==
  ASSUME IInv, NEW s \in Store, NEW e \in Entry, Commit(s, e)
  PROVE  IInv' /\ LogGrows /\ (ToldSame \/ Tells(e))
<1>1. /\ StateOk /\ FileOk /\ JobsOk /\ IdsOk /\ BegunOk
      /\ Does(s, "commit", e) /\ Usable(s) /\ Commits(s) /\ Ends(s, e, "returned")
  BY DEF IInv, Commit
<1>2. /\ StateOk' /\ JobsOk' /\ \A t \in Store : store'[t].at = store[t].at
      /\ \A f \in Entry \ {e} : add'[f] = add[f]
      /\ ~Awaited(s) => add' = add
  BY <1>1, EndsKept
<1>3. writer \notin {s, Nobody} => Usable(writer)'
  BY <1>1, <1>2 DEF FileOk, Usable, Commits, LeavesLock
<1>4. /\ FileKept /\ \A t \in Store : SafeKept(t)
      /\ \A id \in Nat : Safe(s, id) => Given(id)'
  BY <1>1, <1>3, FileCommits
<1>5. CASE ~Awaited(s)
  BY <1>2, <1>4, <1>5, CallsKept DEF Usable, Outcome
<1>6. CASE Awaited(s)
  <2> /\ add[e].on = s /\ add[e].pc = "commit" /\ add'[e].pc = "returned" /\ add'[e].on = s
      /\ add'[e].id = add[e].id
    BY <1>1, <1>6, EndsKept
  <2>1. Live(e) /\ add[e].id \in Nat
    BY <1>1 DEF Live, StateOk, AddState
  <2>2. Safe(s, add[e].id)
    BY <1>1, <2>1 DEF IdsOk
  <2>3. PICK id \in Nat : id = add[e].id
    BY <2>1
  <2>4. Given(id)'
    BY <1>4, <2>2, <2>3
  <2>5. Given(add[e].id)'
    BY <1>2, <1>6, <2>3, <2>4 DEF Given
  <2>6. \A f \in Entry \ {e} : Returned(f) \/ Live(f) => add[f].id # add[e].id
    BY <1>1, <2>1 DEF IdsOk, Alike
  <2>7. \A f \in Entry \ {e} : Stays(f)
    BY <1>2, <1>4 DEF Stays, Returned, Live, Usable
  <2>8. ~Live(e)'
    BY <1>2, <1>6 DEF Live
  <2>9. IdsOk'
    BY <1>1, <1>2, <1>4, <1>6, <2>5, <2>6, <2>7, <2>8, IdsKept
  <2>10. BegunOk'
    BY <1>1, <1>2, <1>6 DEF BegunOk
  <2>11. Tells(e)
    BY <1>2, <1>6, <2>5, <2>6 DEF Tells
  <2> QED
    BY <1>2, <1>4, <2>9, <2>10, <2>11 DEF IInv, FileKept
<1> QED
  BY <1>5, <1>6

LEMMA CancelAddKept ==
  ASSUME IInv, NEW s \in Store, NEW e \in Entry, CancelAdd(s, e) PROVE Outcome
<1> DEFINE jobs == Forsaken(store[s].jobs, e)
<1>1. /\ StateOk /\ JobsOk /\ UnderWay(e) /\ add[e].on = s /\ UNCHANGED <<file, draft, writer>>
      /\ add' = [add EXCEPT ![e].pc = "cancelled", ![e].id = 0]
      /\ store' = [store EXCEPT ![s].jobs = jobs]
  BY DEF IInv, CancelAdd, Forsaken, StateOk
<1>2. store[s].jobs \in Seq(Job) /\ store[s] \in StoreState /\ add[e] \in AddState /\ e # Nobody
  BY <1>1, StoreAssumption DEF StateOk, StoreState
<1>3. /\ jobs \in Seq(Job) /\ Distinct(jobs)
      /\ \A j \in Queued(jobs) : IF j.of = e THEN ~j.awaited ELSE j \in Queued(store[s].jobs)
  BY <1>1, <1>2, QueueForsaken DEF JobsOk, StoreJobsOk
<1> HIDE DEF jobs
<1>4. /\ StateOk' /\ \A t \in Store : store'[t].at = store[t].at
      /\ store'[s].jobs = jobs /\ \A t \in Store \ {s} : store'[t] = store[t]
      /\ \A f \in Entry \ {e} : add'[f] = add[f]
      /\ add'[e].pc = "cancelled" /\ add'[e].on = s
  BY <1>1, <1>2, <1>3 DEF StateOk, StoreState, AddState
<1>5. ASSUME NEW j \in Queued(jobs) PROVE Fits(s, j)'
  <2>1. CASE j.of = e
    BY <1>2, <1>3, <1>4, <2>1 DEF Fits
  <2>2. CASE j.of # e
    <3>1. Fits(s, j) /\ (j.of = Nobody \/ j.of \in Entry \ {e})
      BY <1>1, <1>2, <1>3, <2>2, QueuedJob DEF JobsOk, StoreJobsOk
    <3> QED
      BY <1>4, <3>1 DEF Fits
  <2> QED
    BY <2>1, <2>2
<1>6. StoreJobsOk(s)'
  BY <1>3, <1>4, <1>5 DEF StoreJobsOk
<1>7. JobsOk'
  BY <1>1, <1>4, <1>6, JobsKept
<1>8. Passes(e)
  BY <1>1, <1>4 DEF Passes, UnderWay
<1>9. FileKept /\ \A t \in Store : SafeKept(t)
  BY <1>1, <1>4, SameFile
<1> QED
  BY <1>4, <1>7, <1>8, <1>9, CallsKept DEF Usable

LEMMA CloseKept ==
  ASSUME IInv, NEW s \in Store, Close(s) PROVE Outcome
<1> PICK kind \in {"trim", "close"} : kind = IF store[s].inserts > 0 THEN "trim" ELSE "close"
  OBVIOUS
<1> DEFINE job == NewJob(kind, Nobody)
<1>1. /\ StateOk /\ FileOk /\ JobsOk /\ store[s].at = "open"
      /\ UNCHANGED <<file, draft, writer, add>>
      /\ store' = [store EXCEPT ![s].at = "closing", ![s].jobs = Append(store[s].jobs, job)]
  BY DEF IInv, Close, StateOk
<1>2. job \in Job /\ job.of = Nobody
  BY DEF NewJob, Job
<1> HIDE DEF job
<1>3. store[s].jobs \in Seq(Job) /\ store[s] \in StoreState
  BY <1>1 DEF StateOk, StoreState
<1>4. Distinct(store[s].jobs) /\ \A j \in Queued(store[s].jobs) : Fits(s, j) /\ j.of # Nobody
  BY <1>1 DEF JobsOk, StoreJobsOk, Fits
<1>5. /\ Append(store[s].jobs, job) \in Seq(Job) /\ Distinct(Append(store[s].jobs, job))
      /\ \A j \in Queued(Append(store[s].jobs, job)) : j \in Queued(store[s].jobs) \/ j = job
  BY <1>2, <1>3, <1>4, QueueAppend
<1>6. /\ StateOk' /\ store'[s].jobs = Append(store[s].jobs, job) /\ store'[s].at = "closing"
      /\ \A t \in Store \ {s} : store'[t] = store[t]
  BY <1>1, <1>3, <1>5 DEF StateOk, StoreState
<1>7. StoreJobsOk(s)'
  <2>1. ASSUME NEW j \in Queued(store[s].jobs) PROVE Fits(s, j)'
    BY <1>1, <1>4, <2>1 DEF Fits
  <2>2. Fits(s, job)'
    BY <1>2, <1>6 DEF Fits
  <2> QED
    BY <1>5, <1>6, <2>1, <2>2 DEF StoreJobsOk
<1>8. JobsOk'
  BY <1>1, <1>6, <1>7, JobsKept
<1>9. writer # Nobody => Usable(writer)'
  BY <1>1, <1>6 DEF FileOk, Usable
<1>10. FileKept /\ \A t \in Store : SafeKept(t)
  BY <1>1, <1>9, FileUnchanged
<1>11. \A t \in Store : (Usable(t)' => Usable(t)) /\ (store[t].at # "new" => store'[t].at # "new")
  BY <1>1, <1>6 DEF Usable
<1> QED
  BY <1>1, <1>6, <1>8, <1>10, <1>11, CallsKept

LEMMA CloseTrimsKept ==
  ASSUME IInv, NEW s \in Store, CloseTrims(s) PROVE Outcome
<1>1. StateOk /\ FileOk /\ JobsOk /\ Does(s, "trim", Nobody)
  BY DEF IInv, CloseTrims
<1>2. CASE Changes(s, Trimmed(Seen(s))) /\ ClosingJob(s, "commit")
  <2>1. /\ StateOk' /\ JobsOk' /\ \A t \in Store : store'[t].at = store[t].at
        /\ add' = add /\ store[s].at = "closing"
    BY <1>1, <1>2, ClosingKept
  <2>2. FileKept /\ \A t \in Store : SafeKept(t)
    BY <1>1, <1>2, <2>1, FileChanges DEF Usable
  <2> QED
    BY <2>1, <2>2, CallsKept DEF Usable
<1>3. CASE ClosingJob(s, "close") /\ UNCHANGED <<file, draft, writer>>
  <2>1. /\ StateOk' /\ JobsOk' /\ \A t \in Store : store'[t].at = store[t].at /\ add' = add
    BY <1>1, <1>3, ClosingKept
  <2> QED
    BY <1>3, <2>1, SameFile, CallsKept DEF Usable
<1> QED
  BY <1>2, <1>3 DEF CloseTrims

LEMMA CloseCommitsKept ==
  ASSUME IInv, NEW s \in Store, CloseCommits(s) PROVE Outcome
<1>1. /\ StateOk /\ FileOk /\ JobsOk /\ Does(s, "commit", Nobody) /\ Commits(s)
      /\ ClosingJob(s, "close")
  BY DEF IInv, CloseCommits
<1>2. /\ StateOk' /\ JobsOk' /\ \A t \in Store : store'[t].at = store[t].at /\ add' = add
  BY <1>1, ClosingKept
<1>3. writer \notin {s, Nobody} => Usable(writer)'
  BY <1>1, <1>2 DEF FileOk, Usable, Commits, LeavesLock
<1>4. FileKept /\ \A t \in Store : SafeKept(t)
  BY <1>1, <1>3, FileCommits
<1> QED
  BY <1>2, <1>4, CallsKept DEF Usable

LEMMA CloseConnectionKept ==
  ASSUME IInv, NEW s \in Store, CloseConnection(s) PROVE Outcome
<1> DEFINE rest == Tail(store[s].jobs)
<1>1. /\ StateOk /\ FileOk /\ JobsOk /\ Does(s, "close", Nobody) /\ RollsBack(s) /\ add' = add
      /\ store' = [store EXCEPT ![s].at = "closed", ![s].inserts = 0, ![s].jobs = rest]
  BY DEF IInv, CloseConnection, StateOk
<1>2. /\ rest \in Seq(Job) /\ Distinct(rest) /\ Fits(s, Head(store[s].jobs))
      /\ \A j \in Queued(rest) : Fits(s, j) /\ j.of # Nobody
      /\ Head(store[s].jobs).of = Nobody
  BY <1>1, HeadJob DEF Does
<1> HIDE DEF rest
<1>3. /\ StateOk' /\ store'[s].jobs = rest /\ store'[s].at = "closed"
      /\ \A t \in Store \ {s} : store'[t] = store[t]
  BY <1>1, <1>2 DEF StateOk, StoreState
<1>4. StoreJobsOk(s)'
  BY <1>1, <1>2, <1>3 DEF StoreJobsOk, Fits
<1>5. JobsOk'
  BY <1>1, <1>3, <1>4, JobsKept
<1>6. writer \notin {s, Nobody} => Usable(writer)'
  BY <1>1, <1>3 DEF FileOk, Usable, RollsBack, LeavesLock
<1>7. FileKept /\ \A t \in Store \ {s} : SafeKept(t)
  BY <1>1, <1>6, FileRollsBack
<1>8. \A t \in Store : Usable(t)' => t # s /\ Usable(t)
  BY <1>3 DEF Usable
<1>9. \A t \in Store : store[t].at # "new" => store'[t].at # "new"
  BY <1>3
<1> QED
  BY <1>1, <1>3, <1>5, <1>7, <1>8, <1>9, CallsKept

LEMMA CrashKept ==
  ASSUME IInv, NEW s \in Store, Crash(s) PROVE Outcome
<1>1. /\ StateOk /\ FileOk /\ JobsOk /\ RollsBack(s)
      /\ store' = [store EXCEPT ![s].at = "crashed", ![s].inserts = 0, ![s].jobs = <<>>]
      /\ add' = [e \in Entry |-> IF add[e].on = s /\ UnderWay(e)
                                THEN [add[e] EXCEPT !.pc = "crashed", !.id = 0] ELSE add[e]]
  BY DEF IInv, Crash
<1>2. <<>> \in Seq(Job) /\ Len(<<>>) = 0
  OBVIOUS
<1>3. /\ store' \in [Store -> StoreState] /\ store'[s].jobs = <<>> /\ store'[s].at = "crashed"
      /\ \A t \in Store \ {s} : store'[t] = store[t]
  BY <1>1, <1>2 DEF StateOk, StoreState
<1>4. ASSUME NEW f \in Entry
      PROVE  add'[f] \in AddState /\ (add'[f] = add[f] \/ (add[f].on = s /\ Passes(f)))
  <2>1. add[f] \in AddState
    BY <1>1 DEF StateOk
  <2>2. CASE add[f].on = s /\ UnderWay(f)
    <3>1. add'[f] = [add[f] EXCEPT !.pc = "crashed", !.id = 0]
      BY <1>1, <2>2
    <3>2. /\ add'[f] = [pc |-> "crashed", on |-> add[f].on, id |-> 0]
          /\ add[f].on \in Store \cup {Nobody}
      BY <2>1, <3>1 DEF AddState
    <3>3. add'[f] \in AddState /\ add'[f].pc = "crashed" /\ add'[f].on = add[f].on
      BY <3>2 DEF AddState
    <3> QED
      BY <2>2, <3>3 DEF Passes, UnderWay
  <2>3. CASE ~(add[f].on = s /\ UnderWay(f))
    BY <1>1, <2>1, <2>3
  <2> QED
    BY <2>2, <2>3
<1>5. StateOk'
  <2>1. add' = [e \in Entry |-> add'[e]]
    BY <1>1
  <2> QED
    BY <1>3, <1>4, <2>1 DEF StateOk
<1>6. StoreJobsOk(s)'
  BY <1>2, <1>3 DEF StoreJobsOk, Distinct, Queued
<1>7. JobsOk'
  BY <1>1, <1>3, <1>4, <1>6, JobsKept
<1>8. writer \notin {s, Nobody} => Usable(writer)'
  BY <1>1, <1>3 DEF FileOk, Usable, RollsBack, LeavesLock
<1>9. FileKept /\ \A t \in Store \ {s} : SafeKept(t)
  BY <1>1, <1>8, FileRollsBack
<1>10. \A t \in Store : Usable(t)' => t # s /\ Usable(t)
  BY <1>3 DEF Usable
<1>11. \A t \in Store : store[t].at # "new" => store'[t].at # "new"
  BY <1>3
<1> QED
  BY <1>4, <1>5, <1>7, <1>9, <1>10, <1>11, CallsKept

-----------------------------------------------------------------------------
(* The theorems *)

LEMMA InitIInv ==
  Init => IInv
<1> SUFFICES ASSUME Init PROVE IInv
  OBVIOUS
<1>1. OldRows \in Nat /\ Nobody \notin Store
  BY MaxAssumption, StoreAssumption
<1>2. /\ file = [last |-> OldRows, rows |-> 1..OldRows] /\ draft = file /\ writer = Nobody
      /\ store = [s \in Store |-> [at |-> "new", inserts |-> 0, jobs |-> <<>>]]
      /\ add = [e \in Entry |-> [pc |-> "new", on |-> Nobody, id |-> 0]]
  BY DEF Init
<1>3. <<>> \in Seq(Job) /\ Len(<<>>) = 0
  OBVIOUS
<1>4. StateOk
  BY <1>2, <1>3 DEF StateOk, StoreState, AddState
<1>5. FileOk
  BY <1>1, <1>2 DEF FileOk, TableOk, Table
<1>6. JobsOk
  BY <1>2, <1>3 DEF JobsOk, StoreJobsOk, Distinct, Queued
<1>7. IdsOk /\ BegunOk
  BY <1>1, <1>2 DEF IdsOk, BegunOk, Returned, Live
<1> QED
  BY <1>4, <1>5, <1>6, <1>7 DEF IInv

LEMMA NextOutcome ==
  ASSUME IInv, Next
  PROVE  IInv' /\ LogGrows /\ (ToldSame \/ \E e \in Entry : Tells(e))
<1>1. PICK s \in Store :
        \/ Open(s) \/ OpenBusy(s) \/ Thread(s) \/ Close(s) \/ Crash(s)
        \/ \E e \in Entry : Add(s, e) \/ CancelAdd(s, e)
  BY DEF Next
<1>2. CASE Open(s)
  BY <1>2, OpenKept DEF Outcome
<1>3. CASE OpenBusy(s)
  BY <1>3, OpenBusyKept DEF Outcome
<1>4. CASE Close(s)
  BY <1>4, CloseKept DEF Outcome
<1>5. CASE Crash(s)
  BY <1>5, CrashKept DEF Outcome
<1>6. CASE \E e \in Entry : Add(s, e) \/ CancelAdd(s, e)
  BY <1>6, AddKept, CancelAddKept DEF Outcome
<1>7. CASE Thread(s)
  <2>1. CASE CloseTrims(s) \/ CloseCommits(s) \/ CloseConnection(s)
    BY <2>1, CloseTrimsKept, CloseCommitsKept, CloseConnectionKept DEF Outcome
  <2>2. ASSUME NEW e \in Entry,
               Insert(s, e) \/ Count(s, e) \/ Trim(s, e) \/ Commit(s, e) \/ JobFails(s, e)
        PROVE  IInv' /\ LogGrows /\ (ToldSame \/ Tells(e))
    BY <2>2, InsertKept, CountKept, TrimKept, CommitKept, JobFailsKept DEF Outcome
  <2> QED
    BY <1>7, <2>1, <2>2 DEF Thread
<1> QED
  BY <1>1, <1>2, <1>3, <1>4, <1>5, <1>6, <1>7

LEMMA Invariance ==
  Spec => []IInv
<1>1. ASSUME IInv, UNCHANGED vars PROVE IInv'
  BY <1>1 DEF IInv, StateOk, FileOk, JobsOk, StoreJobsOk, Fits, IdsOk, Returned, Live, Given, Safe,
              Alike, BegunOk, Usable, vars
<1> QED
  BY InitIInv, <1>1, NextOutcome, PTL DEF Spec

\* Whatever stores, calls, cancellations and crashes interleave, the history keeps
\* its types, and the write lock is with a store whose connection is open.
THEOREM TypeCorrect ==
  Spec => []TypeOK
BY Invariance, IInvTypeOK, PTL

\* The history is an append-only log with a window: a row goes only to make room
\* for newer ones, and an add() that returned has an id of its own, of a row that
\* was committed.
THEOREM LogKept ==
  Spec => KeepsLog
<1> DEFINE told == {add[e].id : e \in {f \in Entry : add[f].pc = "returned"}}
<1>1. Init => Log!Init
  <2> SUFFICES ASSUME Init PROVE Log!Init
    OBVIOUS
  <2>1. file = [last |-> OldRows, rows |-> 1..OldRows] /\ OldRows \in Nat
    BY MaxAssumption DEF Init
  <2>2. told = {}
    BY DEF Init
  <2> QED
    BY <2>1, <2>2 DEF Log!Init
<1>2. IInv /\ [Next]_vars => [Log!Next]_Log!vars
  <2> SUFFICES ASSUME IInv, [Next]_vars PROVE Log!Next \/ UNCHANGED Log!vars
    OBVIOUS
  <2>1. CASE UNCHANGED vars
    BY <2>1 DEF vars, Log!vars
  <2>2. CASE Next
    <3>1. LogGrows /\ (ToldSame \/ \E e \in Entry : Tells(e))
      BY <2>2, NextOutcome
    <3>2. Log!Commit
      <4>1. \A S : Log!Cardinality(S) = Cardinality(S)
        BY DEF Log!Cardinality, Cardinality
      <4> QED
        BY <3>1, <4>1 DEF LogGrows, Grown, Offered, Log!Commit
    <3>3. ToldSame => told' = told
      BY DEF ToldSame
    <3>4. ASSUME NEW e \in Entry, Tells(e) PROVE Log!Tell
      <4>1. PICK i \in 1..file'.last : i = add[e].id
        BY <3>4 DEF Tells, Given
      <4>2. i \notin told
        BY <3>4, <4>1 DEF Tells, Returned
      <4>3. told' = told \cup {i}
        BY <3>4, <4>1 DEF Tells
      <4> QED
        BY <4>1, <4>2, <4>3 DEF Log!Tell
    <3> QED
      BY <3>1, <3>2, <3>3, <3>4 DEF Log!Next
  <2> QED
    BY <2>1, <2>2
<1> QED
  BY <1>1, <1>2, Invariance, PTL DEF Spec, KeepsLog, Log!Spec

-----------------------------------------------------------------------------
(* The retention window *)

\* The uncounted calls whose row may be in the table: the insert of the others is still
\* to come, if it ever does.
Inserting(e) == \E s \in Store : \E j \in Queued(store[s].jobs) : j.of = e /\ j.kind = "insert"
Rowed == {e \in Uncounted : ~Inserting(e)}

InUse == (\E s \in Store : Usable(s)) /\ \A s \in Store : store[s].at \notin {"closed", "crashed"}
Window == InUse => Cardinality(draft.rows) <= MaxEntries + Counted + Cardinality(Rowed)

\* What nobody has changed is what there is.
Settled == writer = Nobody => draft = file

RInv == IInv /\ Settled /\ Window

\* A set of naturals has a least element.
LEMMA Smallest ==
  ASSUME NEW S \in SUBSET Nat, S # {} PROVE \E i \in S : \A j \in S : i <= j
<1> DEFINE less == {ab \in Nat \X Nat : ab[1] < ab[2]}
<1>1. IsWellFoundedOn(less, Nat)
  BY NatLessThanWellFounded DEF OpToRel
<1> HIDE DEF less
<1>2. PICK i \in S : \A j \in S : ~(<<j, i>> \in less)
  BY <1>1, WFMin, Zenon
<1>3. ASSUME NEW j \in S PROVE i <= j
  <2>1. i \in Nat /\ j \in Nat
    OBVIOUS
  <2>2. <<j, i>> \in Nat \X Nat /\ <<j, i>>[1] = j /\ <<j, i>>[2] = i
    BY <2>1
  <2>3. ~(j < i)
    BY <1>2, <2>2 DEF less
  <2> QED
    BY <2>1, <2>3
<1> QED
  BY <1>3

Newer(rows, k) == {j \in rows : j > k}

\* Among more than MaxEntries rows one has exactly so many newer ones.
LEMMA OldestThere ==
  ASSUME NEW n \in Nat, NEW rows \in SUBSET (1..n), Cardinality(rows) > MaxEntries
  PROVE  OldestKept(rows) # {}
<1>0. MaxEntries \in Nat /\ MaxEntries # 0
  BY MaxAssumption
<1>1. IsFiniteSet(rows) /\ Cardinality(rows) \in Nat /\ rows \in SUBSET Nat
  <2>1. IsFiniteSet(1..n)
    BY FS_Interval
  <2>2. IsFiniteSet(rows)
    BY <2>1, FS_Subset
  <2>3. rows \in SUBSET Nat
    OBVIOUS
  <2> QED
    BY <2>2, <2>3, FS_CardinalityType
<1>2. ASSUME NEW k \in rows
      PROVE  IsFiniteSet(Newer(rows, k)) /\ Cardinality(Newer(rows, k)) \in Nat
  <2>1. Newer(rows, k) \in SUBSET rows
    BY DEF Newer
  <2> QED
    BY <1>1, <2>1, FS_Subset, FS_CardinalityType
<1>a. \A k, j \in rows : k \in Nat /\ j \in Nat
  BY <1>1
<1> DEFINE many == {k \in rows : Cardinality(Newer(rows, k)) >= MaxEntries}
           counts == {m \in Nat : \E k \in many : m = Cardinality(Newer(rows, k))}
\* The row before which there is none has all others after it.
<1>3. many # {}
  <2>1. rows # {}
    BY <1>0, <1>1, FS_EmptySet
  <2>2. PICK k \in rows : \A j \in rows : k <= j
    BY <1>1, <2>1, Smallest
  <2>3. Newer(rows, k) = rows \ {k}
    <3>1. \A j \in rows : j > k <=> j # k
      BY <1>a, <2>2
    <3> QED
      BY <3>1 DEF Newer
  <2>4. Cardinality(Newer(rows, k)) = Cardinality(rows) - 1
    BY <1>1, <2>3, FS_RemoveElement
  <2> QED
    BY <1>0, <1>1, <2>4
<1>4. PICK k \in many : \A l \in many : Cardinality(Newer(rows, k)) <= Cardinality(Newer(rows, l))
  <2>1. counts # {} /\ counts \in SUBSET Nat
    BY <1>2, <1>3
  <2>2. PICK m \in counts : \A c \in counts : m <= c
    BY <2>1, Smallest
  <2>3. PICK k \in many : m = Cardinality(Newer(rows, k))
    BY <2>2
  <2>4. \A l \in many : Cardinality(Newer(rows, l)) \in counts
    BY <1>2
  <2> QED
    BY <2>2, <2>3, <2>4
<1>5. k \in rows /\ Cardinality(Newer(rows, k)) >= MaxEntries /\ k \in Nat
  BY <1>1, <1>4
\* If it had more, so would the next.
<1>6. Cardinality(Newer(rows, k)) = MaxEntries
  <2> SUFFICES ASSUME Cardinality(Newer(rows, k)) # MaxEntries PROVE FALSE
    OBVIOUS
  <2>1. Cardinality(Newer(rows, k)) > MaxEntries
    BY <1>0, <1>2, <1>5
  <2>2. Newer(rows, k) # {} /\ Newer(rows, k) \in SUBSET Nat
    <3>1. Newer(rows, k) # {}
      BY <1>0, <2>1, FS_EmptySet
    <3> QED
      BY <1>1, <3>1 DEF Newer
  <2>3. PICK l \in Newer(rows, k) : \A j \in Newer(rows, k) : l <= j
    BY <2>2, Smallest
  <2>4. l \in rows /\ l > k
    BY <2>3 DEF Newer
  <2>5. Newer(rows, l) = Newer(rows, k) \ {l}
    <3>1. \A j \in rows : j > l <=> j > k /\ j # l
      <4> SUFFICES ASSUME NEW j \in rows PROVE j > l <=> j > k /\ j # l
        OBVIOUS
      <4>1. j > k => l <= j
        BY <2>3 DEF Newer
      <4> QED
        BY <1>a, <1>5, <2>4, <4>1
    <3> QED
      BY <3>1 DEF Newer
  <2>6. Cardinality(Newer(rows, l)) = Cardinality(Newer(rows, k)) - 1
    BY <1>2, <1>5, <2>3, <2>5, FS_RemoveElement
  <2>7. l \in many
    BY <1>0, <1>2, <1>5, <2>1, <2>4, <2>6
  <2> QED
    BY <1>2, <1>4, <1>5, <2>6, <2>7
<1> QED
  BY <1>5, <1>6 DEF OldestKept, Newer

\* The rows of a table can be counted.
LEMMA RowsFinite ==
  ASSUME NEW t, TableOk(t) PROVE IsFiniteSet(t.rows) /\ Cardinality(t.rows) \in Nat
<1>1. t.last \in Nat /\ t.rows \in SUBSET (1..t.last)
  BY DEF TableOk, Table
<1>2. IsFiniteSet(1..t.last)
  BY <1>1, FS_Interval
<1> QED
  BY <1>1, <1>2, FS_Subset, FS_CardinalityType

\* A trim leaves no more than MaxEntries rows.
LEMMA TrimBounds ==
  ASSUME NEW t, TableOk(t) PROVE Cardinality(Trimmed(t).rows) <= MaxEntries
<1>1. t.last \in Nat /\ t.rows \in SUBSET (1..t.last)
  BY DEF TableOk, Table
<1>2. Cardinality(t.rows) \in Nat /\ MaxEntries \in Nat
  BY RowsFinite, MaxAssumption
<1>3. CASE Trimmed(t).rows # t.rows
  BY <1>2, <1>3, TrimKeeps
<1>4. CASE Trimmed(t).rows = t.rows
  <2> SUFFICES ASSUME Cardinality(t.rows) > MaxEntries PROVE FALSE
    BY <1>2, <1>4
  <2>1. PICK k \in OldestKept(t.rows) : TRUE
    BY <1>1, OldestThere
  <2>2. k \in t.rows /\ k \in Nat
    BY <1>1, <2>1 DEF OldestKept
  <2>3. k \notin Trimmed(t).rows
    <3>1. Trimmed(t).rows = {i \in t.rows : \A l \in OldestKept(t.rows) : i > l}
      BY DEF Trimmed, TableOk, Table
    <3>2. ~(k > k)
      BY <2>2
    <3> QED
      BY <2>1, <3>1, <3>2
  <2> QED
    BY <1>4, <2>2, <2>3
<1> QED
  BY <1>3, <1>4

CountedSet == UNION {{s} \X (1..store[s].inserts) : s \in Store}

\* The inserts that the stores have counted are finitely many, ...
LEMMA PartsFinite ==
  ASSUME NEW st \in [Store -> StoreState]
  PROVE  IsFiniteSet(UNION {{s} \X (1..st[s].inserts) : s \in Store})
<1>1. \A s \in Store : st[s].inserts \in Nat
  BY DEF StoreState
<1> DEFINE part == [s \in Store |-> {s} \X (1..st[s].inserts)]
           parts == {{s} \X (1..st[s].inserts) : s \in Store}
<1>2. part \in Surjection(Store, parts)
  BY DEF Surjection
<1>3. IsFiniteSet(parts)
  BY <1>2, StoreAssumption, FS_Surjection
<1>4. ASSUME NEW s \in Store PROVE IsFiniteSet({s} \X (1..st[s].inserts))
  <2>1. IsFiniteSet({s})
    BY FS_Singleton
  <2>2. PICK n \in Nat : n = st[s].inserts
    BY <1>1
  <2>3. IsFiniteSet(1..n)
    BY FS_Interval
  <2> QED
    BY <2>1, <2>2, <2>3, FS_Product
<1> QED
  BY <1>3, <1>4, FS_UNION

\* ... and so are the uncounted calls: both can be counted, in this state ...
LEMMA CountsFinite ==
  ASSUME StateOk
  PROVE  /\ IsFiniteSet(CountedSet) /\ Counted = Cardinality(CountedSet) /\ Counted \in Nat
         /\ IsFiniteSet(Rowed) /\ Cardinality(Rowed) \in Nat
<1>1. IsFiniteSet(CountedSet)
  BY PartsFinite DEF StateOk, CountedSet
<1>2. Rowed \in SUBSET Entry
  BY DEF Rowed, Uncounted
<1> QED
  BY <1>1, <1>2, StoreAssumption, FS_Subset, FS_CardinalityType DEF CountedSet, Counted

\* ... and in the next.
LEMMA CountsFiniteNext ==
  ASSUME StateOk'
  PROVE  Counted' \in Nat /\ IsFiniteSet(Rowed') /\ Cardinality(Rowed') \in Nat
<1>1. IsFiniteSet(CountedSet') /\ Counted' = Cardinality(CountedSet')
  BY PartsFinite DEF StateOk, CountedSet, Counted
<1>2. Rowed' \in SUBSET Entry
  BY DEF Rowed, Uncounted
<1> QED
  BY <1>1, <1>2, StoreAssumption, FS_Subset, FS_CardinalityType

\* Nobody counts an insert, ...
LEMMA CountedSame ==
  ASSUME \A t \in Store : store'[t].inserts = store[t].inserts PROVE Counted' = Counted
<1>1. \A t \in Store : {t} \X (1..store'[t].inserts) = {t} \X (1..store[t].inserts)
  OBVIOUS
<1>2. CountedSet' = CountedSet
  BY <1>1 DEF CountedSet
<1> QED
  BY <1>2 DEF CountedSet, Counted

\* ... or store s counts one.
LEMMA CountedOne ==
  ASSUME StateOk, StateOk', NEW s \in Store, store'[s].inserts = store[s].inserts + 1,
         \A t \in Store \ {s} : store'[t].inserts = store[t].inserts
  PROVE  Counted' = Counted + 1
<1>1. PICK n \in Nat : n = store[s].inserts
  BY DEF StateOk, StoreState
<1> DEFINE new == <<s, n + 1>>
<1>2. \A i : i \in 1..(n + 1) <=> i \in 1..n \/ i = n + 1
  BY <1>1
<1>3. CountedSet' = CountedSet \cup {new}
  <2> DEFINE old(t) == {t} \X (1..store[t].inserts)
             fresh(t) == {t} \X (1..store'[t].inserts)
  <2>1. \A t \in Store \ {s} : fresh(t) = old(t)
    OBVIOUS
  <2>2. fresh(s) = old(s) \cup {new}
    BY <1>1, <1>2
  <2> HIDE DEF old, fresh, new
  <2>3. UNION {fresh(t) : t \in Store} = (UNION {old(t) : t \in Store}) \cup {new}
    BY <2>1, <2>2
  <2> QED
    BY <2>3 DEF CountedSet, old, fresh
<1>4. new \notin CountedSet
  <2>1. ~(n + 1 \in 1..store[s].inserts)
    BY <1>1
  <2> QED
    BY <2>1 DEF CountedSet
<1>5. Cardinality(CountedSet \cup {new}) = Cardinality(CountedSet) + 1
  BY <1>4, CountsFinite, FS_AddElement
<1> QED
  BY <1>3, <1>5, CountsFinite DEF Counted, CountedSet

\* Calls that stay uncounted, and of whose inserts no more are to come than were.
LEMMA RowedMore ==
  ASSUME NEW S \in SUBSET Rowed, \A f \in S : f \in Uncounted',
         \A t \in Store : \A j \in Queued(store'[t].jobs) :
           j.kind = "insert" /\ j.of \in Rowed =>
             \E k \in Queued(store[t].jobs) : k.of = j.of /\ k.kind = "insert"
  PROVE  S \subseteq Rowed'
<1> SUFFICES ASSUME NEW f \in S PROVE f \in Rowed'
  OBVIOUS
<1>1. f \in Rowed /\ f \in Uncounted' /\ ~Inserting(f)
  BY DEF Rowed
<1>2. ~Inserting(f)'
  BY <1>1 DEF Inserting
<1> QED
  BY <1>1, <1>2 DEF Rowed, Uncounted

Stay == \A t \in Store : /\ Usable(t)' => Usable(t)
                         /\ store[t].at \in {"closed", "crashed"} => store'[t].at \in {"closed", "crashed"}

\* A step that neither changes the table nor counts an insert.
LEMMA QuietWindow ==
  ASSUME RInv, IInv', Stay, draft' = draft,
         \A t \in Store : store'[t].inserts = store[t].inserts, Rowed \subseteq Rowed'
  PROVE  Window'
<1> SUFFICES ASSUME InUse'
             PROVE  Cardinality(draft'.rows) <= MaxEntries + Counted' + Cardinality(Rowed')
  BY DEF Window
<1>1. InUse
  BY DEF InUse, Stay
<1>2. Counted' = Counted
  BY CountedSame
<1>3. /\ Cardinality(Rowed) \in Nat /\ IsFiniteSet(Rowed') /\ Cardinality(Rowed') \in Nat
      /\ Counted \in Nat
  BY CountsFinite, CountsFiniteNext DEF RInv, IInv
<1>4. Cardinality(Rowed) <= Cardinality(Rowed')
  BY <1>3, FS_Subset
<1>5. Cardinality(draft.rows) \in Nat /\ MaxEntries \in Nat
  BY RowsFinite, MaxAssumption DEF RInv, IInv, FileOk
<1>6. Cardinality(draft.rows) <= MaxEntries + Counted + Cardinality(Rowed)
  BY <1>1 DEF RInv, Window
<1> QED
  BY <1>2, <1>3, <1>4, <1>5, <1>6

\* A step that trims the table.
LEMMA TrimWindow ==
  ASSUME IInv', NEW t, TableOk(t), draft' = Trimmed(t) PROVE Window'
<1>1. Counted' \in Nat /\ Cardinality(Rowed') \in Nat
  BY CountsFiniteNext DEF IInv
<1>2. Cardinality(draft'.rows) <= MaxEntries
  BY TrimBounds
<1>3. Cardinality(draft'.rows) \in Nat /\ MaxEntries \in Nat
  BY RowsFinite, MaxAssumption DEF IInv, FileOk
<1> QED
  BY <1>1, <1>2, <1>3 DEF Window

\* What a step of a call leaves of the jobs, if it goes on ...
LEMMA GoesOnJobs ==
  ASSUME StateOk, JobsOk, NEW s \in Store, NEW e \in Entry, NEW kind, NEW later, NEW inserts, NEW id,
         later \in {"cursor", "trim", "commit"}, Does(s, kind, e), GoesOn(s, e, later, inserts, id)
  PROVE  /\ \A t \in Store \ {s} : store'[t] = store[t]
         /\ store'[s].inserts = inserts
         /\ \A j \in Queued(store'[s].jobs) :
              (j \in Queued(store[s].jobs) /\ j.of # e) \/ j.kind = later
<1> DEFINE rest == Tail(store[s].jobs)
           job == NewJob(later, e)
<1>1. /\ rest \in Seq(Job) /\ Distinct(rest) /\ \A j \in Queued(rest) : j.of # e
  BY HeadJob DEF Does
<1>2. \A j \in Queued(rest) : j \in Queued(store[s].jobs)
  BY QueueTail DEF Does, JobsOk, StoreJobsOk, StateOk, StoreState
<1>3. job \in Job /\ job.of = e /\ job.kind = later
  BY DEF NewJob, Job
<1>4. store' = [store EXCEPT ![s].inserts = inserts, ![s].jobs = Append(rest, job)]
  BY DEF GoesOn
<1> HIDE DEF rest, job
<1>5. \A j \in Queued(Append(rest, job)) : j \in Queued(rest) \/ j = job
  BY <1>1, <1>3, QueueAppend
<1>6. /\ \A t \in Store \ {s} : store'[t] = store[t]
      /\ store'[s].inserts = inserts /\ store'[s].jobs = Append(rest, job)
  BY <1>4 DEF StateOk, StoreState
<1> QED
  BY <1>1, <1>2, <1>3, <1>5, <1>6

\* ... or ends.
LEMMA EndsJobs ==
  ASSUME StateOk, JobsOk, NEW s \in Store, NEW e \in Entry, NEW kind, NEW end,
         Does(s, kind, e), Ends(s, e, end)
  PROVE  /\ \A t \in Store \ {s} : store'[t] = store[t]
         /\ store'[s].inserts = store[s].inserts
         /\ \A j \in Queued(store'[s].jobs) : j \in Queued(store[s].jobs) /\ j.of # e
<1>1. \A j \in Queued(Tail(store[s].jobs)) : j.of # e
  BY HeadJob DEF Does
<1>2. \A j \in Queued(Tail(store[s].jobs)) : j \in Queued(store[s].jobs)
  BY QueueTail DEF Does, JobsOk, StoreJobsOk, StateOk, StoreState
<1>3. store' = [store EXCEPT ![s].jobs = Tail(store[s].jobs)]
  BY DEF Ends, StateOk
<1>4. /\ \A t \in Store \ {s} : store'[t] = store[t]
      /\ store'[s].inserts = store[s].inserts /\ store'[s].jobs = Tail(store[s].jobs)
  BY <1>3 DEF StateOk, StoreState
<1> QED
  BY <1>1, <1>2, <1>4

\* A call ends whose row, if any, stays uncounted or is counted already.
LEMMA EndsWindow ==
  ASSUME RInv, IInv', NEW s \in Store, NEW e \in Entry, NEW kind,
         NEW end \in {"returned", "failed", "cancelled"}, Does(s, kind, e), Ends(s, e, end),
         kind = "cursor" => ~Awaited(s) \/ end # "returned", draft' = draft
  PROVE  Window'
<1>1. StateOk /\ JobsOk
  BY DEF RInv, IInv
<1>2. /\ \A t \in Store : store'[t].at = store[t].at
      /\ \A f \in Entry \ {e} : add'[f] = add[f]
      /\ ~Awaited(s) => add' = add
      /\ Awaited(s) => add[e].pc = kind /\ add'[e].pc = end
  BY <1>1, EndsKept
<1>3. /\ \A t \in Store \ {s} : store'[t] = store[t]
      /\ store'[s].inserts = store[s].inserts
      /\ \A j \in Queued(store'[s].jobs) : j \in Queued(store[s].jobs) /\ j.of # e
  BY <1>1, EndsJobs
<1>4. \A f \in Uncounted : f \in Uncounted'
  <2> SUFFICES ASSUME NEW f \in Uncounted PROVE f \in Uncounted'
    OBVIOUS
  <2>1. CASE f # e \/ ~Awaited(s)
    BY <1>2, <2>1 DEF Uncounted
  <2>2. CASE f = e /\ Awaited(s)
    <3>1. add[e].pc \in {"cursor", "cancelled", "failed"} /\ add[e].pc = kind
      BY <1>2, <2>2 DEF Uncounted
    <3>2. Head(store[s].jobs) \in Job /\ Head(store[s].jobs).kind = kind
      BY <1>1, HeadJob DEF Does
    <3>3. kind = "cursor" /\ end # "returned"
      BY <2>2, <3>1, <3>2 DEF Job
    <3> QED
      BY <1>2, <2>2, <3>3 DEF Uncounted
  <2> QED
    BY <2>1, <2>2
<1>5. Rowed \subseteq Rowed'
  <2>1. \A f \in Rowed : f \in Uncounted'
    BY <1>4 DEF Rowed
  <2> QED
    BY <1>3, <2>1, RowedMore
<1>6. Stay
  BY <1>2 DEF Stay, Usable
<1> QED
  BY <1>3, <1>5, <1>6, QuietWindow

-----------------------------------------------------------------------------
(* The retention window: the actions *)

\* The call whose insert is done has no other to come.
LEMMA InsertDone ==
  ASSUME StateOk, JobsOk, NEW s \in Store, NEW e \in Entry, NEW kind, Does(s, kind, e),
         \A t \in Store \ {s} : store'[t] = store[t],
         \A j \in Queued(store'[s].jobs) : j.of # e \/ j.kind # "insert"
  PROVE  ~Inserting(e)'
<1>1. add[e].on = s /\ e # Nobody
  BY HeadJob, StoreAssumption DEF Does, Fits
<1>2. ASSUME NEW t \in Store, t # s, NEW j \in Queued(store[t].jobs) PROVE j.of # e
  BY <1>1, <1>2 DEF JobsOk, StoreJobsOk, Fits
<1> QED
  BY <1>2 DEF Inserting

LEMMA InsertWindow ==
  ASSUME RInv, IInv', NEW s \in Store, NEW e \in Entry, Insert(s, e) PROVE Window'
<1>1. /\ StateOk /\ JobsOk /\ FileOk /\ Settled /\ Window
      /\ Does(s, "insert", e) /\ Changes(s, Inserted(Seen(s)))
  BY DEF RInv, IInv, Insert
<1>2. Seen(s) = draft /\ draft' = Inserted(draft)
  BY <1>1 DEF Seen, Changes, MayWrite, Settled
<1>3. /\ \A t \in Store : store'[t].at = store[t].at
      /\ \A t \in Store \ {s} : store'[t] = store[t]
      /\ \A t \in Store : store'[t].inserts = store[t].inserts
      /\ \A f \in Entry \ {e} : add'[f] = add[f]
      /\ \A j \in Queued(store'[s].jobs) :
           (j \in Queued(store[s].jobs) /\ j.of # e) \/ j.kind = "cursor"
      /\ e \in Uncounted'
  <2>1. CASE Awaited(s) /\ GoesOn(s, e, "cursor", store[s].inserts, Inserted(Seen(s)).last)
    <3>1. PICK n \in Nat : n = store[s].inserts
      BY <1>1 DEF StateOk, StoreState
    <3>2. PICK id \in Nat : id = Inserted(Seen(s)).last
      BY <1>1, SeenOk DEF Inserted
    <3>3. GoesOn(s, e, "cursor", n, id)
      BY <2>1, <3>1, <3>2
    <3>4. /\ \A t \in Store : store'[t].at = store[t].at
          /\ \A f \in Entry \ {e} : add'[f] = add[f] /\ add'[e].pc = "cursor"
          /\ add'[e].pc = "cursor"
      BY <1>1, <2>1, <3>3, GoesOnKept
    <3>5. /\ \A t \in Store \ {s} : store'[t] = store[t]
          /\ store'[s].inserts = n
          /\ \A j \in Queued(store'[s].jobs) :
               (j \in Queued(store[s].jobs) /\ j.of # e) \/ j.kind = "cursor"
      BY <1>1, <3>3, GoesOnJobs
    <3> QED
      BY <3>1, <3>4, <3>5 DEF Uncounted
  <2>2. CASE ~Awaited(s) /\ Ends(s, e, "cancelled")
    <3>1. /\ \A t \in Store : store'[t].at = store[t].at
          /\ add' = add
      BY <1>1, <2>2, EndsKept
    <3>2. /\ \A t \in Store \ {s} : store'[t] = store[t]
          /\ store'[s].inserts = store[s].inserts
          /\ \A j \in Queued(store'[s].jobs) : j \in Queued(store[s].jobs) /\ j.of # e
      BY <1>1, <2>2, EndsJobs
    <3>3. add[e].pc = "cancelled"
      BY <1>1, <2>2, HeadJob, StoreAssumption DEF Does, Fits, Awaited
    <3> QED
      BY <3>1, <3>2, <3>3 DEF Uncounted
  <2> QED
    BY <2>1, <2>2 DEF Insert
<1>4. Inserting(e) /\ e \notin Rowed
  <2>1. Head(store[s].jobs) \in Queued(store[s].jobs)
    BY <1>1, QueueTail DEF Does, JobsOk, StoreJobsOk, StateOk, StoreState
  <2> QED
    BY <1>1, <2>1 DEF Does, Inserting, Rowed
<1>5. Rowed \cup {e} \subseteq Rowed'
  <2>1. \A f \in Rowed : f \in Uncounted'
    BY <1>3, <1>4 DEF Rowed, Uncounted
  <2>2. Rowed \subseteq Rowed'
    BY <1>3, <2>1, RowedMore
  <2>3. ~Inserting(e)'
    BY <1>1, <1>3, InsertDone
  <2> QED
    BY <1>3, <2>2, <2>3 DEF Rowed, Uncounted
<1>6. /\ Cardinality(Rowed) \in Nat /\ Cardinality(Rowed') \in Nat
      /\ Cardinality(Rowed') >= Cardinality(Rowed) + 1
  <2>1. /\ IsFiniteSet(Rowed) /\ Cardinality(Rowed) \in Nat
        /\ IsFiniteSet(Rowed') /\ Cardinality(Rowed') \in Nat
    BY <1>1, CountsFinite, CountsFiniteNext DEF IInv
  <2>2. Cardinality(Rowed \cup {e}) = Cardinality(Rowed) + 1
    BY <1>4, <2>1, FS_AddElement
  <2>3. Cardinality(Rowed \cup {e}) <= Cardinality(Rowed')
    BY <1>5, <2>1, FS_Subset
  <2> QED
    BY <2>1, <2>2, <2>3
<1>7. Cardinality(draft'.rows) = Cardinality(draft.rows) + 1 /\ Cardinality(draft.rows) \in Nat
  <2>1. IsFiniteSet(draft.rows) /\ Cardinality(draft.rows) \in Nat
    BY <1>1, RowsFinite DEF FileOk
  <2>2. draft'.rows = draft.rows \cup {draft.last + 1}
    BY <1>2 DEF Inserted
  <2>3. draft.last + 1 \notin draft.rows
    BY <1>1 DEF FileOk, TableOk, Table
  <2> QED
    BY <2>1, <2>2, <2>3, FS_AddElement
<1>8. Counted' = Counted /\ Counted \in Nat /\ MaxEntries \in Nat
  <2>1. Counted' = Counted
    BY <1>3, CountedSame
  <2> QED
    BY <1>1, <2>1, CountsFinite, MaxAssumption
<1>9. InUse' => InUse
  BY <1>3 DEF InUse, Usable
<1>10. ASSUME InUse' PROVE Cardinality(draft.rows) <= MaxEntries + Counted + Cardinality(Rowed)
  BY <1>1, <1>9, <1>10 DEF Window
<1> QED
  BY <1>6, <1>7, <1>8, <1>10 DEF Window

LEMMA CountWindow ==
  ASSUME RInv, IInv', NEW s \in Store, NEW e \in Entry, Count(s, e) PROVE Window'
<1>1. StateOk /\ JobsOk /\ FileOk /\ Window /\ Does(s, "cursor", e) /\ draft' = draft
  BY DEF RInv, IInv, Count
<1>2. PICK n \in Nat : n = store[s].inserts + 1
  BY <1>1 DEF StateOk, StoreState
<1>3. CASE ~Awaited(s) /\ Ends(s, e, "cancelled")
  BY <1>1, <1>3, EndsWindow
<1>4. CASE Awaited(s) /\ GoesOn(s, e, IF Trims(n) THEN "trim" ELSE "commit", n, add[e].id)
  <2>1. PICK id \in Nat : id = add[e].id
    BY <1>1 DEF StateOk, AddState
  <2>2. PICK later \in {"trim", "commit"} : later = IF Trims(n) THEN "trim" ELSE "commit"
    OBVIOUS
  <2>3. GoesOn(s, e, later, n, id)
    BY <1>4, <2>1, <2>2
  <2>4. /\ \A t \in Store : store'[t].at = store[t].at
        /\ \A f \in Entry \ {e} : add'[f] = add[f]
    BY <1>1, <1>4, <2>3, GoesOnKept
  <2>5. /\ \A t \in Store \ {s} : store'[t] = store[t]
        /\ store'[s].inserts = n
        /\ \A j \in Queued(store'[s].jobs) :
             (j \in Queued(store[s].jobs) /\ j.of # e) \/ j.kind = later
    BY <1>1, <2>3, GoesOnJobs
  <2>6. Counted' = Counted + 1 /\ Counted \in Nat /\ MaxEntries \in Nat
    BY <1>1, <1>2, <2>5, CountedOne, CountsFinite, MaxAssumption DEF IInv
  <2>7. Rowed \ {e} \subseteq Rowed'
    <3>1. \A f \in Rowed \ {e} : f \in Uncounted'
      BY <2>4 DEF Rowed, Uncounted
    <3> QED
      BY <2>5, <3>1, RowedMore
  <2>8. /\ Cardinality(Rowed) \in Nat /\ Cardinality(Rowed') \in Nat
        /\ Cardinality(Rowed) <= Cardinality(Rowed') + 1
    <3>1. /\ IsFiniteSet(Rowed) /\ Cardinality(Rowed) \in Nat
          /\ IsFiniteSet(Rowed') /\ Cardinality(Rowed') \in Nat
      BY <1>1, CountsFinite, CountsFiniteNext DEF IInv
    <3>2. Cardinality(Rowed) <= Cardinality(Rowed \ {e}) + 1 /\ Cardinality(Rowed \ {e}) \in Nat
      <4>1. /\ IsFiniteSet(Rowed \ {e})
            /\ Cardinality(Rowed \ {e}) = IF e \in Rowed THEN Cardinality(Rowed) - 1
                                          ELSE Cardinality(Rowed)
        BY <3>1, FS_RemoveElement
      <4>2. Cardinality(Rowed \ {e}) \in Nat
        BY <4>1, FS_CardinalityType
      <4> QED
        BY <3>1, <4>1, <4>2
    <3>3. Cardinality(Rowed \ {e}) <= Cardinality(Rowed')
      BY <2>7, <3>1, FS_Subset
    <3> QED
      BY <3>1, <3>2, <3>3
  <2>9. InUse' => InUse
    BY <2>4 DEF InUse, Usable
  <2>10. ASSUME InUse' PROVE Cardinality(draft.rows) <= MaxEntries + Counted + Cardinality(Rowed)
    BY <1>1, <2>9, <2>10 DEF Window
  <2>11. Cardinality(draft.rows) \in Nat
    BY <1>1, RowsFinite DEF FileOk
  <2> QED
    BY <1>1, <2>6, <2>8, <2>10, <2>11 DEF Window
<1> QED
  BY <1>2, <1>3, <1>4 DEF Count

\* A step of the file, after which what nobody has changed is what there is.
LEMMA SettledKept ==
  ASSUME Settled, NEW s \in Store,
         \/ \E table : Changes(s, table)
         \/ Commits(s) \/ RollsBack(s) \/ UNCHANGED <<file, draft, writer>>
  PROVE  Settled'
<1>1. s # Nobody
  BY StoreAssumption
<1>2. CASE \E table : Changes(s, table)
  BY <1>1, <1>2 DEF Changes, Settled
<1>3. CASE Commits(s)
  BY <1>3 DEF Commits, LeavesLock, Seen, Settled
<1>4. CASE RollsBack(s)
  BY <1>4 DEF RollsBack, LeavesLock, Settled
<1>5. CASE UNCHANGED <<file, draft, writer>>
  BY <1>5 DEF Settled
<1> QED
  BY <1>2, <1>3, <1>4, <1>5

LEMMA OpenWindow ==
  ASSUME RInv, IInv', NEW s \in Store, Open(s) PROVE Settled' /\ Window'
<1>1. TableOk(file) /\ file' = Trimmed(file) /\ draft' = file'
  BY DEF RInv, IInv, FileOk, Open
<1> QED
  BY <1>1, TrimWindow DEF Settled

LEMMA OpenBusyWindow ==
  ASSUME RInv, IInv', NEW s \in Store, OpenBusy(s) PROVE Settled' /\ Window'
<1>1. /\ StateOk /\ Settled /\ UNCHANGED <<file, draft, writer>> /\ add' = add
      /\ store[s].at = "new" /\ store' = [store EXCEPT ![s].at = "refused"]
  BY DEF RInv, IInv, OpenBusy
<1>2. /\ \A t \in Store : store'[t].inserts = store[t].inserts /\ store'[t].jobs = store[t].jobs
      /\ store'[s].at = "refused" /\ \A t \in Store \ {s} : store'[t] = store[t]
  BY <1>1 DEF StateOk, StoreState
<1>3. Stay
  BY <1>1, <1>2 DEF Stay, Usable
<1>4. Rowed \subseteq Rowed'
  <2>1. \A f \in Rowed : f \in Uncounted'
    BY <1>1 DEF Rowed, Uncounted
  <2> QED
    BY <1>2, <2>1, RowedMore
<1>5. Window'
  BY <1>1, <1>2, <1>3, <1>4, QuietWindow
<1> QED
  BY <1>1, <1>5, SettledKept

LEMMA AddWindow ==
  ASSUME RInv, IInv', NEW s \in Store, NEW e \in Entry, Add(s, e) PROVE Settled' /\ Window'
<1> DEFINE job == NewJob("insert", e)
<1>1. /\ StateOk /\ JobsOk /\ Settled /\ UNCHANGED <<file, draft, writer>>
      /\ add[e].pc = "new" /\ add' = [add EXCEPT ![e].pc = "insert", ![e].on = s]
      /\ store' = [store EXCEPT ![s].jobs = Append(store[s].jobs, job)]
  BY DEF RInv, IInv, Add, StateOk
<1>2. job \in Job /\ job.of = e /\ e # Nobody /\ store[s].jobs \in Seq(Job)
  BY <1>1, StoreAssumption DEF NewJob, Job, StateOk, StoreState
<1> HIDE DEF job
<1>3. Distinct(store[s].jobs) /\ \A j \in Queued(store[s].jobs) : j.of # e
  BY <1>1, <1>2 DEF JobsOk, StoreJobsOk, Fits
<1>4. \A j \in Queued(Append(store[s].jobs, job)) : j \in Queued(store[s].jobs) \/ j = job
  BY <1>2, <1>3, QueueAppend
<1>5. /\ \A t \in Store : store'[t].inserts = store[t].inserts /\ store'[t].at = store[t].at
      /\ store'[s].jobs = Append(store[s].jobs, job)
      /\ \A t \in Store \ {s} : store'[t] = store[t]
      /\ \A f \in Entry \ {e} : add'[f] = add[f]
  BY <1>1 DEF StateOk, StoreState, AddState
<1>6. e \notin Uncounted
  BY <1>1 DEF Uncounted
<1>7. Rowed \subseteq Rowed'
  <2>1. \A f \in Rowed : f \in Uncounted' /\ f # e
    BY <1>5, <1>6 DEF Rowed, Uncounted
  <2> QED
    BY <1>2, <1>4, <1>5, <2>1, RowedMore
<1>8. Window'
  BY <1>1, <1>5, <1>7, QuietWindow DEF Stay, Usable
<1> QED
  BY <1>1, <1>8, SettledKept

LEMMA CancelAddWindow ==
  ASSUME RInv, IInv', NEW s \in Store, NEW e \in Entry, CancelAdd(s, e) PROVE Settled' /\ Window'
<1> DEFINE jobs == Forsaken(store[s].jobs, e)
<1>1. /\ StateOk /\ JobsOk /\ Settled /\ UNCHANGED <<file, draft, writer>>
      /\ add' = [add EXCEPT ![e].pc = "cancelled", ![e].id = 0]
      /\ store' = [store EXCEPT ![s].jobs = jobs]
  BY DEF RInv, IInv, CancelAdd, Forsaken, StateOk
<1>2. \A j \in Queued(jobs) : \E k \in Queued(store[s].jobs) : k.of = j.of /\ k.kind = j.kind
  <2>1. store[s].jobs \in Seq(Job) /\ Distinct(store[s].jobs)
    BY <1>1 DEF StateOk, StoreState, JobsOk, StoreJobsOk
  <2> QED
    BY <2>1, QueueForsaken
<1> HIDE DEF jobs
<1>3. /\ \A t \in Store : store'[t].inserts = store[t].inserts /\ store'[t].at = store[t].at
      /\ store'[s].jobs = jobs
      /\ \A t \in Store \ {s} : store'[t] = store[t]
      /\ \A f \in Entry \ {e} : add'[f] = add[f]
      /\ add'[e].pc = "cancelled"
  BY <1>1 DEF StateOk, StoreState, AddState
<1>4. Rowed \subseteq Rowed'
  <2>1. \A f \in Rowed : f \in Uncounted'
    BY <1>3 DEF Rowed, Uncounted
  <2> QED
    BY <1>2, <1>3, <2>1, RowedMore
<1>5. Window'
  BY <1>1, <1>3, <1>4, QuietWindow DEF Stay, Usable
<1> QED
  BY <1>1, <1>5, SettledKept

LEMMA TrimKeepsWindow ==
  ASSUME RInv, IInv', NEW s \in Store, NEW e \in Entry, Trim(s, e) PROVE Settled' /\ Window'
<1>1. /\ FileOk /\ Settled /\ Changes(s, Trimmed(Seen(s)))
  BY DEF RInv, IInv, Trim
<1>2. TableOk(Seen(s)) /\ draft' = Trimmed(Seen(s))
  BY <1>1, SeenOk DEF Changes
<1> QED
  BY <1>1, <1>2, TrimWindow, SettledKept

LEMMA CommitWindow ==
  ASSUME RInv, IInv', NEW s \in Store, NEW e \in Entry, Commit(s, e) PROVE Settled' /\ Window'
<1>1. Settled /\ Does(s, "commit", e) /\ Commits(s) /\ draft' = draft /\ Ends(s, e, "returned")
  BY DEF RInv, Commit, Commits
<1>2. Window'
  BY <1>1, EndsWindow
<1> QED
  BY <1>1, <1>2, SettledKept

LEMMA JobFailsWindow ==
  ASSUME RInv, IInv', NEW s \in Store, NEW e \in Entry, JobFails(s, e) PROVE Settled' /\ Window'
<1>1. /\ Settled /\ store[s].jobs # <<>> /\ Head(store[s].jobs).of = e
      /\ Ends(s, e, "failed") /\ UNCHANGED <<file, draft, writer>>
  BY DEF RInv, JobFails, Does
<1>2. PICK kind : kind = Head(store[s].jobs).kind
  OBVIOUS
<1>3. Does(s, kind, e)
  BY <1>1, <1>2 DEF Does
<1>4. Window'
  BY <1>1, <1>3, EndsWindow
<1> QED
  BY <1>1, <1>4, SettledKept

LEMMA CloseWindow ==
  ASSUME RInv, IInv', NEW s \in Store, Close(s) PROVE Settled' /\ Window'
<1> PICK kind \in {"trim", "close"} : kind = IF store[s].inserts > 0 THEN "trim" ELSE "close"
  OBVIOUS
<1> DEFINE job == NewJob(kind, Nobody)
<1>1. /\ StateOk /\ JobsOk /\ Settled /\ store[s].at = "open"
      /\ UNCHANGED <<file, draft, writer, add>>
      /\ store' = [store EXCEPT ![s].at = "closing", ![s].jobs = Append(store[s].jobs, job)]
  BY DEF RInv, IInv, Close, StateOk
<1>2. job \in Job /\ job.of = Nobody /\ job.kind # "insert" /\ store[s].jobs \in Seq(Job)
  BY <1>1 DEF NewJob, Job, StateOk, StoreState
<1> HIDE DEF job
<1>3. Distinct(store[s].jobs) /\ \A j \in Queued(store[s].jobs) : j.of # Nobody
  BY <1>1 DEF JobsOk, StoreJobsOk, Fits
<1>4. \A j \in Queued(Append(store[s].jobs, job)) : j \in Queued(store[s].jobs) \/ j = job
  BY <1>2, <1>3, QueueAppend
<1>5. /\ \A t \in Store : store'[t].inserts = store[t].inserts
      /\ store'[s].jobs = Append(store[s].jobs, job) /\ store'[s].at = "closing"
      /\ \A t \in Store \ {s} : store'[t] = store[t]
  BY <1>1 DEF StateOk, StoreState
<1>6. Stay
  BY <1>1, <1>5 DEF Stay, Usable
<1>7. Rowed \subseteq Rowed'
  <2>1. \A f \in Rowed : f \in Uncounted'
    BY <1>1 DEF Rowed, Uncounted
  <2> QED
    BY <1>2, <1>4, <1>5, <2>1, RowedMore
<1>8. Window'
  BY <1>1, <1>5, <1>6, <1>7, QuietWindow
<1> QED
  BY <1>1, <1>8, SettledKept

\* close() goes on with its next job, and has not touched the table.
LEMMA ClosingWindow ==
  ASSUME RInv, IInv', NEW s \in Store, NEW kind, NEW later \in {"commit", "close"},
         Does(s, kind, Nobody), ClosingJob(s, later), draft' = draft
  PROVE  Window'
<1> DEFINE rest == Tail(store[s].jobs)
           job == NewJob(later, Nobody)
<1>1. /\ StateOk /\ JobsOk /\ add' = add
      /\ store' = [store EXCEPT ![s].jobs = Append(rest, job)]
  BY DEF RInv, IInv, ClosingJob, StateOk
<1>2. /\ rest \in Seq(Job) /\ Distinct(rest) /\ \A j \in Queued(rest) : j.of # Nobody
  BY <1>1, HeadJob DEF Does
<1>3. \A j \in Queued(rest) : j \in Queued(store[s].jobs)
  BY <1>1, QueueTail DEF Does, JobsOk, StoreJobsOk, StateOk, StoreState
<1>4. job \in Job /\ job.of = Nobody /\ job.kind # "insert"
  BY DEF NewJob, Job
<1> HIDE DEF rest, job
<1>5. \A j \in Queued(Append(rest, job)) : j \in Queued(store[s].jobs) \/ j = job
  BY <1>2, <1>3, <1>4, QueueAppend
<1>6. /\ \A t \in Store : store'[t].inserts = store[t].inserts /\ store'[t].at = store[t].at
      /\ store'[s].jobs = Append(rest, job)
      /\ \A t \in Store \ {s} : store'[t] = store[t]
  BY <1>1 DEF StateOk, StoreState
<1>7. Rowed \subseteq Rowed'
  <2>1. \A f \in Rowed : f \in Uncounted'
    BY <1>1 DEF Rowed, Uncounted
  <2> QED
    BY <1>4, <1>5, <1>6, <2>1, RowedMore
<1> QED
  BY <1>6, <1>7, QuietWindow DEF Stay, Usable

LEMMA CloseTrimsWindow ==
  ASSUME RInv, IInv', NEW s \in Store, CloseTrims(s) PROVE Settled' /\ Window'
<1>1. FileOk /\ Settled /\ Does(s, "trim", Nobody)
  BY DEF RInv, IInv, CloseTrims
<1>2. CASE Changes(s, Trimmed(Seen(s)))
  <2>1. TableOk(Seen(s)) /\ draft' = Trimmed(Seen(s))
    BY <1>1, <1>2, SeenOk DEF Changes
  <2> QED
    BY <1>1, <1>2, <2>1, TrimWindow, SettledKept
<1>3. CASE ClosingJob(s, "close") /\ UNCHANGED <<file, draft, writer>>
  <2>1. Window'
    BY <1>1, <1>3, ClosingWindow
  <2> QED
    BY <1>1, <1>3, <2>1, SettledKept
<1> QED
  BY <1>2, <1>3 DEF CloseTrims

LEMMA CloseCommitsWindow ==
  ASSUME RInv, IInv', NEW s \in Store, CloseCommits(s) PROVE Settled' /\ Window'
<1>1. /\ Settled /\ Does(s, "commit", Nobody) /\ Commits(s) /\ draft' = draft
      /\ ClosingJob(s, "close")
  BY DEF RInv, CloseCommits, Commits
<1>2. Window'
  BY <1>1, ClosingWindow
<1> QED
  BY <1>1, <1>2, SettledKept

\* After a store is gone the file is as it may be: the next open() trims it.
LEMMA GoneWindow ==
  ASSUME RInv, NEW s \in Store, CloseConnection(s) \/ Crash(s) PROVE Settled' /\ Window'
<1>1. Settled /\ RollsBack(s) /\ store'[s].at \in {"closed", "crashed"}
  BY DEF RInv, IInv, StateOk, StoreState, CloseConnection, Crash
<1>2. ~InUse'
  BY <1>1 DEF InUse
<1>3. Settled'
  BY <1>1, SettledKept
<1> QED
  BY <1>2, <1>3 DEF Window

LEMMA NextRInv ==
  ASSUME RInv, Next PROVE RInv'
<1>1. IInv'
  BY NextOutcome DEF RInv
<1>2. PICK s \in Store :
        \/ Open(s) \/ OpenBusy(s) \/ Thread(s) \/ Close(s) \/ Crash(s)
        \/ \E e \in Entry : Add(s, e) \/ CancelAdd(s, e)
  BY DEF Next
<1>3. CASE Open(s) \/ OpenBusy(s) \/ Close(s) \/ Crash(s)
  BY <1>1, <1>3, OpenWindow, OpenBusyWindow, CloseWindow, GoneWindow DEF RInv
<1>4. CASE \E e \in Entry : Add(s, e) \/ CancelAdd(s, e)
  BY <1>1, <1>4, AddWindow, CancelAddWindow DEF RInv
<1>5. CASE Thread(s)
  <2>1. CASE CloseTrims(s) \/ CloseCommits(s) \/ CloseConnection(s)
    BY <1>1, <2>1, CloseTrimsWindow, CloseCommitsWindow, GoneWindow DEF RInv
  <2>2. ASSUME NEW e \in Entry,
               Insert(s, e) \/ Count(s, e) \/ Trim(s, e) \/ Commit(s, e) \/ JobFails(s, e)
        PROVE  Settled' /\ Window'
    <3>1. CASE Insert(s, e)
      <4>1. Settled'
        BY <3>1, SettledKept DEF Insert, RInv
      <4> QED
        BY <1>1, <3>1, <4>1, InsertWindow
    <3>2. CASE Count(s, e)
      <4>1. Settled'
        BY <3>2, SettledKept DEF Count, RInv
      <4> QED
        BY <1>1, <3>2, <4>1, CountWindow
    <3> QED
      BY <1>1, <2>2, <3>1, <3>2, TrimKeepsWindow, CommitWindow, JobFailsWindow
  <2> QED
    BY <1>1, <1>5, <2>1, <2>2 DEF Thread, RInv
<1> QED
  BY <1>2, <1>3, <1>4, <1>5

\* As long as no store is closed or dies, the table as it will be committed has no more
\* rows than the window, the inserts counted since a trim, and the calls that were broken
\* off before they counted theirs, however the stores and cancellations interleave.
THEOREM RetentionKept ==
  Spec => []RetentionBound
<1>1. Init => RInv
  <2> SUFFICES ASSUME Init PROVE RInv
    OBVIOUS
  <2>1. \A s \in Store : store[s].at = "new"
    BY DEF Init
  <2>2. Window
    BY <2>1 DEF Window, InUse, Usable
  <2> QED
    BY <2>2, InitIInv DEF RInv, Settled, Init
<1>2. ASSUME RInv, UNCHANGED vars PROVE RInv'
  BY <1>2 DEF RInv, Settled, Window, InUse, Counted, Rowed, Uncounted, Inserting, IInv, StateOk,
              FileOk, JobsOk, StoreJobsOk, Fits, IdsOk, Returned, Live, Given, Safe, Alike, BegunOk,
              Usable, vars
<1>3. RInv => RetentionBound
  <2> SUFFICES ASSUME RInv, InUse
               PROVE  Cardinality(draft.rows) <= MaxEntries + Counted + Cardinality(Uncounted)
    BY DEF RetentionBound, InUse
  <2>1. /\ IsFiniteSet(Uncounted) /\ Cardinality(Uncounted) \in Nat
        /\ Cardinality(Rowed) \in Nat /\ Cardinality(Rowed) <= Cardinality(Uncounted)
    <3>1. Uncounted \in SUBSET Entry /\ Rowed \in SUBSET Uncounted
      BY DEF Uncounted, Rowed
    <3>2. IsFiniteSet(Uncounted)
      BY <3>1, StoreAssumption, FS_Subset
    <3> QED
      BY <3>1, <3>2, FS_Subset, FS_CardinalityType
  <2>2. /\ Cardinality(draft.rows) \in Nat /\ MaxEntries \in Nat /\ Counted \in Nat
        /\ Cardinality(draft.rows) <= MaxEntries + Counted + Cardinality(Rowed)
    BY RowsFinite, CountsFinite, MaxAssumption DEF RInv, IInv, FileOk, Window
  <2> QED
    BY <2>1, <2>2
<1> QED
  BY <1>1, <1>2, <1>3, NextRInv, PTL DEF Spec
==============================================================================
