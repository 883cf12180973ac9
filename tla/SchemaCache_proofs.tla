-------------------------- MODULE SchemaCache_proofs --------------------------
(***************************************************************************)
(* Proofs about SchemaCache for every set of objects, queries and readers, *)
(* every number of batches and of changes and all four adapters: type      *)
(* correctness, with the connection in the hands of one awaited job; that  *)
(* a DuckDB query reported to have succeeded has all of its rows; that the *)
(* cache and the tree say what the database does; and that the cache does  *)
(* not go back to an older view of it.                                     *)
(*                                                                         *)
(* The first invariant, IInv.  Serial: the pool leases its connection to   *)
(* one query at a time.  JobsOK: who awaits the last job of the connection *)
(* is where it waits for it, and an abandoned job belongs to a query that  *)
(* has ended.  QueriesOK: a query that is neither cancelled nor met by a   *)
(* reader owns the claim and the result set, and while it does nobody      *)
(* reads; that it has delivered everything when it says so follows.        *)
(*                                                                         *)
(* The second, EInv: what a call under way was told of an object that has  *)
(* not changed since is what it would be told now.  The third, NInv:       *)
(* whatever a call or the cache holds was read from the past of the        *)
(* database, and a call that is alone is not behind the cache.             *)
(*                                                                         *)
(* Steps of queries go through QueryStep, steps of readers through         *)
(* QuietStep, where the connection is left alone, or ReadServed; for the   *)
(* third invariant all steps of a call go through OneCall.                 *)
(***************************************************************************)
EXTENDS SchemaCache, Catalogs_proofs, FiniteSetTheorems, SequenceTheorems, TLAPS

DuckState == [streaming : Query \cup {Nobody}, flags : SUBSET Query, jobs : Seq(Job),
              result : Query \cup {Nobody}]

Kinds == {"table", "view", "materialized_view"}

\* The fields of a call.
Whole(k) ==
  DOMAIN k = {"pc", "op", "obj", "todo", "at", "kinds", "answers", "detached", "met", "crossed"}

CallType(k) ==
  /\ Whole(k)
  /\ k.pc \in {"idle", "waiting", "reading", "read", "over"}
  /\ k.op \in Op /\ k.todo \subseteq Part \cup {"list"}
  /\ k.at \in 0..(Changes + 1)
  /\ DOMAIN k.answers = Part
  /\ DOMAIN k.kinds \subseteq Name /\ \A o \in DOMAIN k.kinds : k.kinds[o] \in Kinds
  /\ k.met \subseteq Name /\ k.crossed \subseteq Reader
  /\ k.pc \in {"idle", "read"} => k.todo = {}

IsObject(x) ==
  x.kind \in Kinds /\ DOMAIN x = {"kind", "cols", "fks", "idx"}

IsCache(k) ==
  /\ DOMAIN k = {"at", "lazy", "objects"}
  /\ k.at \in 0..(Changes + 1) /\ k.lazy \in BOOLEAN
  /\ \A o \in DOMAIN k.objects : IsObject(k.objects[o])

IsTree(t) == DOMAIN t \subseteq Name /\ \A o \in DOMAIN t : IsObject(t[o].object)

Types ==
  /\ adapter \in Adapter /\ changes \in 0..Changes
  /\ DOMAIN db \subseteq Name /\ \A o \in DOMAIN db : db[o] \in Entry
  /\ duck \in DuckState /\ q \in [Query -> QueryState]
  /\ IsCache(cache) /\ IsTree(tree)
  /\ call = [c \in Reader |-> call[c]] /\ \A c \in Reader : CallType(call[c])

-----------------------------------------------------------------------------
(* The queries of DuckDB *)

\* A query whose result set can be read.
Live(query) == query.pc \in {"returned", "describing", "fetching", "holding"}

\* Leases follow one another.
Serial(qq) == \A r, s \in Query : s < r /\ qq[r].pc # "new" => qq[s].pc = "released"

\* Where a query is that awaits a job.
Waits(query, does) ==
  \/ does = "execute" /\ query.pc = "executing"
  \/ does = "describe" /\ query.pc = "describing"
  \/ does = "fetch" /\ query.pc = "fetching"
  \/ does = "rollback" /\ query.pc = "resetting"

\* Nobody queues behind an awaited job; an abandoned one is of a query that has ended,
\* and a reader awaits what it has still to read.
JobOK(qq, k, jobs, i) ==
  LET job == jobs[i] IN
  /\ job.awaited => i = Len(jobs)
  /\ job.of \in Query =>
       IF job.awaited THEN Waits(qq[job.of], job.does) ELSE qq[job.of].pc \in {"ended", "resetting"}
  /\ job.of \in Reader => job.awaited /\ job.does \in k[job.of].todo
JobsOK(qq, k, jobs) == \A i \in 1..Len(jobs) : JobOK(qq, k, jobs, i)

\* All the rows have been delivered, or the claim was met by a reader.
Done(query) == query.got = Batches \/ query.met \/ query.stmt = "ddl"

\* A live query is flagged once it is cancelled; else it holds the claim, and, unless a
\* reader met it, the result set, and nobody reads.  Its fetch, too, is the first job.
QueryOK(query, r, d, reading) ==
  /\ query.pc \in {"new", "executing", "released"} =>
       ~query.cancel /\ ~query.last /\ query.status = "running"
  /\ Live(query) =>
       /\ query.cancel => r \in d.flags
       /\ ~query.cancel => d.streaming = r
       /\ ~query.cancel /\ ~query.met => d.result = r /\ ~reading
       /\ query.pc = "fetching" /\ ~query.met =>
            d.result = r /\ d.jobs # <<>> /\ d.jobs[1].of = r
  /\ query.last \/ query.status = "succeeded" => Done(query)
QueriesOK(qq, d, reading) == \A r \in Query : QueryOK(qq[r], r, d, reading)

\* Only DuckDB's queries are modelled.
NotDuck == adapter # "duckdb" => duck.jobs = <<>> /\ \A r \in Query : q[r].pc = "new"

IInv ==
  /\ Types /\ Serial(q) /\ NotDuck
  /\ JobsOK(q, call, duck.jobs) /\ QueriesOK(q, duck, Reading)

-----------------------------------------------------------------------------
(* The jobs of the connection *)

\* A job put behind others that nobody awaits.
LEMMA JobsAppended ==
  ASSUME NEW qq \in [Query -> QueryState], NEW k, NEW jobs \in Seq(Job), JobsOK(qq, k, jobs),
         \A i \in 1..Len(jobs) : ~jobs[i].awaited,
         NEW job \in Job, job.awaited,
         job.of \in Query => Waits(qq[job.of], job.does),
         job.of \in Reader => job.does \in k[job.of].todo
  PROVE  JobsOK(qq, k, Append(jobs, job)) /\ Append(jobs, job) \in Seq(Job)
<1> DEFINE longer == Append(jobs, job)
           n == Len(jobs) + 1
<1>1. /\ Len(longer) = n /\ longer[n] = job /\ \A i \in 1..Len(jobs) : longer[i] = jobs[i]
      /\ longer \in Seq(Job)
  OBVIOUS
<1> HIDE DEF longer
<1>2. ASSUME NEW i \in 1..Len(jobs) PROVE JobOK(qq, k, longer, i)
  <2>1. JobOK(qq, k, jobs, i) /\ longer[i] = jobs[i] /\ ~jobs[i].awaited
    BY <1>1 DEF JobsOK
  <2> QED BY <2>1 DEF JobOK
<1>3. JobOK(qq, k, longer, n)
  BY <1>1 DEF JobOK
<1>4. \A i \in 1..Len(longer) : i \in 1..Len(jobs) \/ i = n
  BY <1>1
<1> QED BY <1>1, <1>2, <1>3, <1>4 DEF JobsOK, longer

\* An awaited job that is served was the only one.
LEMMA JobsServed ==
  ASSUME NEW qq, NEW k, NEW jobs \in Seq(Job), JobsOK(qq, k, jobs), jobs # <<>>
  PROVE  /\ JobsOK(qq, k, Tail(jobs)) /\ Tail(jobs) \in Seq(Job)
         /\ jobs[1].awaited => Tail(jobs) = <<>> /\ Len(jobs) = 1
<1> DEFINE rest == Tail(jobs)
           n == Len(jobs)
<1>1. /\ rest \in Seq(Job) /\ n \in Nat /\ n >= 1 /\ Len(rest) = n - 1
      /\ \A i \in 1..(n - 1) : rest[i] = jobs[i + 1] /\ i + 1 \in 1..n
  OBVIOUS
<1> HIDE DEF rest
<1>2. ASSUME NEW i \in 1..Len(rest) PROVE JobOK(qq, k, rest, i)
  <2>1. i \in Nat /\ (i + 1 = n => i = Len(rest)) /\ i + 1 \in 1..n /\ rest[i] = jobs[i + 1]
    BY <1>1
  <2>2. JobOK(qq, k, jobs, i + 1)
    BY <2>1 DEF JobsOK
  <2> QED BY <2>1, <2>2 DEF JobOK
<1>3. ASSUME jobs[1].awaited PROVE rest = <<>> /\ n = 1
  <2>1. JobOK(qq, k, jobs, 1)
    BY <1>1 DEF JobsOK
  <2>2. n = 1 /\ Len(rest) = 0
    BY <1>1, <1>3, <2>1 DEF JobOK
  <2>3. rest = <<>>
    BY <1>1, <2>2, EmptySeq, Zenon
  <2> QED BY <2>2, <2>3
<1> QED BY <1>1, <1>2, <1>3 DEF JobsOK, rest

\* A query that moves on without leaving a job of its own behind.
LEMMA JobsKept ==
  ASSUME NEW qq \in [Query -> QueryState], NEW r \in Query, NEW u \in QueryState,
         NEW k, NEW jobs \in Seq(Job), JobsOK(qq, k, jobs),
         \A i \in 1..Len(jobs) : jobs[i].of = r =>
           IF jobs[i].awaited THEN Waits(u, jobs[i].does) ELSE u.pc \in {"ended", "resetting"}
  PROVE  JobsOK([qq EXCEPT ![r] = u], k, jobs)
<1> SUFFICES ASSUME NEW i \in 1..Len(jobs) PROVE JobOK([qq EXCEPT ![r] = u], k, jobs, i)
  BY DEF JobsOK
<1>1. JobOK(qq, k, jobs, i)
  BY DEF JobsOK
<1>2. CASE jobs[i].of = r
  BY <1>1, <1>2 DEF JobOK
<1>3. CASE jobs[i].of # r
  BY <1>1, <1>3 DEF JobOK
<1> QED BY <1>2, <1>3

\* Nothing is in the thread.
LEMMA NobodyJobs == ASSUME NEW qq, NEW k PROVE JobsOK(qq, k, <<>>)
BY DEF JobsOK

\* The jobs of r when its task is cancelled.
Left(jobs, r) ==
  [i \in 1..Len(jobs) |-> IF jobs[i].of = r THEN [jobs[i] EXCEPT !.awaited = FALSE] ELSE jobs[i]]

\* They are left in the thread, with nobody who awaits them.
LEMMA JobsDeserted ==
  ASSUME NEW qq \in [Query -> QueryState], NEW r \in Query, NEW u \in QueryState, u.pc = "ended",
         NEW k, NEW jobs \in Seq(Job), JobsOK(qq, k, jobs)
  PROVE  JobsOK([qq EXCEPT ![r] = u], k, Left(jobs, r)) /\ Left(jobs, r) \in Seq(Job)
<1> DEFINE left == Left(jobs, r)
<1>0. left = [i \in 1..Len(jobs) |->
               IF jobs[i].of = r THEN [jobs[i] EXCEPT !.awaited = FALSE] ELSE jobs[i]]
  BY DEF Left
<1> HIDE DEF left
<1>1. \A i \in 1..Len(jobs) : jobs[i] \in Job /\ [jobs[i] EXCEPT !.awaited = FALSE] \in Job
  <2> TAKE i \in 1..Len(jobs)
  <2>1. jobs[i] \in Job
    OBVIOUS
  <2> QED BY <2>1 DEF Job
<1>2. Len(jobs) \in Nat /\ \A i \in 1..Len(jobs) : left[i] \in Job
  BY <1>0, <1>1
<1>3. left \in Seq(Job) /\ Len(left) = Len(jobs)
  BY <1>0, <1>2
<1> SUFFICES ASSUME NEW i \in 1..Len(left) PROVE JobOK([qq EXCEPT ![r] = u], k, left, i)
  BY <1>3 DEF JobsOK, left
<1>4. JobOK(qq, k, jobs, i) /\ i \in 1..Len(jobs) /\ jobs[i] \in Job
  BY <1>1, <1>3 DEF JobsOK
<1>5. CASE jobs[i].of = r
  <2>1. /\ left[i] = [jobs[i] EXCEPT !.awaited = FALSE]
        /\ left[i].of = r /\ left[i].does = jobs[i].does /\ ~left[i].awaited
    BY <1>0, <1>4, <1>5 DEF Job
  <2>2. r \notin Reader
    BY NobodyAssumption
  <2> QED BY <1>4, <1>5, <2>1, <2>2 DEF JobOK
<1>6. CASE jobs[i].of # r
  <2>1. left[i] = jobs[i]
    BY <1>0, <1>4, <1>6
  <2>2. left[i].of \in Query => [qq EXCEPT ![r] = u][left[i].of] = qq[left[i].of]
    BY <1>6, <2>1
  <2> QED BY <1>3, <1>4, <2>1, <2>2 DEF JobOK
<1> QED BY <1>5, <1>6

-----------------------------------------------------------------------------
(* A step of the query in lease *)

\* The connection is leased to r, or to be leased to it next.
Leased(r) == /\ adapter = "duckdb" /\ q[r].pc # "released"
             /\ \A s \in Query : s < r => q[s].pc = "released"

\* Whoever is in the middle of its query has the lease.
LEMMA Holder ==
  ASSUME IInv, NEW r \in Query, q[r].pc \notin {"new", "released"} PROVE Leased(r)
BY DEF IInv, NotDuck, Serial, Leased

\* What the invariant says of one query, by name.
LEMMA Held ==
  ASSUME IInv, NEW r \in Query
  PROVE  /\ q \in [Query -> QueryState] /\ q[r] \in QueryState /\ duck \in DuckState
         /\ duck.jobs \in Seq(Job) /\ JobsOK(q, call, duck.jobs) /\ QueryOK(q[r], r, duck, Reading)
         /\ \A i \in 1..Len(duck.jobs) : JobOK(q, call, duck.jobs, i) /\ duck.jobs[i] \in Job
<1>1. q \in [Query -> QueryState] /\ duck \in DuckState
  BY DEF IInv, Types
<1>2. q[r] \in QueryState /\ duck.jobs \in Seq(Job)
  BY <1>1 DEF DuckState
<1>3. JobsOK(q, call, duck.jobs) /\ QueryOK(q[r], r, duck, Reading)
  BY DEF IInv, QueriesOK
<1>4. \A i \in 1..Len(duck.jobs) : JobOK(q, call, duck.jobs, i)
  BY <1>3 DEF JobsOK
<1>5. \A i \in 1..Len(duck.jobs) : duck.jobs[i] \in Job
  BY <1>2
<1> QED BY <1>1, <1>2, <1>3, <1>4, <1>5

\* The thread serves nobody but the query in lease, and those who read.
LEMMA OwnJobs ==
  ASSUME IInv, NEW r \in Query, q[r].pc \notin {"released"},
         \A s \in Query : s < r => q[s].pc = "released",
         NEW i \in 1..Len(duck.jobs), duck.jobs[i].of \in Query
  PROVE  duck.jobs[i].of = r
<1> DEFINE s == duck.jobs[i].of
<1>1. JobOK(q, call, duck.jobs, i)
  BY Held
<1>2. q[s].pc \notin {"new", "released"}
  BY <1>1 DEF JobOK, Waits
<1>3. ~(s < r) /\ ~(r < s)
  BY <1>2 DEF IInv, Serial
<1>4. s \in Nat /\ r \in Nat
  BY QueryAssumption
<1> QED BY <1>3, <1>4

\* A call that notes which objects changed is a call as before, ...
LEMMA NotedCall ==
  ASSUME NEW k, CallType(k), NEW objects \in SUBSET Name
  PROVE  LET n == [k EXCEPT !.met = k.met \cup objects]
         IN  CallType(n) /\ n.todo = k.todo
<1> DEFINE n == [k EXCEPT !.met = k.met \cup objects]
<1>1. Whole(k)
  BY DEF CallType
<1>2. Whole(n)
  <2>1. \A x : Whole([k EXCEPT !.met = x])
    BY <1>1 DEF Whole
  <2> QED BY <2>1
<1>3. n.pc = k.pc /\ n.op = k.op /\ n.todo = k.todo /\ n.at = k.at
  BY <1>1 DEF Whole
<1>4. n.kinds = k.kinds /\ n.answers = k.answers /\ n.crossed = k.crossed
      /\ n.met = k.met \cup objects
  BY <1>1 DEF Whole
<1> HIDE DEF n
<1>5. CallType(n)
  BY <1>2, <1>3, <1>4 DEF CallType
<1> QED BY <1>3, <1>5 DEF n

\* ... and so are all of them.
LEMMA NoteTypes ==
  ASSUME Types, Noted, NEW c \in Reader
  PROVE  /\ call' = [d \in Reader |-> call'[d]] /\ CallType(call'[c])
         /\ call'[c].todo = call[c].todo
<1>1. call' = [d \in Reader |-> IF d \in UnderWay
                 THEN [call[d] EXCEPT !.met = call[d].met \cup Touched] ELSE call[d]]
  BY DEF Noted
<1>2. CallType(call[c]) /\ Touched \in SUBSET Name
  BY DEF Types, Touched
<1>3. CASE c \in UnderWay
  BY <1>1, <1>2, <1>3, NotedCall
<1>4. CASE c \notin UnderWay
  BY <1>1, <1>2, <1>4
<1> QED BY <1>3, <1>4

\* The objects of a database are entries of its catalog.
LEMMA ObjectEntries ==
  ASSUME adapter \in Adapter, NEW n \in Nat, n > 0 PROVE Object(n) \subseteq Entry
<1>1. Shape[adapter].table \in RawKind /\ Shape[adapter].view \in RawKind
  <2>1. CASE adapter = "sqlite"
    <3>1. Shape["sqlite"].table = "table" /\ Shape["sqlite"].view = "view"
      BY DEF Shape
    <3> QED BY <2>1, <3>1 DEF RawKind
  <2>2. CASE adapter = "postgres"
    <3>1. Shape["postgres"].table = "p" /\ Shape["postgres"].view = "m"
      BY DEF Shape
    <3> QED BY <2>2, <3>1 DEF RawKind
  <2>3. CASE adapter = "mysql"
    <3>1. Shape["mysql"].table = "BASE TABLE" /\ Shape["mysql"].view = "VIEW"
      BY DEF Shape
    <3> QED BY <2>3, <3>1 DEF RawKind
  <2>4. CASE adapter = "duckdb"
    <3>1. Shape["duckdb"].table = "BASE TABLE" /\ Shape["duckdb"].view = "VIEW"
      BY DEF Shape
    <3> QED BY <2>4, <3>1 DEF RawKind
  <2> QED BY <2>1, <2>2, <2>3, <2>4 DEF Adapter
<1>2. n \in Nat \ {None}
  BY DEF None
<1>3. ASSUME NEW raw \in RawKind, NEW index \in {"none", "plain", "expression"}
      PROVE  [raw |-> raw, hidden |-> FALSE, index |-> index, ver |-> n] \in Entry
  BY <1>2 DEF Entry
<1> HIDE DEF Shape
<1>4. ASSUME NEW entry \in Object(n) PROVE entry \in Entry
  BY <1>1, <1>3 DEF Object
<1> QED BY <1>4

\* A database that is altered is a database.
LEMMA DbTypes ==
  ASSUME Types, SameDb \/ Alters
  PROVE  changes' \in 0..Changes /\ DOMAIN db' \subseteq Name /\ \A o \in DOMAIN db' : db'[o] \in Entry
<1>0. changes \in 0..Changes /\ Changes \in Nat /\ DOMAIN db \subseteq Name
      /\ \A o \in DOMAIN db : db[o] \in Entry
  BY BoundsAssumption DEF Types
<1>1. CASE SameDb
  BY <1>0, <1>1 DEF SameDb
<1>2. CASE Alters
  <2>1. changes' \in 0..Changes
    BY <1>0, <1>2 DEF Alters
  <2>2. PICK o \in Name : \/ o \in DOMAIN db /\ db' = Without(o)
                          \/ \E entry \in Object(changes + 2) : db' = With(o, entry)
    BY <1>2 DEF Alters
  <2>3. CASE db' = Without(o)
    BY <1>0, <2>1, <2>3 DEF Without
  <2>4. ASSUME NEW entry \in Object(changes + 2), db' = With(o, entry)
        PROVE  DOMAIN db' \subseteq Name /\ \A p \in DOMAIN db' : db'[p] \in Entry
    <3>1. entry \in Entry
      BY <1>0, ObjectEntries DEF Types
    <3> QED BY <1>0, <2>4, <3>1 DEF With
  <2> QED BY <2>1, <2>2, <2>3, <2>4
<1> QED BY <1>1, <1>2

\* The jobs depend on the calls only for what these have still to read.
LEMMA JobsTodo ==
  ASSUME NEW qq, NEW k, NEW kk, NEW jobs, JobsOK(qq, k, jobs),
         \A i \in 1..Len(jobs) : jobs[i].of \in Reader /\ jobs[i].does \in k[jobs[i].of].todo =>
           jobs[i].does \in kk[jobs[i].of].todo
  PROVE  JobsOK(qq, kk, jobs)
BY DEF JobsOK, JobOK

\* Of a query that is not live the connection says nothing.
LEMMA QuietQuery ==
  ASSUME NEW query, NEW r, NEW d, NEW reading, QueryOK(query, r, d, reading), ~Live(query),
         NEW e, NEW others
  PROVE  QueryOK(query, r, e, others)
BY DEF QueryOK

\* A step of the query in lease, to the record u, that leaves the connection as d.
LEMMA QueryStep ==
  ASSUME IInv, NEW r \in Query, Leased(r), Noted, UNCHANGED <<adapter, cache, tree>>,
         SameDb \/ Alters, NEW u \in QueryState, NEW d \in DuckState,
         q' = [q EXCEPT ![r] = u], duck' = d,
         JobsOK([q EXCEPT ![r] = u], call, d.jobs), QueryOK(u, r, d, Reading)
  PROVE  IInv'
<1>0. q \in [Query -> QueryState] /\ \A s \in Query : QueryOK(q[s], s, duck, Reading)
  BY DEF IInv, Types, QueriesOK
<1>1. Types'
  <2>1. adapter \in Adapter /\ IsCache(cache) /\ IsTree(tree)
    BY DEF IInv, Types
  <2>2. IsCache(cache') /\ IsTree(tree')
    BY <2>1
  <2>3. changes' \in 0..Changes /\ DOMAIN db' \subseteq Name /\ \A o \in DOMAIN db' : db'[o] \in Entry
    BY DbTypes DEF IInv
  <2>4. q' \in [Query -> QueryState] /\ duck' \in DuckState
    BY <1>0
  <2>5. call' = [c \in Reader |-> call'[c]] /\ \A c \in Reader : CallType(call'[c])
    <3>1. Types
      BY DEF IInv
    <3>2. \A c \in Reader : CallType(call'[c])
      BY <3>1, NoteTypes
    <3>3. call' = [c \in Reader |-> call'[c]]
      BY DEF Noted
    <3> QED BY <3>2, <3>3
  <2> QED BY <2>1, <2>2, <2>3, <2>4, <2>5 DEF Types, IsCache, IsTree, IsObject
<1>2. Serial(q')
  <2> SUFFICES ASSUME NEW x \in Query, NEW y \in Query, y < x, q'[x].pc # "new"
               PROVE  q'[y].pc = "released"
    BY DEF Serial
  <2>1. \A s \in Query : q'[s] = IF s = r THEN u ELSE q[s]
    BY <1>0
  <2>2. CASE x = r
    <3>1. y # r
      BY <2>2, QueryAssumption
    <3> QED BY <2>1, <2>2, <3>1 DEF Leased
  <2>3. CASE x # r
    <3>1. q[y].pc = "released"
      BY <2>1, <2>3 DEF IInv, Serial
    <3>2. y # r
      BY <3>1 DEF Leased
    <3> QED BY <2>1, <3>1, <3>2
  <2> QED BY <2>2, <2>3
<1>3. NotDuck'
  BY DEF Leased, NotDuck
<1>4. \A c \in Reader : call'[c].todo = call[c].todo
  BY NoteTypes DEF IInv
<1>5. JobsOK(q', call', d.jobs)
  BY <1>4, JobsTodo
<1>6. Reading' = Reading
  BY <1>4 DEF Reading
<1>7. QueriesOK(q', d, Reading)
  <2> SUFFICES ASSUME NEW s \in Query PROVE QueryOK(q'[s], s, d, Reading)
    BY DEF QueriesOK
  <2>1. CASE s = r
    BY <1>0, <2>1
  <2>2. CASE s # r
    <3>1. s < r \/ r < s
      BY <2>2, QueryAssumption
    <3>2. q[s].pc = "released" \/ q[s].pc = "new"
      BY <3>1 DEF Leased, IInv, Serial
    <3>3. ~Live(q[s]) /\ q'[s] = q[s]
      BY <1>0, <2>2, <3>2 DEF Live
    <3> QED BY <1>0, <3>3, QuietQuery
  <2> QED BY <2>1, <2>2
<1> QED BY <1>1, <1>2, <1>3, <1>5, <1>6, <1>7 DEF IInv, JobsOK, JobOK, Serial, QueriesOK

\* What a step of a query leaves to the calls.
Beside == Noted /\ UNCHANGED <<adapter, cache, tree>>

\* Of the query in lease there is no job in d.
Clear(r, d) ==
  /\ d \in DuckState
  /\ d.streaming = duck.streaming /\ d.flags = duck.flags /\ d.result = duck.result
  /\ JobsOK(q, call, d.jobs) /\ \A i \in 1..Len(d.jobs) : d.jobs[i].of # r

\* The first job is done.
LEMMA ServedIs ==
  ASSUME NEW d \in DuckState, d.jobs # <<>>
  PROVE  /\ Served(d) \in DuckState /\ Served(d).jobs = Tail(d.jobs)
         /\ Served(d).streaming = d.streaming /\ Served(d).flags = d.flags
         /\ Served(d).result = d.result
<1>1. d.jobs \in Seq(Job)
  BY DEF DuckState
<1>2. Tail(d.jobs) \in Seq(Job)
  BY <1>1, HeadTailProperties
<1> QED BY <1>2 DEF Served, DuckState

\* When a job that is awaited has run, the thread is idle and its query in lease.
LEMMA ClearServed ==
  ASSUME IInv, NEW r \in Query, NEW does, Runs(r, does)
  PROVE  /\ Clear(r, Served(duck)) /\ Served(duck).jobs = <<>>
         /\ Leased(r) /\ Waits(q[r], does) /\ duck.jobs # <<>> /\ duck.jobs[1].of = r
<1>1. /\ duck \in DuckState /\ JobsOK(q, call, duck.jobs) /\ duck.jobs \in Seq(Job)
      /\ duck.jobs # <<>> /\ duck.jobs[1].awaited /\ duck.jobs[1].of = r /\ duck.jobs[1].does = does
  BY Held DEF Runs
<1>2. Tail(duck.jobs) = <<>>
  BY <1>1, JobsServed
<1>3. 1 \in 1..Len(duck.jobs)
  BY <1>1
<1>4. Waits(q[r], does)
  BY <1>1, <1>3, Held DEF JobOK
<1>5. Leased(r)
  BY <1>4, Holder DEF Waits
<1>6. JobsOK(q, call, <<>>) /\ Served(duck).jobs = <<>>
  BY <1>1, <1>2, ServedIs, NobodyJobs
<1>7. \A i \in 1..Len(Served(duck).jobs) : FALSE
  BY <1>6
<1> QED BY <1>1, <1>4, <1>5, <1>6, <1>7, ServedIs DEF Clear

\* Between its fetches a query has no job.
LEMMA ClearHeld ==
  ASSUME IInv, NEW r \in Query, q[r].pc \in {"new", "returned", "holding"} PROVE Clear(r, duck)
<1>1. \A i \in 1..Len(duck.jobs) : JobOK(q, call, duck.jobs, i)
  BY Held
<1>2. \A i \in 1..Len(duck.jobs) : duck.jobs[i].of # r
  BY <1>1 DEF JobOK, Waits
<1> QED BY <1>2, Held DEF Clear

\* A query without a job may move on.
LEMMA ClearMove ==
  ASSUME IInv, NEW r \in Query, NEW d, Clear(r, d), NEW u \in QueryState
  PROVE  JobsOK([q EXCEPT ![r] = u], call, d.jobs)
<1>1. d.jobs \in Seq(Job) /\ q \in [Query -> QueryState]
  BY Held DEF Clear, DuckState
<1> QED BY <1>1, JobsKept DEF Clear

\* When the query in lease has no job and _lock is free, the thread is idle.
LEMMA ClearEmpty ==
  ASSUME IInv, NEW r \in Query, Leased(r), q[r].pc # "new", NEW d, Clear(r, d), ~Locked(d)
  PROVE  d.jobs = <<>>
<1>1. d.jobs \in Seq(Job) /\ \A i \in 1..Len(d.jobs) : JobOK(q, call, d.jobs, i)
  BY DEF Clear, DuckState, JobsOK
<1>2. ASSUME NEW i \in 1..Len(d.jobs) PROVE FALSE
  <2>1. d.jobs[i] \in Job /\ ~d.jobs[i].awaited /\ d.jobs[i].of # r
    BY <1>1 DEF Locked, Clear
  <2>2. PICK s \in Query : s = d.jobs[i].of
    BY <1>1, <2>1 DEF Job, JobOK
  <2>3. q[s].pc \in {"ended", "resetting"} /\ s # r
    BY <1>1, <2>1, <2>2 DEF JobOK
  <2>4. s < r \/ r < s
    BY <2>3, QueryAssumption
  <2> QED BY <2>3, <2>4 DEF IInv, Serial, Leased
<1>3. Len(d.jobs) = 0
  BY <1>1, <1>2
<1> QED BY <1>1, <1>3, EmptySeq

\* What the generator's finally leaves of the connection.
LEMMA ForgottenIs ==
  ASSUME NEW d \in DuckState, NEW r
  PROVE  Forgotten(d, r) \in DuckState /\ Forgotten(d, r).jobs = d.jobs
BY DEF Forgotten, DuckState

\* The generator ends: its query is over with a status, ...
LEMMA EndsGood ==
  ASSUME IInv, NEW r \in Query, Leased(r), Beside, NEW d \in DuckState,
         \A u \in QueryState : u.pc = "ended" => JobsOK([q EXCEPT ![r] = u], call, d.jobs),
         NEW status \in {"running", "succeeded", "cancelled", "failed"}, EndsAs(r, status, d),
         status = "succeeded" => Done(q[r])
  PROVE  IInv'
<1> DEFINE u == [At(r, "ended") EXCEPT !.status = status]
           e == Forgotten(d, r)
<1>1. q[r] \in QueryState /\ QueryOK(q[r], r, duck, Reading) /\ q \in [Query -> QueryState]
  BY Held
<1>2. /\ u \in QueryState /\ u.pc = "ended" /\ u.status = status /\ u.last = q[r].last
      /\ u.got = q[r].got /\ u.met = q[r].met /\ u.stmt = q[r].stmt
  BY <1>1 DEF At, QueryState
<1>3. q' = [q EXCEPT ![r] = u] /\ duck' = e /\ SameDb
  BY DEF EndsAs, Goes
<1>4. e \in DuckState /\ e.jobs = d.jobs
  BY ForgottenIs
<1> HIDE DEF u, e
<1>5. QueryOK(u, r, e, Reading)
  BY <1>1, <1>2 DEF QueryOK, Done, Live
<1>6. JobsOK([q EXCEPT ![r] = u], call, e.jobs)
  BY <1>2, <1>4
<1> QED BY <1>2, <1>3, <1>4, <1>5, <1>6, QueryStep DEF Beside

\* ... in particular where it has no job left.
LEMMA EndsClear ==
  ASSUME IInv, NEW r \in Query, Leased(r), Beside, NEW d, Clear(r, d),
         NEW status \in {"running", "succeeded", "cancelled", "failed"}, EndsAs(r, status, d),
         status = "succeeded" => Done(q[r])
  PROVE  IInv'
<1>1. \A u \in QueryState : u.pc = "ended" => JobsOK([q EXCEPT ![r] = u], call, d.jobs)
  BY ClearMove
<1>2. d \in DuckState
  BY DEF Clear
<1> QED BY <1>1, <1>2, EndsGood

\* A job is put behind those that nobody awaits.
Sent(d, r, does) ==
  [d EXCEPT !.jobs = Append(d.jobs, [of |-> r, does |-> does, awaited |-> TRUE])]

\* It is the last of the jobs, whose query waits for it.
LEMMA SentIs ==
  ASSUME IInv, NEW r \in Query, NEW u \in QueryState, NEW d \in DuckState, ~Locked(d),
         JobsOK([q EXCEPT ![r] = u], call, d.jobs),
         NEW does \in {"execute", "describe", "fetch", "rollback"}, Waits(u, does)
  PROVE  /\ Sent(d, r, does) \in DuckState /\ Sent(d, r, does).streaming = d.streaming
         /\ Sent(d, r, does).flags = d.flags /\ Sent(d, r, does).result = d.result
         /\ Sent(d, r, does).jobs = Append(d.jobs, [of |-> r, does |-> does, awaited |-> TRUE])
         /\ JobsOK([q EXCEPT ![r] = u], call, Sent(d, r, does).jobs)
<1> DEFINE qq == [q EXCEPT ![r] = u]
           job == [of |-> r, does |-> does, awaited |-> TRUE]
           e == Sent(d, r, does)
<1>1. job \in Job /\ job.awaited /\ job.of = r /\ job.does = does /\ r \notin Reader
  BY NobodyAssumption DEF Job
<1>2. qq \in [Query -> QueryState] /\ qq[r] = u
  BY Held
<1>3. d.jobs \in Seq(Job) /\ \A i \in 1..Len(d.jobs) : ~d.jobs[i].awaited
  BY DEF DuckState, Locked
<1>4. JobsOK(qq, call, d.jobs)
  OBVIOUS
<1>5. job.of \in Query => Waits(qq[job.of], job.does)
  BY <1>1, <1>2
<1>6. job.of \in Reader => job.does \in call[job.of].todo
  BY <1>1
<1> HIDE DEF job, qq
<1>7. JobsOK(qq, call, Append(d.jobs, job)) /\ Append(d.jobs, job) \in Seq(Job)
  BY <1>1, <1>2, <1>3, <1>4, <1>5, <1>6, JobsAppended
<1>8. /\ e \in DuckState /\ e.streaming = d.streaming /\ e.flags = d.flags
      /\ e.result = d.result /\ e.jobs = Append(d.jobs, job)
  BY <1>7 DEF DuckState, Sent, job
<1> QED BY <1>7, <1>8 DEF job, qq

\* The last batch, after which the generator has only to be resumed.
LEMMA LastGood ==
  ASSUME IInv, NEW r \in Query, Leased(r), Beside, NEW d, Clear(r, d), Last(r, d), Live(q[r]),
         Done(q[r])
  PROVE  IInv'
<1>0. q[r] \in QueryState /\ QueryOK(q[r], r, duck, Reading) /\ q \in [Query -> QueryState]
  BY Held
<1>1. CASE q[r].cancel /\ EndsAs(r, "succeeded", d)
  BY <1>1, EndsClear
<1>2. CASE ~(q[r].cancel /\ EndsAs(r, "succeeded", d))
  <2> DEFINE u == [At(r, "holding") EXCEPT !.last = TRUE, !.status = "succeeded"]
  <2>1. ~q[r].cancel /\ duck' = d /\ SameDb /\ q' = [q EXCEPT ![r] = u]
    BY <1>2 DEF Last, Goes
  <2>2. /\ u \in QueryState /\ u.pc = "holding" /\ u.status = "succeeded" /\ u.last
        /\ u.got = q[r].got /\ u.met = q[r].met /\ u.stmt = q[r].stmt /\ u.cancel = q[r].cancel
    BY <1>0 DEF At, QueryState
  <2> HIDE DEF u
  <2>3. QueryOK(u, r, d, Reading)
    BY <1>0, <2>1, <2>2 DEF QueryOK, Done, Live, Clear
  <2>4. JobsOK([q EXCEPT ![r] = u], call, d.jobs) /\ d \in DuckState
    BY <2>2, ClearMove DEF Clear
  <2> QED BY <2>1, <2>2, <2>3, <2>4, QueryStep DEF Beside
<1> QED BY <1>1, <1>2

\* The next fetch, or the flag seen before it.
LEMMA FetchNextGood ==
  ASSUME IInv, NEW r \in Query, Leased(r), Beside, NEW d, Clear(r, d), FetchNext(r, d, Reading),
         Live(q[r])
  PROVE  IInv'
<1>0. /\ q[r] \in QueryState /\ QueryOK(q[r], r, duck, Reading) /\ q \in [Query -> QueryState]
      /\ d \in DuckState
  BY Held DEF Clear
<1>1. CASE r \in d.flags /\ EndsAs(r, "cancelled", d)
  BY <1>1, EndsClear
<1>2. CASE ~(r \in d.flags /\ EndsAs(r, "cancelled", d))
  <2> DEFINE u == At(r, "fetching")
             job == [of |-> r, does |-> "fetch", awaited |-> TRUE]
             e == Sent(d, r, "fetch")
  <2>1. r \notin d.flags /\ SameDb /\ q' = [q EXCEPT ![r] = u]
    BY <1>2 DEF FetchNext, Goes
  <2>2. /\ u \in QueryState /\ u.pc = "fetching" /\ u.status = q[r].status /\ u.last = q[r].last
        /\ u.got = q[r].got /\ u.met = q[r].met /\ u.stmt = q[r].stmt /\ u.cancel = q[r].cancel
    BY <1>0 DEF At, QueryState
  <2>3. ~q[r].cancel
    BY <1>0, <2>1 DEF QueryOK, Clear
  <2>4. Waits(u, "fetch")
    BY <2>2 DEF Waits
  <2> HIDE DEF u
  <2>5. JobsOK([q EXCEPT ![r] = u], call, d.jobs)
    BY <2>2, ClearMove
  <2>6. CASE ~Locked(d) /\ duck' = e
    <3>1. /\ e \in DuckState /\ e.streaming = d.streaming /\ e.flags = d.flags
          /\ e.result = d.result /\ e.jobs = Append(d.jobs, job)
          /\ JobsOK([q EXCEPT ![r] = u], call, e.jobs)
      BY <1>0, <2>2, <2>4, <2>5, <2>6, SentIs
    <3>2. d.jobs = <<>>
      BY <2>6, ClearEmpty DEF Live
    <3> HIDE DEF e
    <3>3. e.jobs = Append(<<>>, job)
      BY <3>1, <3>2
    <3>4. e.jobs = <<job>> /\ job.of = r
      BY <3>3
    <3>5. e.jobs # <<>> /\ e.jobs[1].of = r
      BY <3>4
    <3>6. QueryOK(u, r, e, Reading)
      BY <1>0, <2>2, <2>3, <3>1, <3>5 DEF QueryOK, Done, Live, Clear
    <3> QED BY <2>1, <2>2, <2>6, <3>1, <3>6, QueryStep DEF Beside
  <2>7. CASE Reading /\ duck' = d
    <3>1. QueryOK(u, r, d, Reading)
      BY <1>0, <2>2, <2>3, <2>7 DEF QueryOK, Done, Live, Clear
    <3> QED BY <1>0, <2>1, <2>2, <2>5, <2>7, <3>1, QueryStep DEF Beside
  <2> QED BY <1>2, <2>1, <2>6, <2>7 DEF FetchNext, Sent
<1> QED BY <1>1, <1>2

\* The actions of a query, one by one.  execute() claims the connection.
LEMMA ExecuteGood ==
  ASSUME IInv, NEW r \in Query, Execute(r), Beside PROVE IInv'
<1> DEFINE u == At(r, "executing")
           job == [of |-> r, does |-> "execute", awaited |-> TRUE]
           e == Sent(duck, r, "execute")
<1>0. /\ q[r] \in QueryState /\ QueryOK(q[r], r, duck, Reading) /\ q \in [Query -> QueryState]
      /\ duck \in DuckState
  BY Held
<1>1. Leased(r) /\ q[r].pc = "new" /\ ~Locked(duck) /\ SameDb /\ q' = [q EXCEPT ![r] = u] /\ duck' = e
  BY DEF Execute, Leased, InThread, Goes, Sent
<1>2. /\ u \in QueryState /\ u.pc = "executing" /\ u.status = q[r].status /\ u.last = q[r].last
      /\ u.cancel = q[r].cancel
  BY <1>0 DEF At, QueryState
<1>3. Waits(u, "execute")
  BY <1>2 DEF Waits
<1> HIDE DEF u
<1>4. JobsOK([q EXCEPT ![r] = u], call, duck.jobs)
  BY <1>1, <1>2, ClearHeld, ClearMove
<1>5. e \in DuckState /\ e.jobs = Append(duck.jobs, job) /\ JobsOK([q EXCEPT ![r] = u], call, e.jobs)
  BY <1>0, <1>1, <1>2, <1>3, <1>4, SentIs
<1> HIDE DEF e
<1>6. QueryOK(u, r, e, Reading)
  BY <1>0, <1>1, <1>2 DEF QueryOK, Live
<1> QED BY <1>1, <1>2, <1>5, <1>6, QueryStep DEF Beside

\* It has, with the claim, unless a reader has begun meanwhile.
LEMMA ExecutedGood ==
  ASSUME IInv, NEW r \in Query, Executed(r, Reading), Beside PROVE IInv'
<1> DEFINE u == [At(r, "returned") EXCEPT !.met = Reading]
           e == [Served(duck) EXCEPT !.result = r, !.streaming = r]
<1>0. /\ q[r] \in QueryState /\ QueryOK(q[r], r, duck, Reading) /\ q \in [Query -> QueryState]
  BY Held
<1>1. /\ Clear(r, Served(duck)) /\ Served(duck).jobs = <<>> /\ Leased(r) /\ q[r].pc = "executing"
      /\ Served(duck) \in DuckState
  BY ClearServed DEF Executed, Clear
<1>2. q' = [q EXCEPT ![r] = u] /\ duck' = e /\ (SameDb \/ Alters)
  BY DEF Executed, Goes
<1>3. Reading \in BOOLEAN
  BY DEF Reading
<1>4. /\ u \in QueryState /\ u.pc = "returned" /\ u.status = q[r].status /\ u.last = q[r].last
      /\ u.cancel = q[r].cancel /\ u.met = Reading
  BY <1>0, <1>3 DEF At, QueryState
<1>5. e \in DuckState /\ e.jobs = <<>> /\ e.streaming = r /\ e.result = r
  BY <1>1 DEF DuckState
<1> HIDE DEF u, e
<1>6. JobsOK([q EXCEPT ![r] = u], call, e.jobs)
  BY <1>5, NobodyJobs
<1>7. QueryOK(u, r, e, Reading)
  BY <1>0, <1>1, <1>4, <1>5 DEF QueryOK, Live
<1> QED BY <1>1, <1>2, <1>4, <1>5, <1>6, <1>7, QueryStep DEF Beside

\* execute() has failed.
LEMMA ExecuteFailsGood ==
  ASSUME IInv, NEW r \in Query, ExecuteFails(r), Beside PROVE IInv'
<1> DEFINE u == [At(r, "ended") EXCEPT !.status = "failed"]
           e == [Served(duck) EXCEPT !.result = Nobody]
<1>0. /\ q[r] \in QueryState /\ QueryOK(q[r], r, duck, Reading) /\ q \in [Query -> QueryState]
  BY Held
<1>1. /\ Clear(r, Served(duck)) /\ Served(duck).jobs = <<>> /\ Leased(r) /\ q[r].pc = "executing"
      /\ Served(duck) \in DuckState
  BY ClearServed DEF ExecuteFails, Clear
<1>2. q' = [q EXCEPT ![r] = u] /\ duck' = e /\ SameDb
  BY DEF ExecuteFails, Goes
<1>4. /\ u \in QueryState /\ u.pc = "ended" /\ u.status = "failed" /\ u.last = q[r].last
  BY <1>0 DEF At, QueryState
<1>5. e \in DuckState /\ e.jobs = <<>>
  BY <1>1 DEF DuckState
<1> HIDE DEF u, e
<1>6. JobsOK([q EXCEPT ![r] = u], call, e.jobs)
  BY <1>5, NobodyJobs
<1>7. QueryOK(u, r, e, Reading)
  BY <1>0, <1>1, <1>4 DEF QueryOK, Live
<1> QED BY <1>1, <1>2, <1>4, <1>5, <1>6, <1>7, QueryStep DEF Beside

\* The columns of the result set are described, ...
LEMMA DescribeGood ==
  ASSUME IInv, NEW r \in Query, Describe(r), Beside PROVE IInv'
<1> DEFINE u == At(r, "describing")
           job == [of |-> r, does |-> "describe", awaited |-> TRUE]
           e == Sent(duck, r, "describe")
<1>0. /\ q[r] \in QueryState /\ QueryOK(q[r], r, duck, Reading) /\ q \in [Query -> QueryState]
      /\ duck \in DuckState
  BY Held
<1>1. q[r].pc = "returned" /\ ~Locked(duck) /\ SameDb /\ q' = [q EXCEPT ![r] = u] /\ duck' = e
  BY DEF Describe, InThread, Goes, Sent
<1>2. /\ u \in QueryState /\ u.pc = "describing" /\ u.status = q[r].status /\ u.last = q[r].last
      /\ u.got = q[r].got /\ u.met = q[r].met /\ u.stmt = q[r].stmt /\ u.cancel = q[r].cancel
  BY <1>0 DEF At, QueryState
<1>3. Waits(u, "describe")
  BY <1>2 DEF Waits
<1> HIDE DEF u
<1>4. JobsOK([q EXCEPT ![r] = u], call, duck.jobs)
  BY <1>1, <1>2, ClearHeld, ClearMove
<1>5. /\ e \in DuckState /\ e.jobs = Append(duck.jobs, job) /\ e.streaming = duck.streaming
      /\ e.flags = duck.flags /\ e.result = duck.result /\ JobsOK([q EXCEPT ![r] = u], call, e.jobs)
  BY <1>0, <1>1, <1>2, <1>3, <1>4, SentIs
<1> HIDE DEF e
<1>6. QueryOK(u, r, e, Reading)
  BY <1>0, <1>1, <1>2, <1>5 DEF QueryOK, Live, Done
<1>7. Leased(r)
  BY <1>1, Holder
<1> QED BY <1>1, <1>2, <1>5, <1>6, <1>7, QueryStep DEF Beside

\* ... and then its first batch is asked for.
LEMMA DescribedDoneGood ==
  ASSUME IInv, NEW r \in Query, DescribedDone(r, Reading), Beside PROVE IInv'
<1>1. Clear(r, Served(duck)) /\ Leased(r) /\ Live(q[r])
  BY ClearServed DEF DescribedDone, Live
<1>2. CASE q[r].stmt = "ddl" /\ duck.result = r
  <2>1. Last(r, Served(duck)) /\ Done(q[r])
    BY <1>2 DEF DescribedDone, Done
  <2> QED BY <1>1, <2>1, LastGood
<1>3. CASE ~(q[r].stmt = "ddl" /\ duck.result = r)
  <2>1. FetchNext(r, Served(duck), Reading)
    BY <1>3 DEF DescribedDone
  <2> QED BY <1>1, <2>1, FetchNextGood
<1> QED BY <1>2, <1>3

\* Only a query that was met by a reader has waited.
LEMMA AfterWaitingGood ==
  ASSUME IInv, NEW r \in Query, AfterWaiting(r), Beside PROVE IInv'
<1> DEFINE job == [of |-> r, does |-> "fetch", awaited |-> TRUE]
           e == Sent(duck, r, "fetch")
<1>0. /\ q[r] \in QueryState /\ QueryOK(q[r], r, duck, Reading) /\ q \in [Query -> QueryState]
      /\ duck \in DuckState /\ duck.jobs \in Seq(Job)
  BY Held
<1>1. /\ q[r].pc = "fetching" /\ \A i \in 1..Len(duck.jobs) : duck.jobs[i].of # r
      /\ ~Locked(duck) /\ SameDb /\ duck' = e /\ q' = q
  BY DEF AfterWaiting, InThread, Sent
<1>2. q = [q EXCEPT ![r] = q[r]]
  BY <1>0
<1>3. q[r].met
  <2>1. duck.jobs # <<>> => 1 \in 1..Len(duck.jobs)
    BY <1>0
  <2> QED BY <1>0, <1>1, <2>1 DEF QueryOK, Live
<1>4. Waits(q[r], "fetch") /\ JobsOK([q EXCEPT ![r] = q[r]], call, duck.jobs)
  BY <1>1, <1>2, Held DEF Waits
<1>5. /\ e \in DuckState /\ e.streaming = duck.streaming
      /\ e.flags = duck.flags /\ e.result = duck.result /\ JobsOK([q EXCEPT ![r] = q[r]], call, e.jobs)
  BY <1>0, <1>1, <1>4, SentIs
<1> HIDE DEF e
<1>6. QueryOK(q[r], r, e, Reading)
  BY <1>0, <1>1, <1>3, <1>5 DEF QueryOK, Live, Done
<1>7. Leased(r)
  BY <1>1, Holder
<1> QED BY <1>0, <1>1, <1>2, <1>5, <1>6, <1>7, QueryStep DEF Beside

\* A batch is delivered.
LEMMA FetchedRowsGood ==
  ASSUME IInv, NEW r \in Query, FetchedRows(r), Beside PROVE IInv'
<1> DEFINE u == [At(r, "holding") EXCEPT !.got = At(r, "holding").got + 1]
           d == Served(duck)
<1>0. /\ q[r] \in QueryState /\ QueryOK(q[r], r, duck, Reading) /\ q \in [Query -> QueryState]
  BY Held
<1>1. /\ Clear(r, d) /\ Leased(r) /\ Live(q[r]) /\ d \in DuckState
      /\ q[r].stmt = "select" /\ q[r].got < Batches
  BY ClearServed DEF FetchedRows, Live, Clear
<1>2. CASE EndsAs(r, "cancelled", d)
  BY <1>1, <1>2, EndsClear
<1>3. CASE ~EndsAs(r, "cancelled", d)
  <2>1. ~q[r].cancel /\ duck' = d /\ SameDb /\ q' = [q EXCEPT ![r] = u]
    BY <1>3 DEF FetchedRows, Goes
  <2>2. At(r, "holding").got + 1 \in 0..Batches
    BY <1>0, <1>1, BoundsAssumption DEF At, QueryState
  <2>3. /\ u \in QueryState /\ u.pc = "holding" /\ u.status = q[r].status /\ u.last = q[r].last
        /\ u.met = q[r].met /\ u.stmt = q[r].stmt /\ u.cancel = q[r].cancel
    BY <1>0, <2>2 DEF At, QueryState
  <2>4. q[r].got # Batches
    BY <1>1, <1>0, BoundsAssumption DEF QueryState
  <2> HIDE DEF u, d
  <2>5. QueryOK(u, r, d, Reading)
    BY <1>0, <1>1, <2>1, <2>3, <2>4 DEF QueryOK, Done, Live, Clear
  <2>6. JobsOK([q EXCEPT ![r] = u], call, d.jobs)
    BY <1>1, <2>3, ClearMove
  <2> QED BY <1>1, <2>1, <2>3, <2>5, <2>6, QueryStep DEF Beside
<1> QED BY <1>2, <1>3

\* The end of the result set, its own if nobody met it.
LEMMA FetchedNothingGood ==
  ASSUME IInv, NEW r \in Query, FetchedNothing(r), Beside PROVE IInv'
<1>1. /\ Clear(r, Served(duck)) /\ Leased(r) /\ Live(q[r]) /\ q[r].pc = "fetching"
      /\ Last(r, Served(duck))
  BY ClearServed DEF FetchedNothing, Live
<1>2. Done(q[r])
  <2>1. QueryOK(q[r], r, duck, Reading)
    BY Held
  <2> QED BY <1>1, <2>1 DEF FetchedNothing, QueryOK, Done
<1> QED BY <1>1, <1>2, LastGood

\* A fetch has failed.
LEMMA FetchFailsGood ==
  ASSUME IInv, NEW r \in Query, FetchFails(r), Beside PROVE IInv'
<1> DEFINE status == IF r \in duck.flags THEN "cancelled" ELSE "failed"
<1>1. Clear(r, Served(duck)) /\ Leased(r) /\ EndsAs(r, status, Served(duck))
  BY ClearServed DEF FetchFails
<1>2. status \in {"running", "succeeded", "cancelled", "failed"} /\ status # "succeeded"
  OBVIOUS
<1> HIDE DEF status
<1> QED BY <1>1, <1>2, EndsClear

\* The consumer asks for the next batch.
LEMMA PullGood ==
  ASSUME IInv, NEW r \in Query, Pull(r, Reading), Beside PROVE IInv'
<1>1. Clear(r, duck) /\ Leased(r) /\ Live(q[r])
  BY ClearHeld, Holder DEF Pull, Live
<1>2. CASE q[r].last
  <2>1. EndsAs(r, "succeeded", duck)
    BY <1>2 DEF Pull
  <2>2. Done(q[r])
    BY <1>2, Held DEF QueryOK
  <2> QED BY <1>1, <2>1, <2>2, EndsClear
<1>3. CASE ~q[r].last
  BY <1>1, <1>3, FetchNextGood DEF Pull
<1> QED BY <1>2, <1>3

\* Its consumer breaks off: what it awaits is left in the thread.
LEMMA AbandonGood ==
  ASSUME IInv, NEW r \in Query, Abandon(r), Beside PROVE IInv'
<1> DEFINE left == Left(duck.jobs, r)
           d == Deserted(duck, r)
           u == [At(r, "ended") EXCEPT !.status = "cancelled"]
<1>0. /\ q[r] \in QueryState /\ QueryOK(q[r], r, duck, Reading) /\ q \in [Query -> QueryState]
      /\ duck \in DuckState /\ duck.jobs \in Seq(Job) /\ JobsOK(q, call, duck.jobs)
  BY Held
<1>1. Leased(r)
  BY Holder DEF Abandon
<1>2. d = [duck EXCEPT !.jobs = left]
  BY DEF Deserted, Left
<1>3. ASSUME NEW x \in QueryState, x.pc = "ended"
      PROVE  JobsOK([q EXCEPT ![r] = x], call, left) /\ left \in Seq(Job)
  BY <1>0, <1>3, JobsDeserted
<1>4. /\ u \in QueryState /\ u.pc = "ended" /\ u.status = "cancelled" /\ u.last = q[r].last
      /\ u.got = q[r].got /\ u.met = q[r].met /\ u.stmt = q[r].stmt
  BY <1>0 DEF At, QueryState
<1>5. left \in Seq(Job)
  BY <1>3, <1>4
<1> HIDE DEF left, d
<1>6. d \in DuckState /\ d.jobs = left
  BY <1>0, <1>2, <1>5 DEF DuckState
<1>7. \A x \in QueryState : x.pc = "ended" => JobsOK([q EXCEPT ![r] = x], call, d.jobs)
  BY <1>3, <1>6
<1>8. CASE EndsAs(r, "cancelled", d)
  BY <1>1, <1>6, <1>7, <1>8, EndsGood
<1>9. CASE duck' = d /\ SameDb /\ q' = [q EXCEPT ![r] = u]
  <2> HIDE DEF u
  <2>1. QueryOK(u, r, d, Reading)
    BY <1>0, <1>4 DEF QueryOK, Done, Live
  <2> QED BY <1>1, <1>4, <1>6, <1>7, <1>9, <2>1, QueryStep DEF Beside
<1> QED BY <1>8, <1>9 DEF Abandon, Goes, d

\* A job that was left in the thread is done.
LEMMA LateThreadGood ==
  ASSUME IInv, NEW r \in Query, LateThread(r), Beside PROVE IInv'
<1> DEFINE d == Served(duck)
           e == [d EXCEPT !.result = r]
<1>0. /\ q[r] \in QueryState /\ QueryOK(q[r], r, duck, Reading) /\ q \in [Query -> QueryState]
      /\ duck \in DuckState /\ duck.jobs \in Seq(Job) /\ JobsOK(q, call, duck.jobs)
      /\ duck.jobs # <<>> /\ duck.jobs[1].of = r /\ ~duck.jobs[1].awaited
  BY Held DEF LateThread
<1>1. q[r].pc \in {"ended", "resetting"}
  <2>1. 1 \in 1..Len(duck.jobs)
    BY <1>0
  <2> QED BY <1>0, <2>1 DEF JobsOK, JobOK
<1>2. d \in DuckState /\ d.jobs = Tail(duck.jobs) /\ JobsOK(q, call, d.jobs)
  BY <1>0, ServedIs, JobsServed
<1> HIDE DEF d
<1>3. e \in DuckState /\ e.jobs = d.jobs
  BY <1>2 DEF DuckState
<1>4. q' = [q EXCEPT ![r] = q[r]] /\ q = [q EXCEPT ![r] = q[r]] /\ q' = q
  BY <1>0 DEF LateThread
<1>5. duck' \in {d, e} /\ (SameDb \/ Alters)
  BY DEF LateThread, d
<1> HIDE DEF e
<1>6. duck' \in DuckState /\ JobsOK([q EXCEPT ![r] = q[r]], call, duck'.jobs)
  BY <1>2, <1>3, <1>4, <1>5
<1>7. QueryOK(q[r], r, duck', Reading)
  BY <1>0, <1>1, QuietQuery DEF Live
<1>8. Leased(r)
  BY <1>1, Holder
<1>9. PICK f \in DuckState : f = duck'
  BY <1>6
<1> QED BY <1>0, <1>4, <1>5, <1>6, <1>7, <1>8, <1>9, QueryStep DEF Beside

\* The query is cancelled: its flag is set.
LEMMA CancelGood ==
  ASSUME IInv, NEW r \in Query, Cancel(r), Beside PROVE IInv'
<1> DEFINE u == [q[r] EXCEPT !.cancel = TRUE, !.status = "cancelled"]
           d == [duck EXCEPT !.flags = duck.flags \cup {r},
                   !.streaming = IF duck.streaming = r THEN Nobody ELSE duck.streaming]
<1>0. /\ q[r] \in QueryState /\ QueryOK(q[r], r, duck, Reading) /\ q \in [Query -> QueryState]
      /\ duck \in DuckState /\ duck.jobs \in Seq(Job) /\ JobsOK(q, call, duck.jobs)
  BY Held
<1>1. /\ Live(q[r]) /\ ~q[r].cancel /\ Leased(r) /\ SameDb
      /\ duck' = d /\ q' = [q EXCEPT ![r] = u]
  BY Holder DEF Cancel, Live, Goes
<1>2. /\ u \in QueryState /\ u.pc = q[r].pc /\ u.status = "cancelled" /\ u.last = q[r].last
      /\ u.got = q[r].got /\ u.met = q[r].met /\ u.stmt = q[r].stmt /\ u.cancel
  BY <1>0 DEF QueryState
<1>3. /\ d \in DuckState /\ d.flags = duck.flags \cup {r} /\ d.result = duck.result
      /\ d.jobs = duck.jobs
  BY <1>0 DEF DuckState
<1> HIDE DEF u, d
<1>4. JobsOK([q EXCEPT ![r] = u], call, d.jobs)
  <2>1. \A i \in 1..Len(duck.jobs) : duck.jobs[i].of = r =>
          IF duck.jobs[i].awaited THEN Waits(u, duck.jobs[i].does) ELSE u.pc \in {"ended", "resetting"}
    BY <1>0, <1>2 DEF JobsOK, JobOK, Waits
  <2> QED BY <1>0, <1>2, <1>3, <2>1, JobsKept
<1>5. QueryOK(u, r, d, Reading)
  BY <1>0, <1>1, <1>2, <1>3 DEF QueryOK, Live, Done
<1> QED BY <1>1, <1>2, <1>3, <1>4, <1>5, QueryStep DEF Beside

\* The pool resets the connection after the query, ...
LEMMA ResetGood ==
  ASSUME IInv, NEW r \in Query, Reset(r), Beside PROVE IInv'
<1> DEFINE u == At(r, "resetting")
           d == [duck EXCEPT !.streaming = Nobody, !.flags = {}]
           e == Sent(d, r, "rollback")
<1>0. /\ q[r] \in QueryState /\ QueryOK(q[r], r, duck, Reading) /\ q \in [Query -> QueryState]
      /\ duck \in DuckState /\ duck.jobs \in Seq(Job) /\ JobsOK(q, call, duck.jobs)
  BY Held
<1>1. q[r].pc = "ended" /\ ~Locked(duck) /\ SameDb /\ q' = [q EXCEPT ![r] = u] /\ Leased(r)
  BY Holder DEF Reset, Goes
<1>2. duck' = e
  BY <1>0 DEF Reset, Sent, DuckState
<1>3. /\ u \in QueryState /\ u.pc = "resetting" /\ u.status = q[r].status /\ u.last = q[r].last
      /\ u.got = q[r].got /\ u.met = q[r].met /\ u.stmt = q[r].stmt
  BY <1>0 DEF At, QueryState
<1>4. d \in DuckState /\ d.jobs = duck.jobs
  BY <1>0 DEF DuckState
<1> HIDE DEF u, d
<1>5. ~Locked(d)
  BY <1>1, <1>4 DEF Locked
<1>6. JobsOK([q EXCEPT ![r] = u], call, d.jobs)
  <2>1. \A i \in 1..Len(duck.jobs) : duck.jobs[i].of = r =>
          IF duck.jobs[i].awaited THEN Waits(u, duck.jobs[i].does) ELSE u.pc \in {"ended", "resetting"}
    BY <1>0, <1>1, <1>3 DEF Locked
  <2> QED BY <1>0, <1>3, <1>4, <2>1, JobsKept
<1>7. Waits(u, "rollback")
  BY <1>3 DEF Waits
<1>8. e \in DuckState /\ JobsOK([q EXCEPT ![r] = u], call, e.jobs)
  BY <1>3, <1>4, <1>5, <1>6, <1>7, SentIs
<1> HIDE DEF e
<1>9. QueryOK(u, r, e, Reading)
  BY <1>0, <1>1, <1>3 DEF QueryOK, Live, Done
<1> QED BY <1>1, <1>2, <1>3, <1>8, <1>9, QueryStep DEF Beside

\* A query that has not begun.
LEMMA QueryOfIs ==
  ASSUME NEW s \in {"select", "ddl"}
  PROVE  /\ QueryOf(s) \in QueryState /\ QueryOf(s).pc = "new" /\ QueryOf(s).status = "running"
         /\ ~QueryOf(s).last /\ ~QueryOf(s).cancel
<1>1. 0 \in 0..Batches
  BY BoundsAssumption
<1> QED BY <1>1 DEF QueryOf, QueryState

\* ... and the lease is over.
LEMMA ResetDoneGood ==
  ASSUME IInv, NEW r \in Query, ResetDone(r), Beside PROVE IInv'
<1> DEFINE u == [QueryOf(q[r].stmt) EXCEPT !.pc = "released"]
           d == Served(duck)
           e == [d EXCEPT !.result = Nobody]
<1>0. q[r] \in QueryState /\ q \in [Query -> QueryState]
  BY Held
<1>1. /\ Clear(r, d) /\ d.jobs = <<>> /\ Leased(r) /\ d \in DuckState /\ SameDb
      /\ duck' = e /\ q' = [q EXCEPT ![r] = u]
  BY ClearServed DEF ResetDone, Clear, Goes
<1> HIDE DEF d
<1>2. /\ u \in QueryState /\ u.pc = "released" /\ u.status = "running" /\ ~u.last /\ ~u.cancel
  <2>1. q[r].stmt \in {"select", "ddl"}
    BY <1>0 DEF QueryState
  <2>2. /\ QueryOf(q[r].stmt) \in QueryState /\ QueryOf(q[r].stmt).status = "running"
        /\ ~QueryOf(q[r].stmt).last /\ ~QueryOf(q[r].stmt).cancel
    BY <2>1, QueryOfIs
  <2> QED BY <2>2 DEF QueryState
<1>3. e \in DuckState /\ e.jobs = <<>>
  BY <1>1 DEF DuckState
<1> HIDE DEF u, e
<1>4. JobsOK([q EXCEPT ![r] = u], call, e.jobs)
  BY <1>3, NobodyJobs
<1>5. QueryOK(u, r, e, Reading)
  BY <1>2 DEF QueryOK, Live
<1> QED BY <1>1, <1>2, <1>3, <1>4, <1>5, QueryStep DEF Beside

\* Every action of a query.
LEMMA QueriesGood ==
  ASSUME IInv, NEW r \in Query, Queries(r, Reading), Beside PROVE IInv'
BY ExecuteGood, ExecutedGood, ExecuteFailsGood, DescribeGood, DescribedDoneGood, AfterWaitingGood,
   FetchedRowsGood, FetchedNothingGood, FetchFailsGood, PullGood, AbandonGood, LateThreadGood,
   CancelGood, ResetGood, ResetDoneGood
   DEF Queries

-----------------------------------------------------------------------------
(* The calls of those who read the catalog *)

\* The fewer read, the less is to be shown.
LEMMA QueryLess ==
  ASSUME NEW query, NEW r, NEW d, NEW reading, NEW others, others => reading,
         QueryOK(query, r, d, reading)
  PROVE  QueryOK(query, r, d, others)
BY DEF QueryOK

\* A step that leaves DuckDB's connection as it is.
LEMMA QuietStep ==
  ASSUME IInv, UNCHANGED <<adapter, duck, q>>, SameDb \/ Alters,
         IsCache(cache'), IsTree(tree'), call' = [c \in Reader |-> call'[c]],
         \A c \in Reader : CallType(call'[c]),
         adapter = "duckdb" =>
           /\ \A c \in Reader : call[c].todo \subseteq call'[c].todo
           /\ Reading' => Reading \/ duck.streaming = Nobody
  PROVE  IInv'
<1>0. /\ adapter \in Adapter /\ duck \in DuckState /\ q \in [Query -> QueryState]
      /\ JobsOK(q, call, duck.jobs) /\ QueriesOK(q, duck, Reading) /\ Serial(q) /\ NotDuck
  BY DEF IInv, Types
<1>1. Types'
  <2>1. changes' \in 0..Changes /\ DOMAIN db' \subseteq Name /\ \A o \in DOMAIN db' : db'[o] \in Entry
    BY DbTypes DEF IInv
  <2> QED BY <1>0, <2>1 DEF Types, IsCache, IsTree, IsObject
<1>2. JobsOK(q, call', duck.jobs)
  <2>1. CASE adapter = "duckdb"
    <3>1. \A c \in Reader : call[c].todo \subseteq call'[c].todo
      BY <2>1
    <3>2. \A i \in 1..Len(duck.jobs) :
            duck.jobs[i].of \in Reader /\ duck.jobs[i].does \in call[duck.jobs[i].of].todo =>
              duck.jobs[i].does \in call'[duck.jobs[i].of].todo
      BY <3>1
    <3> QED BY <1>0, <3>2, JobsTodo
  <2>2. CASE adapter # "duckdb"
    BY <1>0, <2>2, NobodyJobs DEF NotDuck
  <2> QED BY <2>1, <2>2
<1>3. QueriesOK(q, duck, Reading')
  <2> SUFFICES ASSUME NEW r \in Query PROVE QueryOK(q[r], r, duck, Reading')
    BY DEF QueriesOK
  <2>1. QueryOK(q[r], r, duck, Reading)
    BY <1>0 DEF QueriesOK
  <2>2. CASE adapter # "duckdb"
    <3>1. ~Live(q[r])
      BY <1>0, <2>2 DEF NotDuck, Live
    <3> QED BY <2>1, <3>1, QuietQuery
  <2>3. CASE Reading' => Reading
    BY <2>1, <2>3, QueryLess
  <2>4. CASE duck.streaming = Nobody
    <3>1. r # Nobody
      BY NobodyAssumption
    <3> QED BY <2>1, <2>4, <3>1 DEF QueryOK
  <2> QED BY <2>2, <2>3, <2>4
<1> QED BY <1>0, <1>1, <1>2, <1>3 DEF IInv, JobsOK, JobOK, Serial, QueriesOK, NotDuck

\* Who reads, by what is to be read.
LEMMA TodoReading ==
  ASSUME \A c \in Reader : call'[c].todo \subseteq call[c].todo
  PROVE  Reading' => Reading
BY DEF Reading

\* The record of a reader without a call, ...
LEMMA IdleIs ==
  CallType(Idle) /\ Idle.todo = {} /\ Idle.pc = "idle"
<1>1. /\ Idle.pc = "idle" /\ Idle.op = "peek" /\ Idle.todo = {}
      /\ Idle.at = 0 /\ Idle.kinds = <<>>
      /\ Idle.answers = [part \in Part |-> <<>>]
      /\ Idle.met = {} /\ Idle.crossed = {}
  BY DEF Idle
<1>2. Whole(Idle)
  BY DEF Whole, Idle
<1>3. 0 \in 0..(Changes + 1)
  BY BoundsAssumption
<1>4. DOMAIN Idle.kinds = {}
  BY <1>1
<1> QED BY <1>1, <1>2, <1>3, <1>4 DEF CallType, Op

\* ... of one whose call is over, ...
LEMMA OverIs ==
  ASSUME NEW todo, todo \subseteq Part \cup {"list"}
  PROVE  CallType(Over(todo)) /\ Over(todo).todo = todo /\ Over(todo).pc = "over"
<1>1. /\ Over(todo).pc = "over" /\ Over(todo).op = "peek" /\ Over(todo).todo = todo
      /\ Over(todo).at = 0 /\ Over(todo).kinds = <<>>
      /\ Over(todo).answers = [part \in Part |-> <<>>]
      /\ Over(todo).met = {} /\ Over(todo).crossed = {}
  BY DEF Over, Idle
<1>2. Whole(Over(todo))
  <2>1. Whole(Idle)
    BY IdleIs DEF CallType
  <2>2. \A x : Whole([Idle EXCEPT !.pc = "over", !.todo = x])
    BY <2>1 DEF Whole
  <2> QED BY <2>2 DEF Over
<1>3. 0 \in 0..(Changes + 1)
  BY BoundsAssumption
<1>4. DOMAIN Over(todo).kinds = {}
  BY <1>1
<1> QED BY <1>1, <1>2, <1>3, <1>4 DEF CallType, Op

\* What becomes of the calls when that of c does.
LEMMA CallsType ==
  ASSUME Types, NEW c \in Reader, NEW k, CallType(k), call' = [call EXCEPT ![c] = k]
  PROVE  /\ call' = [d \in Reader |-> call'[d]] /\ \A d \in Reader : CallType(call'[d])
         /\ \A d \in Reader : d # c => call'[d] = call[d]
         /\ call'[c] = k
<1>1. call = [d \in Reader |-> call[d]] /\ \A d \in Reader : CallType(call[d])
  BY DEF Types
<1>2. \A d \in Reader : call'[d] = IF d = c THEN k ELSE call[d]
  BY <1>1
<1>3. call' = [d \in Reader |-> call'[d]]
  BY <1>1
<1> QED BY <1>1, <1>2, <1>3

\* A call that has nothing left to read.
LEMMA EndsReadGood ==
  ASSUME IInv, NEW c \in Reader, call[c].todo = {}, Ends(c, {}), UNCHANGED <<adapter, db, changes, duck, q>>,
         IsCache(cache'), IsTree(tree')
  PROVE  IInv'
<1>1. CallType(Over({})) /\ Over({}).todo = {} /\ Types
  BY OverIs DEF IInv
<1>2. /\ call' = [d \in Reader |-> call'[d]] /\ \A d \in Reader : CallType(call'[d])
      /\ \A d \in Reader : call'[d].todo = call[d].todo
  <2>1. call' = [call EXCEPT ![c] = Over({})]
    BY DEF Ends
  <2> QED BY <1>1, <2>1, CallsType
<1>3. Reading' => Reading
  BY <1>2, TodoReading
<1> QED BY <1>2, <1>3, QuietStep DEF SameDb

\* ... of one whose call begins, ...
Made(k, pc, op, obj, todo, crossed) ==
  [k EXCEPT !.pc = pc, !.op = op, !.obj = obj, !.todo = todo, !.crossed = crossed]

\* A call that begins has all fields.
LEMMA WholeMade ==
  ASSUME NEW k, Whole(k), NEW pc, NEW op, NEW obj, NEW todo, NEW crossed
  PROVE  LET n == Made(k, pc, op, obj, todo, crossed)
         IN  /\ Whole(n)
             /\ n.pc = pc /\ n.op = op /\ n.todo = todo /\ n.crossed = crossed
             /\ n.at = k.at /\ n.kinds = k.kinds /\ n.answers = k.answers /\ n.met = k.met
<1> DEFINE n == Made(k, pc, op, obj, todo, crossed)
<1>1. Whole(n)
  BY DEF Whole, Made
<1>2. n.pc = pc /\ n.op = op /\ n.todo = todo /\ n.crossed = crossed
  BY DEF Whole, Made
<1>3. n.at = k.at /\ n.kinds = k.kinds /\ n.answers = k.answers /\ n.met = k.met
  BY DEF Whole, Made
<1> QED BY <1>1, <1>2, <1>3

\* ... of one that another call crosses, ...
LEMMA CrossedCall ==
  ASSUME NEW k, CallType(k), NEW c \in Reader
  PROVE  LET n == [k EXCEPT !.crossed = k.crossed \cup {c}]
         IN  CallType(n) /\ n.todo = k.todo
<1> DEFINE n == [k EXCEPT !.crossed = k.crossed \cup {c}]
<1>1. Whole(k)
  BY DEF CallType
<1>2. Whole(n)
  <2>1. \A x : Whole([k EXCEPT !.crossed = x])
    BY <1>1 DEF Whole
  <2> QED BY <2>1
<1>3. n.pc = k.pc /\ n.op = k.op /\ n.todo = k.todo /\ n.at = k.at
  BY <1>1 DEF Whole
<1>4. n.kinds = k.kinds /\ n.answers = k.answers /\ n.met = k.met
      /\ n.crossed = k.crossed \cup {c}
  BY <1>1 DEF Whole
<1> HIDE DEF n
<1>5. CallType(n)
  BY <1>2, <1>3, <1>4 DEF CallType
<1> QED BY <1>3, <1>5 DEF n

\* ... and of one whose node is gone.
LEMMA DetachedCall ==
  ASSUME NEW k, CallType(k), NEW yes
  PROVE  LET n == [k EXCEPT !.detached = yes]
         IN  CallType(n) /\ n.todo = k.todo
<1> DEFINE n == [k EXCEPT !.detached = yes]
<1>1. Whole(k)
  BY DEF CallType
<1>2. Whole(n)
  <2>1. \A x : Whole([k EXCEPT !.detached = x])
    BY <1>1 DEF Whole
  <2> QED BY <2>1
<1>3. n.pc = k.pc /\ n.op = k.op /\ n.todo = k.todo /\ n.at = k.at
  BY <1>1 DEF Whole
<1>4. n.kinds = k.kinds /\ n.answers = k.answers /\ n.met = k.met
      /\ n.crossed = k.crossed
  BY <1>1 DEF Whole
<1> HIDE DEF n
<1>5. CallType(n)
  BY <1>2, <1>3, <1>4 DEF CallType
<1> QED BY <1>3, <1>5 DEF n

\* A call begins, on DuckDB only where no result set is being read.
LEMMA BeginsGood ==
  ASSUME IInv, NEW c \in Reader, NEW op \in Op, NEW o, NEW todo, todo \subseteq Part \cup {"list"},
         call[c].pc = "idle", Begins(c, op, o, todo), Claims(c), Quiet, UNCHANGED <<cache, tree>>
  PROVE  IInv'
<1>0. Types /\ \A d \in Reader : CallType(call[d])
  BY DEF IInv, Types
<1>1. call' = [d \in Reader |->
        IF d = c THEN [call[c] EXCEPT !.pc = IF op = "expand" THEN "reading" ELSE "waiting",
                         !.op = op, !.obj = o, !.todo = todo, !.crossed = UnderWay]
        ELSE IF d \in UnderWay THEN [call[d] EXCEPT !.crossed = call[d].crossed \cup {c}]
        ELSE call[d]]
  BY DEF Begins
<1>2. CallType(call'[c])
  <2> DEFINE pc == IF op = "expand" THEN "reading" ELSE "waiting"
             n == Made(call[c], pc, op, o, todo, UnderWay)
  <2>1. call'[c] = n
    BY <1>1 DEF Made
  <2>2. Whole(call[c])
    BY <1>0 DEF CallType
  <2>3. pc \in {"reading", "waiting"}
    OBVIOUS
  <2> HIDE DEF pc
  <2>4. /\ Whole(n) /\ n.pc = pc /\ n.op = op /\ n.todo = todo /\ n.crossed = UnderWay
        /\ n.at = call[c].at /\ n.kinds = call[c].kinds /\ n.answers = call[c].answers
        /\ n.met = call[c].met
    BY <2>2, WholeMade
  <2>5. UnderWay \subseteq Reader
    BY DEF UnderWay
  <2> HIDE DEF n
  <2>6. CallType(n)
    BY <1>0, <2>3, <2>4, <2>5 DEF CallType
  <2> QED BY <2>1, <2>6
<1>3. ASSUME NEW d \in Reader, d # c PROVE CallType(call'[d]) /\ call'[d].todo = call[d].todo
  BY <1>0, <1>1, <1>3, CrossedCall
<1>4. call' = [d \in Reader |-> call'[d]]
  BY <1>1
<1>5. \A d \in Reader : call[d].todo \subseteq call'[d].todo
  <2>1. call[c].todo = {}
    BY <1>0 DEF CallType
  <2> QED BY <1>3, <2>1
<1>6. adapter = "duckdb" => duck.streaming = Nobody
  <2>1. duck.streaming \in Query \cup {Nobody}
    BY Held DEF IInv, Types, DuckState
  <2> QED BY <2>1, NobodyAssumption DEF Claims, MayClaim
<1>7. IsCache(cache') /\ IsTree(tree') /\ UNCHANGED <<adapter, db, changes, duck, q>>
  BY <1>0 DEF Types, Quiet
<1>8. \A d \in Reader : CallType(call'[d])
  BY <1>2, <1>3
<1> QED BY <1>4, <1>5, <1>6, <1>7, <1>8, QuietStep DEF SameDb

\* snapshot() and refresh().
LEMMA SnapshotGood ==
  ASSUME IInv, NEW c \in Reader, NEW op \in Op, Snapshot(c, op) PROVE IInv'
<1>1. call[c].todo = {} /\ IsCache(cache') /\ IsTree(tree') /\ UNCHANGED <<adapter, db, changes, duck, q>>
  BY DEF IInv, Types, CallType, Snapshot, Quiet
<1>2. CASE Cached(op) \/ ~Claims(c)
  <2>1. Ends(c, {})
    BY <1>2 DEF Snapshot
  <2> QED BY <1>1, <2>1, EndsReadGood
<1>3. CASE ~(Cached(op) \/ ~Claims(c))
  <2>1. Begins(c, op, Nobody, {"list"})
    BY <1>3 DEF Snapshot
  <2> QED BY <1>3, <2>1, BeginsGood DEF Snapshot
<1> QED BY <1>2, <1>3

\* A node is expanded.
LEMMA ExpandGood ==
  ASSUME IInv, NEW c \in Reader, NEW o \in Name, Expand(c, o) PROVE IInv'
<1> DEFINE todo == IF tree[o].object.kind = "table" THEN Part ELSE {"cols"}
<1>1. call[c].todo = {} /\ IsCache(cache') /\ IsTree(tree') /\ UNCHANGED <<adapter, db, changes, duck, q>>
  BY DEF IInv, Types, CallType, Expand, Quiet
<1>2. CASE ~Claims(c)
  <2>1. Ends(c, {})
    BY <1>2 DEF Expand
  <2> QED BY <1>1, <2>1, EndsReadGood
<1>3. CASE Claims(c)
  <2>1. Begins(c, "expand", o, todo)
    BY <1>3 DEF Expand
  <2>2. todo \subseteq Part \cup {"list"} /\ "expand" \in Op
    BY DEF Part, Op
  <2> HIDE DEF todo
  <2> QED BY <1>3, <2>1, <2>2, BeginsGood DEF Expand
<1> QED BY <1>2, <1>3

\* The list names objects of the database, each of a kind the tree knows.
LEMMA ListKindsOf ==
  ASSUME NEW a \in Adapter, NEW d, \A o \in DOMAIN d : d[o] \in Entry
  PROVE  /\ DOMAIN List(a, d) \subseteq DOMAIN d
         /\ \A o \in DOMAIN List(a, d) : List(a, d)[o] \in Kinds
<1>1. CASE a = "sqlite"
  <2>1. List(a, d) = SqliteList(d)
    BY <1>1 DEF List
  <2> QED BY <2>1 DEF SqliteList, Shown, Kinds
<1>2. CASE a = "postgres"
  <2>1. List(a, d) = PostgresList(d)
    BY <1>2 DEF List
  <2> QED BY <2>1 DEF PostgresList, Shown, Kinds
<1>3. CASE a = "mysql"
  <2>1. List(a, d) = MySQLList(d)
    BY <1>3 DEF List
  <2> QED BY <2>1 DEF MySQLList, Shown, Kinds
<1>4. CASE a = "duckdb"
  <2>1. List(a, d) = DuckList(d)
    BY <1>4 DEF List
  <2> QED BY <2>1 DEF DuckList, Shown, Kinds
<1> QED BY <1>1, <1>2, <1>3, <1>4 DEF Adapter

\* ... of this database, too.
LEMMA ListKinds ==
  ASSUME Types
  PROVE  /\ DOMAIN List(adapter, db) \subseteq DOMAIN db
         /\ \A o \in DOMAIN List(adapter, db) : List(adapter, db)[o] \in Kinds
BY ListKindsOf DEF Types

\* The three changes an answer makes to the record of a call.
Asked(k, at, kinds) == [k EXCEPT !.at = at, !.kinds = kinds]
Told(k, part, answer) == [k EXCEPT !.answers[part] = answer]
Turned(k, todo, pc) == [k EXCEPT !.todo = todo, !.pc = pc]

\* The list, ...
LEMMA AskedIs ==
  ASSUME NEW k, CallType(k), NEW at \in 0..(Changes + 1), NEW kinds,
         DOMAIN kinds \subseteq Name, \A o \in DOMAIN kinds : kinds[o] \in Kinds
  PROVE  CallType(Asked(k, at, kinds))
<1> DEFINE n == Asked(k, at, kinds)
<1>1. Whole(k)
  BY DEF CallType
<1>2. Whole(n)
  BY <1>1 DEF Whole, Asked
<1>3. n.pc = k.pc /\ n.op = k.op /\ n.todo = k.todo /\ n.at = at /\ n.kinds = kinds
  BY <1>1 DEF Whole, Asked
<1>4. n.answers = k.answers /\ n.met = k.met /\ n.crossed = k.crossed
  BY <1>1 DEF Whole, Asked
<1> HIDE DEF n
<1>5. CallType(n)
  BY <1>2, <1>3, <1>4 DEF CallType
<1> QED BY <1>5 DEF n

\* ... an answer ...
LEMMA ToldIs ==
  ASSUME NEW k, CallType(k), NEW part, NEW answer PROVE CallType(Told(k, part, answer))
<1> DEFINE n == Told(k, part, answer)
<1>1. Whole(k)
  BY DEF CallType
<1>2. Whole(n)
  BY <1>1 DEF Whole, Told
<1>3. n.pc = k.pc /\ n.op = k.op /\ n.todo = k.todo /\ n.at = k.at /\ n.kinds = k.kinds
  BY <1>1 DEF Whole, Told
<1>4. n.answers = [k.answers EXCEPT ![part] = answer] /\ n.met = k.met /\ n.crossed = k.crossed
  BY <1>1 DEF Whole, Told
<1>5. DOMAIN n.answers = DOMAIN k.answers
  BY <1>4
<1> HIDE DEF n
<1>6. CallType(n)
  BY <1>2, <1>3, <1>4, <1>5 DEF CallType
<1> QED BY <1>6 DEF n

\* ... and the turn to what is read next leave it a call.
LEMMA TurnedIs ==
  ASSUME NEW k, CallType(k), NEW todo, todo \subseteq Part \cup {"list"},
         NEW pc \in {"idle", "waiting", "reading", "read", "over"},
         pc \in {"idle", "read"} => todo = {}
  PROVE  CallType(Turned(k, todo, pc)) /\ Turned(k, todo, pc).todo = todo
<1> DEFINE n == Turned(k, todo, pc)
<1>1. Whole(k)
  BY DEF CallType
<1>2. Whole(n)
  BY <1>1 DEF Whole, Turned
<1>3. n.pc = pc /\ n.op = k.op /\ n.todo = todo /\ n.at = k.at /\ n.kinds = k.kinds
  BY <1>1 DEF Whole, Turned
<1>4. n.answers = k.answers /\ n.met = k.met /\ n.crossed = k.crossed
  BY <1>1 DEF Whole, Turned
<1> HIDE DEF n
<1>5. CallType(n)
  BY <1>2, <1>3, <1>4 DEF CallType
<1> QED BY <1>3, <1>5 DEF n

\* A call that got an answer is a call.
LEMMA AnsweredIs ==
  ASSUME Types, NEW c \in Reader, NEW part \in Part \cup {"list"}
  PROVE  CallType(Answered(c, part))
<1>0. CallType(call[c]) /\ Whole(call[c])
  BY DEF Types, CallType
<1>1. CASE call[c].pc = "over"
  <2> DEFINE n == [call[c] EXCEPT !.todo = call[c].todo \ {part}]
  <2>1. Answered(c, part) = n
    BY <1>1 DEF Answered
  <2>2. Whole(n)
    BY <1>0 DEF Whole
  <2>3. n.pc = call[c].pc /\ n.op = call[c].op /\ n.todo = call[c].todo \ {part} /\ n.at = call[c].at
    BY <1>0 DEF Whole
  <2>4. n.kinds = call[c].kinds /\ n.answers = call[c].answers /\ n.met = call[c].met
        /\ n.crossed = call[c].crossed
    BY <1>0 DEF Whole
  <2> HIDE DEF n
  <2>5. CallType(n)
    BY <1>0, <2>2, <2>3, <2>4 DEF CallType
  <2> QED BY <2>1, <2>5
<1>2. CASE call[c].pc # "over"
  <2> DEFINE todo == After(c, part)
             pc == IF todo = {} THEN "read" ELSE "reading"
             answer == IF call[c].op = "expand"
                       THEN [o \in {call[c].obj} |-> Fetch(adapter, part, db, o)]
                       ELSE FetchAll(adapter, part, db)
  <2>1. todo \subseteq Part \cup {"list"}
    <3>1. CASE call[c].op = "expand"
      BY <1>0, <3>1 DEF After, CallType
    <3>2. CASE call[c].op # "expand"
      <4>1. part \in {"list", "cols", "fks", "idx"}
        BY DEF Part
      <4> QED BY <3>2, <4>1 DEF After, Part
    <3> QED BY <3>1, <3>2
  <2>2. /\ pc \in {"idle", "waiting", "reading", "read", "over"}
        /\ pc \in {"idle", "read"} => todo = {}
    OBVIOUS
  <2>3. \/ Answered(c, part) = Turned(Asked(call[c], changes + 1, List(adapter, db)), todo, pc)
        \/ Answered(c, part) = Turned(Told(call[c], part, answer), todo, pc)
    BY <1>2 DEF Answered, Turned, Asked, Told
  <2> HIDE DEF todo, pc, answer
  <2>4. CallType(Told(call[c], part, answer))
    BY <1>0, ToldIs
  <2>5. CallType(Asked(call[c], changes + 1, List(adapter, db)))
    <3>1. changes + 1 \in 0..(Changes + 1)
      BY BoundsAssumption DEF Types
    <3>2. DOMAIN db \subseteq Name
      BY DEF Types
    <3> QED BY <1>0, <3>1, <3>2, ListKinds, AskedIs
  <2> QED BY <2>1, <2>2, <2>3, <2>4, <2>5, TurnedIs
<1> QED BY <1>1, <1>2

\* A statement of a reader, on the other adapters.
LEMMA ReadGood ==
  ASSUME IInv, NEW c \in Reader, NEW part \in Part \cup {"list"}, Read(c, part) PROVE IInv'
<1>0. Types
  BY DEF IInv
<1>1. CallType(Answered(c, part))
  BY <1>0, AnsweredIs
<1>2. call' = [call EXCEPT ![c] = Answered(c, part)] /\ adapter # "duckdb"
      /\ UNCHANGED <<adapter, db, changes, duck, q, cache, tree>>
  BY DEF Read, Quiet
<1>3. call' = [d \in Reader |-> call'[d]] /\ \A d \in Reader : CallType(call'[d])
  BY <1>0, <1>1, <1>2, CallsType
<1>4. IsCache(cache') /\ IsTree(tree')
  BY <1>0, <1>2 DEF Types
<1> QED BY <1>2, <1>3, <1>4, QuietStep DEF SameDb

\* A reader's statement is given to the thread.
LEMMA ReadInThreadGood ==
  ASSUME IInv, NEW c \in Reader, NEW part \in Part \cup {"list"}, ReadInThread(c, part) PROVE IInv'
<1> DEFINE job == [of |-> c, does |-> part, awaited |-> TRUE]
           d == [duck EXCEPT !.jobs = Append(duck.jobs, job)]
<1>0. /\ Types /\ Serial(q) /\ QueriesOK(q, duck, Reading) /\ JobsOK(q, call, duck.jobs)
      /\ q \in [Query -> QueryState] /\ duck \in DuckState /\ duck.jobs \in Seq(Job)
  BY DEF IInv, Types, DuckState
<1>1. /\ adapter = "duckdb" /\ part \in call[c].todo /\ ~Locked(duck) /\ duck' = d
      /\ UNCHANGED <<adapter, db, changes, q, cache, tree>>
  BY DEF ReadInThread, InThread
<1>2. /\ call' = [e \in Reader |-> call'[e]]
      /\ \A e \in Reader : CallType(call'[e]) /\ call'[e].todo = call[e].todo
  <2>1. CASE part = "list"
    <3> DEFINE n == [call[c] EXCEPT !.pc = "reading"]
    <3>1. CallType(call[c]) /\ Whole(call[c])
      BY <1>0 DEF Types, CallType
    <3>2. call' = [call EXCEPT ![c] = n]
      BY <1>0, <2>1 DEF ReadInThread, Types
    <3>3. Whole(n)
      BY <3>1 DEF Whole
    <3>4. n.pc = "reading" /\ n.op = call[c].op /\ n.todo = call[c].todo /\ n.at = call[c].at
      BY <3>1 DEF Whole
    <3>5. n.kinds = call[c].kinds /\ n.answers = call[c].answers /\ n.met = call[c].met
          /\ n.crossed = call[c].crossed
      BY <3>1 DEF Whole
    <3> HIDE DEF n
    <3>6. CallType(n)
      BY <3>1, <3>3, <3>4, <3>5 DEF CallType
    <3>7. /\ call' = [e \in Reader |-> call'[e]] /\ \A e \in Reader : CallType(call'[e])
          /\ \A e \in Reader : e # c => call'[e] = call[e]
          /\ call'[c] = n
      BY <1>0, <3>2, <3>6, CallsType
    <3> QED BY <3>4, <3>7
  <2>2. CASE part # "list"
    <3>1. call' = call
      BY <2>2 DEF ReadInThread
    <3> QED BY <1>0, <3>1 DEF Types
  <2> QED BY <2>1, <2>2
<1>3. job \in Job /\ job.awaited /\ job.of = c /\ job.does = part /\ c \notin Query
  BY NobodyAssumption DEF Job
<1>4. JobsOK(q, call, Append(duck.jobs, job)) /\ Append(duck.jobs, job) \in Seq(Job)
  <2>1. job.of \in Query => Waits(q[job.of], job.does)
    BY <1>3
  <2>2. job.of \in Reader => job.does \in call[job.of].todo
    BY <1>1, <1>3
  <2>3. \A i \in 1..Len(duck.jobs) : ~duck.jobs[i].awaited
    BY <1>1 DEF Locked
  <2> HIDE DEF job
  <2> QED BY <1>0, <1>3, <2>1, <2>2, <2>3, JobsAppended
<1>5. /\ d \in DuckState /\ d.jobs = Append(duck.jobs, job) /\ d.streaming = duck.streaming
      /\ d.flags = duck.flags /\ d.result = duck.result
  BY <1>0, <1>4 DEF DuckState
<1>6. duck.jobs # <<>> => d.jobs # <<>> /\ d.jobs[1] = duck.jobs[1]
  BY <1>0, <1>5
<1> HIDE DEF job, d
<1>7. JobsOK(q, call', d.jobs)
  BY <1>2, <1>4, <1>5, JobsTodo
<1>8. Reading' = Reading
  BY <1>2 DEF Reading
<1>9. QueriesOK(q, d, Reading)
  <2> SUFFICES ASSUME NEW r \in Query PROVE QueryOK(q[r], r, d, Reading)
    BY DEF QueriesOK
  <2>1. QueryOK(q[r], r, duck, Reading)
    BY <1>0 DEF QueriesOK
  <2> QED BY <1>5, <1>6, <2>1 DEF QueryOK
<1>10. Types'
  BY <1>0, <1>1, <1>2, <1>5 DEF Types, IsCache, IsTree, IsObject
<1>11. NotDuck'
  BY <1>1 DEF NotDuck
<1> QED BY <1>0, <1>1, <1>7, <1>8, <1>9, <1>10, <1>11 DEF IInv, JobsOK, JobOK, Serial, QueriesOK

\* The thread has done what a reader asked of it: no query is being read unmet.
LEMMA ReadServed ==
  ASSUME IInv, NEW c \in Reader, NEW part \in Part \cup {"list"}, Runs(c, part),
         UNCHANGED <<adapter, db, changes, q, cache, tree>>,
         duck' = [Served(duck) EXCEPT !.result = Nobody],
         NEW k, CallType(k), call' = [call EXCEPT ![c] = k]
  PROVE  IInv'
<1> DEFINE d == [Served(duck) EXCEPT !.result = Nobody]
<1>0. /\ Types /\ Serial(q) /\ QueriesOK(q, duck, Reading) /\ JobsOK(q, call, duck.jobs)
      /\ q \in [Query -> QueryState] /\ duck \in DuckState /\ duck.jobs \in Seq(Job)
  BY DEF IInv, Types, DuckState
<1>1. /\ duck.jobs # <<>> /\ duck.jobs[1].of = c /\ duck.jobs[1].does = part /\ duck.jobs[1].awaited
  BY DEF Runs
<1>2. adapter = "duckdb"
  BY <1>1 DEF IInv, NotDuck
<1>3. Reading
  <2>1. 1 \in 1..Len(duck.jobs)
    BY <1>0, <1>1
  <2>2. JobOK(q, call, duck.jobs, 1)
    BY <1>0, <2>1 DEF JobsOK
  <2> QED BY <1>1, <2>2 DEF JobOK, Reading
<1>4. /\ Served(duck) \in DuckState /\ Served(duck).jobs = Tail(duck.jobs)
      /\ Served(duck).streaming = duck.streaming /\ Served(duck).flags = duck.flags
  BY <1>0, <1>1, ServedIs
<1>5. Tail(duck.jobs) = <<>>
  BY <1>0, <1>1, JobsServed
<1>6. d \in DuckState /\ d.jobs = <<>> /\ d.streaming = duck.streaming /\ d.flags = duck.flags
  BY <1>4, <1>5 DEF DuckState
<1> HIDE DEF d
<1>7. call' = [e \in Reader |-> call'[e]] /\ \A e \in Reader : CallType(call'[e])
  BY <1>0, CallsType
<1>8. Types'
  <2>1. duck' \in DuckState
    BY <1>6 DEF d
  <2> QED BY <1>0, <1>7, <2>1 DEF Types, IsCache, IsTree, IsObject
<1>9. JobsOK(q, call', d.jobs)
  BY <1>6, NobodyJobs
<1>10. QueriesOK(q, d, Reading')
  <2> SUFFICES ASSUME NEW r \in Query PROVE QueryOK(q[r], r, d, Reading')
    BY DEF QueriesOK
  <2>1. QueryOK(q[r], r, duck, Reading)
    BY <1>0 DEF QueriesOK
  <2>2. c # r
    BY NobodyAssumption
  <2> QED BY <1>1, <1>3, <1>6, <2>1, <2>2 DEF QueryOK
<1>11. NotDuck'
  BY <1>2 DEF NotDuck
<1>12. duck' = d
  BY DEF d
<1> QED BY <1>0, <1>8, <1>9, <1>10, <1>11, <1>12 DEF IInv, JobsOK, JobOK, Serial, QueriesOK

\* It has been answered, ...
LEMMA ReadDoneGood ==
  ASSUME IInv, NEW c \in Reader, NEW part \in Part \cup {"list"}, ReadDone(c, part) PROVE IInv'
<1>1. CallType(Answered(c, part))
  BY AnsweredIs DEF IInv
<1> QED BY <1>1, ReadServed DEF ReadDone

\* ... or has failed.
LEMMA ReadFailsGood ==
  ASSUME IInv, NEW c \in Reader, NEW part \in Part \cup {"list"}, ReadFails(c, part) PROVE IInv'
<1> DEFINE todo == IF call[c].op = "expand" THEN call[c].todo \ {part} ELSE {}
<1>0. Types /\ CallType(call[c])
  BY DEF IInv, Types
<1>1. todo \subseteq Part \cup {"list"}
  BY <1>0 DEF CallType
<1>2. call' = [call EXCEPT ![c] = Over(todo)] /\ UNCHANGED <<adapter, db, changes, q, cache, tree>>
  BY DEF ReadFails, Ends
<1> HIDE DEF todo
<1>3. CallType(Over(todo))
  BY <1>1, OverIs
<1>4. CASE adapter # "duckdb" /\ UNCHANGED duck
  <2>1. call' = [d \in Reader |-> call'[d]] /\ \A d \in Reader : CallType(call'[d])
    BY <1>0, <1>2, <1>3, CallsType
  <2>2. IsCache(cache') /\ IsTree(tree')
    BY <1>0, <1>2 DEF Types
  <2> QED BY <1>2, <1>4, <2>1, <2>2, QuietStep DEF SameDb
<1>5. CASE Runs(c, part) /\ duck' = [Served(duck) EXCEPT !.result = Nobody]
  BY <1>2, <1>3, <1>5, ReadServed
<1> QED BY <1>4, <1>5 DEF ReadFails

\* A call that has read everything has nothing left to read.
LEMMA ReadIsDone ==
  ASSUME IInv, NEW c \in Reader, call[c].pc = "read"
  PROVE  call[c].todo = {} /\ CallType(call[c]) /\ IsCache(cache) /\ IsTree(tree)
BY DEF IInv, Types, CallType

\* An answer that Index refuses.
LEMMA CannotBeReadGood ==
  ASSUME IInv, NEW c \in Reader, CannotBeRead(c) PROVE IInv'
<1>1. call[c].todo = {} /\ IsCache(cache') /\ IsTree(tree')
  BY ReadIsDone DEF CannotBeRead
<1> QED BY <1>1, EndsReadGood DEF CannotBeRead, Quiet

\* What build() puts together is objects, ...
LEMMA BuiltIs ==
  ASSUME NEW kinds, \A o \in DOMAIN kinds : kinds[o] \in Kinds, NEW answers
  PROVE  \A o \in DOMAIN Assemble(kinds, answers) : IsObject(Assemble(kinds, answers)[o])
<1> SUFFICES ASSUME NEW o \in DOMAIN kinds PROVE IsObject(Assemble(kinds, answers)[o])
  BY DEF Assemble
<1> DEFINE x == Assemble(kinds, answers)[o]
<1>1. x = [kind |-> kinds[o], cols |-> Get(answers["cols"], o),
           fks |-> IF kinds[o] = "table" THEN Get(answers["fks"], o) ELSE None,
           idx |-> IF kinds[o] = "table" THEN Get(answers["idx"], o) ELSE None]
  BY DEF Assemble
<1> HIDE DEF x
<1>2. x.kind = kinds[o] /\ DOMAIN x = {"kind", "cols", "fks", "idx"}
  BY <1>1
<1> QED BY <1>2 DEF IsObject, x

\* ... and what populate() makes of them is nodes.
LEMMA NodesIs ==
  ASSUME NEW snapshot, \A o \in DOMAIN snapshot.objects : IsObject(snapshot.objects[o]),
         DOMAIN snapshot.objects \subseteq Name
  PROVE  IsTree(Nodes(snapshot))
BY DEF IsTree, Nodes

\* A snapshot is stored.
LEMMA StoreGood ==
  ASSUME IInv, NEW c \in Reader, Store(c) PROVE IInv'
<1> DEFINE k == [at |-> call[c].at, lazy |-> Lazy(call[c].op), objects |-> Built(c)]
<1>0. /\ Types /\ call[c].pc = "read" /\ call[c].todo = {} /\ CallType(call[c]) /\ IsTree(tree)
      /\ call = [d \in Reader |-> call[d]] /\ \A d \in Reader : CallType(call[d])
  BY ReadIsDone DEF Store, IInv, Types
<1>1. cache' = k /\ UNCHANGED <<adapter, db, changes, duck, q>>
  BY DEF Store, Quiet
<1>2. /\ DOMAIN Built(c) = DOMAIN call[c].kinds
      /\ \A o \in DOMAIN Built(c) : IsObject(Built(c)[o])
  <2>1. \A o \in DOMAIN call[c].kinds : call[c].kinds[o] \in Kinds
    BY <1>0 DEF CallType
  <2>2. \A o \in DOMAIN Assemble(call[c].kinds, call[c].answers) :
          IsObject(Assemble(call[c].kinds, call[c].answers)[o])
    BY <2>1, BuiltIs
  <2>3. DOMAIN Assemble(call[c].kinds, call[c].answers) = DOMAIN call[c].kinds
    BY DEF Assemble
  <2> QED BY <2>2, <2>3 DEF Built
<1>3. k.objects = Built(c) /\ k.at = call[c].at /\ k.lazy \in BOOLEAN /\ DOMAIN k = {"at", "lazy", "objects"}
  BY DEF Lazy
<1> HIDE DEF k
<1>4. IsCache(k)
  BY <1>0, <1>2, <1>3 DEF IsCache, CallType
<1>5. CASE call[c].op # "refresh"
  <2>1. Ends(c, {}) /\ tree' = tree
    BY <1>5 DEF Store
  <2> QED BY <1>0, <1>1, <1>4, <2>1, EndsReadGood
<1>6. CASE call[c].op = "refresh"
  <2>1. /\ tree' = Nodes(k)
        /\ call' = [d \in Reader |-> IF d = c THEN Over({})
                      ELSE [call[d] EXCEPT !.detached = call[d].detached \/ d \in Expanding]]
    BY <1>1, <1>6 DEF Store
  <2>2. IsTree(Nodes(k))
    <3>1. DOMAIN k.objects \subseteq Name /\ \A o \in DOMAIN k.objects : IsObject(k.objects[o])
      BY <1>0, <1>2, <1>3 DEF CallType
    <3> QED BY <3>1, NodesIs
  <2>3. \A d \in Reader : CallType(call'[d]) /\ call'[d].todo = call[d].todo
    <3> TAKE d \in Reader
    <3>1. CASE d = c
      <4>1. CallType(Over({})) /\ Over({}).todo = {}
        BY OverIs
      <4> QED BY <1>0, <2>1, <3>1, <4>1
    <3>2. CASE d # c
      BY <1>0, <2>1, <3>2, DetachedCall
    <3> QED BY <3>1, <3>2
  <2>4. call' = [d \in Reader |-> call'[d]]
    BY <2>1
  <2>5. Reading' => Reading
    BY <2>3, TodoReading
  <2> QED BY <1>1, <1>4, <2>1, <2>2, <2>3, <2>4, <2>5, QuietStep DEF SameDb
<1> QED BY <1>5, <1>6

\* An expanded object is written to the cache and the node.
LEMMA FillGood ==
  ASSUME IInv, NEW c \in Reader, Fill(c) PROVE IInv'
<1> DEFINE o == call[c].obj
           with(x) == [x EXCEPT !.cols = Get(call[c].answers["cols"], o),
             !.fks = Get(call[c].answers["fks"], o), !.idx = Get(call[c].answers["idx"], o)]
<1>0. call[c].todo = {} /\ IsCache(cache) /\ IsTree(tree)
  BY ReadIsDone DEF Fill
<1>1. UNCHANGED <<adapter, db, changes, duck, q>> /\ Ends(c, {})
  BY DEF Fill, Quiet
<1>2. ASSUME NEW x, IsObject(x) PROVE IsObject(with(x))
  BY <1>2 DEF IsObject
<1>3. IsCache(cache')
  <2>1. CASE o \in DOMAIN cache.objects
    <3> DEFINE k == [cache EXCEPT !.objects[o] = with(cache.objects[o])]
    <3>1. cache' = k
      BY <2>1 DEF Fill
    <3>2. /\ DOMAIN k = {"at", "lazy", "objects"} /\ k.at = cache.at /\ k.lazy = cache.lazy
          /\ k.objects = [cache.objects EXCEPT ![o] = with(cache.objects[o])]
      BY <1>0 DEF IsCache
    <3>3. IsObject(with(cache.objects[o]))
      BY <1>0, <1>2, <2>1 DEF IsCache
    <3> HIDE DEF k, with
    <3>4. IsCache(k)
      BY <1>0, <3>2, <3>3 DEF IsCache
    <3> QED BY <3>1, <3>4
  <2>2. CASE o \notin DOMAIN cache.objects
    BY <1>0, <2>2 DEF Fill
  <2> QED BY <2>1, <2>2
<1>4. IsTree(tree')
  <2>1. CASE call[c].detached
    BY <1>0, <2>1 DEF Fill
  <2>2. CASE ~call[c].detached
    <3>1. tree' = [tree EXCEPT ![o] = [object |-> with(tree[o].object), filled |-> TRUE]]
      BY <2>2 DEF Fill
    <3>2. o \in DOMAIN tree => IsObject(with(tree[o].object))
      BY <1>0, <1>2 DEF IsTree
    <3> HIDE DEF with
    <3> QED BY <1>0, <3>1, <3>2 DEF IsTree
  <2> QED BY <2>1, <2>2
<1> QED BY <1>0, <1>1, <1>3, <1>4, EndsReadGood

\* invalidate().
LEMMA InvalidateGood ==
  ASSUME IInv, Invalidate PROVE IInv'
<1>1. /\ cache' = NoCache /\ UNCHANGED <<adapter, db, changes, duck, q, tree, call>>
  BY DEF Invalidate, Quiet
<1>2. IsCache(NoCache)
  <2>1. /\ NoCache.at = 0 /\ ~NoCache.lazy /\ NoCache.objects = <<>>
        /\ DOMAIN NoCache = {"at", "lazy", "objects"}
    BY DEF NoCache
  <2>2. 0 \in 0..(Changes + 1)
    BY BoundsAssumption
  <2>3. DOMAIN NoCache.objects = {}
    BY <2>1
  <2>4. NoCache.lazy \in BOOLEAN
    BY DEF NoCache
  <2> QED BY <2>1, <2>2, <2>3, <2>4 DEF IsCache
<1>3. IsTree(tree') /\ call' = [c \in Reader |-> call'[c]] /\ \A c \in Reader : CallType(call'[c])
  BY <1>1 DEF IInv, Types
<1>4. \A c \in Reader : call'[c].todo = call[c].todo
  BY <1>1
<1>5. Reading' => Reading
  BY <1>4, TodoReading
<1> QED BY <1>1, <1>2, <1>3, <1>4, <1>5, QuietStep DEF SameDb

\* Another client changes the database.
LEMMA ChangeGood ==
  ASSUME IInv, Change, Noted PROVE IInv'
<1>0. Types
  BY DEF IInv
<1>1. /\ adapter # "duckdb" /\ Alters /\ UNCHANGED <<adapter, duck, q, cache, tree>>
  BY DEF Change
<1>2. call' = [c \in Reader |-> call'[c]] /\ \A c \in Reader : CallType(call'[c])
  <2>1. \A c \in Reader : CallType(call'[c])
    BY <1>0, NoteTypes
  <2> QED BY <2>1 DEF Noted
<1>3. IsCache(cache') /\ IsTree(tree')
  BY <1>0, <1>1 DEF Types
<1> QED BY <1>1, <1>2, <1>3, QuietStep

-----------------------------------------------------------------------------

\* The invariant holds at first, ...
LEMMA InitGood == Init => IInv
<1> SUFFICES ASSUME Init PROVE IInv
  OBVIOUS
<1>0. /\ adapter \in Adapter /\ changes = 0 /\ cache = LazySnapshot /\ tree = Nodes(cache)
      /\ call = [c \in Reader |-> Idle]
      /\ duck = [streaming |-> Nobody, flags |-> {}, jobs |-> <<>>, result |-> Nobody]
  BY DEF Init, DuckInit
<1>1. DOMAIN db \subseteq Name /\ \A o \in DOMAIN db : db[o] \in Entry
  <2>1. PICK objects \in SUBSET Name : db \in [objects -> Object(1)]
    BY DEF Init
  <2>2. Object(1) \subseteq Entry
    BY <1>0, ObjectEntries
  <2> QED BY <2>1, <2>2
<1>2. duck \in DuckState /\ duck.jobs = <<>>
  <2>1. <<>> \in Seq(Job)
    OBVIOUS
  <2> QED BY <1>0, <2>1 DEF DuckState
<1>3. q \in [Query -> QueryState] /\ \A r \in Query : /\ q[r].pc = "new" /\ q[r].status = "running"
                                                        /\ ~q[r].last /\ ~q[r].cancel
  <2>1. PICK ddl \in SUBSET Query : q = [r \in Query |-> QueryOf(IF r \in ddl THEN "ddl" ELSE "select")]
    BY DEF Init, DuckInit
  <2>2. \A r \in Query : (IF r \in ddl THEN "ddl" ELSE "select") \in {"select", "ddl"}
    OBVIOUS
  <2> QED BY <2>1, <2>2, QueryOfIs
<1>4. changes \in 0..Changes /\ changes + 1 \in 0..(Changes + 1)
  BY <1>0, BoundsAssumption
<1>5. IsCache(cache) /\ IsTree(tree)
  <2> DEFINE objects == Assemble(List(adapter, db), [part \in Part |-> <<>>])
             answers == [part \in Part |-> <<>>]
  <2>0. /\ DOMAIN List(adapter, db) \subseteq DOMAIN db
        /\ \A o \in DOMAIN List(adapter, db) : List(adapter, db)[o] \in Kinds
    BY <1>0, <1>1, ListKindsOf
  <2>1. \A o \in DOMAIN objects : IsObject(objects[o])
    BY <2>0, BuiltIs
  <2>2. DOMAIN objects \subseteq Name
    BY <1>1, <2>0 DEF Assemble
  <2>3. /\ DOMAIN cache = {"at", "lazy", "objects"} /\ cache.at = changes + 1 /\ cache.lazy
        /\ cache.objects = objects
    BY <1>0 DEF LazySnapshot
  <2>4. cache.lazy \in BOOLEAN
    BY <1>0 DEF LazySnapshot
  <2> HIDE DEF objects
  <2> QED BY <1>0, <1>4, <2>1, <2>2, <2>3, <2>4, NodesIs DEF IsCache
<1>6. Types
  BY <1>0, <1>1, <1>2, <1>3, <1>4, <1>5, IdleIs DEF Types
<1>7. Serial(q) /\ NotDuck
  BY <1>2, <1>3 DEF Serial, NotDuck
<1>8. JobsOK(q, call, duck.jobs)
  BY <1>2, NobodyJobs
<1>9. QueriesOK(q, duck, Reading)
  BY <1>3 DEF QueriesOK, QueryOK, Live
<1> QED BY <1>6, <1>7, <1>8, <1>9 DEF IInv

\* ... every step keeps it, ...
LEMMA NextGood == ASSUME IInv, Next PROVE IInv'
<1>1. CASE Change /\ Noted
  BY <1>1, ChangeGood
<1>2. ASSUME NEW r \in Query, Queries(r, Reading), Noted, UNCHANGED <<adapter, cache, tree>>
      PROVE  IInv'
  BY <1>2, QueriesGood DEF Beside
<1>3. ASSUME NEW c \in Reader, NEW op \in Op, Snapshot(c, op) PROVE IInv'
  BY <1>3, SnapshotGood
<1>4. ASSUME NEW c \in Reader, NEW o \in Name, Expand(c, o) PROVE IInv'
  BY <1>4, ExpandGood
<1>5. ASSUME NEW c \in Reader, NEW part \in Part \cup {"list"},
             Read(c, part) \/ ReadInThread(c, part) \/ ReadDone(c, part) \/ ReadFails(c, part)
      PROVE  IInv'
  BY <1>5, ReadGood, ReadInThreadGood, ReadDoneGood, ReadFailsGood
<1>6. ASSUME NEW c \in Reader, CannotBeRead(c) \/ Store(c) \/ Fill(c) PROVE IInv'
  BY <1>6, CannotBeReadGood, StoreGood, FillGood
<1>7. CASE Invalidate
  BY <1>7, InvalidateGood
<1> QED BY <1>1, <1>2, <1>3, <1>4, <1>5, <1>6, <1>7 DEF Next

\* ... and so does one that changes nothing.
LEMMA StutterGood == ASSUME IInv, UNCHANGED vars PROVE IInv'
<1>1. UNCHANGED <<adapter, db, changes, duck, q, cache, tree, call>>
  BY DEF vars
<1>2. Reading' = Reading
  BY <1>1 DEF Reading
<1> QED BY <1>1, <1>2 DEF IInv, Types, IsCache, IsTree, IsObject, Serial, NotDuck, JobsOK, JobOK, QueriesOK

\* Every reachable state satisfies the invariant.
THEOREM Invariant == Spec => []IInv
<1>1. Init => IInv
  BY InitGood
<1>2. IInv /\ [Next]_vars => IInv'
  BY NextGood, StutterGood
<1> QED BY <1>1, <1>2, PTL DEF Spec

\* Variables have their types, and at most one caller awaits the thread: _lock and
\* to_thread (duckdb_adapter.py:132-142) keep the connection in the hands of one of them.
THEOREM TypeCorrect == Spec => []TypeOK
<1>1. IInv => TypeOK
  <2> SUFFICES ASSUME IInv PROVE TypeOK
    OBVIOUS
  <2>1. Types /\ JobsOK(q, call, duck.jobs) /\ duck.jobs \in Seq(Job)
    BY DEF IInv, Types, DuckState
  <2>2. DuckType
    BY <2>1 DEF Types, DuckState, DuckType
  <2>3. cache.at \in 0..(Changes + 1) /\ cache.lazy \in BOOLEAN /\ Objects(cache.objects)
    BY <2>1 DEF Types, IsCache, IsObject, Objects, Kinds
  <2>4. DOMAIN tree \subseteq Name /\ Objects([o \in DOMAIN tree |-> tree[o].object])
    BY <2>1 DEF Types, IsTree, IsObject, Objects, Kinds
  <2>5. \A c \in Reader : CallType(call[c])
    BY <2>1 DEF Types
  <2>6. Cardinality({i \in 1..Len(duck.jobs) : duck.jobs[i].awaited}) <= 1
    <3> DEFINE awaited == {i \in 1..Len(duck.jobs) : duck.jobs[i].awaited}
               n == Len(duck.jobs)
    <3>1. awaited \subseteq {n}
      BY <2>1 DEF JobsOK, JobOK
    <3>2. IsFiniteSet({n}) /\ Cardinality({n}) = 1
      BY FS_Singleton
    <3> HIDE DEF awaited, n
    <3>3. Cardinality(awaited) <= 1
      BY <3>1, <3>2, FS_Subset
    <3> QED BY <3>3 DEF awaited
  <2> QED BY <2>1, <2>2, <2>3, <2>4, <2>5, <2>6 DEF TypeOK, Types, CallType
<1> QED BY <1>1, Invariant, PTL

\* A select that is reported to have succeeded has delivered every batch, unless the
\* catalog was being read when execute() claimed the connection (duckdb_adapter.py:81-95).
THEOREM RowsKept == Spec => []RowsComplete
<1>1. IInv => RowsComplete
  BY DEF IInv, QueriesOK, QueryOK, Done, RowsComplete
<1> QED BY <1>1, Invariant, PTL

-----------------------------------------------------------------------------
(* What the readers are told *)

\* The objects have the shapes of this adapter's catalog.
Shaped == \A o \in DOMAIN db : db[o] \in Object(db[o].ver)

Busy(k) == k.pc \in {"waiting", "reading", "read"}

\* Of what has not changed meanwhile the answers are what they would be now.
ListOK(k, a, d) ==
  \A o \in Name \ k.met :
    /\ o \in DOMAIN k.kinds <=> o \in DOMAIN List(a, d)
    /\ o \in DOMAIN List(a, d) => k.kinds[o] = List(a, d)[o]
PartOK(k, part, a, d) ==
  \A o \in Name \ k.met : Get(k.answers[part], o) = Get(FetchAll(a, part, d), o)

\* What is read up to an answer of build(), which reads one thing after another.
UpTo == [cols |-> {"list", "cols"}, fks |-> {"list", "cols", "fks"},
         idx |-> {"list", "cols", "fks", "idx"}]
BuildOK(k, a, d) ==
  Busy(k) /\ k.op # "expand" =>
    /\ k.todo \in {{"list"}, {"cols"}, {"fks"}, {"idx"}, {}}
    /\ Lazy(k.op) => k.todo \subseteq {"list"}
    /\ k.todo # {"list"} => ListOK(k, a, d)
    /\ \A part \in Part : IF ~Lazy(k.op) /\ k.todo \cap UpTo[part] = {}
                          THEN PartOK(k, part, a, d) ELSE k.answers[part] = <<>>

\* An expansion asks for the keys and indexes of a table only.
ExpandOK(k, a, d, t) ==
  Busy(k) /\ k.op = "expand" =>
    /\ k.todo \subseteq Part /\ k.obj \in Name
    /\ ~k.detached => k.obj \in DOMAIN t
    /\ \A part \in Part \ k.todo :
         \/ k.obj \notin k.met => Get(k.answers[part], k.obj) = Fetch(a, part, d, k.obj)
         \/ /\ part # "cols" /\ k.answers[part] = <<>>
            /\ ~k.detached => t[k.obj].object.kind # "table"

CallOK(k, a, d, t) ==
  /\ BuildOK(k, a, d) /\ ExpandOK(k, a, d, t)
  /\ k.pc = "idle" => k.answers = [part \in Part |-> <<>>]
  /\ k.pc = "over" => k.todo \subseteq Part
CallsOK(calls, a, d, t) == \A c \in Reader : CallOK(calls[c], a, d, t)

EInv == IInv /\ Shaped /\ CallsOK(call, adapter, db, tree)

\* The objects there may be.
LEMMA Shapes ==
  ASSUME Types, Shaped, NEW o \in DOMAIN db
  PROVE  /\ db[o] \in Entry /\ ~db[o].hidden
         /\ \/ db[o].raw = Shape[adapter].table
               /\ (adapter \in {"sqlite", "mysql"} \/ db[o].index = "plain")
            \/ db[o].raw = Shape[adapter].view /\ db[o].index = "none"
<1>1. db[o] \in Entry /\ db[o] \in Object(db[o].ver)
  BY DEF Types, Shaped
<1> HIDE DEF Shape
<1> QED BY <1>1 DEF Object

\* What the answers say of an object.
Says(o, truth) ==
  /\ o \in DOMAIN List(adapter, db) /\ List(adapter, db)[o] = truth.kind
  /\ Fetch(adapter, "cols", db, o) = truth.cols
  /\ Fetch(adapter, "fks", db, o) = truth.fks
  /\ Fetch(adapter, "idx", db, o) \in {truth.idx, Invalid}
  /\ truth.kind # "table" => truth.fks = None /\ truth.idx = None

\* Every catalog says of its objects what is true of them, or what Index refuses.
LEMMA Truthful ==
  ASSUME Types, Shaped, NEW o \in DOMAIN db PROVE Says(o, Truth(o))
<1> DEFINE e == db[o]
<1>0. /\ e \in Entry /\ ~e.hidden /\ adapter \in Adapter
      /\ \/ e.raw = Shape[adapter].table /\ (adapter \in {"sqlite", "mysql"} \/ e.index = "plain")
         \/ e.raw = Shape[adapter].view /\ e.index = "none"
  BY Shapes DEF Types
<1>1. /\ e.raw \in RawKind /\ e.index \in {"none", "plain", "expression"} /\ e.ver # None
  BY <1>0 DEF Entry
<1>t. /\ Truth(o).kind = IF e.raw \in TableKinds THEN "table"
                         ELSE IF e.raw = "m" THEN "materialized_view" ELSE "view"
      /\ Truth(o).cols = e.ver
      /\ Truth(o).fks = IF e.raw \in TableKinds THEN e.ver ELSE None
      /\ Truth(o).idx = IF e.raw \in TableKinds /\ e.index # "none" THEN e.ver ELSE None
  BY DEF Truth
<1>2. CASE adapter = "sqlite"
  <2>1. \/ e.raw = "table"
        \/ e.raw = "view" /\ e.index = "none"
    <3>1. Shape["sqlite"].table = "table" /\ Shape["sqlite"].view = "view"
      BY DEF Shape
    <3> QED BY <1>0, <1>2, <3>1
  <2>2. /\ List(adapter, db) = SqliteList(db)
        /\ Fetch(adapter, "cols", db, o) = SqliteColumns(db, o)
        /\ Fetch(adapter, "fks", db, o) = SqliteForeignKeys(db, o)
        /\ Fetch(adapter, "idx", db, o) = SqliteIndexes(db, o)
    BY <1>2 DEF List, Fetch
  <2>3. o \in DOMAIN SqliteList(db) /\ SqliteList(db)[o] = e.raw
    BY <1>0, <2>1 DEF SqliteList, Shown
  <2>4. SqliteColumns(db, o) = e.ver
    BY DEF SqliteColumns, Version
  <2>5. SqliteForeignKeys(db, o) = IF e.raw = "table" THEN e.ver ELSE None
    BY DEF SqliteForeignKeys, Rows
  <2>6. SqliteIndexes(db, o) \in {IF e.index # "none" THEN e.ver ELSE None, Invalid}
    BY <1>1 DEF SqliteIndexes, IndexRows, Named
  <2>7. e.raw \in TableKinds <=> e.raw = "table"
    BY <2>1 DEF TableKinds
  <2>8. SqliteIndexes(db, o) \in {Truth(o).idx, Invalid}
    BY <1>t, <2>1, <2>6, <2>7
  <2> QED BY <1>t, <2>1, <2>2, <2>3, <2>4, <2>5, <2>7, <2>8 DEF Says
<1>3. CASE adapter = "postgres"
  <2>1. \/ e.raw = "p" /\ e.index = "plain"
        \/ e.raw = "m" /\ e.index = "none"
    <3>1. Shape["postgres"].table = "p" /\ Shape["postgres"].view = "m"
      BY DEF Shape
    <3> QED BY <1>0, <1>3, <3>1
  <2>2. /\ List(adapter, db) = PostgresList(db)
        /\ Fetch(adapter, "cols", db, o) = PostgresColumns(db, o)
        /\ Fetch(adapter, "fks", db, o) = PostgresForeignKeys(db, o)
        /\ Fetch(adapter, "idx", db, o) = PostgresIndexes(db, o)
    BY <1>3 DEF List, Fetch
  <2>3. o \in Shown(db, Relation)
    BY <1>0, <2>1 DEF Shown, Relation
  <2>4. /\ o \in DOMAIN PostgresList(db)
        /\ PostgresList(db)[o] = IF e.raw = "m" THEN "materialized_view" ELSE "table"
    BY <2>1, <2>3 DEF PostgresList
  <2>5. PostgresColumns(db, o) = e.ver
    BY <2>3 DEF PostgresColumns
  <2>6. PostgresForeignKeys(db, o) = IF e.raw = "p" THEN e.ver ELSE None
    BY <2>1 DEF PostgresForeignKeys, Rows
  <2>7. PostgresIndexes(db, o) = IF e.index # "none" THEN e.ver ELSE None
    BY DEF PostgresIndexes, IndexRows
  <2>8. e.raw \in TableKinds <=> e.raw = "p"
    BY <2>1 DEF TableKinds
  <2> QED BY <1>t, <2>1, <2>2, <2>4, <2>5, <2>6, <2>7, <2>8 DEF Says
<1>4. CASE adapter = "mysql"
  <2>1. \/ e.raw = "BASE TABLE"
        \/ e.raw = "VIEW" /\ e.index = "none"
    <3>1. Shape["mysql"].table = "BASE TABLE" /\ Shape["mysql"].view = "VIEW"
      BY DEF Shape
    <3> QED BY <1>0, <1>4, <3>1
  <2>2. /\ List(adapter, db) = MySQLList(db)
        /\ Fetch(adapter, "cols", db, o) = MySQLColumns(db, o)
        /\ Fetch(adapter, "fks", db, o) = MySQLForeignKeys(db, o)
        /\ Fetch(adapter, "idx", db, o) = MySQLIndexes(db, o)
    BY <1>4 DEF List, Fetch
  <2>3. /\ o \in DOMAIN MySQLList(db)
        /\ MySQLList(db)[o] = IF e.raw = "VIEW" THEN "view" ELSE "table"
    BY <1>0, <1>1 DEF MySQLList, Shown
  <2>4. MySQLColumns(db, o) = e.ver
    BY DEF MySQLColumns, Version
  <2>5. MySQLForeignKeys(db, o) = IF e.raw = "BASE TABLE" THEN e.ver ELSE None
    BY DEF MySQLForeignKeys, Rows
  <2>6. MySQLIndexes(db, o) \in {IF e.index # "none" THEN e.ver ELSE None, Invalid}
    BY <1>1 DEF MySQLIndexes, IndexRows, Named
  <2>7. e.raw \in TableKinds <=> e.raw = "BASE TABLE"
    BY <2>1 DEF TableKinds
  <2>8. MySQLIndexes(db, o) \in {Truth(o).idx, Invalid}
    BY <1>t, <2>1, <2>6, <2>7
  <2> QED BY <1>t, <2>1, <2>2, <2>3, <2>4, <2>5, <2>7, <2>8 DEF Says
<1>5. CASE adapter = "duckdb"
  <2>1. \/ e.raw = "BASE TABLE" /\ e.index = "plain"
        \/ e.raw = "VIEW" /\ e.index = "none"
    <3>1. Shape["duckdb"].table = "BASE TABLE" /\ Shape["duckdb"].view = "VIEW"
      BY DEF Shape
    <3> QED BY <1>0, <1>5, <3>1
  <2>2. /\ List(adapter, db) = DuckList(db)
        /\ Fetch(adapter, "cols", db, o) = DuckColumns(db, o)
        /\ Fetch(adapter, "fks", db, o) = DuckForeignKeys(db, o)
        /\ Fetch(adapter, "idx", db, o) = DuckIndexes(db, o)
    BY <1>5 DEF List, Fetch
  <2>3. /\ o \in DOMAIN DuckList(db)
        /\ DuckList(db)[o] = IF e.raw = "VIEW" THEN "view" ELSE "table"
    BY <1>0, <1>1 DEF DuckList, Shown
  <2>4. DuckColumns(db, o) = e.ver
    BY DEF DuckColumns, Version
  <2>5. DuckForeignKeys(db, o) = IF e.raw = "BASE TABLE" THEN e.ver ELSE None
    BY <2>1 DEF DuckForeignKeys, Rows
  <2>6. DuckIndexes(db, o) = IF e.index # "none" THEN e.ver ELSE None
    BY DEF DuckIndexes, IndexRows
  <2>7. e.raw \in TableKinds <=> e.raw = "BASE TABLE"
    BY <2>1 DEF TableKinds
  <2> QED BY <1>t, <2>1, <2>2, <2>3, <2>4, <2>5, <2>6, <2>7 DEF Says
<1> QED BY <1>0, <1>2, <1>3, <1>4, <1>5 DEF Adapter

\* The bulk answers, too.
LEMMA BulkTruthful ==
  ASSUME Types, Shaped, NEW o \in DOMAIN db
  PROVE  /\ Get(FetchAll(adapter, "cols", db), o) = Truth(o).cols
         /\ Truth(o).kind = "table" =>
              /\ Get(FetchAll(adapter, "fks", db), o) = Truth(o).fks
              /\ Get(FetchAll(adapter, "idx", db), o) \in {Truth(o).idx, Invalid}
<1>1. Says(o, Truth(o)) /\ adapter \in Adapter /\ IsDatabase(db)
  BY Truthful DEF Types, IsDatabase
<1>2. BulkAgrees(adapter, db)
  BY <1>1, BulkAndSingleAgree
<1> QED BY <1>1, <1>2 DEF BulkAgrees, Says

\* What there is not is not listed.
LEMMA Absent ==
  ASSUME Types, NEW o, o \notin DOMAIN db PROVE o \notin DOMAIN List(adapter, db)
BY ListKindsOf DEF Types

\* Calls that are alike, as far as the answers go: the node may be filled, and whoever
\* expands it may learn that it is gone.
LEMMA Alike ==
  ASSUME NEW k, NEW l, NEW a, NEW d, NEW t, NEW u, CallOK(k, a, d, t),
         l.op = k.op, l.obj = k.obj, l.todo = k.todo, l.kinds = k.kinds, l.answers = k.answers,
         l.met = k.met, Busy(l) => Busy(k), l.pc = "idle" => k.pc = "idle",
         l.pc = "over" => k.pc = "over",
         Busy(l) /\ l.op = "expand" /\ ~l.detached =>
           ~k.detached /\ (k.obj \in DOMAIN t =>
             k.obj \in DOMAIN u /\ u[k.obj].object.kind = t[k.obj].object.kind)
  PROVE  CallOK(l, a, d, u)
<1>1. BuildOK(l, a, d)
  BY DEF CallOK, BuildOK, ListOK, PartOK
<1>2. ExpandOK(l, a, d, u)
  BY DEF CallOK, ExpandOK
<1> QED BY <1>1, <1>2 DEF CallOK

\* A call that is over, whatever else.
LEMMA GoneOK ==
  ASSUME NEW todo \in SUBSET Part, NEW a, NEW d, NEW t PROVE CallOK(Over(todo), a, d, t)
<1>1. Over(todo).pc = "over" /\ Over(todo).todo = todo
  BY OverIs, Zenon DEF Over, Idle
<1> QED BY <1>1 DEF CallOK, BuildOK, ExpandOK, Busy

\* A call that notes what changed is right about the rest.
LEMMA NotedOK ==
  ASSUME NEW k, Whole(k), NEW objects \in SUBSET Name, NEW a \in Adapter, NEW d, NEW e, NEW t,
         \A o \in Name \ objects : Kin(d, e, o), CallOK(k, a, d, t)
  PROVE  CallOK([k EXCEPT !.met = k.met \cup objects], a, e, t)
<1> DEFINE n == [k EXCEPT !.met = k.met \cup objects]
<1>1. /\ n.pc = k.pc /\ n.op = k.op /\ n.obj = k.obj /\ n.todo = k.todo /\ n.kinds = k.kinds
      /\ n.answers = k.answers /\ n.detached = k.detached /\ n.met = k.met \cup objects
  BY DEF Whole
<1> HIDE DEF n
<1>2. \A o \in Name \ n.met : o \in Name \ k.met /\ Kin(d, e, o)
  BY <1>1
<1>3. BuildOK(n, a, e)
  <2> SUFFICES ASSUME Busy(k), k.op # "expand" PROVE BuildOK(n, a, e)
    BY <1>1 DEF BuildOK, Busy
  <2>1. ListOK(k, a, d) => ListOK(n, a, e)
    BY <1>1, <1>2, SameAnswers DEF ListOK
  <2>2. \A part \in Part : PartOK(k, part, a, d) => PartOK(n, part, a, e)
    <3> SUFFICES ASSUME NEW part \in Part, PartOK(k, part, a, d), NEW o \in Name \ n.met
                 PROVE  Get(n.answers[part], o) = Get(FetchAll(a, part, e), o)
      BY DEF PartOK
    <3>1. Get(k.answers[part], o) = Get(FetchAll(a, part, d), o)
      BY <1>2 DEF PartOK
    <3>2. Get(FetchAll(a, part, d), o) = Get(FetchAll(a, part, e), o)
      BY <1>2, SameAnswers
    <3> QED BY <1>1, <3>1, <3>2
  <2>3. BuildOK(k, a, d)
    BY DEF CallOK
  <2> QED BY <1>1, <2>1, <2>2, <2>3 DEF BuildOK, Busy
<1>4. ExpandOK(n, a, e, t)
  <2> SUFFICES ASSUME Busy(k), k.op = "expand" PROVE ExpandOK(n, a, e, t)
    BY <1>1 DEF ExpandOK, Busy
  <2>1. \A part \in Part : k.obj \in Name \ n.met =>
          k.obj \notin k.met /\ Fetch(a, part, e, k.obj) = Fetch(a, part, d, k.obj)
    <3> TAKE part \in Part
    <3> HAVE k.obj \in Name \ n.met
    <3>1. Kin(d, e, k.obj) /\ k.obj \notin k.met
      BY <1>2
    <3> QED BY <3>1, SameAnswers
  <2>2. ExpandOK(k, a, d, t)
    BY DEF CallOK
  <2> QED BY <1>1, <2>1, <2>2 DEF ExpandOK, Busy
<1> QED BY <1>1, <1>3, <1>4 DEF CallOK, n

\* Without a change all answers are as good as before.
LEMMA SameOK ==
  ASSUME EInv, UNCHANGED <<adapter, db, tree>>, NEW c \in Reader,
         \A d \in Reader \ {c} : call'[d] = call[d] \/ CallOK(call'[d], adapter, db, tree),
         CallOK(call'[c], adapter, db, tree)
  PROVE  CallsOK(call', adapter', db', tree')
BY DEF EInv, CallsOK

\* The database keeps its shapes, ...
LEMMA ShapedKept ==
  ASSUME Types, Shaped, adapter' = adapter, SameDb \/ Alters PROVE Shaped'
<1>0. \A n : Object(n)' = Object(n)
  BY DEF Object
<1>1. CASE SameDb
  BY <1>0, <1>1 DEF SameDb, Shaped
<1>2. CASE Alters
  <2>1. PICK o \in Name : \/ o \in DOMAIN db /\ db' = Without(o)
                          \/ \E entry \in Object(changes + 2) : db' = With(o, entry)
    BY <1>2 DEF Alters
  <2>2. CASE db' = Without(o)
    <3>1. \A p \in DOMAIN db' : p \in DOMAIN db /\ db'[p] = db[p]
      BY <2>2 DEF Without
    <3> QED BY <1>0, <3>1 DEF Shaped
  <2>3. ASSUME NEW entry \in Object(changes + 2), db' = With(o, entry) PROVE Shaped'
    <3>1. entry.ver = changes + 2
      BY DEF Object
    <3>2. \A p \in DOMAIN db' : db'[p] = entry \/ (p \in DOMAIN db /\ db'[p] = db[p])
      BY <2>3 DEF With
    <3> QED BY <1>0, <3>1, <3>2 DEF Shaped
  <2> QED BY <2>1, <2>2, <2>3
<1> QED BY <1>1, <1>2

\* ... and whoever is under way notes its changes.
LEMMA NotedGood ==
  ASSUME EInv, Noted, UNCHANGED <<adapter, tree>>
  PROVE  CallsOK(call', adapter', db', tree')
<1> SUFFICES ASSUME NEW c \in Reader PROVE CallOK(call'[c], adapter, db', tree)
  BY DEF CallsOK
<1>0. /\ CallOK(call[c], adapter, db, tree) /\ Whole(call[c]) /\ adapter \in Adapter
  BY DEF EInv, CallsOK, IInv, Types, CallType
<1>1. call'[c] = IF c \in UnderWay THEN [call[c] EXCEPT !.met = call[c].met \cup Touched] ELSE call[c]
  BY DEF Noted
<1>2. CASE c \in UnderWay
  <2>1. Touched \in SUBSET Name /\ \A o \in Name \ Touched : Kin(db, db', o)
    BY DEF Touched, Kin
  <2> QED BY <1>0, <1>1, <1>2, <2>1, NotedOK
<1>3. CASE c \notin UnderWay
  <2>1. call'[c] = call[c] /\ ~Busy(call[c])
    BY <1>1, <1>3 DEF UnderWay, Busy
  <2> QED BY <1>0, <2>1 DEF CallOK, BuildOK, ExpandOK
<1> QED BY <1>2, <1>3

\* A call that ends tells nothing any more.
LEMMA EndsTells ==
  ASSUME EInv, NEW c \in Reader, NEW todo \in SUBSET Part, Ends(c, todo),
         UNCHANGED <<adapter, db, tree>>
  PROVE  CallsOK(call', adapter', db', tree')
<1>0. Types
  BY DEF EInv, IInv
<1>1. call' = [call EXCEPT ![c] = Over(todo)]
  BY DEF Ends
<1>2. CallType(Over(todo)) /\ CallOK(Over(todo), adapter, db, tree)
  BY OverIs, GoneOK
<1>3. call'[c] = Over(todo) /\ \A d \in Reader : d # c => call'[d] = call[d]
  BY <1>0, <1>1, <1>2, CallsType
<1> QED BY <1>2, <1>3, SameOK

\* A call that begins has no answers yet.
LEMMA BeginsTells ==
  ASSUME EInv, NEW c \in Reader, NEW op \in Op, NEW o, NEW todo, call[c].pc = "idle",
         Begins(c, op, o, todo), UNCHANGED <<adapter, db, tree>>,
         op # "expand" => todo = {"list"},
         op = "expand" => /\ o \in Name /\ o \in DOMAIN tree /\ todo \subseteq Part
                          /\ \A part \in Part \ todo : part # "cols" /\ tree[o].object.kind # "table"
  PROVE  CallsOK(call', adapter', db', tree')
<1>0. /\ \A d \in Reader : Whole(call[d]) /\ CallOK(call[d], adapter, db, tree)
  BY DEF EInv, IInv, Types, CallsOK, CallType
<1>1. CallOK(call'[c], adapter, db, tree)
  <2> DEFINE pc == IF op = "expand" THEN "reading" ELSE "waiting"
             n == Made(call[c], pc, op, o, todo, UnderWay)
  <2>1. call'[c] = n
    BY DEF Made, Begins
  <2>2. n.pc = pc /\ n.op = op /\ n.todo = todo /\ n.obj = o
    BY <1>0 DEF Made, Whole
  <2>3. n.answers = call[c].answers
    BY <1>0 DEF Made, Whole
  <2>4. \A part \in Part : n.answers[part] = <<>>
    BY <1>0, <2>3 DEF CallOK
  <2> HIDE DEF n
  <2>5. CASE op # "expand"
    <3>1. \A part \in Part : "list" \in n.todo \cap UpTo[part]
      BY <2>2, <2>5 DEF UpTo, Part
    <3>2. BuildOK(n, adapter, db)
      BY <2>2, <2>4, <2>5, <3>1 DEF BuildOK
    <3> QED BY <2>1, <2>2, <2>5, <3>2 DEF CallOK, ExpandOK
  <2>6. CASE op = "expand"
    <3>1. ExpandOK(n, adapter, db, tree)
      BY <2>2, <2>4, <2>6 DEF ExpandOK
    <3> QED BY <2>1, <2>2, <2>6, <3>1 DEF CallOK, BuildOK
  <2> QED BY <2>5, <2>6
<1>2. ASSUME NEW d \in Reader \ {c}, d \in UnderWay PROVE CallOK(call'[d], adapter, db, tree)
  <2> DEFINE n == [call[d] EXCEPT !.crossed = call[d].crossed \cup {c}]
  <2>1. call'[d] = n
    BY <1>2 DEF Begins
  <2>2. /\ n.pc = call[d].pc /\ n.op = call[d].op /\ n.obj = call[d].obj /\ n.todo = call[d].todo
        /\ n.kinds = call[d].kinds /\ n.answers = call[d].answers /\ n.met = call[d].met
        /\ n.detached = call[d].detached
    BY <1>0 DEF Whole
  <2> HIDE DEF n
  <2> QED BY <1>0, <2>1, <2>2, Alike DEF Busy
<1>3. ASSUME NEW d \in Reader \ {c}, d \notin UnderWay PROVE call'[d] = call[d]
  BY <1>3 DEF Begins
<1> QED BY <1>1, <1>2, <1>3, SameOK

\* snapshot() and refresh() ...
LEMMA SnapshotTells ==
  ASSUME EInv, NEW c \in Reader, NEW op \in Op, Snapshot(c, op)
  PROVE  CallsOK(call', adapter', db', tree')
<1>1. UNCHANGED <<adapter, db, tree>> /\ call[c].pc = "idle" /\ op # "expand"
  BY DEF Snapshot, Quiet
<1>2. Ends(c, {}) \/ Begins(c, op, Nobody, {"list"})
  BY DEF Snapshot
<1>3. {} \in SUBSET Part
  OBVIOUS
<1> QED BY <1>1, <1>2, <1>3, EndsTells, BeginsTells

\* ... and the expansion of a node.
LEMMA ExpandTells ==
  ASSUME EInv, NEW c \in Reader, NEW o \in Name, Expand(c, o)
  PROVE  CallsOK(call', adapter', db', tree')
<1> DEFINE todo == IF tree[o].object.kind = "table" THEN Part ELSE {"cols"}
<1>1. UNCHANGED <<adapter, db, tree>> /\ call[c].pc = "idle" /\ o \in DOMAIN tree
  BY DEF Expand, Quiet
<1>2. Ends(c, {}) \/ Begins(c, "expand", o, todo)
  BY DEF Expand
<1>3. {} \in SUBSET Part /\ "expand" \in Op
  BY DEF Op
<1>4. todo \subseteq Part /\ \A part \in Part \ todo : part # "cols" /\ tree[o].object.kind # "table"
  BY DEF Part
<1> HIDE DEF todo
<1> QED BY <1>1, <1>2, <1>3, <1>4, EndsTells, BeginsTells

\* The fields of a call that got an answer.
LEMMA AskedHas ==
  ASSUME NEW k, Whole(k), NEW at, NEW kinds, NEW todo, NEW pc
  PROVE  LET n == Turned(Asked(k, at, kinds), todo, pc)
         IN  /\ n.pc = pc /\ n.op = k.op /\ n.obj = k.obj /\ n.todo = todo /\ n.kinds = kinds
             /\ n.answers = k.answers /\ n.detached = k.detached /\ n.met = k.met
<1> DEFINE m == Asked(k, at, kinds)
           n == Turned(m, todo, pc)
<1>1. /\ Whole(m) /\ m.op = k.op /\ m.obj = k.obj /\ m.kinds = kinds
      /\ m.answers = k.answers /\ m.detached = k.detached /\ m.met = k.met
  BY DEF Whole, Asked
<1> HIDE DEF m
<1>2. /\ n.pc = pc /\ n.op = m.op /\ n.obj = m.obj /\ n.todo = todo /\ n.kinds = m.kinds
      /\ n.answers = m.answers /\ n.detached = m.detached /\ n.met = m.met
  BY <1>1 DEF Whole, Turned
<1> HIDE DEF n
<1> QED BY <1>1, <1>2 DEF m, n

\* The fields of a call that was told one part.
LEMMA ToldHas ==
  ASSUME NEW k, Whole(k), NEW part, NEW answer, NEW todo, NEW pc
  PROVE  LET n == Turned(Told(k, part, answer), todo, pc)
         IN  /\ n.pc = pc /\ n.op = k.op /\ n.obj = k.obj /\ n.todo = todo /\ n.kinds = k.kinds
             /\ n.answers = [k.answers EXCEPT ![part] = answer]
             /\ n.detached = k.detached /\ n.met = k.met
<1> DEFINE m == Told(k, part, answer)
           n == Turned(m, todo, pc)
<1>1. /\ Whole(m) /\ m.op = k.op /\ m.obj = k.obj /\ m.kinds = k.kinds
      /\ m.answers = [k.answers EXCEPT ![part] = answer] /\ m.detached = k.detached /\ m.met = k.met
  BY DEF Whole, Told
<1> HIDE DEF m
<1>2. /\ n.pc = pc /\ n.op = m.op /\ n.obj = m.obj /\ n.todo = todo /\ n.kinds = m.kinds
      /\ n.answers = m.answers /\ n.detached = m.detached /\ n.met = m.met
  BY <1>1 DEF Whole, Turned
<1> HIDE DEF n
<1> QED BY <1>1, <1>2 DEF m, n

\* build() has its list, ...
LEMMA ListTells ==
  ASSUME NEW k, CallType(k), NEW a, NEW d, NEW t, CallOK(k, a, d, t), Busy(k), k.op # "expand",
         "list" \in k.todo, NEW at, NEW pc \in {"reading", "read"}
  PROVE  CallOK(Turned(Asked(k, at, List(a, d)), IF Lazy(k.op) THEN {} ELSE {"cols"}, pc), a, d, t)
<1> DEFINE todo == IF Lazy(k.op) THEN {} ELSE {"cols"}
           n == Turned(Asked(k, at, List(a, d)), todo, pc)
<1>1. BuildOK(k, a, d) /\ Whole(k)
  BY DEF CallOK, CallType
<1>2. /\ n.pc = pc /\ n.op = k.op /\ n.todo = todo /\ n.kinds = List(a, d)
      /\ n.answers = k.answers
  BY <1>1, AskedHas
<1> HIDE DEF n
<1>3. ASSUME NEW part \in Part
      PROVE  n.answers[part] = <<>> /\ (~Lazy(k.op) => todo \cap UpTo[part] # {})
  <2>1. "list" \in UpTo[part] /\ "cols" \in UpTo[part]
    BY DEF UpTo, Part
  <2> QED BY <1>1, <1>2, <2>1 DEF BuildOK
<1>4. ListOK(n, a, d)
  BY <1>2 DEF ListOK
<1>5. todo \in {{"cols"}, {}} /\ (Lazy(k.op) => todo = {})
  OBVIOUS
<1> HIDE DEF todo
<1>6. BuildOK(n, a, d)
  BY <1>2, <1>3, <1>4, <1>5 DEF BuildOK
<1>7. CallOK(n, a, d, t)
  BY <1>2, <1>6 DEF CallOK, ExpandOK
<1> QED BY <1>7 DEF n, todo

\* ... or the next of the answers of a full one.
Rest == [cols |-> {"fks"}, fks |-> {"idx"}, idx |-> {}]
LEMMA BulkTells ==
  ASSUME NEW k, CallType(k), NEW a, NEW d, NEW t, CallOK(k, a, d, t), Busy(k), k.op # "expand",
         NEW part \in Part, part \in k.todo, NEW pc \in {"reading", "read"}
  PROVE  CallOK(Turned(Told(k, part, FetchAll(a, part, d)), Rest[part], pc), a, d, t)
<1> DEFINE n == Turned(Told(k, part, FetchAll(a, part, d)), Rest[part], pc)
<1>1. BuildOK(k, a, d) /\ Whole(k) /\ DOMAIN k.answers = Part
  BY DEF CallOK, CallType
<1>2. /\ n.pc = pc /\ n.op = k.op /\ n.todo = Rest[part] /\ n.kinds = k.kinds /\ n.met = k.met
      /\ n.answers = [k.answers EXCEPT ![part] = FetchAll(a, part, d)]
  BY <1>1, ToldHas
<1> HIDE DEF n
<1>3. k.todo = {part} /\ part # "list" /\ ~Lazy(k.op) /\ ListOK(k, a, d)
  <2>1. part # "list"
    BY DEF Part
  <2> QED BY <1>1, <2>1 DEF BuildOK
<1>4. ListOK(n, a, d)
  BY <1>2, <1>3 DEF ListOK
<1>5. /\ UpTo["cols"] = {"list", "cols"} /\ UpTo["fks"] = {"list", "cols", "fks"}
      /\ UpTo["idx"] = {"list", "cols", "fks", "idx"}
      /\ Rest["cols"] = {"fks"} /\ Rest["fks"] = {"idx"} /\ Rest["idx"] = {}
  BY DEF UpTo, Rest
<1>6. ASSUME NEW p \in Part
      PROVE  IF Rest[part] \cap UpTo[p] = {} THEN PartOK(n, p, a, d) ELSE n.answers[p] = <<>>
  <2>1. IF k.todo \cap UpTo[p] = {} THEN PartOK(k, p, a, d) ELSE k.answers[p] = <<>>
    BY <1>1, <1>3 DEF BuildOK
  <2>2. CASE p = part
    <3>1. n.answers[p] = FetchAll(a, p, d)
      BY <1>1, <1>2, <2>2
    <3>2. Rest[part] \cap UpTo[p] = {}
      BY <1>5, <2>2 DEF Part
    <3> QED BY <3>1, <3>2 DEF PartOK
  <2>3. CASE p # part
    <3>1. n.answers[p] = k.answers[p]
      BY <1>1, <1>2, <2>3
    <3>2. Rest[part] \cap UpTo[p] = {} <=> k.todo \cap UpTo[p] = {}
      BY <1>3, <1>5, <2>3 DEF Part
    <3> QED BY <1>2, <2>1, <3>1, <3>2 DEF PartOK
  <2> QED BY <2>2, <2>3
<1>7. n.todo \in {{"fks"}, {"idx"}, {}}
  BY <1>2, <1>5 DEF Part
<1>8. BuildOK(n, a, d)
  BY <1>2, <1>3, <1>4, <1>6, <1>7 DEF BuildOK
<1>9. CallOK(n, a, d, t)
  BY <1>2, <1>3, <1>8 DEF CallOK, ExpandOK
<1> QED BY <1>9 DEF n

\* An expansion has one of its answers.
LEMMA NodeTells ==
  ASSUME NEW k, CallType(k), NEW a, NEW d, NEW t, CallOK(k, a, d, t), Busy(k), k.op = "expand",
         NEW part \in Part, NEW pc \in {"reading", "read"}
  PROVE  CallOK(Turned(Told(k, part, [o \in {k.obj} |-> Fetch(a, part, d, o)]), k.todo \ {part}, pc),
                a, d, t)
<1> DEFINE answer == [o \in {k.obj} |-> Fetch(a, part, d, o)]
           n == Turned(Told(k, part, answer), k.todo \ {part}, pc)
<1>1. ExpandOK(k, a, d, t) /\ Whole(k) /\ DOMAIN k.answers = Part
  BY DEF CallOK, CallType
<1>2. /\ n.pc = pc /\ n.op = k.op /\ n.obj = k.obj /\ n.todo = k.todo \ {part} /\ n.met = k.met
      /\ n.answers = [k.answers EXCEPT ![part] = answer] /\ n.detached = k.detached
  BY <1>1, ToldHas
<1>3. Get(answer, k.obj) = Fetch(a, part, d, k.obj)
  BY DEF Get
<1> HIDE DEF n, answer
<1>4. n.answers[part] = answer /\ \A p \in Part : p # part => n.answers[p] = k.answers[p]
  BY <1>1, <1>2
<1>5. ASSUME NEW p \in Part \ n.todo
      PROVE  \/ n.obj \notin n.met => Get(n.answers[p], n.obj) = Fetch(a, p, d, n.obj)
             \/ /\ p # "cols" /\ n.answers[p] = <<>>
                /\ ~n.detached => t[n.obj].object.kind # "table"
  <2>1. CASE p = part
    BY <1>2, <1>3, <1>4, <2>1
  <2>2. CASE p # part
    <3>1. p \in Part \ k.todo
      BY <1>2, <2>2
    <3>2. \/ k.obj \notin k.met => Get(k.answers[p], k.obj) = Fetch(a, p, d, k.obj)
          \/ /\ p # "cols" /\ k.answers[p] = <<>>
             /\ ~k.detached => t[k.obj].object.kind # "table"
      BY <1>1, <3>1 DEF ExpandOK
    <3> QED BY <1>2, <1>4, <2>2, <3>2
  <2> QED BY <2>1, <2>2
<1>6. n.todo \subseteq Part /\ n.obj \in Name /\ (~n.detached => n.obj \in DOMAIN t)
  BY <1>1, <1>2 DEF ExpandOK
<1>7. ExpandOK(n, a, d, t)
  BY <1>5, <1>6 DEF ExpandOK
<1>8. CallOK(n, a, d, t)
  BY <1>2, <1>7 DEF CallOK, BuildOK
<1> QED BY <1>8 DEF n, answer

\* A call that got an answer tells the truth.
LEMMA AnsweredTells ==
  ASSUME EInv, NEW c \in Reader, NEW part \in Part \cup {"list"}, part \in call[c].todo
  PROVE  CallOK(Answered(c, part), adapter, db, tree)
<1> DEFINE k == call[c]
           todo == After(c, part)
           pc == IF todo = {} THEN "read" ELSE "reading"
<1>0. CallType(k) /\ Whole(k) /\ CallOK(k, adapter, db, tree)
  BY DEF EInv, IInv, Types, CallType, CallsOK
<1>1. CASE k.pc = "over"
  <2> DEFINE n == [k EXCEPT !.todo = k.todo \ {part}]
  <2>1. Answered(c, part) = n
    BY <1>1 DEF Answered
  <2>2. n.pc = "over" /\ n.todo = k.todo \ {part}
    BY <1>0, <1>1 DEF Whole
  <2> HIDE DEF n
  <2>3. n.todo \subseteq Part
    BY <1>0, <1>1, <2>2 DEF CallOK
  <2> QED BY <2>1, <2>2, <2>3 DEF CallOK, BuildOK, ExpandOK, Busy
<1>2. CASE k.pc # "over"
  <2>1. Busy(k)
    BY <1>0, <1>2 DEF CallType, Busy
  <2>2. pc \in {"reading", "read"}
    OBVIOUS
  <2>3. CASE k.op # "expand" /\ part = "list"
    <3>1. todo = IF Lazy(k.op) THEN {} ELSE {"cols"}
      BY <2>3 DEF After
    <3>2. Answered(c, part) = Turned(Asked(k, changes + 1, List(adapter, db)), todo, pc)
      BY <1>2, <2>3 DEF Answered, Turned, Asked
    <3> HIDE DEF pc, todo, k
    <3> QED BY <1>0, <2>1, <2>2, <2>3, <3>1, <3>2, ListTells DEF k
  <2>4. CASE k.op # "expand" /\ part \in Part
    <3>1. todo = Rest[part]
      BY <2>4 DEF After, Part, Rest
    <3>2. Answered(c, part) = Turned(Told(k, part, FetchAll(adapter, part, db)), todo, pc)
      BY <1>2, <2>4 DEF Answered, Turned, Told, Part
    <3> HIDE DEF pc, todo, k
    <3> QED BY <1>0, <2>1, <2>2, <2>4, <3>1, <3>2, BulkTells DEF k
  <2>5. CASE k.op = "expand"
    <3>1. part \in Part
      BY <1>0, <2>1, <2>5 DEF CallOK, ExpandOK
    <3>2. todo = k.todo \ {part}
      BY <2>5 DEF After
    <3>3. Answered(c, part)
            = Turned(Told(k, part, [o \in {k.obj} |-> Fetch(adapter, part, db, o)]), todo, pc)
      BY <1>2, <2>5, <3>1 DEF Answered, Turned, Told, Part
    <3> HIDE DEF pc, todo, k
    <3> QED BY <1>0, <2>1, <2>2, <2>5, <3>1, <3>2, <3>3, NodeTells
  <2> QED BY <2>3, <2>4, <2>5
<1> QED BY <1>1, <1>2

\* A statement of a reader, on the other adapters and on DuckDB, ...
LEMMA ReadTells ==
  ASSUME EInv, NEW c \in Reader, NEW part \in Part \cup {"list"}, Read(c, part) \/ ReadDone(c, part)
  PROVE  CallsOK(call', adapter', db', tree')
<1>0. Types
  BY DEF EInv, IInv
<1>1. /\ part \in call[c].todo /\ UNCHANGED <<adapter, db, tree>>
      /\ call' = [call EXCEPT ![c] = Answered(c, part)]
  BY DEF Read, ReadDone, MayRead, Quiet
<1>2. CallType(Answered(c, part)) /\ CallOK(Answered(c, part), adapter, db, tree)
  BY <1>0, <1>1, AnsweredIs, AnsweredTells
<1>3. call'[c] = Answered(c, part) /\ \A d \in Reader : d # c => call'[d] = call[d]
  BY <1>0, <1>1, <1>2, CallsType
<1> QED BY <1>1, <1>2, <1>3, SameOK

\* ... where it is given to the thread first.
LEMMA ReadInThreadTells ==
  ASSUME EInv, NEW c \in Reader, NEW part \in Part \cup {"list"}, ReadInThread(c, part)
  PROVE  CallsOK(call', adapter', db', tree')
<1>0. /\ Types /\ CallType(call[c]) /\ Whole(call[c]) /\ CallOK(call[c], adapter, db, tree)
  BY DEF EInv, IInv, Types, CallType, CallsOK
<1>1. UNCHANGED <<adapter, db, tree>> /\ part \in call[c].todo
  BY DEF ReadInThread
<1>2. CASE part = "list"
  <2> DEFINE n == [call[c] EXCEPT !.pc = "reading"]
  <2>1. call' = [call EXCEPT ![c] = n]
    BY <1>0, <1>2 DEF ReadInThread, Types
  <2>2. /\ n.pc = "reading" /\ n.op = call[c].op /\ n.obj = call[c].obj /\ n.todo = call[c].todo
        /\ n.kinds = call[c].kinds /\ n.answers = call[c].answers /\ n.met = call[c].met
        /\ n.detached = call[c].detached
    BY <1>0 DEF Whole
  <2>3. call'[c] = n /\ \A d \in Reader : d # c => call'[d] = call[d]
    BY <1>0, <2>1 DEF Types
  <2>4. Busy(call[c])
    <3>1. "list" \notin Part
      BY DEF Part
    <3> QED BY <1>0, <1>1, <1>2, <3>1 DEF CallType, CallOK, Busy
  <2> HIDE DEF n
  <2>5. CallOK(n, adapter, db, tree)
    BY <1>0, <2>2, <2>4, Alike
  <2> QED BY <1>1, <2>3, <2>5, SameOK
<1>3. CASE part # "list"
  <2>1. call' = call
    BY <1>3 DEF ReadInThread
  <2> QED BY <1>1, <2>1, <1>0, SameOK
<1> QED BY <1>2, <1>3

\* It may fail.
LEMMA ReadFailsTells ==
  ASSUME EInv, NEW c \in Reader, NEW part \in Part \cup {"list"}, ReadFails(c, part)
  PROVE  CallsOK(call', adapter', db', tree')
<1> DEFINE todo == IF call[c].op = "expand" THEN call[c].todo \ {part} ELSE {}
<1>1. UNCHANGED <<adapter, db, tree>> /\ Ends(c, todo) /\ Busy(call[c])
  BY DEF ReadFails, Busy
<1>2. ExpandOK(call[c], adapter, db, tree)
  BY DEF EInv, CallsOK, CallOK
<1>3. todo \in SUBSET Part
  BY <1>1, <1>2 DEF ExpandOK
<1> HIDE DEF todo
<1> QED BY <1>1, <1>3, EndsTells

\* Whoever expands a node of a tree that is populated anew learns that it is gone.
LEMMA StoreTells ==
  ASSUME EInv, NEW c \in Reader, Store(c)
  PROVE  CallsOK(call', adapter', db', tree')
<1>1. UNCHANGED <<adapter, db>> /\ {} \in SUBSET Part
  BY DEF Store, Quiet
<1>2. CASE call[c].op # "refresh"
  BY <1>1, <1>2, EndsTells DEF Store
<1>3. CASE call[c].op = "refresh"
  <2> SUFFICES ASSUME NEW d \in Reader PROVE CallOK(call'[d], adapter, db, tree')
    BY <1>1 DEF CallsOK
  <2>0. Whole(call[d]) /\ CallOK(call[d], adapter, db, tree)
    BY DEF EInv, IInv, Types, CallType, CallsOK
  <2>1. call'[d] = IF d = c THEN Over({})
                   ELSE [call[d] EXCEPT !.detached = call[d].detached \/ d \in Expanding]
    BY <1>3 DEF Store
  <2>2. CASE d = c
    BY <1>1, <2>1, <2>2, GoneOK
  <2>3. CASE d # c
    <3> DEFINE n == [call[d] EXCEPT !.detached = call[d].detached \/ d \in Expanding]
    <3>1. /\ n.pc = call[d].pc /\ n.op = call[d].op /\ n.obj = call[d].obj /\ n.todo = call[d].todo
          /\ n.kinds = call[d].kinds /\ n.answers = call[d].answers /\ n.met = call[d].met
          /\ n.detached = (call[d].detached \/ d \in Expanding)
      BY <2>0 DEF Whole
    <3>2. call'[d] = n
      BY <2>1, <2>3
    <3> HIDE DEF n
    <3>3. Busy(n) /\ n.op = "expand" => n.detached
      BY <3>1 DEF Busy, Expanding, UnderWay
    <3> QED BY <2>0, <3>1, <3>2, <3>3, Alike DEF Busy
  <2> QED BY <2>2, <2>3
<1> QED BY <1>2, <1>3

\* A node that is filled is of the kind it was.
LEMMA FillTells ==
  ASSUME EInv, NEW c \in Reader, Fill(c)
  PROVE  CallsOK(call', adapter', db', tree')
<1>1. UNCHANGED <<adapter, db>> /\ {} \in SUBSET Part /\ Ends(c, {})
  BY DEF Fill, Quiet
<1>2. /\ DOMAIN tree' = DOMAIN tree
      /\ \A o \in DOMAIN tree : tree'[o].object.kind = tree[o].object.kind
  <2> DEFINE o == call[c].obj
             with(x) == [x EXCEPT !.cols = Get(call[c].answers["cols"], o),
               !.fks = Get(call[c].answers["fks"], o), !.idx = Get(call[c].answers["idx"], o)]
  <2>0. \A p \in DOMAIN tree : IsObject(tree[p].object)
    BY DEF EInv, IInv, Types, IsTree
  <2>1. tree' = tree \/ tree' = [tree EXCEPT ![o] = [object |-> with(tree[o].object), filled |-> TRUE]]
    BY DEF Fill
  <2>2. \A x : IsObject(x) => with(x).kind = x.kind
    BY DEF IsObject
  <2> HIDE DEF with
  <2> QED BY <2>0, <2>1, <2>2
<1> SUFFICES ASSUME NEW d \in Reader PROVE CallOK(call'[d], adapter, db, tree')
  BY <1>1 DEF CallsOK
<1>3. CallOK(call[d], adapter, db, tree) /\ call'[d] = IF d = c THEN Over({}) ELSE call[d]
  BY <1>1 DEF EInv, IInv, Types, CallsOK, Ends
<1>4. CASE d = c
  BY <1>1, <1>3, <1>4, GoneOK
<1>5. CASE d # c
  BY <1>2, <1>3, <1>5, Alike
<1> QED BY <1>4, <1>5

\* At first nobody has asked for anything, ...
LEMMA InitTells == Init => EInv
<1> SUFFICES ASSUME Init PROVE EInv
  OBVIOUS
<1>1. Shaped
  <2>1. PICK objects \in SUBSET Name : db \in [objects -> Object(1)]
    BY DEF Init
  <2>2. \A entry \in Object(1) : entry.ver = 1
    BY DEF Object
  <2> QED BY <2>1, <2>2 DEF Shaped
<1>2. CallsOK(call, adapter, db, tree)
  <2> SUFFICES ASSUME NEW c \in Reader PROVE CallOK(Idle, adapter, db, tree)
    BY DEF Init, CallsOK
  <2>1. Idle.pc = "idle" /\ Idle.answers = [part \in Part |-> <<>>]
    BY DEF Idle
  <2> QED BY <2>1 DEF CallOK, BuildOK, ExpandOK, Busy
<1> QED BY <1>1, <1>2, InitGood DEF EInv

\* no step of a query reads the catalog, ...
LEMMA QueriesDb ==
  ASSUME NEW r \in Query, NEW reading, Queries(r, reading) PROVE SameDb \/ Alters
BY DEF Queries, Execute, Executed, ExecuteFails, Describe, DescribedDone, AfterWaiting, FetchedRows,
       FetchedNothing, FetchFails, Pull, Abandon, LateThread, Cancel, Reset, ResetDone, Last,
       FetchNext, EndsAs

\* ... and what they are told stays right.
LEMMA NextTells == ASSUME EInv, Next PROVE EInv'
<1>0. IInv' /\ Types /\ Shaped
  BY NextGood DEF EInv, IInv
<1>1. CASE Change /\ Noted
  <2>1. UNCHANGED <<adapter, tree>> /\ Alters
    BY <1>1 DEF Change
  <2> QED BY <1>0, <1>1, <2>1, NotedGood, ShapedKept DEF EInv
<1>2. ASSUME NEW r \in Query, Queries(r, Reading), Noted, UNCHANGED <<adapter, cache, tree>>
      PROVE  EInv'
  <2>1. SameDb \/ Alters
    BY <1>2, QueriesDb
  <2> QED BY <1>0, <1>2, <2>1, NotedGood, ShapedKept DEF EInv
<1>3. ASSUME UNCHANGED <<adapter, db, changes>>, CallsOK(call', adapter', db', tree') PROVE EInv'
  BY <1>0, <1>3, ShapedKept DEF EInv, SameDb
<1>4. ASSUME NEW c \in Reader, NEW op \in Op, Snapshot(c, op) PROVE EInv'
  <2>1. CallsOK(call', adapter', db', tree')
    BY <1>4, SnapshotTells
  <2> QED BY <1>3, <1>4, <2>1 DEF Snapshot, Quiet
<1>5. ASSUME NEW c \in Reader, NEW o \in Name, Expand(c, o) PROVE EInv'
  <2>1. CallsOK(call', adapter', db', tree')
    BY <1>5, ExpandTells
  <2> QED BY <1>3, <1>5, <2>1 DEF Expand, Quiet
<1>6. ASSUME NEW c \in Reader, NEW part \in Part \cup {"list"},
             Read(c, part) \/ ReadInThread(c, part) \/ ReadDone(c, part) \/ ReadFails(c, part)
      PROVE  EInv'
  <2>1. CallsOK(call', adapter', db', tree')
    BY <1>6, ReadTells, ReadInThreadTells, ReadFailsTells
  <2>2. UNCHANGED <<adapter, db, changes>>
    BY <1>6 DEF Read, ReadInThread, ReadDone, ReadFails, Quiet
  <2> QED BY <1>3, <2>1, <2>2
<1>7. ASSUME NEW c \in Reader, CannotBeRead(c) \/ Store(c) \/ Fill(c) PROVE EInv'
  <2>1. UNCHANGED <<adapter, db, changes>>
    BY <1>7 DEF CannotBeRead, Store, Fill, Quiet
  <2>2. CASE CannotBeRead(c)
    <3>1. Ends(c, {}) /\ UNCHANGED tree /\ {} \in SUBSET Part
      BY <2>2 DEF CannotBeRead
    <3> QED BY <1>3, <2>1, <3>1, EndsTells
  <2>3. CASE Store(c) \/ Fill(c)
    BY <1>3, <2>1, <2>3, StoreTells, FillTells
  <2> QED BY <1>7, <2>2, <2>3
<1>8. CASE Invalidate
  <2>1. UNCHANGED <<adapter, db, changes, tree, call>>
    BY <1>8 DEF Invalidate, Quiet
  <2> QED BY <1>3, <2>1 DEF EInv, CallsOK
<1> QED BY <1>1, <1>2, <1>4, <1>5, <1>6, <1>7, <1>8 DEF Next

\* A step that changes nothing tells nothing.
LEMMA StutterTells == ASSUME EInv, UNCHANGED vars PROVE EInv'
<1>1. UNCHANGED <<adapter, db, changes, tree, call>>
  BY DEF vars
<1>2. IInv' /\ Types /\ Shaped /\ CallsOK(call, adapter, db, tree)
  BY StutterGood DEF EInv, IInv
<1> QED BY <1>1, <1>2, ShapedKept DEF EInv, SameDb

\* Nothing an answer holds is what Index refuses.
LEMMA Readable ==
  ASSUME NEW c \in Reader, ~Unreadable(c), NEW part \in Part, NEW o
  PROVE  Get(call[c].answers[part], o) # Invalid
BY DEF Unreadable, Get, None, Invalid

\* A snapshot says what the database does.
LEMMA StoreExact ==
  ASSUME EInv, NEW c \in Reader, Store(c), NEW o \in Name \ call[c].met
  PROVE  /\ o \in DOMAIN cache'.objects <=> o \in DOMAIN db
         /\ o \in DOMAIN db => cache'.objects[o] =
              IF Lazy(call[c].op) THEN [kind |-> Truth(o).kind, cols |-> None, fks |-> None, idx |-> None]
              ELSE Truth(o)
<1> DEFINE k == call[c]
<1>0. /\ Types /\ Shaped /\ k.todo = {} /\ BuildOK(k, adapter, db) /\ k.pc = "read" /\ k.op # "expand"
  BY ReadIsDone DEF EInv, CallsOK, CallOK, Store, IInv
<1>1. /\ ListOK(k, adapter, db)
      /\ \A part \in Part : IF ~Lazy(k.op) THEN PartOK(k, part, adapter, db) ELSE k.answers[part] = <<>>
  BY <1>0 DEF BuildOK, Busy
<1>2. cache'.objects = Assemble(k.kinds, k.answers)
  BY DEF Store, Built
<1>3. o \in DOMAIN k.kinds <=> o \in DOMAIN db
  <2>1. o \in DOMAIN k.kinds <=> o \in DOMAIN List(adapter, db)
    BY <1>1 DEF ListOK
  <2>2. o \in DOMAIN db => o \in DOMAIN List(adapter, db)
    BY <1>0, Truthful DEF Says
  <2>3. o \notin DOMAIN db => o \notin DOMAIN List(adapter, db)
    BY <1>0, Absent
  <2> QED BY <2>1, <2>2, <2>3
<1>4. ASSUME o \in DOMAIN db
      PROVE  cache'.objects[o] =
              IF Lazy(k.op) THEN [kind |-> Truth(o).kind, cols |-> None, fks |-> None, idx |-> None]
              ELSE Truth(o)
  <2>1. /\ Says(o, Truth(o)) /\ k.kinds[o] = Truth(o).kind
    BY <1>0, <1>1, <1>4, Truthful DEF ListOK, Says
  <2>2. cache'.objects[o] =
          [kind |-> k.kinds[o], cols |-> Get(k.answers["cols"], o),
           fks |-> IF k.kinds[o] = "table" THEN Get(k.answers["fks"], o) ELSE None,
           idx |-> IF k.kinds[o] = "table" THEN Get(k.answers["idx"], o) ELSE None]
    BY <1>2, <1>3, <1>4 DEF Assemble
  <2>p. "cols" \in Part /\ "fks" \in Part /\ "idx" \in Part
    BY DEF Part
  <2>3. CASE Lazy(k.op)
    <3>1. \A part \in Part : Get(k.answers[part], o) = None
      BY <1>1, <2>3 DEF Get
    <3> QED BY <2>1, <2>2, <2>3, <2>p, <3>1
  <2>4. CASE ~Lazy(k.op)
    <3>1. \A part \in Part : Get(k.answers[part], o) = Get(FetchAll(adapter, part, db), o)
      BY <1>1, <2>4 DEF PartOK
    <3>2. \A part \in Part : Get(k.answers[part], o) # Invalid
      BY Readable DEF Store
    <3>3. /\ Get(k.answers["cols"], o) = Truth(o).cols
          /\ Truth(o).kind = "table" =>
               Get(k.answers["fks"], o) = Truth(o).fks /\ Get(k.answers["idx"], o) = Truth(o).idx
      BY <1>0, <1>4, <2>p, <3>1, <3>2, BulkTruthful
    <3>4. Truth(o).kind # "table" => Truth(o).fks = None /\ Truth(o).idx = None
      BY <2>1 DEF Says
    <3>5. Truth(o) = [kind |-> Truth(o).kind, cols |-> Truth(o).cols, fks |-> Truth(o).fks,
                      idx |-> Truth(o).idx]
      BY DEF Truth
    <3> QED BY <2>1, <2>2, <2>4, <3>3, <3>4, <3>5
  <2> QED BY <2>3, <2>4
<1> QED BY <1>2, <1>3, <1>4 DEF Assemble

\* An object that is updated is what it was updated to.
Updated(x, cols, fks, idx) == [x EXCEPT !.cols = cols, !.fks = fks, !.idx = idx]
\* Its other fields stay.
LEMMA UpdatedIs ==
  ASSUME NEW x, IsObject(x), NEW cols, NEW fks, NEW idx
  PROVE  Updated(x, cols, fks, idx) = [kind |-> x.kind, cols |-> cols, fks |-> fks, idx |-> idx]
<1> DEFINE y == [x EXCEPT !.cols = cols, !.fks = fks, !.idx = idx]
           z == [kind |-> x.kind, cols |-> cols, fks |-> fks, idx |-> idx]
           fields == {"kind", "cols", "fks", "idx"}
<1>1. y["kind"] = x["kind"] /\ y["cols"] = cols /\ y["fks"] = fks /\ y["idx"] = idx
  BY DEF IsObject
<1>2. z["kind"] = x["kind"] /\ z["cols"] = cols /\ z["fks"] = fks /\ z["idx"] = idx
  OBVIOUS
<1>3. y = [f \in fields |-> y[f]] /\ z = [f \in fields |-> z[f]]
  BY DEF IsObject
<1> HIDE DEF y, z
<1>4. \A f \in fields : y[f] = z[f]
  BY <1>1, <1>2
<1>5. y = z
  BY <1>3, <1>4, Zenon
<1> QED BY <1>5 DEF y, z, Updated

\* So does a node that is filled.
LEMMA FillExact ==
  ASSUME EInv, NEW c \in Reader, Fill(c), ~call[c].detached, call[c].obj \notin call[c].met,
         call[c].obj \in DOMAIN db, tree[call[c].obj].object.kind = Truth(call[c].obj).kind
  PROVE  tree'[call[c].obj].object = Truth(call[c].obj)
<1> DEFINE k == call[c]
           o == k.obj
           x == tree[o].object
<1>0. /\ Types /\ Shaped /\ k.todo = {} /\ ExpandOK(k, adapter, db, tree) /\ k.pc = "read" /\ k.op = "expand"
  BY ReadIsDone DEF EInv, CallsOK, CallOK, Fill, IInv
<1>1. /\ o \in DOMAIN tree /\ IsObject(x)
      /\ \A part \in Part :
           \/ Get(k.answers[part], o) = Fetch(adapter, part, db, o)
           \/ part # "cols" /\ k.answers[part] = <<>> /\ x.kind # "table"
  BY <1>0 DEF ExpandOK, Busy, Types, IsTree
<1>2. Says(o, Truth(o)) /\ \A part \in Part : Get(k.answers[part], o) # Invalid
  BY <1>0, Truthful, Readable DEF Fill
<1>p. "cols" \in Part /\ "fks" \in Part /\ "idx" \in Part
  BY DEF Part
<1>3. Get(k.answers["cols"], o) = Truth(o).cols
  BY <1>1, <1>2, <1>p DEF Says
<1>4. Get(k.answers["fks"], o) = Truth(o).fks
  BY <1>1, <1>2, <1>p DEF Says, Get
<1>5. Get(k.answers["idx"], o) = Truth(o).idx
  BY <1>1, <1>2, <1>p DEF Says, Get
<1>6. tree' = [tree EXCEPT ![o] =
        [object |-> [x EXCEPT !.cols = Get(k.answers["cols"], o), !.fks = Get(k.answers["fks"], o),
                              !.idx = Get(k.answers["idx"], o)], filled |-> TRUE]]
  BY DEF Fill
<1>7. tree'[o].object = Updated(x, Truth(o).cols, Truth(o).fks, Truth(o).idx)
  BY <1>1, <1>3, <1>4, <1>5, <1>6 DEF Updated
<1> HIDE DEF x
<1>8. Updated(x, Truth(o).cols, Truth(o).fks, Truth(o).idx)
        = [kind |-> x.kind, cols |-> Truth(o).cols, fks |-> Truth(o).fks, idx |-> Truth(o).idx]
  BY <1>1, UpdatedIs
<1>9. Truth(o) = [kind |-> Truth(o).kind, cols |-> Truth(o).cols, fks |-> Truth(o).fks,
                  idx |-> Truth(o).idx]
  BY DEF Truth
<1> QED BY <1>7, <1>8, <1>9 DEF x

\* A request for a full snapshot is not answered with a lazy one.
LEMMA SnapshotExact ==
  ASSUME EInv, NEW c \in Reader, Snapshot(c, "snapshot"), call'[c].pc = "over", Claims(c)
  PROVE  ~cache.lazy
<1> SUFFICES ASSUME ~Cached("snapshot") PROVE FALSE
  BY DEF Cached, Lazy
<1>1. Begins(c, "snapshot", Nobody, {"list"})
  BY DEF Snapshot
<1>2. Whole(call[c])
  BY DEF EInv, IInv, Types, CallType
<1>3. call'[c] = Made(call[c], "waiting", "snapshot", Nobody, {"list"}, UnderWay)
  BY <1>1 DEF Begins, Made
<1>4. call'[c].pc = "waiting"
  BY <1>2, <1>3 DEF Whole, Made
<1> QED BY <1>4

\* Every reachable state satisfies this invariant, too.
THEOREM Telling == Spec => []EInv
<1>1. EInv /\ [Next]_vars => EInv'
  BY NextTells, StutterTells
<1> QED BY <1>1, InitTells, PTL DEF Spec

\* Of what did not change meanwhile a snapshot that is stored and a node that is filled
\* say exactly what the database does, and a full snapshot is not answered from a lazy
\* cache (introspector.py:31-58, _introspect.py:74-124, schema_tree.py:78-96).
THEOREM AnswersExact == Spec => ExactAnswer
<1> DEFINE Exact == \A c \in Reader :
       /\ Store(c) => \A o \in Name \ call[c].met :
            /\ o \in DOMAIN cache'.objects <=> o \in DOMAIN db
            /\ o \in DOMAIN db => cache'.objects[o] =
                 IF Lazy(call[c].op) THEN [kind |-> Truth(o).kind, cols |-> None, fks |-> None, idx |-> None]
                 ELSE Truth(o)
       /\ Fill(c) /\ ~call[c].detached /\ call[c].obj \notin call[c].met
          /\ call[c].obj \in DOMAIN db /\ tree[call[c].obj].object.kind = Truth(call[c].obj).kind
            => tree'[call[c].obj].object = Truth(call[c].obj)
       /\ Snapshot(c, "snapshot") /\ call'[c].pc = "over" /\ Claims(c)
            => ~cache.lazy
<1>1. ASSUME EInv PROVE Exact
  BY <1>1, StoreExact, FillExact, SnapshotExact
<1> HIDE DEF Exact
<1>2. EInv => [Exact]_vars
  BY <1>1
<1>3. (Spec => [][Exact]_vars)
  BY <1>2, Telling, PTL
<1> QED BY <1>3 DEF Exact, ExactAnswer

-----------------------------------------------------------------------------
(* The cache does not go back *)

\* What was read, at some time, of the columns of objects.
Past(answer, d, n) ==
  \A o \in DOMAIN answer : answer[o] \in 0..n /\ (o \in DOMAIN d => answer[o] <= d[o].ver)
Cols(objects) == [o \in DOMAIN objects |-> objects[o].cols]

\* Versions are given out in order, and nobody knows of one that is to come.
Versions(d, n) == \A o \in DOMAIN d : d[o].ver \in 1..n
KnownPast(calls, d, n) ==
  \A c \in Reader : Past(calls[c].answers["cols"], d, n) /\ calls[c].at \in 0..n

\* The one was read after the other.
NoEarlier(new, old) == \A o \in DOMAIN new \cap DOMAIN old : new[o] = None \/ old[o] <= new[o]
Ahead(k, cached) ==
  /\ k.op # "expand" /\ k.todo # {"list"} => cached.at <= k.at
  /\ NoEarlier(k.answers["cols"], Cols(cached.objects))

\* A call that crossed no other is the only one; the cache is older than its answers.
AloneOK == \A c \in UnderWay : call[c].crossed = {} => UnderWay = {c} /\ Ahead(call[c], cache)

\* The lock of PostgreSQL's and MySQL's adapter: one build at a time, whose answers are
\* newer than the cache and than those of the expansions under way.
BuildsOK ==
  adapter \in {"postgres", "mysql"} => \A c \in Reader : Building(c) =>
    /\ Ahead(call[c], cache)
    /\ \A d \in Reader :
         /\ Building(d) => d = c
         /\ Busy(call[d]) /\ call[d].op = "expand" =>
              NoEarlier(call[c].answers["cols"], call[d].answers["cols"])

\* The first thing a build waits for is the list.
WaitsOK == \A c \in Reader : call[c].pc = "waiting" => call[c].op # "expand" /\ call[c].todo = {"list"}

NInv ==
  /\ EInv /\ Versions(db, changes + 1) /\ KnownPast(call, db, changes + 1)
  /\ cache.at \in 0..(changes + 1) /\ Past(Cols(cache.objects), db, changes + 1)
  /\ AloneOK /\ BuildsOK /\ WaitsOK

\* An answer that has just been read.
Fresh(answer) ==
  \A o \in DOMAIN answer : answer[o] = None \/ (o \in DOMAIN db /\ answer[o] = db[o].ver)

\* It names the versions there are, ...
LEMMA FetchFresh ==
  ASSUME adapter \in Adapter
  PROVE  /\ Fresh(FetchAll(adapter, "cols", db))
         /\ \A o : Fresh([p \in {o} |-> Fetch(adapter, "cols", db, o)])
<1>1. Fresh(FetchAll(adapter, "cols", db))
  <2>1. \A objects : objects \subseteq DOMAIN db => Fresh(RowsOf(db, objects))
    BY DEF Fresh, RowsOf
  <2>2. \A raws : Shown(db, raws) \subseteq DOMAIN db
    BY DEF Shown
  <2>3. \E raws : FetchAll(adapter, "cols", db) = RowsOf(db, Shown(db, raws))
    <3>1. CASE adapter = "sqlite"
      BY <3>1 DEF FetchAll, SqliteAllColumns
    <3>2. CASE adapter = "postgres"
      BY <3>2 DEF FetchAll, PostgresAllColumns
    <3>3. CASE adapter = "mysql"
      BY <3>3 DEF FetchAll, MySQLAllColumns
    <3>4. CASE adapter = "duckdb"
      BY <3>4 DEF FetchAll, DuckAllColumns
    <3> QED BY <3>1, <3>2, <3>3, <3>4 DEF Adapter
  <2> QED BY <2>1, <2>2, <2>3
<1>2. ASSUME NEW o
      PROVE  Fetch(adapter, "cols", db, o) = None
               \/ (o \in DOMAIN db /\ Fetch(adapter, "cols", db, o) = db[o].ver)
  <2>1. CASE adapter = "sqlite"
    BY <2>1 DEF Fetch, SqliteColumns, Version
  <2>2. CASE adapter = "postgres"
    BY <2>2 DEF Fetch, PostgresColumns, Shown
  <2>3. CASE adapter = "mysql"
    BY <2>3 DEF Fetch, MySQLColumns, Version
  <2>4. CASE adapter = "duckdb"
    BY <2>4 DEF Fetch, DuckColumns, Version
  <2> QED BY <2>1, <2>2, <2>3, <2>4 DEF Adapter
<1> QED BY <1>1, <1>2 DEF Fresh

\* ... which are not older than any that was read before.
LEMMA FreshNewer ==
  ASSUME NEW answer, Fresh(answer), NEW n \in Nat, Versions(db, n)
  PROVE  /\ Past(answer, db, n)
         /\ \A old : Past(old, db, n) => NoEarlier(answer, old)
<1>1. ASSUME NEW o \in DOMAIN answer
      PROVE  answer[o] \in 0..n /\ (o \in DOMAIN db => answer[o] <= db[o].ver)
  BY DEF Fresh, Versions, None
<1>2. ASSUME NEW old, Past(old, db, n), NEW o \in DOMAIN answer \cap DOMAIN old
      PROVE  answer[o] = None \/ old[o] <= answer[o]
  BY <1>2 DEF Fresh, Past
<1> QED BY <1>1, <1>2 DEF Past, NoEarlier

\* No answer yet.
LEMMA NoAnswer ==
  ASSUME NEW d, NEW n \in Nat
  PROVE  Past(<<>>, d, n) /\ \A other : NoEarlier(<<>>, other) /\ NoEarlier(other, <<>>)
<1>1. DOMAIN <<>> = {}
  OBVIOUS
<1> QED BY <1>1 DEF Past, NoEarlier

\* What was read stays in the past when the database changes.
LEMMA PastKept ==
  ASSUME Types, Versions(db, changes + 1), SameDb \/ Alters
  PROVE  /\ Versions(db', changes' + 1) /\ changes <= changes' /\ changes' \in Nat
         /\ \A answer : Past(answer, db, changes + 1) => Past(answer, db', changes' + 1)
<1>0. changes \in Nat
  BY BoundsAssumption DEF Types
<1>1. CASE SameDb
  BY <1>0, <1>1 DEF SameDb
<1>2. CASE Alters
  <2>1. PICK o \in Name : \/ o \in DOMAIN db /\ db' = Without(o)
                          \/ \E entry \in Object(changes + 2) : db' = With(o, entry)
    BY <1>2 DEF Alters
  <2>2. changes' = changes + 1
    BY <1>2 DEF Alters
  <2>3. \A p \in DOMAIN db' : \/ db'[p].ver = changes + 2
                              \/ p \in DOMAIN db /\ db'[p] = db[p]
    <3>1. CASE db' = Without(o)
      BY <3>1 DEF Without
    <3>2. ASSUME NEW entry \in Object(changes + 2), db' = With(o, entry)
          PROVE  \A p \in DOMAIN db' : db'[p].ver = changes + 2 \/ (p \in DOMAIN db /\ db'[p] = db[p])
      <4>1. entry.ver = changes + 2
        BY DEF Object
      <4> QED BY <3>2, <4>1 DEF With
    <3> QED BY <2>1, <3>1, <3>2
  <2>4. Versions(db', changes' + 1)
    BY <1>0, <2>2, <2>3 DEF Versions
  <2>5. ASSUME NEW answer, Past(answer, db, changes + 1), NEW p \in DOMAIN answer
        PROVE  answer[p] \in 0..(changes' + 1) /\ (p \in DOMAIN db' => answer[p] <= db'[p].ver)
    BY <1>0, <2>2, <2>3, <2>5 DEF Past
  <2> QED BY <1>0, <2>2, <2>4, <2>5 DEF Past
<1> QED BY <1>1, <1>2

\* A call that is where it was.
Gist(l, k) ==
  /\ l.pc = k.pc /\ l.op = k.op /\ l.todo = k.todo /\ l.at = k.at /\ l.answers = k.answers
  /\ k.crossed \subseteq l.crossed

Server == adapter \in {"postgres", "mysql"}

\* A step of the call of c.
LEMMA OneCall ==
  ASSUME NInv, EInv', UNCHANGED <<adapter, db, changes>>, NEW c \in Reader,
         \A d \in Reader \ {c} : Gist(call'[d], call[d]),
         Past(call'[c].answers["cols"], db, changes + 1), call'[c].at \in 0..(changes + 1),
         cache'.at \in 0..(changes + 1), Past(Cols(cache'.objects), db, changes + 1),
         cache' = cache \/ c \in UnderWay,
         call'[c].pc = "waiting" => call'[c].op # "expand" /\ call'[c].todo = {"list"},
         Busy(call'[c]) /\ c \notin UnderWay => \A d \in UnderWay : call'[d].crossed # {},
         Busy(call'[c]) /\ call'[c].crossed = {} =>
           (\A d \in UnderWay : d = c) /\ Ahead(call'[c], cache'),
         Server => \A e \in Reader \ {c} : Building(e) =>
           /\ Ahead(call[e], cache')
           /\ call'[c].op # "expand" => call'[c].pc \notin {"reading", "read"}
           /\ Busy(call'[c]) /\ call'[c].op = "expand" =>
                NoEarlier(call[e].answers["cols"], call'[c].answers["cols"]),
         Server /\ call'[c].op # "expand" /\ call'[c].pc \in {"reading", "read"} =>
           /\ Ahead(call'[c], cache')
           /\ \A d \in Reader \ {c} : Busy(call[d]) /\ call[d].op = "expand" =>
                NoEarlier(call'[c].answers["cols"], call[d].answers["cols"])
  PROVE  NInv'
<1>1. KnownPast(call', db', changes' + 1) /\ Versions(db', changes' + 1)
  BY DEF KnownPast, Gist, NInv
<1>2. \A d \in Reader \ {c} : d \in UnderWay' <=> d \in UnderWay
  BY DEF UnderWay, Gist
<1>3. c \in UnderWay' <=> Busy(call'[c])
  BY DEF UnderWay, Busy
<1>4. AloneOK'
  <2> SUFFICES ASSUME NEW d \in UnderWay', call'[d].crossed = {}
               PROVE  (\A e \in UnderWay' : e = d) /\ Ahead(call'[d], cache')
    BY DEF AloneOK
  <2>1. d \in Reader /\ UnderWay \subseteq Reader /\ UnderWay' \subseteq Reader
    BY DEF UnderWay
  <2>2. CASE d = c
    BY <1>2, <1>3, <2>1, <2>2
  <2>3. CASE d # c
    <3>1. d \in UnderWay /\ call[d].crossed = {} /\ Gist(call'[d], call[d])
      BY <1>2, <2>1, <2>3 DEF Gist
    <3>2. UnderWay = {d} /\ Ahead(call[d], cache)
      BY <3>1 DEF NInv, AloneOK
    <3>3. c \notin UnderWay /\ cache' = cache /\ ~Busy(call'[c])
      BY <2>3, <3>1, <3>2
    <3>4. Ahead(call'[d], cache')
      BY <3>1, <3>2, <3>3 DEF Ahead, Gist
    <3> QED BY <1>2, <1>3, <2>1, <3>2, <3>3, <3>4
  <2> QED BY <2>2, <2>3
<1>5. BuildsOK'
  <2> SUFFICES ASSUME Server, NEW e \in Reader, Building(e)'
               PROVE  /\ Ahead(call'[e], cache')
                      /\ \A d \in Reader :
                           /\ Building(d)' => d = e
                           /\ Busy(call'[d]) /\ call'[d].op = "expand" =>
                                NoEarlier(call'[e].answers["cols"], call'[d].answers["cols"])
    BY DEF BuildsOK, Server
  <2>1. \A d \in Reader \ {c} : /\ Building(d)' <=> Building(d)
                                /\ Busy(call'[d]) <=> Busy(call[d])
                                /\ call'[d].op = call[d].op /\ call'[d].answers = call[d].answers
    BY DEF Building, Gist, Busy
  <2>2. CASE e = c
    <3>1. call'[c].op # "expand" /\ call'[c].pc \in {"reading", "read"}
      BY <2>2 DEF Building
    <3>2. ASSUME NEW d \in Reader \ {c} PROVE ~Building(d)'
      BY <2>1, <3>1
    <3> QED BY <2>1, <2>2, <3>1, <3>2
  <2>3. CASE e # c
    <3>1. Building(e) /\ Gist(call'[e], call[e])
      BY <2>1, <2>3
    <3>2. Ahead(call'[e], cache')
      <4>1. Ahead(call[e], cache')
        BY <2>3, <3>1
      <4> QED BY <3>1, <4>1 DEF Ahead, Gist
    <3>3. ~Building(c)'
      BY <2>3, <3>1 DEF Building
    <3>4. \A d \in Reader : /\ Building(d) => d = e
                            /\ Busy(call[d]) /\ call[d].op = "expand" =>
                                 NoEarlier(call[e].answers["cols"], call[d].answers["cols"])
      BY <3>1 DEF NInv, BuildsOK, Server
    <3>5. call'[e].answers = call[e].answers
      BY <3>1 DEF Gist
    <3> QED BY <2>1, <2>3, <3>1, <3>2, <3>3, <3>4, <3>5
  <2> QED BY <2>2, <2>3
<1>6. WaitsOK'
  BY DEF WaitsOK, NInv, Gist
<1> QED BY <1>1, <1>4, <1>5, <1>6 DEF NInv

\* A call ends.
LEMMA EndsKeeps ==
  ASSUME NInv, EInv', UNCHANGED <<adapter, db, changes>>, NEW c \in Reader, NEW todo \in SUBSET Part,
         call'[c] = Over(todo), \A d \in Reader \ {c} : Gist(call'[d], call[d]),
         cache'.at \in 0..(changes + 1), Past(Cols(cache'.objects), db, changes + 1),
         cache' = cache \/ c \in UnderWay,
         Server => \A e \in Reader \ {c} : Building(e) => Ahead(call[e], cache')
  PROVE  NInv'
<1>0. changes + 1 \in Nat
  BY BoundsAssumption DEF NInv, EInv, IInv, Types
<1>1. /\ call'[c].pc = "over" /\ call'[c].at = 0 /\ call'[c].answers["cols"] = <<>>
  BY DEF Over, Idle, Part
<1>2. Past(call'[c].answers["cols"], db, changes + 1) /\ call'[c].at \in 0..(changes + 1)
  BY <1>0, <1>1, NoAnswer
<1>3. ~Busy(call'[c])
  BY <1>1 DEF Busy
<1> QED BY <1>1, <1>2, <1>3, OneCall

\* A call that ends without a result.
LEMMA EndsQuietly ==
  ASSUME NInv, EInv', UNCHANGED <<adapter, db, changes, cache>>, NEW c \in Reader,
         NEW todo \in SUBSET Part, Ends(c, todo)
  PROVE  NInv'
<1>1. call = [d \in Reader |-> call[d]] /\ call' = [call EXCEPT ![c] = Over(todo)]
  BY DEF NInv, EInv, IInv, Types, Ends
<1>2. call'[c] = Over(todo) /\ \A d \in Reader \ {c} : Gist(call'[d], call[d])
  BY <1>1 DEF Gist
<1>3. Server => \A e \in Reader \ {c} : Building(e) => Ahead(call[e], cache')
  BY DEF NInv, BuildsOK, Server
<1>4. cache'.at \in 0..(changes + 1) /\ Past(Cols(cache'.objects), db, changes + 1)
  BY DEF NInv
<1> QED BY <1>2, <1>3, <1>4, EndsKeeps

\* A call begins.
LEMMA BeginsKeeps ==
  ASSUME NInv, EInv', UNCHANGED <<adapter, db, changes, cache>>, NEW c \in Reader, NEW op \in Op, NEW o,
         NEW todo, call[c].pc = "idle", Begins(c, op, o, todo), op # "expand" => todo = {"list"}
  PROVE  NInv'
<1> DEFINE pc == IF op = "expand" THEN "reading" ELSE "waiting"
           n == Made(call[c], pc, op, o, todo, UnderWay)
<1>0. /\ \A d \in Reader : Whole(call[d]) /\ CallOK(call[d], adapter, db, tree)
      /\ changes + 1 \in Nat /\ "cols" \in Part
  BY BoundsAssumption DEF NInv, EInv, IInv, Types, CallsOK, CallType, Part
<1>1. call'[c] = n
  BY DEF Made, Begins
<1>2. /\ n.pc = pc /\ n.op = op /\ n.todo = todo /\ n.at = call[c].at /\ n.crossed = UnderWay
      /\ n.answers = call[c].answers
  BY <1>0, WholeMade
<1> HIDE DEF n
<1>3. n.answers["cols"] = <<>>
  BY <1>0, <1>2 DEF CallOK
<1>4. Past(n.answers["cols"], db, changes + 1) /\ \A other : NoEarlier(n.answers["cols"], other)
                                                           /\ NoEarlier(other, n.answers["cols"])
  BY <1>0, <1>3, NoAnswer
<1>5. n.at \in 0..(changes + 1) /\ Ahead(n, cache)
  BY <1>2, <1>4 DEF NInv, KnownPast, Ahead
<1>6. ASSUME NEW d \in Reader \ {c}
      PROVE  Gist(call'[d], call[d]) /\ (d \in UnderWay => call'[d].crossed # {})
  <2>1. CASE d \in UnderWay
    <3> DEFINE m == [call[d] EXCEPT !.crossed = call[d].crossed \cup {c}]
    <3>1. call'[d] = m
      BY <2>1 DEF Begins
    <3>2. /\ m.pc = call[d].pc /\ m.op = call[d].op /\ m.todo = call[d].todo /\ m.at = call[d].at
          /\ m.answers = call[d].answers /\ m.crossed = call[d].crossed \cup {c}
      BY <1>0 DEF Whole
    <3> HIDE DEF m
    <3> QED BY <3>1, <3>2 DEF Gist
  <2>2. CASE d \notin UnderWay
    BY <2>2 DEF Begins, Gist
  <2> QED BY <2>1, <2>2
<1>7. c \notin UnderWay /\ UnderWay \subseteq Reader
  BY DEF UnderWay
<1>8. cache'.at \in 0..(changes + 1) /\ Past(Cols(cache'.objects), db, changes + 1)
  BY DEF NInv
<1>9. n.pc = "waiting" => n.op # "expand" /\ n.todo = {"list"}
  BY <1>2
<1>10. ~(n.op # "expand" /\ n.pc \in {"reading", "read"})
  BY <1>2
<1>11. \A e \in Reader \ {c} : Server /\ Building(e) => Ahead(call[e], cache')
  BY DEF NInv, BuildsOK, Server
<1> QED BY <1>1, <1>2, <1>4, <1>5, <1>6, <1>7, <1>8, <1>9, <1>10, <1>11, OneCall

\* snapshot() and refresh().
LEMMA SnapshotKeeps ==
  ASSUME NInv, EInv', NEW c \in Reader, NEW op \in Op, Snapshot(c, op) PROVE NInv'
<1>1. UNCHANGED <<adapter, db, changes, cache>> /\ call[c].pc = "idle"
  BY DEF Snapshot, Quiet
<1>2. Ends(c, {}) \/ Begins(c, op, Nobody, {"list"})
  BY DEF Snapshot
<1>3. {} \in SUBSET Part
  OBVIOUS
<1> QED BY <1>1, <1>2, <1>3, EndsQuietly, BeginsKeeps

\* A node is expanded.
LEMMA ExpandKeeps ==
  ASSUME NInv, EInv', NEW c \in Reader, NEW o \in Name, Expand(c, o) PROVE NInv'
<1> DEFINE todo == IF tree[o].object.kind = "table" THEN Part ELSE {"cols"}
<1>1. UNCHANGED <<adapter, db, changes, cache>> /\ call[c].pc = "idle"
  BY DEF Expand, Quiet
<1>2. Ends(c, {}) \/ Begins(c, "expand", o, todo)
  BY DEF Expand
<1>3. {} \in SUBSET Part /\ "expand" \in Op
  BY DEF Op
<1> HIDE DEF todo
<1> QED BY <1>1, <1>2, <1>3, EndsQuietly, BeginsKeeps

\* What an answer makes of a call.
LEMMA AnsweredHas ==
  ASSUME Types, NEW c \in Reader, NEW part \in Part \cup {"list"}, call[c].pc # "over"
  PROVE  LET k == call[c]
             l == Answered(c, part)
         IN  /\ l.pc \in {"reading", "read"} /\ l.op = k.op /\ l.crossed = k.crossed
             /\ l.at = k.at \/ l.at = changes + 1
             /\ part = "list" => l.at = changes + 1 /\ l.answers = k.answers
             /\ l.answers["cols"] = k.answers["cols"] \/ Fresh(l.answers["cols"])
<1> DEFINE k == call[c]
           l == Answered(c, part)
           todo == After(c, part)
           pc == IF todo = {} THEN "read" ELSE "reading"
           answer == IF k.op = "expand" THEN [o \in {k.obj} |-> Fetch(adapter, part, db, o)]
                     ELSE FetchAll(adapter, part, db)
           asked == Asked(k, changes + 1, List(adapter, db))
           told == Told(k, part, answer)
<1>0. Whole(k) /\ DOMAIN k.answers = Part /\ adapter \in Adapter /\ "list" \notin Part /\ "cols" \in Part
  BY DEF Types, CallType, Part
<1>1. pc \in {"reading", "read"}
  OBVIOUS
<1>2. l = IF part = "list" THEN Turned(asked, todo, pc) ELSE Turned(told, todo, pc)
  BY DEF Answered, Turned, Asked, Told
<1>3. part = "cols" => Fresh(answer)
  BY <1>0, FetchFresh
<1>4. CASE part = "list"
  <2>1. /\ Whole(asked) /\ asked.op = k.op /\ asked.crossed = k.crossed /\ asked.at = changes + 1
        /\ asked.answers = k.answers
    BY <1>0 DEF Whole, Asked
  <2> HIDE DEF pc, todo, asked, l, k
  <2>2. /\ l.pc = pc /\ l.op = asked.op /\ l.crossed = asked.crossed /\ l.at = asked.at
        /\ l.answers = asked.answers
    BY <1>2, <1>4, <2>1 DEF Whole, Turned
  <2> QED BY <1>1, <1>4, <2>1, <2>2 DEF k, l
<1>5. CASE part # "list"
  <2>1. /\ Whole(told) /\ told.op = k.op /\ told.crossed = k.crossed /\ told.at = k.at
        /\ told.answers = [k.answers EXCEPT ![part] = answer]
    BY <1>0 DEF Whole, Told
  <2>2. told.answers["cols"] = IF part = "cols" THEN answer ELSE k.answers["cols"]
    BY <1>0, <2>1
  <2> HIDE DEF pc, todo, told, answer, l, k
  <2>3. /\ l.pc = pc /\ l.op = told.op /\ l.crossed = told.crossed /\ l.at = told.at
        /\ l.answers = told.answers
    BY <1>2, <1>5, <2>1 DEF Whole, Turned
  <2> QED BY <1>1, <1>3, <1>5, <2>1, <2>2, <2>3 DEF k, l
<1> QED BY <1>4, <1>5

\* ... and of one that has failed.
LEMMA LateHas ==
  ASSUME Types, NEW c \in Reader, NEW part, call[c].pc = "over"
  PROVE  LET l == Answered(c, part)
         IN  l.pc = "over" /\ l.at = call[c].at /\ l.answers = call[c].answers
<1> DEFINE n == [call[c] EXCEPT !.todo = call[c].todo \ {part}]
<1>1. Answered(c, part) = n /\ Whole(call[c])
  BY DEF Answered, Types, CallType
<1>2. n.pc = "over" /\ n.at = call[c].at /\ n.answers = call[c].answers
  BY <1>1 DEF Whole
<1> HIDE DEF n
<1> QED BY <1>1, <1>2

\* A call is answered: what it is told is newer than all that was read before, and on
\* PostgreSQL and MySQL no build is under way but its own.
LEMMA AnsweredKeeps ==
  ASSUME NInv, EInv', NEW c \in Reader, NEW part \in Part \cup {"list"}, part \in call[c].todo,
         UNCHANGED <<adapter, db, changes, cache>>,
         call' = [call EXCEPT ![c] = Answered(c, part)],
         Server => \A e \in Reader \ {c} : ~Building(e)
  PROVE  NInv'
<1> DEFINE k == call[c]
           l == Answered(c, part)
           n == changes + 1
<1>0. /\ Types /\ CallType(k) /\ CallOK(k, adapter, db, tree) /\ n \in Nat /\ cache.at \in 0..n
      /\ Past(k.answers["cols"], db, n) /\ k.at \in 0..n /\ Past(Cols(cache.objects), db, n)
      /\ Versions(db, n) /\ \A d \in Reader : Past(call[d].answers["cols"], db, n)
  BY BoundsAssumption DEF NInv, EInv, IInv, Types, CallsOK, KnownPast
<1>1. call'[c] = l /\ \A d \in Reader \ {c} : Gist(call'[d], call[d])
  BY <1>0 DEF Types, Gist
<1>2. cache'.at \in 0..n /\ Past(Cols(cache'.objects), db, n)
  BY <1>0
<1>3. CASE k.pc = "over"
  <2>1. l.pc = "over" /\ l.at = k.at /\ l.answers = k.answers
    BY <1>0, <1>3, LateHas
  <2> HIDE DEF l
  <2>2. ~Busy(l) /\ Past(l.answers["cols"], db, n) /\ l.at \in 0..n
    BY <1>0, <2>1 DEF Busy
  <2> QED BY <1>1, <1>2, <2>1, <2>2, OneCall
<1>4. CASE k.pc # "over"
  <2>0. Busy(k) /\ c \in UnderWay
    BY <1>0, <1>4 DEF CallType, Busy, UnderWay
  <2>1. /\ l.pc \in {"reading", "read"} /\ l.op = k.op /\ l.crossed = k.crossed
        /\ l.at = k.at \/ l.at = changes + 1
        /\ part = "list" => l.at = changes + 1 /\ l.answers = k.answers
        /\ l.answers["cols"] = k.answers["cols"] \/ Fresh(l.answers["cols"])
    BY <1>0, <1>4, AnsweredHas
  <2> HIDE DEF l
  <2>2. Past(l.answers["cols"], db, n) /\ l.at \in 0..n
    BY <1>0, <2>1, FreshNewer
  <2>3. ASSUME NEW old, Past(old, db, n), NoEarlier(k.answers["cols"], old)
        PROVE  NoEarlier(l.answers["cols"], old)
    BY <1>0, <2>1, <2>3, FreshNewer
  <2>4. k.op # "expand" /\ k.todo = {"list"} => l.at = changes + 1
    BY <2>1
  <2>5. Ahead(k, cache) => Ahead(l, cache)
    BY <1>0, <2>1, <2>3, <2>4 DEF Ahead
  <2>6. k.op # "expand" /\ k.todo = {"list"} => k.answers["cols"] = <<>>
    <3>1. "cols" \in Part /\ "list" \in UpTo["cols"]
      BY DEF Part, UpTo
    <3> QED BY <1>0, <2>0, <3>1 DEF CallOK, BuildOK
  <2>7. l.crossed = {} => (\A d \in UnderWay : d = c) /\ Ahead(l, cache')
    BY <2>0, <2>1, <2>5 DEF NInv, AloneOK
  <2>8. ASSUME Server, l.op # "expand"
        PROVE  /\ Ahead(l, cache')
               /\ \A d \in Reader \ {c} : Busy(call[d]) /\ call[d].op = "expand" =>
                    NoEarlier(l.answers["cols"], call[d].answers["cols"])
    <3>1. CASE Building(c)
      <4>1. /\ Ahead(k, cache)
            /\ \A d \in Reader : Busy(call[d]) /\ call[d].op = "expand" =>
                 NoEarlier(k.answers["cols"], call[d].answers["cols"])
        BY <2>8, <3>1 DEF NInv, BuildsOK, Server
      <4> QED BY <1>0, <2>3, <2>5, <4>1
    <3>2. CASE ~Building(c)
      <4>1. k.op # "expand" /\ k.todo = {"list"}
        BY <2>0, <2>1, <2>8, <3>2 DEF Building, Busy, NInv, WaitsOK
      <4>2. \A old : NoEarlier(k.answers["cols"], old)
        BY <1>0, <2>6, <4>1, NoAnswer
      <4>3. Ahead(l, cache)
        BY <1>0, <2>3, <2>4, <4>1, <4>2 DEF Ahead
      <4> QED BY <1>0, <2>3, <4>2, <4>3
    <3> QED BY <3>1, <3>2
  <2> QED BY <1>1, <1>2, <2>0, <2>1, <2>2, <2>7, <2>8, OneCall
<1> QED BY <1>3, <1>4

\* A statement of a reader, on the other adapters.
LEMMA ReadKeeps ==
  ASSUME NInv, EInv', NEW c \in Reader, NEW part \in Part \cup {"list"},
         Read(c, part) \/ ReadDone(c, part)
  PROVE  NInv'
<1>1. /\ part \in call[c].todo /\ UNCHANGED <<adapter, db, changes, cache>>
      /\ call' = [call EXCEPT ![c] = Answered(c, part)]
  BY DEF Read, ReadDone, MayRead, Quiet
<1>2. Server => \A e \in Reader \ {c} : ~Building(e)
  <2>1. CASE Read(c, part)
    <3>1. ServerLocked => Building(c)
      BY <2>1 DEF Read, MayRead
    <3>2. Server /\ Building(c) => \A e \in Reader : Building(e) => e = c
      BY DEF NInv, BuildsOK, Server
    <3> QED BY <3>1, <3>2 DEF ServerLocked, Server
  <2>2. CASE ReadDone(c, part)
    <3>1. adapter = "duckdb"
      BY <2>2 DEF ReadDone, Runs, NInv, EInv, IInv, NotDuck
    <3> QED BY <3>1 DEF Server
  <2> QED BY <2>1, <2>2
<1> QED BY <1>1, <1>2, AnsweredKeeps

\* On DuckDB it is given to the thread first.
LEMMA ReadInThreadKeeps ==
  ASSUME NInv, EInv', NEW c \in Reader, NEW part \in Part \cup {"list"}, ReadInThread(c, part)
  PROVE  NInv'
<1> DEFINE k == call[c]
<1>0. /\ Types /\ CallType(k) /\ Whole(k) /\ CallOK(k, adapter, db, tree)
      /\ Past(k.answers["cols"], db, changes + 1) /\ k.at \in 0..(changes + 1)
      /\ cache.at \in 0..(changes + 1) /\ Past(Cols(cache.objects), db, changes + 1)
  BY DEF NInv, EInv, IInv, Types, CallType, CallsOK, KnownPast
<1>1. /\ UNCHANGED <<adapter, db, changes, cache>> /\ part \in k.todo /\ ~Server
      /\ call' = IF part = "list" THEN [call EXCEPT ![c].pc = "reading"] ELSE call
  BY DEF ReadInThread, Server
<1>2. CASE part # "list"
  <2>1. call' = call /\ \A d \in Reader : Gist(call'[d], call[d])
    BY <1>1, <1>2 DEF Gist
  <2>2. Busy(k) => c \in UnderWay
    BY DEF Busy, UnderWay
  <2>3. Busy(k) /\ k.crossed = {} => (\A d \in UnderWay : d = c) /\ Ahead(k, cache)
    BY <2>2 DEF NInv, AloneOK
  <2>4. k.pc = "waiting" => k.op # "expand" /\ k.todo = {"list"}
    BY DEF NInv, WaitsOK
  <2> HIDE DEF k
  <2> QED BY <1>0, <1>1, <2>1, <2>2, <2>3, <2>4, OneCall DEF k
<1>3. CASE part = "list"
  <2> DEFINE m == [k EXCEPT !.pc = "reading"]
  <2>1. call'[c] = m /\ \A d \in Reader \ {c} : Gist(call'[d], call[d])
    BY <1>0, <1>1, <1>3 DEF Types, Gist
  <2>2. /\ m.pc = "reading" /\ m.op = k.op /\ m.todo = k.todo /\ m.at = k.at /\ m.crossed = k.crossed
        /\ m.answers = k.answers
    BY <1>0 DEF Whole
  <2> HIDE DEF m
  <2>3. c \in UnderWay
    <3>1. "list" \notin Part
      BY DEF Part
    <3> QED BY <1>0, <1>1, <1>3, <3>1 DEF CallType, CallOK, UnderWay
  <2>4. k.crossed = {} => (\A d \in UnderWay : d = c) /\ Ahead(k, cache)
    BY <2>3 DEF NInv, AloneOK
  <2>5. Ahead(k, cache) => Ahead(m, cache)
    BY <2>2 DEF Ahead
  <2> QED BY <1>0, <1>1, <2>1, <2>2, <2>3, <2>4, <2>5, OneCall
<1> QED BY <1>2, <1>3

\* It may fail.
LEMMA ReadFailsKeeps ==
  ASSUME NInv, EInv', NEW c \in Reader, NEW part \in Part \cup {"list"}, ReadFails(c, part)
  PROVE  NInv'
<1> DEFINE todo == IF call[c].op = "expand" THEN call[c].todo \ {part} ELSE {}
<1>1. UNCHANGED <<adapter, db, changes, cache>> /\ Ends(c, todo) /\ Busy(call[c])
  BY DEF ReadFails, Busy
<1>2. ExpandOK(call[c], adapter, db, tree)
  BY DEF NInv, EInv, CallsOK, CallOK
<1>3. todo \in SUBSET Part
  BY <1>1, <1>2 DEF ExpandOK
<1> HIDE DEF todo
<1> QED BY <1>1, <1>3, EndsQuietly

\* A snapshot is stored: it is not older than the cache, unless its call crossed another,
\* and then on SQLite or DuckDB.
LEMMA StoreKeeps ==
  ASSUME NInv, EInv', NEW c \in Reader, Store(c)
  PROVE  /\ NInv'
         /\ cache'.at < cache.at \/ (\E o \in Name : Newer(o)) => call[c].crossed # {} /\ ~Server
<1> DEFINE k == call[c]
           n == changes + 1
<1>0. /\ Types /\ n \in Nat /\ cache.at \in 0..n /\ Versions(db, n)
      /\ Past(k.answers["cols"], db, n) /\ k.at \in 0..n /\ Past(Cols(cache.objects), db, n)
      /\ k.pc = "read" /\ k.op # "expand" /\ k.todo = {} /\ c \in UnderWay /\ Building(c)
      /\ UNCHANGED <<adapter, db, changes>>
  BY BoundsAssumption, ReadIsDone DEF NInv, EInv, IInv, Types, KnownPast, Store, Quiet, UnderWay, Building
<1>1. /\ cache'.at = k.at /\ DOMAIN cache'.objects = DOMAIN k.kinds
      /\ \A o \in DOMAIN k.kinds : cache'.objects[o].cols = Get(k.answers["cols"], o)
  BY DEF Store, Built, Assemble
<1>2. Past(Cols(cache'.objects), db, n)
  BY <1>0, <1>1 DEF Past, Cols, Get, None, Versions
<1>3. {} \in SUBSET Part /\ call'[c] = Over({}) /\ \A d \in Reader \ {c} : Gist(call'[d], call[d])
  <2>1. CASE k.op # "refresh"
    BY <1>0, <2>1 DEF Store, Ends, Gist, Types
  <2>2. CASE k.op = "refresh"
    <3>1. call' = [d \in Reader |-> IF d = c THEN Over({})
                     ELSE [call[d] EXCEPT !.detached = call[d].detached \/ d \in Expanding]]
      BY <2>2 DEF Store
    <3>2. ASSUME NEW d \in Reader \ {c} PROVE Gist(call'[d], call[d])
      <4> DEFINE m == [call[d] EXCEPT !.detached = call[d].detached \/ d \in Expanding]
      <4>0. Whole(call[d])
        BY <1>0 DEF Types, CallType
      <4>1. /\ m.pc = call[d].pc /\ m.op = call[d].op /\ m.todo = call[d].todo /\ m.at = call[d].at
            /\ m.answers = call[d].answers /\ m.crossed = call[d].crossed
        BY <4>0 DEF Whole
      <4>2. call'[d] = m
        BY <3>1
      <4> HIDE DEF m
      <4> QED BY <4>1, <4>2 DEF Gist
    <3> QED BY <3>1, <3>2
  <2> QED BY <2>1, <2>2
<1>4. Server => \A e \in Reader \ {c} : ~Building(e)
  BY <1>0 DEF NInv, BuildsOK, Server
<1>5. NInv'
  BY <1>0, <1>1, <1>2, <1>3, <1>4, EndsKeeps
<1>6. ASSUME Ahead(k, cache) PROVE ~(cache'.at < cache.at) /\ \A o \in Name : ~Newer(o)
  <2>1. cache.at <= k.at
    BY <1>0, <1>6 DEF Ahead
  <2>2. ASSUME NEW o \in Name, Newer(o) PROVE FALSE
    <3>1. /\ o \in DOMAIN cache.objects /\ o \in DOMAIN k.kinds
          /\ cache.objects[o].cols > Get(k.answers["cols"], o) /\ Get(k.answers["cols"], o) # None
      BY <1>1, <2>2 DEF Newer
    <3>2. o \in DOMAIN k.answers["cols"] /\ Get(k.answers["cols"], o) = k.answers["cols"][o]
      BY <3>1 DEF Get
    <3>3. Cols(cache.objects)[o] = cache.objects[o].cols /\ o \in DOMAIN Cols(cache.objects)
      BY <3>1 DEF Cols
    <3>4. cache.objects[o].cols <= k.answers["cols"][o]
      BY <1>6, <3>1, <3>2, <3>3 DEF Ahead, NoEarlier
    <3>5. cache.objects[o].cols \in 0..n /\ k.answers["cols"][o] \in 0..n
      BY <1>0, <3>2, <3>3 DEF Past
    <3> QED BY <3>1, <3>2, <3>4, <3>5
  <2> QED BY <1>0, <1>1, <2>1, <2>2
<1>7. k.crossed = {} \/ Server => Ahead(k, cache)
  BY <1>0 DEF NInv, AloneOK, BuildsOK, Server
<1> QED BY <1>5, <1>6, <1>7

\* An expanded object is written to the cache.
LEMMA FillKeeps ==
  ASSUME NInv, EInv', NEW c \in Reader, Fill(c)
  PROVE  /\ NInv'
         /\ cache'.at < cache.at \/ (\E o \in Name : Newer(o)) => call[c].crossed # {}
<1> DEFINE k == call[c]
           n == changes + 1
           o == k.obj
           new == Get(k.answers["cols"], o)
<1>0. /\ Types /\ n \in Nat /\ cache.at \in 0..n /\ Versions(db, n)
      /\ Past(k.answers["cols"], db, n) /\ Past(Cols(cache.objects), db, n)
      /\ Busy(k) /\ k.op = "expand" /\ c \in UnderWay /\ {} \in SUBSET Part
      /\ UNCHANGED <<adapter, db, changes>>
  BY BoundsAssumption DEF NInv, EInv, IInv, Types, KnownPast, Fill, Quiet, UnderWay, Busy
<1>1. /\ cache'.at = cache.at /\ DOMAIN cache'.objects = DOMAIN cache.objects
      /\ \A p \in DOMAIN cache.objects :
           cache'.objects[p].cols = IF p = o THEN new ELSE cache.objects[p].cols
  <2>1. CASE o \notin DOMAIN cache.objects
    BY <2>1 DEF Fill
  <2>2. CASE o \in DOMAIN cache.objects
    <3> DEFINE fks == Get(k.answers["fks"], o)
               idx == Get(k.answers["idx"], o)
               x == Updated(cache.objects[o], new, fks, idx)
               m == [cache EXCEPT !.objects[o] = x]
    <3>1. cache' = m
      BY <2>2 DEF Fill, Updated
    <3>2. IsObject(cache.objects[o]) /\ DOMAIN cache = {"at", "lazy", "objects"}
      BY <1>0, <2>2 DEF Types, IsCache
    <3>3. x.cols = new
      <4> HIDE DEF new, fks, idx
      <4> QED BY <3>2, UpdatedIs
    <3> HIDE DEF x
    <3>4. m.at = cache.at /\ m.objects = [cache.objects EXCEPT ![o] = x]
      BY <3>2
    <3> HIDE DEF m, new
    <3> QED BY <2>2, <3>1, <3>3, <3>4
  <2> QED BY <2>1, <2>2
<1>n. /\ new \in 0..n /\ (o \in DOMAIN db => new <= db[o].ver)
      /\ new # None => o \in DOMAIN k.answers["cols"] /\ new = k.answers["cols"][o]
  BY <1>0 DEF Past, Get, None, Versions
<1> HIDE DEF new
<1>2. Past(Cols(cache'.objects), db, n)
  BY <1>0, <1>1, <1>n DEF Past, Cols
<1>3. call'[c] = Over({}) /\ \A d \in Reader \ {c} : Gist(call'[d], call[d])
  BY <1>0 DEF Fill, Ends, Types, Gist
<1>4. ASSUME Server, NEW e \in Reader \ {c}, Building(e) PROVE Ahead(call[e], cache')
  <2>1. /\ Ahead(call[e], cache) /\ NoEarlier(call[e].answers["cols"], k.answers["cols"])
        /\ Past(call[e].answers["cols"], db, n)
    BY <1>0, <1>4 DEF NInv, BuildsOK, Server, KnownPast
  <2>2. ASSUME NEW p \in DOMAIN call[e].answers["cols"] \cap DOMAIN cache'.objects
        PROVE  \/ call[e].answers["cols"][p] = None
               \/ cache'.objects[p].cols <= call[e].answers["cols"][p]
    <3>1. CASE p = o
      <4>1. cache'.objects[p].cols = new
        BY <1>1, <3>1
      <4>2. CASE new = None
        BY <2>1, <4>1, <4>2 DEF Past, None
      <4>3. CASE new # None
        BY <1>n, <2>1, <3>1, <4>1, <4>3 DEF NoEarlier
      <4> QED BY <4>2, <4>3
    <3>2. CASE p # o
      <4>1. cache'.objects[p].cols = cache.objects[p].cols /\ p \in DOMAIN cache.objects
        BY <1>1, <3>2
      <4> QED BY <2>1, <4>1 DEF Ahead, NoEarlier, Cols
    <3> QED BY <3>1, <3>2
  <2>3. NoEarlier(call[e].answers["cols"], Cols(cache'.objects))
    BY <2>2 DEF NoEarlier, Cols
  <2> QED BY <1>1, <2>1, <2>3 DEF Ahead
<1>5. NInv'
  BY <1>0, <1>1, <1>2, <1>3, <1>4, EndsKeeps
<1>6. ASSUME k.crossed = {} PROVE ~(cache'.at < cache.at) /\ \A p \in Name : ~Newer(p)
  <2>1. NoEarlier(k.answers["cols"], Cols(cache.objects))
    BY <1>0, <1>6 DEF NInv, AloneOK, Ahead
  <2>2. ASSUME NEW p \in Name, Newer(p) PROVE FALSE
    <3>1. p \in DOMAIN cache.objects /\ cache.objects[p].cols \in 0..n
      BY <1>0, <2>2 DEF Newer, Past, Cols
    <3>2. CASE p = o
      <4>1. new # None /\ cache.objects[p].cols > new
        BY <1>1, <2>2, <3>1, <3>2 DEF Newer
      <4>2. cache.objects[p].cols <= new
        BY <1>n, <2>1, <3>1, <3>2, <4>1 DEF NoEarlier, Cols
      <4> QED BY <1>n, <3>1, <4>1, <4>2
    <3>3. CASE p # o
      BY <1>1, <2>2, <3>1, <3>3 DEF Newer
    <3> QED BY <3>2, <3>3
  <2> QED BY <1>0, <1>1, <2>2
<1> QED BY <1>5, <1>6

\* invalidate(): nothing is older than no cache.
LEMMA InvalidateKeeps ==
  ASSUME NInv, EInv', Invalidate PROVE NInv'
<1>1. UNCHANGED <<adapter, db, changes, call>> /\ cache'.at = 0 /\ cache'.objects = <<>>
  BY DEF Invalidate, Quiet, NoCache
<1>2. changes + 1 \in Nat /\ \A c \in Reader : call[c].at \in 0..(changes + 1)
  BY BoundsAssumption DEF NInv, EInv, IInv, Types, KnownPast
<1>3. DOMAIN Cols(cache'.objects) = {}
  BY <1>1 DEF Cols
<1>4. Past(Cols(cache'.objects), db, changes + 1) /\ \A c \in Reader : Ahead(call[c], cache')
  BY <1>1, <1>2, <1>3 DEF Past, Ahead, NoEarlier
<1>5. UnderWay' = UnderWay /\ \A c \in Reader : Building(c)' <=> Building(c)
  BY <1>1 DEF UnderWay, Building
<1>6. AloneOK'
  BY <1>1, <1>4, <1>5 DEF NInv, AloneOK, UnderWay
<1>7. BuildsOK'
  BY <1>1, <1>4, <1>5 DEF NInv, BuildsOK
<1>8. WaitsOK'
  BY <1>1 DEF NInv, WaitsOK
<1> QED BY <1>1, <1>2, <1>4, <1>6, <1>7, <1>8 DEF NInv

\* The database changes: what was read is as old as it was.
LEMMA NotedKeeps ==
  ASSUME NInv, EInv', Noted, UNCHANGED <<adapter, cache>>, SameDb \/ Alters PROVE NInv'
<1>0. Types /\ Versions(db, changes + 1) /\ \A c \in Reader : Whole(call[c])
  BY DEF NInv, EInv, IInv, Types, CallType
<1>1. /\ Versions(db', changes' + 1) /\ changes <= changes' /\ changes' \in Nat /\ changes \in Nat
      /\ \A answer : Past(answer, db, changes + 1) => Past(answer, db', changes' + 1)
  BY <1>0, PastKept, BoundsAssumption DEF Types
<1>2. ASSUME NEW c \in Reader
      PROVE  /\ call'[c].pc = call[c].pc /\ call'[c].op = call[c].op /\ call'[c].todo = call[c].todo
             /\ call'[c].at = call[c].at /\ call'[c].answers = call[c].answers
             /\ call'[c].crossed = call[c].crossed
  <2>1. call'[c] = IF c \in UnderWay THEN [call[c] EXCEPT !.met = call[c].met \cup Touched] ELSE call[c]
    BY DEF Noted
  <2>2. CASE c \in UnderWay
    <3> DEFINE m == [call[c] EXCEPT !.met = call[c].met \cup Touched]
    <3>1. /\ m.pc = call[c].pc /\ m.op = call[c].op /\ m.todo = call[c].todo /\ m.at = call[c].at
          /\ m.answers = call[c].answers /\ m.crossed = call[c].crossed
      BY <1>0 DEF Whole
    <3> HIDE DEF m
    <3> QED BY <2>1, <2>2, <3>1 DEF m
  <2>3. CASE c \notin UnderWay
    BY <2>1, <2>3
  <2> QED BY <2>2, <2>3
<1>3. KnownPast(call', db', changes' + 1)
  BY <1>1, <1>2 DEF NInv, KnownPast
<1>4. cache'.at \in 0..(changes' + 1) /\ Past(Cols(cache'.objects), db', changes' + 1)
  BY <1>1 DEF NInv
<1>5. UnderWay' = UnderWay /\ \A c \in Reader : Building(c)' <=> Building(c)
  BY <1>2 DEF UnderWay, Building
<1>6. \A c \in Reader : Ahead(call[c], cache) => Ahead(call'[c], cache')
  BY <1>2 DEF Ahead
<1>7. AloneOK'
  BY <1>2, <1>5, <1>6 DEF NInv, AloneOK, UnderWay
<1>8. BuildsOK'
  BY <1>2, <1>5, <1>6 DEF NInv, BuildsOK, Busy
<1>9. WaitsOK'
  BY <1>2 DEF NInv, WaitsOK
<1> QED BY <1>1, <1>3, <1>4, <1>7, <1>8, <1>9 DEF NInv

\* At first the cache is what was just read.
LEMMA InitKeeps == Init => NInv
<1> SUFFICES ASSUME Init PROVE NInv
  OBVIOUS
<1>0. EInv /\ Types /\ changes = 0 /\ call = [c \in Reader |-> Idle] /\ cache = LazySnapshot
  BY InitTells DEF EInv, IInv, Init
<1>1. Idle.pc = "idle" /\ Idle.answers["cols"] = <<>> /\ Idle.at = 0
  BY DEF Idle, Part
<1>2. Versions(db, changes + 1)
  <2>1. PICK objects \in SUBSET Name : db \in [objects -> Object(1)]
    BY DEF Init
  <2>2. \A entry \in Object(1) : entry.ver = 1
    BY DEF Object
  <2> QED BY <1>0, <2>1, <2>2 DEF Versions
<1>3. KnownPast(call, db, changes + 1)
  BY <1>0, <1>1, NoAnswer DEF KnownPast
<1>4. cache.at \in 0..(changes + 1) /\ Past(Cols(cache.objects), db, changes + 1)
  <2>1. /\ cache.at = changes + 1
        /\ cache.objects = Assemble(List(adapter, db), [part \in Part |-> <<>>])
    BY <1>0 DEF LazySnapshot
  <2>2. \A o \in DOMAIN cache.objects : cache.objects[o].cols = None
    <3>1. [part \in Part |-> <<>>]["cols"] = <<>>
      BY DEF Part
    <3>2. \A o : Get(<<>>, o) = None
      BY DEF Get
    <3> QED BY <2>1, <3>1, <3>2 DEF Assemble
  <2> QED BY <1>0, <1>2, <2>1, <2>2 DEF Past, Cols, None, Versions
<1>5. UnderWay = {} /\ \A c \in Reader : ~Building(c) /\ call[c].pc # "waiting"
  BY <1>0, <1>1 DEF UnderWay, Building
<1> QED BY <1>0, <1>2, <1>3, <1>4, <1>5 DEF NInv, AloneOK, BuildsOK, WaitsOK

\* Every step keeps what was read in order, ...
LEMMA NextKeeps == ASSUME NInv, Next PROVE NInv'
<1>0. EInv'
  BY NextTells DEF NInv
<1>1. CASE Change /\ Noted
  BY <1>0, <1>1, NotedKeeps DEF Change
<1>2. ASSUME NEW r \in Query, Queries(r, Reading), Noted, UNCHANGED <<adapter, cache, tree>>
      PROVE  NInv'
  <2>1. SameDb \/ Alters
    BY <1>2, QueriesDb
  <2> QED BY <1>0, <1>2, <2>1, NotedKeeps
<1>3. ASSUME NEW c \in Reader, NEW op \in Op, Snapshot(c, op) PROVE NInv'
  BY <1>0, <1>3, SnapshotKeeps
<1>4. ASSUME NEW c \in Reader, NEW o \in Name, Expand(c, o) PROVE NInv'
  BY <1>0, <1>4, ExpandKeeps
<1>5. ASSUME NEW c \in Reader, NEW part \in Part \cup {"list"},
             Read(c, part) \/ ReadInThread(c, part) \/ ReadDone(c, part) \/ ReadFails(c, part)
      PROVE  NInv'
  BY <1>0, <1>5, ReadKeeps, ReadInThreadKeeps, ReadFailsKeeps
<1>6. ASSUME NEW c \in Reader, CannotBeRead(c) \/ Store(c) \/ Fill(c) PROVE NInv'
  <2>1. CASE CannotBeRead(c)
    <3>1. UNCHANGED <<adapter, db, changes, cache>> /\ Ends(c, {}) /\ {} \in SUBSET Part
      BY <2>1 DEF CannotBeRead, Quiet
    <3> QED BY <1>0, <3>1, EndsQuietly
  <2> QED BY <1>0, <1>6, <2>1, StoreKeeps, FillKeeps
<1>7. CASE Invalidate
  BY <1>0, <1>7, InvalidateKeeps
<1> QED BY <1>1, <1>2, <1>3, <1>4, <1>5, <1>6, <1>7 DEF Next

\* ... and so does one that changes nothing, ...
LEMMA StutterKeeps == ASSUME NInv, UNCHANGED vars PROVE NInv'
<1>1. UNCHANGED <<adapter, db, changes, cache, call>> /\ EInv'
  BY StutterTells DEF vars, NInv
<1>2. UnderWay' = UnderWay /\ \A c \in Reader : Building(c)' <=> Building(c)
  BY <1>1 DEF UnderWay, Building
<1>3. AloneOK' /\ BuildsOK' /\ WaitsOK'
  BY <1>1, <1>2 DEF NInv, AloneOK, BuildsOK, WaitsOK, UnderWay
<1> QED BY <1>1, <1>3 DEF NInv

\* ... so that the cache does not go back to an older list of objects or an older version
\* of one, but for calls that crossed each other, and on PostgreSQL and MySQL for
\* expansions that did (introspector.py:38-58; postgres_adapter.py and
\* mysql_adapter.py, _lock around introspect()).
THEOREM CacheKeepsUp == Spec => NeverBackwards
<1> DEFINE Backwards == cache'.at < cache.at \/ \E o \in Name : Newer(o)
           Kept == \A c \in Reader :
             (Store(c) \/ Fill(c)) /\ (cache'.at < cache.at \/ \E o \in Name : Newer(o)) =>
               call[c].crossed # {} /\ (adapter \in {"sqlite", "duckdb"} \/ Fill(c))
<1>1. NInv /\ [Next]_vars => NInv'
  BY NextKeeps, StutterKeeps
<1>2. ASSUME NInv, Next, NInv' PROVE Kept
  <2>1. EInv' /\ adapter \in Adapter
    BY <1>2 DEF NInv, EInv, IInv, Types
  <2> SUFFICES ASSUME NEW c \in Reader, Store(c) \/ Fill(c), Backwards
               PROVE  call[c].crossed # {} /\ (adapter \in {"sqlite", "duckdb"} \/ Fill(c))
    OBVIOUS
  <2>2. CASE Store(c)
    <3>1. call[c].crossed # {} /\ ~Server
      BY <1>2, <2>1, <2>2, StoreKeeps
    <3> QED BY <2>1, <3>1 DEF Server, Adapter
  <2>3. CASE Fill(c)
    BY <1>2, <2>1, <2>3, FillKeeps
  <2> QED BY <2>2, <2>3
<1> HIDE DEF Kept
<1>3. NInv /\ NInv' /\ [Next]_vars => [Kept]_vars
  BY <1>2
<1>4. Spec => [][Kept]_vars
  BY <1>1, <1>3, InitKeeps, PTL DEF Spec
<1> QED BY <1>4 DEF Kept, NeverBackwards
==============================================================================
