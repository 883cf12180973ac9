--------------------------- MODULE DuckDBAdapter ---------------------------
(***************************************************************************)
(* registro_adapters/duckdb_adapter.py on an in-memory database, which one *)
(* connection reaches: the queries of the pool, leased one after the       *)
(* other, and the statements of whoever reads the catalog meanwhile.  The  *)
(* connection has one result set, that of the last statement it executed.  *)
(***************************************************************************)
EXTENDS Catalogs, Sequences, FiniteSets

CONSTANTS Name,     \* the objects a database may have
          Query,    \* the queries, numbers in their order
          Reader,   \* those who read the catalog
          Batches,  \* bound: how many batches of rows a select has
          Changes,  \* bound: how often the database changes
          DuckObjects,  \* bound: how many objects a DuckDB database has at once
  Nobody

ASSUME QueryAssumption == Query \subseteq Nat /\ IsFiniteSet(Query)
ASSUME NobodyAssumption == Nobody \notin Query \cup Reader /\ Query \cap Reader = {}
ASSUME BoundsAssumption == {Batches, Changes, DuckObjects} \subseteq Nat

VARIABLES
  adapter,  \* which adapter it is; what follows of queries is about "duckdb"
  db,       \* the database
  changes,  \* how often it has changed
  duck,     \* streaming, the cancel flags, the threads, the result set
  q         \* per query: its statement, its consumer and its handle
duckVars == <<duck, q>>

QueryState ==
  [stmt : {"select", "ddl"},
   pc : {"new", "executing", "returned", "describing", "fetching", "holding", "ended",
         "resetting", "released"},
   last : BOOLEAN, got : 0..Batches, cancel : BOOLEAN,
   status : {"running", "succeeded", "cancelled", "failed"}, met : BOOLEAN]

\* A call in a thread.  awaited: whoever made it still holds _lock for it.
Job == [of : Query \cup Reader, does : {"execute", "describe", "fetch", "rollback", "list"} \cup Part,
        awaited : BOOLEAN]

DuckType ==
  /\ duck.streaming \in Query \cup {Nobody} /\ duck.result \in Query \cup {Nobody}
  /\ duck.flags \subseteq Query /\ duck.jobs \in Seq(Job)
  /\ q \in [Query -> QueryState]

QueryOf(s) == [stmt |-> s, pc |-> "new", last |-> FALSE, got |-> 0, cancel |-> FALSE,
               status |-> "running", met |-> FALSE]
DuckInit ==
  /\ duck = [streaming |-> Nobody, flags |-> {}, jobs |-> <<>>, result |-> Nobody]
  /\ \E ddl \in SUBSET Query :
       /\ adapter # "duckdb" => ddl = {}
       /\ q = [r \in Query |-> QueryOf(IF r \in ddl THEN "ddl" ELSE "select")]

-----------------------------------------------------------------------------
(* _lock and the threads *)

Locked(d) == \E i \in 1..Len(d.jobs) : d.jobs[i].awaited

\* Mutant: no _lock.
InAnyThread(who, does) ==
  duck' = [duck EXCEPT !.jobs = Append(@, [of |-> who, does |-> does, awaited |-> TRUE])]

\* "async with self._lock: await asyncio.to_thread(...)".
InThread(who, does) ==
  /\ ~Locked(duck)
  /\ duck' = [duck EXCEPT !.jobs = Append(@, [of |-> who, does |-> does, awaited |-> TRUE])]

\* The connection itself serves one thread after the other.
Runs(who, does) ==
  /\ duck.jobs # <<>> /\ duck.jobs[1] = [of |-> who, does |-> does, awaited |-> TRUE]
Served(d) == [d EXCEPT !.jobs = Tail(@)]

\* A task that is cancelled while it waits for its thread lets go of _lock; the
\* thread goes on.
Deserted(d, who) == [d EXCEPT !.jobs = [i \in 1..Len(@) |->
  IF @[i].of = who THEN [@[i] EXCEPT !.awaited = FALSE] ELSE @[i]]]

\* _claim_result_set.
MayClaim(who) == duck.streaming \in {Nobody, who}

-----------------------------------------------------------------------------
(* The database *)

\* The shapes an object takes: a view, or a table with an index.  Where a key that
\* is an expression makes no difference it has none.
Shape == [sqlite |-> [table |-> "table", view |-> "view"],
          postgres |-> [table |-> "p", view |-> "m"],
          mysql |-> [table |-> "BASE TABLE", view |-> "VIEW"],
          duckdb |-> [table |-> "BASE TABLE", view |-> "VIEW"]]
Object(version) ==
  {[raw |-> Shape[adapter].table, hidden |-> FALSE, index |-> index, ver |-> version] :
     index \in IF adapter \in {"sqlite", "mysql"} THEN {"none", "plain", "expression"} ELSE {"plain"}} \cup
  {[raw |-> Shape[adapter].view, hidden |-> FALSE, index |-> "none", ver |-> version]}

Fits(d) == adapter = "duckdb" => Cardinality(DOMAIN d) <= DuckObjects
Without(o) == [p \in DOMAIN db \ {o} |-> db[p]]
With(o, entry) == [p \in DOMAIN db \cup {o} |-> IF p = o THEN entry ELSE db[p]]

\* An object is created, altered or replaced, or dropped.
Alters ==
  /\ changes < Changes /\ changes' = changes + 1
  /\ \E o \in Name : \/ o \in DOMAIN db /\ db' = Without(o)
                     \/ \E entry \in Object(changes + 2) : db' = With(o, entry) /\ Fits(db')

-----------------------------------------------------------------------------
(* execute() and the generator of stream(), under the executor *)

Goes(r, query) == q' = [q EXCEPT ![r] = query]
At(r, pc) == [q[r] EXCEPT !.pc = pc]
SameDb == UNCHANGED <<db, changes>>

\* The pool leases its one connection to one query at a time.
Execute(r) ==
  /\ adapter = "duckdb" /\ q[r].pc = "new" /\ \A s \in Query : s < r => q[s].pc = "released"
  /\ MayClaim(r) /\ InThread(r, "execute") /\ Goes(r, At(r, "executing")) /\ SameDb

\* streaming is set when the thread is done.  reading: the catalog is being read.
Executed(r, reading) ==
  /\ q[r].pc = "executing" /\ Runs(r, "execute")
  /\ duck' = [Served(duck) EXCEPT !.result = r, !.streaming = r]
  /\ Goes(r, [At(r, "returned") EXCEPT !.met = reading])
  /\ IF q[r].stmt = "ddl" THEN Alters ELSE SameDb

ExecuteFails(r) ==
  /\ q[r].pc = "executing" /\ Runs(r, "execute")
  /\ duck' = [Served(duck) EXCEPT !.result = Nobody]
  /\ Goes(r, [At(r, "ended") EXCEPT !.status = "failed"]) /\ SameDb

\* The generator's finally, and what the handle then says.
Forgotten(d, r) ==
  [d EXCEPT !.streaming = IF @ = r THEN Nobody ELSE @, !.flags = @ \ {r}]
EndsAs(r, status, d) ==
  duck' = Forgotten(d, r) /\ Goes(r, [At(r, "ended") EXCEPT !.status = status]) /\ SameDb

\* The last batch has no rows; the generator is resumed once more after it.
Last(r, d) ==
  \/ q[r].cancel /\ EndsAs(r, "succeeded", d)
  \/ /\ ~q[r].cancel /\ duck' = d /\ SameDb
     /\ Goes(r, [At(r, "holding") EXCEPT !.last = TRUE, !.status = "succeeded"])

Describe(r) ==
  /\ q[r].pc = "returned" /\ InThread(r, "describe") /\ Goes(r, At(r, "describing")) /\ SameDb

\* The cancel flag is looked at before each fetch, which waits only if somebody who
\* reads the catalog is before it.
FetchNext(r, d, reading) ==
  \/ r \in d.flags /\ EndsAs(r, "cancelled", d)
  \/ /\ r \notin d.flags /\ Goes(r, At(r, "fetching")) /\ SameDb
     /\ \/ ~Locked(d) /\ duck' = [d EXCEPT !.jobs =
                                    Append(@, [of |-> r, does |-> "fetch", awaited |-> TRUE])]
        \/ reading /\ duck' = d

\* Of another statement's result set the columns are not the query's own.
DescribedDone(r, reading) ==
  /\ q[r].pc = "describing" /\ Runs(r, "describe")
  /\ IF q[r].stmt = "ddl" /\ duck.result = r THEN Last(r, Served(duck))
     ELSE FetchNext(r, Served(duck), reading)

AfterWaiting(r) ==
  /\ q[r].pc = "fetching" /\ \A i \in 1..Len(duck.jobs) : duck.jobs[i].of # r
  /\ InThread(r, "fetch") /\ UNCHANGED q /\ SameDb

\* What another statement has taken the place of has no more rows.
FetchedRows(r) ==
  /\ q[r].pc = "fetching" /\ Runs(r, "fetch")
  /\ duck.result = r /\ q[r].stmt = "select" /\ q[r].got < Batches
  /\ \/ q[r].cancel /\ EndsAs(r, "cancelled", Served(duck))
     \/ /\ ~q[r].cancel /\ duck' = Served(duck) /\ SameDb
        /\ Goes(r, [At(r, "holding") EXCEPT !.got = @ + 1])
FetchedNothing(r) ==
  /\ q[r].pc = "fetching" /\ Runs(r, "fetch")
  /\ duck.result # r \/ q[r].stmt = "ddl" \/ q[r].got = Batches
  /\ Last(r, Served(duck))

\* A cancelled query is reported as such, whatever went wrong.
FetchFails(r) ==
  /\ q[r].pc = "fetching" /\ Runs(r, "fetch")
  /\ EndsAs(r, IF r \in duck.flags THEN "cancelled" ELSE "failed", Served(duck))

Pull(r, reading) ==
  /\ q[r].pc = "holding"
  /\ IF q[r].last THEN EndsAs(r, "succeeded", duck)
     ELSE FetchNext(r, duck, reading)

\* The consumer breaks off, or its task is cancelled; while it waits for a fetch,
\* by the deadline too.  Only from its loop does the generator clean up.
Abandon(r) ==
  \/ /\ q[r].pc \in {"fetching", "holding"} /\ ~q[r].last
     /\ EndsAs(r, "cancelled", Deserted(duck, r))
  \/ /\ q[r].pc \in {"executing", "returned", "describing"}
     /\ duck' = Deserted(duck, r) /\ SameDb
     /\ Goes(r, [At(r, "ended") EXCEPT !.status = "cancelled"])

\* The thread of a task that is gone.  A statement it executes is executed.
LateThread(r) ==
  /\ duck.jobs # <<>> /\ duck.jobs[1].of = r /\ ~duck.jobs[1].awaited /\ UNCHANGED q
  /\ IF duck.jobs[1].does = "execute"
     THEN /\ duck' = [Served(duck) EXCEPT !.result = r]
          /\ (q[r].stmt = "ddl" /\ Alters) \/ SameDb
     ELSE duck' = Served(duck) /\ SameDb

\* cancel() gives the result set free.  Its interrupt is one reason for a failure.
Cancel(r) ==
  /\ q[r].pc \in {"returned", "describing", "fetching", "holding"} /\ ~q[r].cancel
  /\ duck' = [duck EXCEPT !.flags = @ \cup {r}, !.streaming = IF @ = r THEN Nobody ELSE @]
  /\ Goes(r, [q[r] EXCEPT !.cancel = TRUE, !.status = "cancelled"]) /\ SameDb

\* reset(): a ROLLBACK, which fails outside a transaction.
Reset(r) ==
  /\ q[r].pc = "ended" /\ ~Locked(duck)
  /\ duck' = [duck EXCEPT !.streaming = Nobody, !.flags = {},
                          !.jobs = Append(@, [of |-> r, does |-> "rollback", awaited |-> TRUE])]
  /\ Goes(r, At(r, "resetting")) /\ SameDb
ResetDone(r) ==
  /\ q[r].pc = "resetting" /\ Runs(r, "rollback")
  /\ duck' = [Served(duck) EXCEPT !.result = Nobody]
  /\ Goes(r, [QueryOf(q[r].stmt) EXCEPT !.pc = "released"]) /\ SameDb

Queries(r, reading) ==
  \/ Execute(r) \/ Executed(r, reading) \/ ExecuteFails(r) \/ Describe(r) \/ DescribedDone(r, reading)
  \/ AfterWaiting(r) \/ FetchedRows(r) \/ FetchedNothing(r) \/ FetchFails(r) \/ Pull(r, reading) \/ Abandon(r)
  \/ LateThread(r) \/ Cancel(r) \/ Reset(r) \/ ResetDone(r)
=============================================================================
