----------------------------- MODULE SchemaCache -----------------------------
(***************************************************************************)
(* registro_engine/introspector.py over the introspection of an adapter,   *)
(* and the tree of registro_tui/widgets/schema_tree.py: the cached         *)
(* snapshot, calls under way at once (the connect worker, the refresh key, *)
(* the tree, plugins), and a database that changes meanwhile.              *)
(***************************************************************************)
EXTENDS DuckDBAdapter

CONSTANT DuckCalls  \* bound: how many calls are made while the adapter is DuckDB's

VARIABLES
  cache,  \* Introspector._cache
  tree,   \* the nodes of SchemaTree
  call    \* per reader: the call it makes
vars == <<adapter, db, changes, duck, q, cache, tree, call>>

\* refresh: action_refresh_schema.  full, snapshot, peek: a plugin's refresh(),
\* snapshot() and snapshot(lazy=True).  expand: a node of the tree.
Op == {"refresh", "full", "snapshot", "peek", "expand"}
Lazy(op) == op \in {"refresh", "peek"}
Forced(op) == op \in {"refresh", "full"}

ASSUME DuckCallsAssumption == DuckCalls \in Nat

NoCache == [at |-> 0, lazy |-> FALSE, objects |-> <<>>]
Objects(objects) == \A o \in DOMAIN objects : objects[o].kind \in {"table", "view", "materialized_view"}

\* at: how often the database had changed when the objects were listed (1 + changes).
\* todo: the reads that are still due; met and crossed are history: the objects
\* that changed meanwhile, and the other calls that were under way.
TypeOK ==
  /\ adapter \in Adapter /\ changes \in 0..Changes
  /\ DOMAIN db \subseteq Name /\ \A o \in DOMAIN db : db[o] \in Entry
  /\ DuckType
  /\ cache.at \in 0..(Changes + 1) /\ cache.lazy \in BOOLEAN /\ Objects(cache.objects)
  /\ DOMAIN tree \subseteq Name /\ Objects([o \in DOMAIN tree |-> tree[o].object])
  /\ \A c \in Reader :
       /\ call[c].pc \in {"idle", "waiting", "reading", "read", "over"}
       /\ call[c].op \in Op /\ call[c].todo \subseteq Part \cup {"list"}
       /\ call[c].met \subseteq Name /\ call[c].crossed \subseteq Reader
  \* The connection is in the hands of one thread, but for tasks that were cancelled.
  /\ Cardinality({i \in 1..Len(duck.jobs) : duck.jobs[i].awaited}) <= 1

LazySnapshot == [at |-> changes + 1, lazy |-> TRUE,
  objects |-> Assemble(List(adapter, db), [part \in Part |-> <<>>])]
Nodes(snapshot) ==
  [o \in DOMAIN snapshot.objects |-> [object |-> snapshot.objects[o], filled |-> FALSE]]

Idle == [pc |-> "idle", op |-> "peek", obj |-> Nobody, todo |-> {}, at |-> 0, kinds |-> <<>>,
         answers |-> [part \in Part |-> <<>>], detached |-> FALSE, met |-> {}, crossed |-> {}]
Over(todo) == [Idle EXCEPT !.pc = "over", !.todo = todo]

\* A session that has just connected.
Init ==
  /\ adapter \in Adapter /\ changes = 0
  /\ db \in UNION {[objects -> Object(1)] : objects \in SUBSET Name} /\ Fits(db)
  /\ DuckInit
  /\ cache = LazySnapshot /\ tree = Nodes(cache)
  /\ call = [c \in Reader |-> Idle]

UnderWay == {c \in Reader : call[c].pc \in {"waiting", "reading", "read"}}
\* A read of a call that has failed may still be due.
Reading == \E c \in Reader : call[c].todo # {}

Expanding == {c \in UnderWay : call[c].op = "expand"}
Building(c) == call[c].op # "expand" /\ call[c].pc \in {"reading", "read"}
\* PostgreSQL and MySQL: _lock is held over a build, or a single fetch.
ServerLocked == adapter \in {"postgres", "mysql"} /\ \E c \in Reader : Building(c)

Quiet == UNCHANGED <<adapter, db, changes, duck, q>>

-----------------------------------------------------------------------------
(* Calls *)

MayCall == adapter = "duckdb" => Cardinality({c \in Reader : call[c].pc # "idle"}) < DuckCalls

\* What a snapshot() that is answered from the cache leaves as it is.
\* Mutant: presence alone decides.
CachedAnyhow(op) == cache # NoCache /\ ~Forced(op)

\* A lazy snapshot does not answer a request for a full one.
Cached(op) == cache # NoCache /\ ~Forced(op) /\ ~(cache.lazy /\ ~Lazy(op))

Begins(c, op, o, todo) ==
  call' = [d \in Reader |->
    IF d = c THEN [call[c] EXCEPT !.pc = IF op = "expand" THEN "reading" ELSE "waiting",
                     !.op = op, !.obj = o, !.todo = todo, !.crossed = UnderWay]
    ELSE IF d \in UnderWay THEN [call[d] EXCEPT !.crossed = @ \cup {c}] ELSE call[d]]
Ends(c, todo) == call' = [call EXCEPT ![c] = Over(todo)]

\* Mutant: introspect() does not claim the connection.
ClaimsNothing(c) == TRUE

Claims(c) == adapter = "duckdb" => MayClaim(c)

Snapshot(c, op) ==
  /\ call[c].pc = "idle" /\ op # "expand" /\ MayCall /\ Quiet /\ UNCHANGED <<cache, tree>>
  /\ IF Cached(op) \/ ~Claims(c) THEN Ends(c, {}) ELSE Begins(c, op, Nobody, {"list"})

\* Nodes are expanded one at a time; one that has children is left alone.
Expand(c, o) ==
  /\ call[c].pc = "idle" /\ MayCall /\ o \in DOMAIN tree /\ ~tree[o].filled
  /\ Expanding = {}
  /\ Quiet /\ UNCHANGED <<cache, tree>>
  /\ IF ~Claims(c) THEN Ends(c, {})
     ELSE Begins(c, "expand", o, IF tree[o].object.kind = "table" THEN Part ELSE {"cols"})

\* invalidate(), which a plugin may call at any time.
Invalidate == cache # NoCache /\ cache' = NoCache /\ Quiet /\ UNCHANGED <<tree, call>>

-----------------------------------------------------------------------------
(* Reads *)

\* build() asks for one answer after the other.
After(c, part) ==
  IF call[c].op = "expand" THEN call[c].todo \ {part}
  ELSE CASE part = "list" -> IF Lazy(call[c].op) THEN {} ELSE {"cols"}
         [] part = "cols" -> {"fks"} [] part = "fks" -> {"idx"} [] part = "idx" -> {}

Answered(c, part) ==
  LET asked == IF part = "list" THEN [call[c] EXCEPT !.at = changes + 1, !.kinds = List(adapter, db)]
               ELSE [call[c] EXCEPT !.answers[part] =
                       IF call[c].op = "expand"
                       THEN [o \in {call[c].obj} |-> Fetch(adapter, part, db, o)]
                       ELSE FetchAll(adapter, part, db)]
      todo == After(c, part)
  IN IF call[c].pc = "over" THEN [call[c] EXCEPT !.todo = @ \ {part}]
     ELSE [asked EXCEPT !.todo = todo, !.pc = IF todo = {} THEN "read" ELSE "reading"]

\* Mutant: the lock is taken for each read of a build.
MayReadAnytime(c, part) == part \in call[c].todo

MayRead(c, part) == part \in call[c].todo /\ (ServerLocked => Building(c))

\* One statement, and on SQLite one call of the connection's thread.
Read(c, part) ==
  /\ adapter # "duckdb" /\ MayRead(c, part)
  /\ call' = [call EXCEPT ![c] = Answered(c, part)]
  /\ Quiet /\ UNCHANGED <<cache, tree>>

ReadInThread(c, part) ==
  /\ adapter = "duckdb" /\ part \in call[c].todo /\ InThread(c, part)
  /\ IF part = "list" THEN call' = [call EXCEPT ![c].pc = "reading"] ELSE UNCHANGED call
  /\ UNCHANGED <<adapter, db, changes, q, cache, tree>>

ReadDone(c, part) ==
  /\ part \in call[c].todo /\ Runs(c, part)
  /\ duck' = [Served(duck) EXCEPT !.result = Nobody]
  /\ call' = [call EXCEPT ![c] = Answered(c, part)]
  /\ UNCHANGED <<adapter, db, changes, q, cache, tree>>

\* The rest of gather() goes on.
ReadFails(c, part) ==
  /\ call[c].pc \in {"waiting", "reading"} /\ UNCHANGED <<adapter, db, changes, q, cache, tree>>
  /\ \/ adapter # "duckdb" /\ MayRead(c, part) /\ UNCHANGED duck
     \/ Runs(c, part) /\ duck' = [Served(duck) EXCEPT !.result = Nobody]
  /\ Ends(c, IF call[c].op = "expand" THEN call[c].todo \ {part} ELSE {})

-----------------------------------------------------------------------------
(* Results *)

Built(c) == Assemble(call[c].kinds, call[c].answers)
Unreadable(c) == \E part \in Part : \E o \in DOMAIN call[c].answers[part] :
                   call[c].answers[part][o] = Invalid
CannotBeRead(c) ==
  /\ call[c].pc = "read" /\ Unreadable(c)
  /\ Ends(c, {}) /\ Quiet /\ UNCHANGED <<cache, tree>>

\* snapshot(): the cache is replaced; action_refresh_schema populates the tree
\* anew, and whoever expands a node of the old one writes to a node that is gone.
Store(c) ==
  /\ call[c].pc = "read" /\ call[c].op # "expand" /\ ~Unreadable(c) /\ Quiet
  /\ cache' = [at |-> call[c].at, lazy |-> Lazy(call[c].op), objects |-> Built(c)]
  /\ IF call[c].op = "refresh"
     THEN /\ tree' = Nodes(cache')
          /\ call' = [d \in Reader |-> IF d = c THEN Over({})
                      ELSE [call[d] EXCEPT !.detached = @ \/ d \in Expanding]]
     ELSE UNCHANGED tree /\ Ends(c, {})

\* update_object(), whatever the cache is by now, and the node.
Fill(c) ==
  LET o == call[c].obj
      with(object) == [object EXCEPT !.cols = Get(call[c].answers["cols"], o),
        !.fks = Get(call[c].answers["fks"], o), !.idx = Get(call[c].answers["idx"], o)]
  IN /\ call[c].pc = "read" /\ call[c].op = "expand" /\ ~Unreadable(c) /\ Quiet
     /\ cache' = IF o \in DOMAIN cache.objects THEN [cache EXCEPT !.objects[o] = with(@)] ELSE cache
     /\ tree' = IF call[c].detached THEN tree
                ELSE [tree EXCEPT ![o] = [object |-> with(@.object), filled |-> TRUE]]
     /\ Ends(c, {})

-----------------------------------------------------------------------------
\* Another client of the database; DuckDB's in memory has none.
Change ==
  /\ adapter # "duckdb" /\ Alters /\ UNCHANGED <<adapter, duck, q, cache, tree>>

Touched == {o \in Name : (o \in DOMAIN db) # (o \in DOMAIN db')
                         \/ (o \in DOMAIN db /\ o \in DOMAIN db' /\ db[o] # db'[o])}
Noted == call' = [c \in Reader |-> IF c \in UnderWay
                    THEN [call[c] EXCEPT !.met = @ \cup Touched] ELSE call[c]]

Next ==
  \/ Change /\ Noted
  \/ \E r \in Query : Queries(r, Reading) /\ Noted /\ UNCHANGED <<adapter, cache, tree>>
  \/ \E c \in Reader :
       \/ \E op \in Op : Snapshot(c, op)
       \/ \E o \in Name : Expand(c, o)
       \/ \E part \in Part \cup {"list"} :
            Read(c, part) \/ ReadInThread(c, part) \/ ReadDone(c, part) \/ ReadFails(c, part)
       \/ CannotBeRead(c) \/ Store(c) \/ Fill(c)
  \/ Invalidate

Spec == Init /\ [][Next]_vars
-----------------------------------------------------------------------------
(* Properties *)

\* What the database says of an object, whoever asks.
TableKinds == {"table", "r", "p", "BASE TABLE", "LOCAL TEMPORARY"}
Truth(o) ==
  LET table == db[o].raw \in TableKinds IN
  [kind |-> IF table THEN "table" ELSE IF db[o].raw = "m" THEN "materialized_view" ELSE "view",
   cols |-> db[o].ver, fks |-> IF table THEN db[o].ver ELSE None,
   idx |-> IF table /\ db[o].index # "none" THEN db[o].ver ELSE None]

\* Of what did not change while they read, a full snapshot and a node that was
\* expanded say exactly what the database does (a lazy one: which objects, of which
\* kinds), and a request for a full snapshot that the cache answers gets one
\* (introspector.py:38-40: "returning it would silently hand back an empty schema").
ExactAnswer ==
  [][\A c \in Reader :
       /\ Store(c) => \A o \in Name \ call[c].met :
            /\ o \in DOMAIN cache'.objects <=> o \in DOMAIN db
            /\ o \in DOMAIN db => cache'.objects[o] =
                 IF Lazy(call[c].op) THEN [kind |-> Truth(o).kind, cols |-> None, fks |-> None, idx |-> None]
                 ELSE Truth(o)
       /\ Fill(c) /\ ~call[c].detached /\ call[c].obj \notin call[c].met
          /\ call[c].obj \in DOMAIN db /\ tree[call[c].obj].object.kind = Truth(call[c].obj).kind
            => tree'[call[c].obj].object = Truth(call[c].obj)
       /\ Snapshot(c, "snapshot") /\ call'[c].pc = "over" /\ Claims(c)
            => ~cache.lazy]_vars

\* The cache does not go back to what it was before: not to an older list of
\* objects, and not to an older version of one.  The exceptions: on SQLite and
\* DuckDB a call that crossed another one; on PostgreSQL and MySQL, where a build
\* holds the lock until its result is stored, only an expansion that crossed another
\* call.
Newer(o) == /\ o \in DOMAIN cache.objects /\ o \in DOMAIN cache'.objects
            /\ cache.objects[o].cols > cache'.objects[o].cols
            /\ cache'.objects[o].cols # None
NeverBackwards ==
  [][\A c \in Reader :
       (Store(c) \/ Fill(c)) /\ (cache'.at < cache.at \/ \E o \in Name : Newer(o)) =>
         call[c].crossed # {} /\ (adapter \in {"sqlite", "duckdb"} \/ Fill(c))]_vars

\* A DuckDB query that is reported to have succeeded has delivered all of its rows
\* (duckdb_adapter.py:81-85: another statement "silently replaces the rows still
\* being read"), unless the catalog was being read when execute() claimed the
\* connection: the claim of a reader is checked only when it begins.
RowsComplete ==
  \A r \in Query : q[r].status = "succeeded" /\ q[r].stmt = "select" =>
    q[r].got = Batches \/ q[r].met
=============================================================================
