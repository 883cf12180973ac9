--------------------------- MODULE Catalogs_proofs ---------------------------
(***************************************************************************)
(* The two ways to read a catalog agree, for every adapter and database.   *)
(***************************************************************************)
EXTENDS Catalogs, TLAPS

IsDatabase(db) == \A o \in DOMAIN db : db[o] \in Entry

\* What a full build stands on: for an object the adapter lists, the bulk answer
\* and the answer for that object alone are the same (registro_adapters/
\* _introspect.py:83-105 takes the one or the other), foreign keys and indexes
\* for tables, which are all it asks them for.
BulkAgrees(a, db) ==
  \A o \in DOMAIN List(a, db) :
    /\ Get(FetchAll(a, "cols", db), o) = Fetch(a, "cols", db, o)
    /\ List(a, db)[o] = "table" => \A part \in {"fks", "idx"} :
         Get(FetchAll(a, part, db), o) = Fetch(a, part, db, o)

\* What schema_tree.py:78-96 shows of an object it was told the kind of.
Expanded(a, db, o) ==
  LET of(part) == IF part = "cols" \/ List(a, db)[o] = "table" THEN Fetch(a, part, db, o)
                  ELSE None
  IN [kind |-> List(a, db)[o], cols |-> of("cols"), fks |-> of("fks"), idx |-> of("idx")]

-----------------------------------------------------------------------------
(* One lemma per adapter *)

\* SQLite, introspect/sqlite.py: sqlite_master joined with the PRAGMAs.
LEMMA SqliteAgrees ==
  ASSUME NEW db, IsDatabase(db) PROVE BulkAgrees("sqlite", db)
<1>1. List("sqlite", db) = SqliteList(db)
  BY DEF List
<1> SUFFICES ASSUME NEW o \in DOMAIN SqliteList(db)
             PROVE  /\ Get(SqliteAllColumns(db), o) = SqliteColumns(db, o)
                    /\ SqliteList(db)[o] = "table" =>
                         /\ Get(SqliteAllForeignKeys(db), o) = SqliteForeignKeys(db, o)
                         /\ Get(SqliteAllIndexes(db), o) = SqliteIndexes(db, o)
  BY <1>1 DEF BulkAgrees, Fetch, FetchAll
<1>e. o \in DOMAIN db /\ db[o].raw \in RawKind /\ db[o].ver # None
  BY DEF IsDatabase, Entry, Shown, SqliteList
<1>2. Get(SqliteAllColumns(db), o) = SqliteColumns(db, o)
  BY <1>e DEF Get, RowsOf, Shown, Version, SqliteList, SqliteColumns, SqliteAllColumns
<1>3. ASSUME SqliteList(db)[o] = "table"
      PROVE  Get(SqliteAllForeignKeys(db), o) = SqliteForeignKeys(db, o)
  BY <1>3, <1>e DEF Get, RowsOf, Rows, Shown, SqliteList, SqliteForeignKeys, SqliteAllForeignKeys
<1>4. ASSUME SqliteList(db)[o] = "table"
      PROVE  Get(SqliteAllIndexes(db), o) = SqliteIndexes(db, o)
  BY <1>4, <1>e DEF Get, Shown, IndexRows, None, Indexed, Named, SqliteList, SqliteIndexes, SqliteAllIndexes
<1> QED
  BY <1>2, <1>3, <1>4

\* PostgreSQL, introspect/postgres.py: the same joins with and without a name.
LEMMA PostgresAgrees ==
  ASSUME NEW db, IsDatabase(db) PROVE BulkAgrees("postgres", db)
<1>1. List("postgres", db) = PostgresList(db)
  BY DEF List
<1> SUFFICES ASSUME NEW o \in DOMAIN PostgresList(db)
             PROVE  /\ Get(PostgresAllColumns(db), o) = PostgresColumns(db, o)
                    /\ PostgresList(db)[o] = "table" =>
                         /\ Get(PostgresAllForeignKeys(db), o) = PostgresForeignKeys(db, o)
                         /\ Get(PostgresAllIndexes(db), o) = PostgresIndexes(db, o)
  BY <1>1 DEF BulkAgrees, Fetch, FetchAll
<1>e. o \in DOMAIN db /\ db[o].raw \in RawKind /\ db[o].ver # None
  BY DEF IsDatabase, Entry, Shown, PostgresList
<1>2. Get(PostgresAllColumns(db), o) = PostgresColumns(db, o)
  BY <1>e DEF Get, RowsOf, Shown, PostgresList, PostgresColumns, PostgresAllColumns
<1>3. ASSUME PostgresList(db)[o] = "table"
      PROVE  Get(PostgresAllForeignKeys(db), o) = PostgresForeignKeys(db, o)
  BY <1>3, <1>e DEF Get, RowsOf, Rows, Shown, Relation, PostgresList, PostgresForeignKeys, PostgresAllForeignKeys
<1>4. ASSUME PostgresList(db)[o] = "table"
      PROVE  Get(PostgresAllIndexes(db), o) = PostgresIndexes(db, o)
  BY <1>4, <1>e DEF Get, Shown, IndexRows, None, Indexed, RowsOf, PostgresList, PostgresIndexes, PostgresAllIndexes, RawKind
<1> QED
  BY <1>2, <1>3, <1>4

\* MySQL, introspect/mysql.py: information_schema by name and by everything else.
LEMMA MySQLAgrees ==
  ASSUME NEW db, IsDatabase(db) PROVE BulkAgrees("mysql", db)
<1>1. List("mysql", db) = MySQLList(db)
  BY DEF List
<1> SUFFICES ASSUME NEW o \in DOMAIN MySQLList(db)
             PROVE  /\ Get(MySQLAllColumns(db), o) = MySQLColumns(db, o)
                    /\ MySQLList(db)[o] = "table" =>
                         /\ Get(MySQLAllForeignKeys(db), o) = MySQLForeignKeys(db, o)
                         /\ Get(MySQLAllIndexes(db), o) = MySQLIndexes(db, o)
  BY <1>1 DEF BulkAgrees, Fetch, FetchAll
<1>e. o \in DOMAIN db /\ db[o].raw \in RawKind /\ db[o].ver # None
  BY DEF IsDatabase, Entry, Shown, MySQLList
<1>2. Get(MySQLAllColumns(db), o) = MySQLColumns(db, o)
  BY <1>e DEF Get, RowsOf, Shown, Version, MySQLList, MySQLColumns, MySQLAllColumns
<1>3. ASSUME MySQLList(db)[o] = "table"
      PROVE  Get(MySQLAllForeignKeys(db), o) = MySQLForeignKeys(db, o)
  BY <1>3, <1>e DEF Get, RowsOf, Rows, Shown, RawKind, MySQLList, MySQLForeignKeys, MySQLAllForeignKeys
<1>4. ASSUME MySQLList(db)[o] = "table"
      PROVE  Get(MySQLAllIndexes(db), o) = MySQLIndexes(db, o)
  BY <1>4, <1>e DEF Get, Shown, IndexRows, None, Indexed, Named, MySQLList, MySQLIndexes, MySQLAllIndexes, RawKind
<1> QED
  BY <1>2, <1>3, <1>4

\* DuckDB, introspect/duckdb.py: bulk answers that no schema is left out of.
LEMMA DuckAgrees ==
  ASSUME NEW db, IsDatabase(db) PROVE BulkAgrees("duckdb", db)
<1>1. List("duckdb", db) = DuckList(db)
  BY DEF List
<1> SUFFICES ASSUME NEW o \in DOMAIN DuckList(db)
             PROVE  /\ Get(DuckAllColumns(db), o) = DuckColumns(db, o)
                    /\ DuckList(db)[o] = "table" =>
                         /\ Get(DuckAllForeignKeys(db), o) = DuckForeignKeys(db, o)
                         /\ Get(DuckAllIndexes(db), o) = DuckIndexes(db, o)
  BY <1>1 DEF BulkAgrees, Fetch, FetchAll
<1>e. o \in DOMAIN db /\ db[o].raw \in RawKind /\ db[o].ver # None
  BY DEF IsDatabase, Entry, Shown, DuckList
<1>2. Get(DuckAllColumns(db), o) = DuckColumns(db, o)
  BY <1>e DEF Get, RowsOf, Shown, Version, DuckList, DuckColumns, DuckAllColumns
<1>3. ASSUME DuckList(db)[o] = "table"
      PROVE  Get(DuckAllForeignKeys(db), o) = DuckForeignKeys(db, o)
  BY <1>3, <1>e DEF Get, RowsOf, Rows, Shown, RawKind, DuckList, DuckForeignKeys, DuckAllForeignKeys
<1>4. ASSUME DuckList(db)[o] = "table"
      PROVE  Get(DuckAllIndexes(db), o) = DuckIndexes(db, o)
  BY <1>4, <1>e DEF Get, Shown, IndexRows, None, RowsOf, DuckList, DuckIndexes, DuckAllIndexes
<1> QED
  BY <1>2, <1>3, <1>4

-----------------------------------------------------------------------------
\* Bulk and single answers agree whatever the database (introspect/*.py), so ...
THEOREM BulkAndSingleAgree ==
  ASSUME NEW a \in Adapter, NEW db, IsDatabase(db)
  PROVE  BulkAgrees(a, db)
BY SqliteAgrees, PostgresAgrees, MySQLAgrees, DuckAgrees DEF Adapter

\* ... a full snapshot of a database says of each object what a lazy one says once
\* the object has been expanded (_introspect.py:74-124 and schema_tree.py:78-96).
THEOREM FullIsLazyExpanded ==
  ASSUME NEW a \in Adapter, NEW db, IsDatabase(db)
  PROVE  Assemble(List(a, db), [part \in Part |-> FetchAll(a, part, db)])
           = [o \in DOMAIN List(a, db) |-> Expanded(a, db, o)]
<1> DEFINE answers == [part \in Part |-> FetchAll(a, part, db)]
           kinds == List(a, db)
<1>1. \A part \in Part : answers[part] = FetchAll(a, part, db)
  OBVIOUS
<1>2. ASSUME NEW o \in DOMAIN kinds
      PROVE  [kind |-> kinds[o],
              cols |-> Get(answers["cols"], o),
              fks |-> IF kinds[o] = "table" THEN Get(answers["fks"], o) ELSE None,
              idx |-> IF kinds[o] = "table" THEN Get(answers["idx"], o) ELSE None]
             = Expanded(a, db, o)
  <2>1. "cols" \in Part /\ "fks" \in Part /\ "idx" \in Part
    BY DEF Part
  <2>2. Get(answers["cols"], o) = Fetch(a, "cols", db, o)
    BY <1>1, <2>1, BulkAndSingleAgree DEF BulkAgrees
  <2>3. kinds[o] = "table" => Get(answers["fks"], o) = Fetch(a, "fks", db, o)
                           /\ Get(answers["idx"], o) = Fetch(a, "idx", db, o)
    BY <1>1, <2>1, BulkAndSingleAgree DEF BulkAgrees
  <2> QED
    BY <2>2, <2>3 DEF Expanded
<1> QED
  BY <1>2, Zenon DEF Assemble

-----------------------------------------------------------------------------
(* What an answer depends on *)

\* The two databases have the same of o.
Kin(d, e, o) == (o \in DOMAIN d <=> o \in DOMAIN e) /\ (o \in DOMAIN d => d[o] = e[o])

\* What a catalog answers of an object depends on nothing else.
LEMMA SameAnswers ==
  ASSUME NEW a \in Adapter, NEW d, NEW e, NEW o, Kin(d, e, o)
  PROVE  /\ o \in DOMAIN List(a, d) <=> o \in DOMAIN List(a, e)
         /\ o \in DOMAIN List(a, d) => List(a, d)[o] = List(a, e)[o]
         /\ \A part \in Part : /\ Get(FetchAll(a, part, d), o) = Get(FetchAll(a, part, e), o)
                               /\ Fetch(a, part, d, o) = Fetch(a, part, e, o)
<1>1. CASE a = "sqlite"
  <2>1. List(a, d) = SqliteList(d) /\ List(a, e) = SqliteList(e)
    BY <1>1 DEF List
  <2>2. /\ o \in DOMAIN SqliteList(d) <=> o \in DOMAIN SqliteList(e)
        /\ o \in DOMAIN SqliteList(d) => SqliteList(d)[o] = SqliteList(e)[o]
    BY DEF SqliteList, Shown, Kin
  <2>3. /\ Get(SqliteAllColumns(d), o) = Get(SqliteAllColumns(e), o)
        /\ Get(SqliteAllForeignKeys(d), o) = Get(SqliteAllForeignKeys(e), o)
    BY DEF SqliteAllColumns, SqliteAllForeignKeys, RowsOf, Shown, Kin, Get
  <2>4. Get(SqliteAllIndexes(d), o) = Get(SqliteAllIndexes(e), o)
    BY DEF SqliteAllIndexes, Indexed, Named, Shown, Kin, Get
  <2>5. /\ SqliteColumns(d, o) = SqliteColumns(e, o)
        /\ SqliteForeignKeys(d, o) = SqliteForeignKeys(e, o)
        /\ SqliteIndexes(d, o) = SqliteIndexes(e, o)
    BY DEF SqliteColumns, SqliteForeignKeys, SqliteIndexes, Version, Rows, IndexRows, Named, Kin, None
  <2> QED BY <1>1, <2>1, <2>2, <2>3, <2>4, <2>5 DEF FetchAll, Fetch, Part
<1>2. CASE a = "postgres"
  <2>1. List(a, d) = PostgresList(d) /\ List(a, e) = PostgresList(e)
    BY <1>2 DEF List
  <2>2. /\ o \in DOMAIN PostgresList(d) <=> o \in DOMAIN PostgresList(e)
        /\ o \in DOMAIN PostgresList(d) => PostgresList(d)[o] = PostgresList(e)[o]
    BY DEF PostgresList, Shown, Kin
  <2>3. /\ Get(PostgresAllColumns(d), o) = Get(PostgresAllColumns(e), o)
        /\ Get(PostgresAllForeignKeys(d), o) = Get(PostgresAllForeignKeys(e), o)
    BY DEF PostgresAllColumns, PostgresAllForeignKeys, RowsOf, Shown, Kin, Get
  <2>4. Get(PostgresAllIndexes(d), o) = Get(PostgresAllIndexes(e), o)
    BY DEF PostgresAllIndexes, Indexed, RowsOf, Shown, Kin, Get
  <2>5. /\ PostgresColumns(d, o) = PostgresColumns(e, o)
        /\ PostgresForeignKeys(d, o) = PostgresForeignKeys(e, o)
        /\ PostgresIndexes(d, o) = PostgresIndexes(e, o)
    BY DEF PostgresColumns, PostgresForeignKeys, PostgresIndexes, Shown, Rows, IndexRows, Kin
  <2> QED BY <1>2, <2>1, <2>2, <2>3, <2>4, <2>5 DEF FetchAll, Fetch, Part
<1>3. CASE a = "mysql"
  <2>1. List(a, d) = MySQLList(d) /\ List(a, e) = MySQLList(e)
    BY <1>3 DEF List
  <2>2. /\ o \in DOMAIN MySQLList(d) <=> o \in DOMAIN MySQLList(e)
        /\ o \in DOMAIN MySQLList(d) => MySQLList(d)[o] = MySQLList(e)[o]
    BY DEF MySQLList, Shown, Kin
  <2>3. /\ Get(MySQLAllColumns(d), o) = Get(MySQLAllColumns(e), o)
        /\ Get(MySQLAllForeignKeys(d), o) = Get(MySQLAllForeignKeys(e), o)
    BY DEF MySQLAllColumns, MySQLAllForeignKeys, RowsOf, Shown, Kin, Get
  <2>4. Get(MySQLAllIndexes(d), o) = Get(MySQLAllIndexes(e), o)
    BY DEF MySQLAllIndexes, Indexed, Named, Shown, Kin, Get
  <2>5. /\ MySQLColumns(d, o) = MySQLColumns(e, o)
        /\ MySQLForeignKeys(d, o) = MySQLForeignKeys(e, o)
        /\ MySQLIndexes(d, o) = MySQLIndexes(e, o)
    BY DEF MySQLColumns, MySQLForeignKeys, MySQLIndexes, Version, Rows, IndexRows, Named, Kin, None
  <2> QED BY <1>3, <2>1, <2>2, <2>3, <2>4, <2>5 DEF FetchAll, Fetch, Part
<1>4. CASE a = "duckdb"
  <2>1. List(a, d) = DuckList(d) /\ List(a, e) = DuckList(e)
    BY <1>4 DEF List
  <2>2. /\ o \in DOMAIN DuckList(d) <=> o \in DOMAIN DuckList(e)
        /\ o \in DOMAIN DuckList(d) => DuckList(d)[o] = DuckList(e)[o]
    BY DEF DuckList, Shown, Kin
  <2>3. /\ Get(DuckAllColumns(d), o) = Get(DuckAllColumns(e), o)
        /\ Get(DuckAllForeignKeys(d), o) = Get(DuckAllForeignKeys(e), o)
        /\ Get(DuckAllIndexes(d), o) = Get(DuckAllIndexes(e), o)
    BY DEF DuckAllColumns, DuckAllForeignKeys, DuckAllIndexes, RowsOf, Shown, Kin, Get
  <2>4. /\ DuckColumns(d, o) = DuckColumns(e, o)
        /\ DuckForeignKeys(d, o) = DuckForeignKeys(e, o)
        /\ DuckIndexes(d, o) = DuckIndexes(e, o)
    BY DEF DuckColumns, DuckForeignKeys, DuckIndexes, Version, Rows, IndexRows, Kin
  <2> QED BY <1>4, <2>1, <2>2, <2>3, <2>4 DEF FetchAll, Fetch, Part
<1>5. a \in {"sqlite", "postgres", "mysql", "duckdb"}
  BY DEF Adapter
<1> QED BY <1>1, <1>2, <1>3, <1>4, <1>5
=============================================================================
