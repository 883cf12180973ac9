------------------------------ MODULE Catalogs ------------------------------
(***************************************************************************)
(* registro_adapters/introspect/: what the catalog queries of each adapter *)
(* answer, one by one for an object and in bulk for all of them, and       *)
(* registro_adapters/_introspect.py, which puts a snapshot together.       *)
(*                                                                         *)
(* A database maps its objects to an entry.  Columns, foreign keys and     *)
(* indexes are abstracted to the version of the object they describe, None *)
(* when there are none.  An answer in bulk maps the objects it has rows of *)
(* to that.                                                                *)
(***************************************************************************)
EXTENDS Integers

None == 0

Adapter == {"sqlite", "postgres", "mysql", "duckdb"}
Part == {"cols", "fks", "idx"}

\* As the catalog calls them; PostgreSQL's "f", a foreign table, is one it does
\* not show.
RawKind == {"table", "view", "r", "p", "v", "m", "f", "BASE TABLE", "VIEW", "LOCAL TEMPORARY"}

\* hidden: of a system schema, or SQLite's own.  index: that some key of some
\* index is an expression.
Entry == [raw : RawKind, hidden : BOOLEAN, index : {"none", "plain", "expression"},
          ver : Nat \ {None}]

\* The model that takes an index as a list of strings refuses a NULL in it.
Invalid == -1

Version(db, o) == IF o \in DOMAIN db THEN db[o].ver ELSE None
Rows(db, o, raws) == IF o \in DOMAIN db /\ db[o].raw \in raws THEN db[o].ver ELSE None
IndexRows(db, o) == IF o \in DOMAIN db /\ db[o].index # "none" THEN db[o].ver ELSE None

Shown(db, raws) == {o \in DOMAIN db : db[o].raw \in raws /\ ~db[o].hidden}
Indexed(db, raws) == {o \in Shown(db, raws) : db[o].index # "none"}
RowsOf(db, objects) == [o \in objects |-> db[o].ver]
\* Where the catalog has names of columns only.
Named(db, o) == IF db[o].index = "expression" THEN Invalid ELSE db[o].ver

-----------------------------------------------------------------------------
(* SQLite: PRAGMAs, table-valued in bulk.  An expression has no column name. *)

SqliteList(db) == [o \in Shown(db, {"table", "view"}) |-> db[o].raw]
SqliteColumns(db, o) == Version(db, o)
SqliteForeignKeys(db, o) == Rows(db, o, {"table"})
SqliteIndexes(db, o) == IF IndexRows(db, o) = None THEN None ELSE Named(db, o)
SqliteAllColumns(db) == RowsOf(db, Shown(db, {"table", "view"}))
SqliteAllForeignKeys(db) == RowsOf(db, Shown(db, {"table"}))
SqliteAllIndexes(db) == [o \in Indexed(db, {"table"}) |-> Named(db, o)]

(* PostgreSQL: pg_class and its kin; an expression is rendered. *)

Relation == {"r", "v", "m", "p"}
PostgresList(db) == [o \in Shown(db, Relation) |->
  CASE db[o].raw = "v" -> "view" [] db[o].raw = "m" -> "materialized_view" [] OTHER -> "table"]
\* _COLUMNS_SELECT leaves the system schemas out whatever is asked.
PostgresAllColumns(db) == RowsOf(db, Shown(db, Relation))
PostgresColumns(db, o) == IF o \in Shown(db, Relation) THEN db[o].ver ELSE None
PostgresForeignKeys(db, o) == Rows(db, o, {"r", "p"})
PostgresIndexes(db, o) == IndexRows(db, o)
PostgresAllForeignKeys(db) == RowsOf(db, Shown(db, {"r", "p"}))
PostgresAllIndexes(db) == RowsOf(db, Indexed(db, RawKind))

(* MySQL: information_schema; a functional key part has no column name. *)

MySQLList(db) ==
  [o \in Shown(db, RawKind) |-> IF db[o].raw = "VIEW" THEN "view" ELSE "table"]
MySQLColumns(db, o) == Version(db, o)
MySQLForeignKeys(db, o) == Rows(db, o, {"BASE TABLE"})
MySQLIndexes(db, o) == IF IndexRows(db, o) = None THEN None ELSE Named(db, o)
MySQLAllColumns(db) == RowsOf(db, Shown(db, RawKind))
MySQLAllForeignKeys(db) == RowsOf(db, Shown(db, {"BASE TABLE"}))
MySQLAllIndexes(db) == [o \in Indexed(db, RawKind) |-> Named(db, o)]

(* DuckDB: its bulk queries for keys and indexes name no schema. *)

DuckList(db) ==
  [o \in Shown(db, RawKind) |-> IF db[o].raw = "VIEW" THEN "view" ELSE "table"]
DuckColumns(db, o) == Version(db, o)
DuckForeignKeys(db, o) == Rows(db, o, {"BASE TABLE", "LOCAL TEMPORARY"})
DuckIndexes(db, o) == IndexRows(db, o)
DuckAllColumns(db) == RowsOf(db, Shown(db, RawKind))
DuckAllForeignKeys(db) ==
  RowsOf(db, {o \in DOMAIN db : db[o].raw \in {"BASE TABLE", "LOCAL TEMPORARY"}})
DuckAllIndexes(db) == RowsOf(db, {o \in DOMAIN db : db[o].index # "none"})

-----------------------------------------------------------------------------
(* The adapter's introspector *)

\* The objects, with "table", "view" or "materialized_view" for each.
List(a, db) ==
  CASE a = "sqlite" -> SqliteList(db) [] a = "postgres" -> PostgresList(db)
    [] a = "mysql" -> MySQLList(db) [] a = "duckdb" -> DuckList(db)

\* fetch_columns, fetch_foreign_keys, fetch_indexes.
Fetch(a, part, db, o) ==
  CASE part = "cols" ->
         (CASE a = "sqlite" -> SqliteColumns(db, o) [] a = "postgres" -> PostgresColumns(db, o)
            [] a = "mysql" -> MySQLColumns(db, o) [] a = "duckdb" -> DuckColumns(db, o))
    [] part = "fks" ->
         (CASE a = "sqlite" -> SqliteForeignKeys(db, o)
            [] a = "postgres" -> PostgresForeignKeys(db, o)
            [] a = "mysql" -> MySQLForeignKeys(db, o) [] a = "duckdb" -> DuckForeignKeys(db, o))
    [] part = "idx" ->
         (CASE a = "sqlite" -> SqliteIndexes(db, o) [] a = "postgres" -> PostgresIndexes(db, o)
            [] a = "mysql" -> MySQLIndexes(db, o) [] a = "duckdb" -> DuckIndexes(db, o))

\* fetch_all_columns, fetch_all_foreign_keys, fetch_all_indexes.
FetchAll(a, part, db) ==
  CASE part = "cols" ->
         (CASE a = "sqlite" -> SqliteAllColumns(db) [] a = "postgres" -> PostgresAllColumns(db)
            [] a = "mysql" -> MySQLAllColumns(db) [] a = "duckdb" -> DuckAllColumns(db))
    [] part = "fks" ->
         (CASE a = "sqlite" -> SqliteAllForeignKeys(db)
            [] a = "postgres" -> PostgresAllForeignKeys(db)
            [] a = "mysql" -> MySQLAllForeignKeys(db) [] a = "duckdb" -> DuckAllForeignKeys(db))
    [] part = "idx" ->
         (CASE a = "sqlite" -> SqliteAllIndexes(db) [] a = "postgres" -> PostgresAllIndexes(db)
            [] a = "mysql" -> MySQLAllIndexes(db) [] a = "duckdb" -> DuckAllIndexes(db))

Get(answer, o) == IF o \in DOMAIN answer THEN answer[o] ELSE None

\* Of a bulk answer, or of none in a lazy build.  Only tables have keys and indexes.
Assemble(kinds, answers) ==
  [o \in DOMAIN kinds |->
    [kind |-> kinds[o],
     cols |-> Get(answers["cols"], o),
     fks |-> IF kinds[o] = "table" THEN Get(answers["fks"], o) ELSE None,
     idx |-> IF kinds[o] = "table" THEN Get(answers["idx"], o) ELSE None]]
=============================================================================
