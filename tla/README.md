# Teridex: models, model checks and proofs

Teridex is a terminal client for SQL databases. This directory holds TLA+
modules that model its concurrent core, TLC configurations that check them on
small instances, and TLAPS proofs of theorems about them. Paths below are
relative to the repository's root; the Python packages are under `src/`
(`src/registro_core`, `src/registro_engine`, `src/registro_adapters`,
`src/registro_plugins`, `src/registro_tui`, `src/registro_cli`).

    tlc -config Pool.cfg MCConnectionPool        # one run; the table below has all
    tlapm ConnectionPool_proofs.tla              # one module of proofs

Everything runs in one asyncio event loop. A task is interrupted only where it
awaits something that is not ready, so an *action* of these modules is what one
task does between two such points. What makes the program hard is what may
happen at each of them: another task acts, this task is cancelled (once or
twice), a deadline passes, a driver fails, the application shuts down.


## 1. The system

| Component | State it keeps | Operations | Talks to |
|---|---|---|---|
| Event bus (`registro_core/events.py`) | list of subscriptions, a bounded channel and a drain task for each, `dropped_events` | `subscribe`, `unsubscribe`, `publish`, `close` | called by executor, adapters' users, plugins; calls handlers of the TUI and plugins |
| Connection pool (`registro_engine/pool.py`) | semaphore, idle queue, `_all`, connection tasks, cleanup tasks, lock, `_closed` | `acquire`, release, `preload`, `close` | factories of adapters; called by executor's users, introspector, TUI |
| Query executor (`registro_engine/executor.py`, `registro_core/models/query.py`) | per run: status, cancel event, deadline, generator | `run`, iteration of the rows, `aclose`, `cancel` | one leased adapter; publishes to the bus |
| SQLite adapter (`sqlite_adapter.py`, `base.py`) | open cursors, cancel flags, the connection and its thread | `connect`, `close`, `execute`, `stream`, `cancel`, `reset`, `begin`, introspection | aiosqlite's worker thread |
| PostgreSQL, MySQL, DuckDB adapters | the same; a streaming result set, prepared statements, the id of the running query | the same; cancellation through a second connection or a thread | asyncpg, asyncmy, duckdb |
| Transaction context (`transaction.py`) | none of its own | enter, commit, roll back | one adapter |
| Query history (`history.py`) | a SQLite file, a counter of inserts since the last trim | `open`, `add`, `recent`, `search`, `close` | called by the TUI when a query ends |
| Schema introspector (`introspector.py`) | one cached snapshot, lazy or full | `snapshot`, `refresh`, `invalidate`, `fetch_*`, `update_object` | the session's adapter for introspection |
| TUI application, session, state (`app.py`, `session.py`, `state.py`) | the session, the current run, tabs, the query worker | connect, replace a session, run, cancel, unmount | everything above |
| Results grid, schema tree | rows shown, cap, nodes loaded | `reset`, `feed`, `mark_done`, expand, populate | executor's batches, introspector |
| Plugins (loader, context, registry) | loaded plugins, what each registered | load, activate, late services, unload | bus, adapter registry, commands |
| Configuration, DSN, catalog builders, type names, CSV | none: pure functions | merge, parse, render, mask, build a snapshot | - |
| Command line (`registro_cli/main.py`) | none | `run`, `tui`, ... | session, executor |
| Adapter registry, logging, errors, other widgets, themes | tables filled once; sinks; layout | - | - |

`PROJECT.json` lists every component with its status, and every hazard with the
line at which it bites.

How a query travels: the TUI (or the CLI) leases an adapter from the pool with
`async with pool.acquire()`, calls `executor.run()` and iterates `run.rows`.
The executor awaits `adapter.execute()` and then wraps the generator of
`adapter.stream()`; it publishes started, progress and one terminal event to
the bus, whose drain tasks update the status bar and plugins. Another task may
call `executor.cancel()` meanwhile, which sets the run's cancel event and calls
`adapter.cancel()`. When the lease ends the pool calls `adapter.reset()` in a
shielded task and hands the adapter to the next in line. When a session is
replaced or the application ends, `pool.close()` and `bus.close()` run against
whatever is still going on.

What is hard, and what makes each part correct:

- **Pool.** Tasks are cancelled while they wait for a permit, for the lock, for
  a connection being built, for an idle adapter or for a release; factories
  fail with nobody waiting; `close()` runs in between and gives up after five
  seconds. Correct means: permits are conserved, an adapter has one owner, no
  more than `Size` connections exist, none is forgotten open, every acquire
  ends, closing closes all.
- **Bus.** A full channel evicts from its middle; a handler unsubscribes
  itself, raises, or is cancelled; `close()` walks a list that may shrink.
  Correct means: at most once, in order, no terminal event lost to overflow,
  the count of losses exact, no handler running after `close()`.
- **Run.** `cancel()`, the cancellation of the consumer's task and the deadline
  strike at any suspension, also while the generator unwinds for another of
  them, and the driver's thread goes on with what nobody awaits any more.
  Correct means: one terminal event, nothing delivered after a cancellation, a
  partial result never called complete, and a connection handed over without
  a predecessor's statement, transaction or interrupt.
- **Server adapters.** Cancelling goes through a side connection opened after
  the query's identity was read: it may hit the next query, or the rollback that
  is to clean the connection for it. Correct means: a request to interrupt
  reaches the query it is for, a lease begins outside every earlier transaction
  and with nothing of an earlier one under way, and a cancelled query stops.
- **DuckDB.** A connection has one result set, and in memory there is only one
  connection: queries and catalog reads must take turns.
- **History.** Two inserts share a connection and a counter; a crash between
  insert and commit. Committed entries survive and retention is restored.
- **Introspector and tree.** An older snapshot must not overwrite a newer one,
  or an object updated meanwhile; a lazy one must not pass for a full one; what
  a snapshot or a node shows of an object is what the database says of it.
- **Application.** A session replaced under a running query, workers cancelled
  when the application ends: the stream ends, the spinner stops, the history
  entry goes to the session the query ran in, no session stays open.
- **Plugins.** Nothing a plugin registered outlives its unloading.
- **Results grid.** Exactly the rows up to the cap are shown, and the "truncated"
  mark is right when the cap falls inside or at the end of a batch.
- **Configuration and DSN.** Later layers win key by key; rendering and
  parsing a DSN are inverse, and no rendered DSN shows a password.


## 2. Modules

| Module | Models | Abstract specification | Proofs |
|---|---|---|---|
| `ConnectionPool` (`MCConnectionPool`) | `pool.py` | `PoolLease` | `ConnectionPool_proofs` |
| `EventBus` (`MCEventBus`) | `events.py` | `EventDelivery` | `EventBus_proofs` |
| `QueryRun` | `executor.py` over `sqlite_adapter.py`, successive leases | `QueryContract` | `QueryRun_proofs` |
| `QueryHistory` (`MCQueryHistory`) | `history.py`, several objects on one file | `HistoryLog` | `QueryHistory_proofs` |
| `ServerCancel` | `executor.py` over `postgres_adapter.py` and `mysql_adapter.py`, successive leases | - | `ServerCancel_proofs` |
| `Catalogs` | `introspect/*.py`, `_introspect.py`: pure operators | itself: the bulk answers against the single ones | `Catalogs_proofs` |
| `DuckDBAdapter` | `duckdb_adapter.py` on a database in memory, queries | - | with `SchemaCache` |
| `SchemaCache` (`MCSchemaCache`) | `introspector.py`, `schema_tree.py`, the introspection of all adapters; extends `DuckDBAdapter` and `Catalogs` | `Truth`, what the database says of an object | `SchemaCache_proofs` |
| `Session` (`MCSession`) | `app.py`, `session.py`, `results_table.py` | - | `Session_proofs` |

Definitions named after a mistake and preceded by `Mutant:` are no part of a
specification: each is a variant of the definition that follows it, with which
one of the properties fails.

### ConnectionPool

A `Request` is one task that runs `async with pool.acquire()` once; a program
that acquires again and again is a program with more requests. `pool` is the
pool object: `permits` and `semQ` (the semaphore), `idle` (the queue's
contents), `all` (`_all`), `connTasks` (`_connection_tasks`), `live`, the adapters that are
connected, and `broken`, those whose own `close()` failed with the connection
still open: a later call returns at once, because `base.close()` has unset
`_connected` by then. `req[r]` is where the task of `r` is (`pc`), its
connection task (`conn`), the adapter it answers for (`lease`), how far the
background half is that outlives it (`job`: `_cleanup`, `_do_release`), and
which task awaits that half (`outer`). `shut` is `close()`: its progress, the
snapshots it took, whether it timed out, and the adapters it did not come to
because it was cancelled (`skipped`).

| Action | Code |
|---|---|
| `Refuse`, `AcquirePermit`, `QueueForPermit`, `ResumeWithPermit` | `_acquire` up to its next suspension: refuse, take an idle adapter, start to connect, wait |
| `ResumeWithLock` | a request that waited for the contended lock finds the pool closed |
| `Connected`, `ConnectFails`, `ConnectCancelled`, `ForgetConnTask` | the connection task and its done callback |
| `Register`, `SeeConnectFailed`, `SeeConnectCancelled` | `_acquire` after the connection task |
| `GetterServed`, `TakeServed`, `SeeGetterCancelled` | the getter on the idle queue and the request that awaits it |
| `CancelInQueue` ... `CancelReleasing` | cancellation of the request's task at each suspension |
| `EndUse`, `PutBack`, `StartClosing`, `ReleaseClosed`, `FinishRelease` | `_release` and the shielded `_do_release` |
| `CleanupRegisters`, `CleanupFails`, `CleanupEnds`, `CleanupCancelled` | `_cleanup` |
| `Close`, `CloseOne`, `AwaitCleanup`, `CleanupDone`, `CleanupTimeout`, `CancelCloseOne`, `CancelAwaitCleanup` | `close()`, its five seconds, and its cancellation while it closes an adapter or waits for cleanups |

A permit granted to a waiter that has not resumed is still counted in
`permits`, and the waiter keeps its place at the head of `semQ`; asyncio's
semaphore gives nobody else that permit. The lock is contended only while a
release closes its adapter, which is after `close()`. Two of asyncio's orders
are left out, which adds behaviours: which idle adapter is taken, and which
waiter gets the lock.

`PoolLease` is what a client may rely on: at most `Size` connections open, each
lent to one client, none closed under a client until the pool is shut.

### EventBus

A `Sub` is one call of `subscribe()`. `log` are the classes of the events
published so far (event `n` is the `n`-th), `subs` is `_subs`, `buf` the
channels, `task` the drain tasks, `dropped` the counter, `shut` how far
`close()` is, and `history` what each subscription was offered and has taken.
`Publish` is `publish()` with `put_nowait` or `_handle_overflow` for every
subscription that wants the event; `Wake`, `HandlerReturns`,
`HandlerCancelled`, `HandlerSuspends`, `Unwind` and `Swallow` are the drain task;
`Close`, `AwaitTask`, `CancelClose` and `FinishClose` are `close()`, which walks
`_subs` by index. `close()` cannot be broken off: its cancellation cancels the
task it awaits once more and is suppressed with that one's. A cancelled task
leaves `get()` at once (`leaving`); one in its handler has the `CancelledError`
raised there (`unwinding`), and a handler of a subscription in `Stubborn` may
catch it or turn it into an exception of its own, after which the loop goes on.
`UnsubscribeItself` has the handler cancel its own task: it goes on (`doomed`)
until it suspends, with the rest of its channel if there is one, which is not
what the docstring of `unsubscribe` (`events.py:193`) leads one to expect.

`EventDelivery` is the promise to a subscriber, with sets in place of
channels: at most once, in order of publication, at most one event lost for
each one offered, never a terminal one.

### QueryRun

Runs use one connection one after the other, a lease each. A statement is a
`BEGIN` or a select with some number of batches. `run[r]` is the consumer (`pc`),
the state of the adapter's generator (`source`) and the reason it unwinds for
(`why`), the batches delivered (`got`), the deadline (`expired`), the cancel
event (`cancel`), the handle's `status`, the terminal events published, and a
task that calls `cancel()` (`canceller`). `conn` is the adapter: `_cursors`,
`_cancel_flags`, whose transaction is open, and the queue of jobs of
aiosqlite's thread. A job whose awaiting task was cancelled stays queued and is
done for nobody; `interrupt()` marks the job that is running.

| Action | Code |
|---|---|
| `Start`, `Executed`, `ExecuteFails`, `ExecutedForNobody` | `run()` up to its return; `SQLiteAdapter.execute` |
| `Pull`, `PullTooLate`, `FetchRows`, `FetchEmpty`, `FetchFails`, `FetchedForNobody` | one turn of `_wrap` and of the generator of `stream()` |
| `Abandon` | `aclose()` or an error of the consumer while it holds a batch, or before it iterated |
| `Unwound`, `Closed`, `TimeoutReported`, `ClosedForNobody` | the `finally` of the generator, the closing of it by `_wrap`, `except TimeoutError` |
| `Expire`, `CancelExecuting`, `CancelFetching`, `CancelUnwinding`, `CancelCancelling`, `CancelClosing` | the deadline, and the cancellation of the consumer's task, at each suspension |
| `Cancel`, `CursorClosed`, `Interrupt` | `QueryExecutor.cancel` and `SQLiteAdapter.cancel` |
| `Reset`, `CursorsReset`, `RolledBack` | `SQLiteAdapter.reset`, called by the pool when the lease ends |

The end of a job and the resumption of the task that awaited it are one step,
except for a canceller: its `interrupt()` comes later and acts on whatever runs
then. Progress events and the logging context are left out. `QueryContract` is
what the bus and the iterator promise: batches one by one, none after a
cancellation was asked for, and "completed" only when everything was delivered.
It keeps the whole sequence of a run's terminal events (`told`), so that a
second one breaks it even if it equals the first: a run that was iterated tells
its end exactly once. A run that is closed without ever being iterated publishes
no terminal event at all, although the docstring of `QueryExecutor.run`
(`executor.py:104`) presents it as the way out of exactly that situation. The
contract lets such a run vanish (`Vanish`); that the docstring is wrong there is
shown by a run of its own, `query_closed_silently`.

### QueryHistory

A `Store` is a `QueryHistory` object, an `Entry` one call of `add()`. Several
stores may have the file open: two programs, or two sessions of one while it
reconnects. `file` is the committed table, `draft` the table as the owner of
the write lock (`writer`) has changed it, `store[s]` an object with its counter
of inserts and the jobs of its connection's thread, `add[e]` where a call is.

| Action | Code |
|---|---|
| `Open`, `OpenBusy` | `open()`, one transaction; or "database is locked" |
| `Add`, `Insert`, `Count`, `Trim`, `Commit` | `add()` between one await and the next |
| `CancelAdd`, `JobFails` | the task that awaits `add()` is cancelled; the file is locked, or the connection closed |
| `Close`, `CloseTrims`, `CloseCommits`, `CloseConnection` | `close()` |
| `Crash` | the program dies; SQLite drops what it had not committed |

Calls on one object share its transaction and its counter, so a commit may
cover half of another call, and a call cancelled after its insert leaves a
transaction that only the object's next commit, or its end, finishes.
`HistoryLog` is the "append-only history with a bounded retention window" of
the class's docstring: rows are appended, only the oldest go, `MaxEntries` are
always left, and the number that `add()` returned is that of a committed row,
its own. Errors of the disk are left out; `recent()` only reads.

### ServerCancel

As in `QueryRun`, successive leases of one connection, here to a server; `kind`
says which adapter. `q[r]` is the consumer, its generator (`source`) and
`side`, the call of `adapter.cancel()` that somebody makes for it. `conn` has
the adapter's fields (`active` is `_active_query_id`, `flags` the cancel flags,
`open` the statements or cursors it holds), whose transaction is open, and the
commands the server has yet to answer, one after the other. A command whose
task was cancelled stays there for nobody, on PostgreSQL with asyncpg's own
request to stop it. To interrupt is to mark the command at the head, whosever
it is. A generator that is closed before its first step has no `finally` to run
(its `source` stays `fresh`), so its query stays registered until `reset()`; on
MySQL its cursor is open then, and the server still sends its rows. `reset()`
closes that cursor, which reads the rest of them (`clearing`), and only then rolls
back. `early` records that `cancel()` came before anything was pulled. That
asyncmy reads the rest of an unbuffered result before it sends another command
is taken from how the adapter uses it.

| Action | Code |
|---|---|
| `Start`, `Executed`, `ExecuteFails` | `execute()`: PostgreSQL prepares a statement, MySQL runs it |
| `Pull`, `Opened`, `FetchRows`, `FetchEmpty`, `FetchFails`, `PullTooLate` | `stream()`: the transaction and cursor of PostgreSQL, the rows that MySQL keeps sending |
| `Abandon`, `CancelTask`, `Expire`, `Unwound` | the ways out of the iteration, and the generator's `finally` |
| `TimeoutKills`, `TimeoutCannotKill` | `adapter.cancel()` of the executor at a deadline |
| `Cancel`, `Kill`, `SideFails`, `Drained` | `adapter.cancel()`: look, open the side connection, have the server interrupt, and on MySQL close the cursor |
| `Reset`, `ResetDrained`, `ResetDone` | `reset()`: the closing of what the lease left open, with MySQL's reading of the rest, and the rollback |
| `DoneForNobody` | the server answers a command nobody waits for |

### Catalogs

A database maps objects to an entry: the kind its catalog gives the object,
whether it is hidden, whether an index has an expression for a key, and a
version that stands for its columns, keys and indexes. Per adapter there is
what the listing answers, what each of the three queries answers for one
object, and what each answers in bulk, with the differences the SQL has: which
kinds and schemas a query leaves out, and that on SQLite and MySQL a key that is
an expression has no column name, which the `Index` model refuses (`Invalid`).
`Assemble` is `build()`.

### DuckDBAdapter and SchemaCache

A `Query` is a lease of the pool's one connection; `duck` has `_streaming`, the
cancel flags, the calls in threads (of which a cancelled task leaves one that
goes on without `_lock`), and whose result set the connection has. What the
actions do is named after `execute`, the generator of `stream`, `cancel` and
`reset`. A `Reader` is one call of the introspector by the connect worker, the
refresh key, the tree or a plugin: `call[c]` has the reads that are due
(`todo`), their answers, and what happened meanwhile (`met`, `crossed`).

| Action | Code |
|---|---|
| `Snapshot`, `Invalidate` | `snapshot()`, `refresh()`, lazy or not, from the cache or not; `invalidate()` |
| `Expand` | `on_tree_node_expanded`, with its `gather` of one to three fetches |
| `Read`, `ReadInThread`, `ReadDone`, `ReadFails` | one catalog query of the adapter, under the lock of PostgreSQL and MySQL, in DuckDB's threads |
| `Store`, `Fill`, `CannotBeRead` | the cache replaced and the tree populated anew; `update_object()` and the node; an answer `Index` refuses |
| `Change` | DDL of another client |

### Session

A `Conn` is one run of the connect worker, and the session it opens; a `Query`
one press of the run key. `app` is the application's session, the connection
fields of `AppState` (one field, `state`: they are assigned together), the
services last given to plugins, who holds `_connect_lock`, and `on_unmount`'s
progress. `sess[k]` has the resources of a session that are made and closed.
`run[r]` is the worker `_stream_query` at its suspensions, with the pool it was
given; `grid` is `ResultsTable`, the spinner and `_query_in_flight`.

| Action | Code |
|---|---|
| `Connect`, `StartOpening`, `AdapterConnected`, `OpenFails` | the dialog's worker, the lock, `open_session` |
| `Adopt`, `ClosePrevious`, `Publish`, `Refreshed` | `_adopt`, `Session.close`, the plugins' services, the first schema refresh |
| `RunQuery`, `Begin`, `Acquired`, `Executed`, `ExecuteFails`, `FailsBefore` | the run key; the worker up to the first row |
| `Batch`, `FeedMore` | `feed()` with the cap, chunk by chunk |
| `EndOfRows`, `PullFails`, `PullCancelled`, `CloseRun`, `Recorded`, `RecordFails` | the end of the rows, `mark_done`, `_record_history` |
| `TornBefore`, `TornStreaming`, `TornLate`, `ConnectCancelled` | a `CancelledError`: of the pool that is being closed, or of a worker when the application ends |
| `CancelQuery`, `SetRowLimit`, `Quit`, `StartClosing`, `CloseForExit`, `Exit` | keys, and `on_unmount` |

Pool, executor and history are used here by what their own modules promise: a
lease comes or fails, or is torn by `close()`; rows come in batches until they
end, fail or are cancelled; an open history takes an entry, a closed one raises.


## 3. Runs

| Run | Module, cfg | Result | Shows |
|---|---|---|---|
| `pool` | `MCConnectionPool`, `Pool.cfg` | holds | permits, leases, connections accounted for; refines `PoolLease`; acquires end; closing closes all |
| `pool_deadlock` | `MCConnectionPool`, `PoolDeadlock.cfg` | `EveryAcquireEnds` violated | an acquire that waits for ever |
| `pool_lease_after_close` | `MCConnectionPool`, `PoolLateLease.cfg` | `NoLeaseAfterClose` violated | an adapter lent after `close()` |
| `event_bus` | `MCEventBus`, `EventBus.cfg` | holds | channels bounded, losses counted; refines `EventDelivery`; terminal events delivered; tasks end |
| `query_run` | `QueryRun`, `QueryRun.cfg` | holds | refines `QueryContract`; no partial success; clean handover; interrupts hit their own run; runs end |
| `query_history` | `MCQueryHistory`, `QueryHistory.cfg` | holds | refines `HistoryLog`; retention bound; the write lock is given back |
| `server_cancel` | `ServerCancel`, `ServerCancel.cfg` | holds | who may be interrupted; whose transaction a statement may find; what a lease may find under way; a cancelled query stops |
| `schema_cache` | `MCSchemaCache`, `SchemaCache.cfg` | holds | answers are exact; the cache does not go backwards; a DuckDB query that succeeded has all of its rows |
| `session` | `MCSession`, `Session.cfg` | holds | spinner, sessions, history entries and the grid accounted for, through reconnects and the end of the application |
| `query_inherited_transaction` | `QueryRun`, `QueryTransaction.cfg` | `NoInheritedTransaction` violated | a statement inside a stranger's transaction |
| `query_closed_silently` | `QueryRun`, `QueryClosing.cfg` | `ClosingTells` violated | a run closed before its first batch ends without a terminal event |
| `query_cancel_stops` | `QueryRun`, `QueryCancelStops.cfg` | `CancelStops` violated | a cancelled fetch that goes on |

### What the violated properties say of the code

1. **A waiter nobody serves** (`pool.py:84`). A request is cancelled while its
   factory fails. Its cleanup task returns the permit one turn of the loop
   before the failed connection task is discarded from `_connection_tasks`. The
   next request, in that turn, counts it, finds the pool "full", and waits on
   the idle queue of a pool that has no connection. `AcquireEnds` (in `pool`)
   states that this is the only way: acquires end in every behaviour in which
   no connection fails behind the back of a cancelled request.
2. **Leases after close** (`pool.py:71`). A request with a granted permit, or a
   served getter, that resumes after `close()` takes an adapter that
   `close()` is closing. `close()`'s comment rules that out.
3. **A run that ends in silence** (`executor.py:219`). A consumer that never
   pulled closes `rows`. No line of the generator has run, so neither its
   `finally` nor its terminal event does, and what started the run is left at
   "running". The docstring (`executor.py:106`) says that closing "is what
   publishes the terminal lifecycle event".
4. **Inherited transaction** (`sqlite_adapter.py:252`). `reset()` asks
   `in_transaction` while a `BEGIN` of a cancelled `execute()` is still queued.
   `OwnTransaction` (in `query_run`) states that this is the only way.
5. **Cancellation queues behind its target** (`sqlite_adapter.py:233`).
   `cancel()` awaits the closing of the cursor before it interrupts.

The properties that hold state their exceptions in the formula, and each
exception is a behaviour the code has: `QuietHandover` excepts an aborted
`execute()`, and a fetch whose cursor `adapter.cancel()` took away from
`reset()` (a cancelled or expired query whose task was then cancelled twice);
`InterruptsOwn` excepts a canceller that was still closing its cursor when the
lease ended; `PermitsAccounted` and `NoOrphan` become weaker once `close()` has
given up on a cleanup, whose permit is then returned twice (`pool.py:220`);
`NoOrphan` and `CloseClosesAll` except the adapters in `Abandoned`, whose own
`close()` failed (`pool.py:209` goes on), or which the pool's `close()` had not
come to when it was cancelled: `_all` is emptied before the first of them is
closed, so that nobody closes them later (`pool.py:205`); `TasksEnd` excepts the
handlers that catch their own `CancelledError` and so keep `_drain`, and
`close()` with it, waiting (`events.py:205`);
`LockReleased` and `RetentionBound` except calls of `add()` that were cancelled
or failed, which nobody commits at once or counts.

The exceptions in the three newer runs are the disagreements they brought to
light. Each was shown necessary by leaving it out and reading the
counterexample:

- `KillsOwn`: `cancel()` looks at `_active_query_id` and then opens a connection
  for up to five seconds; the lease may end meanwhile and the next query is
  killed (`postgres_adapter.py:259`, `mysql_adapter.py:245`).
- `OwnTransaction`: on PostgreSQL the same late request may hit the rollback of
  `reset()`, which suppresses the error; and a task cancelled while a command
  runs leaves a transaction that `reset()` does not see yet. The request may come
  from an earlier lease still: with three leases the first one's kill can hit the
  second one's rollback, so that the third begins in the second one's transaction.
  The run has two leases; the attempt to prove the property for any number of them
  brought this to light.
- `QuietHandover`: on MySQL `cancel()` takes the cursor out of `_cursors` and
  closes it only after the side connection: `reset()` does not find it. Every
  other cursor is drained by `reset()` before the handover, that of a query which
  was never iterated too.
- `CancelStops`: on PostgreSQL a statement without rows runs in `stream()`'s
  first step; a request that comes before anything was pulled (`early`) finds
  nothing to stop, and is not repeated. Requests that come later do stop it.
- `RowsComplete`: catalog reads look at `_streaming` only when they begin, and
  DuckDB's queries only when they begin: one that begins between two reads of a
  snapshot has its result set replaced, and ends as *succeeded* with some of its
  rows. `duckdb_adapter.py:81` wants such a caller to fail "loudly", and
  `session.py:127` says that introspection and queries "take turns instead of
  interleaving"; introspection does not lease from the pool.
- `NeverBackwards`: on SQLite and DuckDB, calls that cross each other may finish
  in any order, and the last one wins. On PostgreSQL and MySQL the adapter's
  lock prevents it, but for the expansion of a node.
- `SpinnerEnds`: a query that waits for a connection of a session that is being
  replaced ends in a `CancelledError`; `except Exception` (`app.py:506`, "Clear
  the spinner so the table isn't stuck") does not see it, and the spinner stays.
- `SessionsAccounted`: `open_session` cleans up after an `Exception`
  (`session.py:152`), not after the cancellation of its worker; a worker
  cancelled in `_adopt` leaves the rest of the previous session open; and
  `on_unmount` (`app.py:160`) drops a session adopted while it closes another.
- `HistoryOwn`: a query that ends after a reconnect is recorded with the new
  session's label, in the new session's history (`app.py:685`).
- `GridHonest`: a query that fails in mid-stream leaves its rows with a summary
  that counts them like a full result (`app.py:492`, `results_table.py:123`).

### Bounds

- Pool: three requests and two permits, with or without a preloaded adapter.
  Three is the least number at which a request can wait for an adapter while
  another is lent and a third is being built or cleaned up; each has one
  connection task, one background half and may be cancelled at every
  suspension. One adapter's `close()` may fail (`Fragile`), and the pool's `close()`
  may be cancelled at each of its suspensions. The two runs that fail need only two requests and one permit.
  `MCSpec` names requests in the order of arrival, which loses no behaviour
  (they are otherwise alike) and, unlike a symmetry set, is sound for liveness.
- Bus: four events (`MaxEvents`), a subscription to everything with a channel
  of two and one to terminal events with a channel of one, so that both kinds
  of overflow occur, with and without something to evict, in channels that
  already exceeded their capacity. The handler of the second may swallow its
  cancellation (`Stubborn`), that of the first may not.
- Queries: two leases of a connection, since every hazard is between a lease
  and the next; a select of two batches, so that a run can be struck before,
  between and after them, or a `BEGIN`. A larger instance with results of none,
  one or two batches was checked once, with the same result. `Endless` marks
  fetches that end only when interrupted; it is empty where runs are to end. The
  run that ends in silence needs one query of two batches.
- History: two stores and three calls, a window of one row and a trim at every
  second insert over a file of two rows, so that trims of either store fall
  between the steps of overlapping calls, and one call more than a trim needs.
  The counter's threshold is 50 in the code, or 1 for windows up to 10.

- Server adapters: two leases, as for queries, of any of four kinds: a `BEGIN`, a
  call without rows, a select of one batch, and one that never ends by itself,
  as does the call. Each query is cancelled through `cancel()` once at most, the
  consumer's task at any suspension.
- Catalogs and cache: two objects, one change of the database, two readers, each
  making any one call, so that any two calls cross with the change at any point
  between; a third adds no pair. For DuckDB one object, two leases and one call,
  since the calls there meet queries. Objects, readers and the leases' readers
  are symmetric; the properties have no liveness. The four adapters are
  different initial states of one run.
- Session: two connects, so that one replaces the other or fails, two queries,
  three rows and a limit of none or two, so that the cap falls inside a batch,
  between two chunks of one, at its end and in a later batch, and may be set or
  lifted in mid-stream. A chunk is one row. A run with limits of none, one and two was
  checked once, with the same result. Symmetric in connects and in queries.

`CHECK_DEADLOCK FALSE` everywhere: when every task is done, the bus has
published all its events, every lease is over or every store is closed, the
system is at rest.

### Fairness

- Pool (`Fairness`): the event loop runs every task that can run; a factory
  and the `close()` of an adapter end (the driver succeeds or fails); a caller
  leaves its `async with` block. There is one condition per request,
  `Progress(r) \/ EndUse(r)`, since no other part of a request moves before its
  block is left. Nothing makes a task arrive, be cancelled, or `close()` be called,
  and nothing keeps `close()` from being cancelled.
- Bus: a drain task that can run does, and its handler returns or raises;
  `close()` goes on. `TerminalDelivered` and `TasksEnd` need no more: nobody has to
  publish, subscribe or unsubscribe, or to swallow a cancellation. A handler that never returns would stall its own
  subscription: the TUI's handlers return, a plugin's is assumed to.
- Queries: the connection's thread does its jobs, except an endless fetch; a
  consumer that has the run in hand iterates or closes it (the TUI and the CLI
  both do so in `finally`); a canceller that can go on does. Nothing makes
  anyone cancel, or a deadline pass, so `RunsEnd` does not lean on either.
- History: a connection's thread does its jobs.
- Server adapters: the server answers, except calls and selects that only an
  interruption ends; a consumer that has the run in hand goes on or closes it;
  `asyncio.wait_for` bounds the side connection to five seconds, so that it is
  opened or fails. Nobody has to cancel.
- `SchemaCache` and `Session` state safety only, without fairness: their
  liveness is that of the pool, the executor and the servers below them.

All of it is weak fairness: each of these steps stays enabled until taken, or
another step of the same task replaces it.


## 4. Proofs

Every invariant and every action property that a passing run checks, and each
refinement of an abstract specification, is a theorem: proved for every value of
the constants, under the assumptions that the modules name (`SizeAssumption`,
`MaxAssumption`, ...: finite sets of actors, natural bounds, distinct model
values). None is inductive alone. Each module of proofs names a strengthening,
shows that every action keeps it, and derives the properties.

For every set of requests and every pool size:

- `TypeCorrect`, `ExclusiveLeases`, `PermitsConserved`. The inductive invariant
  is `TypeOK /\ Phases /\ NotOut /\ LeaseExclusive /\ CancelledLate /\
  PermitsAccounted`. `Phases` ties the fields of a request together; without it
  a request might own both a permit and a background half that returns it.
  `NotOut` says that an adapter its request has not registered is nowhere
  else; without it `Register` could lend what is already lent.
  `CancelledLate` says that a cleanup is cancelled only once `close()` timed
  out; without it `CleanupCancelled` would break the sum of permits. Two lemmas,
  `LeaseStep` and `PermitStep`, say when the step of one request keeps leases
  exclusive and permits accounted for; there is one lemma per action, which
  shows that its update is such a step.
- `ConnectionsBounded`, `NothingOrphaned`, `PromiseHeld`. On top of that
  invariant, `ConnInv` says what a connection task has to do with its connection
  (`Made`: it is running only as long as its request, or that one's cleanup, waits
  for it, until `close()` gives up), that no connection task is left after
  `close()` began (`Shutting`), and where every open connection is (`Housed`:
  idle, lent or being registered). The bound then follows from the permits:
  whoever has a connection that is not idle owes a permit (`OnePermitEach`).
  `PromiseHeld` is the refinement of `PoolLease`. `NothingOrphaned` leaves out what a
  failed or cancelled `close()` abandons, and no more.

For every set of subscriptions, every capacity, zero included, every
classification of events and every number of them:

- `TypeCorrect`, `RoomAfterEviction`, `DeliveryKept`. The inductive invariant is
  `TypeOK /\ Sorted /\ ChannelBounded`. That a channel over its capacity holds
  terminal events only is what leaves room after an eviction; that it is sorted
  is what makes its head the event `EventDelivery` hands over. `DeliveryKept` is
  the refinement: every step is a step of `EventDelivery` or a stutter, with
  lemmas on what removing an element does to a sequence.
- `DropsAccounted`. What waits in a channel was offered and not taken (`Waiting`),
  so that each eviction adds exactly one event to those that are lost.
- `CloseIsQuiet`. A subscription is listed once (`Listed`), and the tasks at the
  places of the list that `close()` has passed are ended (`Walked`); it is here
  that the list must not shrink meanwhile.

For every number of runs on one SQLite connection and of batches:

- `TypeCorrect`, `PartialNeverSucceeds`, `ContractHeld`, by `Types /\ Serial /\
  CursorsHeld /\ Orders /\ Stages`. `Serial`: leases follow one another.
  `Orders`: of the jobs in the thread's queue at most one belongs to a run and is
  awaited, and it is the one which that run waits for. `CursorsHeld`: a cursor is
  registered only between `execute()` and `reset()`. `Stages` says for each
  suspension what the status, the events and the generator of a run are; it is
  what ties a status to the batches that were delivered when the generator ended.
  `ContractHeld` is the refinement of `QueryContract`, which maps the sequence of
  terminal events as a whole: no run publishes a second one.
- `TransactionsOwn`, `HandoverQuiet`, `InterruptsReachOwn`, by `JInv` besides. It is
  about what nobody awaits any more: `Standing` says that a cursor stays registered
  until its run unwinds, unless it was cancelled, and that only an aborted
  `execute()` leaves a transaction; `Laws` that a fetch nobody awaits comes before
  what its run awaits now and has a cursor that `reset()` will close, unless the
  query was cancelled or out of time, so that the queue's order cleans up
  before the next lease.

For every number of leases and of batches, on PostgreSQL and on MySQL:

- `TypeCorrect`, `KillsReachOwn`, `TransactionsOwn`, `HandoverQuiet`. The inductive
  invariant is stated of any pair of records and connection (`Good`), because most
  actions are proved in two steps through a state half-way. `Registered` says
  that what `execute()` registered is active only within its lease; without it a
  kill could be sent on account of a query that is over. `Commands` lists what may
  be at the server, and who waits for it, `reset()` included while it reads the
  rest of a cursor it closes; `Drains` that nobody else reads from the connection
  while `cancel()` drains a cursor; `Transactions` that one which
  outlives its lease has one of the excuses of `OwnTransaction`.

For every set of objects, queries and readers, every number of changes and of
batches, and each of the four adapters (the module extends `DuckDBAdapter` and
`Catalogs`):

- `TypeCorrect`, `RowsKept`, by `Types /\ Serial /\ NotDuck /\ JobsOK /\ QueriesOK`.
  `QueriesOK` says that a live query that was neither cancelled nor met by a
  reader owns the claim and the result set, and that nobody reads the catalog
  meanwhile; `JobsOK`, that only the last job of the connection is awaited, and by
  whom. An abandoned job can therefore not take rows from a query that follows.
- `AnswersExact`, by `EInv`: what a call under way was told of an object that has
  not changed since is what it would be told now, whether it asked for it
  alone or in bulk, and the objects have the shape of their adapter's catalog
  (`Shaped`). That what it is told is what the database says rests on
  `BulkAndSingleAgree`, below.
- `CacheKeepsUp`, by `NInv`: versions are given out in order and nobody holds one
  that is to come (`Versions`, `KnownPast`); a call that crossed no other is alone
  and is not behind the cache (`AloneOK`); and on PostgreSQL and MySQL one build at
  a time is under way, from its list to the storing of its result, and is ahead of
  the cache and of every expansion (`BuildsOK`).

For every database, every schema and every object of it:

- `BulkAndSingleAgree`, `FullIsLazyExpanded`. One lemma per adapter shows for
  every listed object that the bulk query has the same rows of it as the query
  for it alone; the queries differ in what they leave out, and the lemma is that
  the listing leaves out the same. From that the full snapshot is what the lazy
  one becomes when every node has been expanded.

For every set of connects and of queries, any number of rows and any limits:

- `TypeCorrect`, `SpinnerStops`, `SessionsClosed`, `HistoryKept`, `GridTruthful`.
  The inductive invariant is `TypeOK /\ GridOk /\ HistOk /\ SpinOk /\ ConnOk /\
  SessionsAccounted`. `GridOk` says that one query is active at a time, that the
  grid is its own while it streams, and what the counts of the grid have to do
  with the rows that came (`RowsOk`); without it a batch might be added to
  another query's rows. `LabelOk` ties a query's session to the current one or to
  the mark that it was replaced. `ConnOk` says how much of a session there is at
  each step of its worker; without it a failed connect might leave open what it
  had closed, and the application's end lose a session that is not the one it
  closes. Steps of a query leave the sessions alone (`IdleStep`, `StreamStep`);
  `OtherStep` says when a step of anything else leaves the queries alone.

For any stores and calls of `add()`, any window, any interval of trims and a file
of any length:

- `TypeCorrect`, `LogKept`. The inductive invariant is `StateOk /\ FileOk /\
  JobsOk /\ IdsOk /\ BegunOk`. `FileOk` says that what a transaction has not yet
  committed only appends to the committed table and takes the oldest rows from it
  (`Grown`), so that a commit, whoever makes it and however many calls it covers,
  is a step of `HistoryLog`. It rests on lemmas about the trim: at most one row has
  `MaxEntries` newer ones (`OneOldest`), so that what is left of a trim is the
  newest `MaxEntries`. `JobsOk` ties the jobs of a connection to the calls that
  await them. `IdsOk` says that the id of a call that may yet return is committed,
  or is in the transaction of the call's own store; without it an `add()` might
  return an id that a rollback took back and another call was given.
- `RetentionKept`. A trim leaves at most `MaxEntries` rows, because among more than
  that there is one with exactly `MaxEntries` newer ones (`OldestThere`). Between
  trims the window is kept by counting the rows of broken-off calls from the step
  that inserts them, not from the cancellation, whose insert may still be to come
  (`Rowed` in `Window`), and because a store that takes the lock begins with the
  table as it was committed (`Settled`).

Only model-checked: the liveness properties, since fairness and `ENABLED` are out
of the prover's reach (`AcquireEnds`, `CloseClosesAll`, `TerminalDelivered`,
`TasksEnd`, `RunsEnd`, `LockReleased`, `CancelStops`), and the runs that fail.
`DuckDBAdapter` has no theorems of its own: its steps are part of `SchemaCache`.


## 5. Not modelled, and why

- `preload()` on a pool already in use: `open_session` preloads before anyone
  else has the pool (`session.py:141`); it is the initial state.
- The adapters' `connect`, `close`, `ping` and `begin`: straight calls into the
  driver. `transaction()` is not called by the application or the command line.
  `execute()` finding its query cancelled cannot happen through the executor,
  since nobody has the handle before `run()` returns.
- A DuckDB database in a file: leases and introspection have connections of
  their own there, and share nothing.
- Query parameters: no caller passes any.
- The plugin loader, context and registry: planned below. That plugins hold the
  services of the current session is in `Session`.
- The command line: one query in one task, over what `QueryRun` and
  `ConnectionPool` model, and its formatting.
- Configuration and DSNs: pure functions without state, which unit tests reach;
  the DSN's are about characters.
- Filling a tree node at once from a full snapshot: the application populates
  the tree with lazy ones only.
- Wording, logging, layout, themes, key bindings, type-name tables and CSV.
- What asyncio, aiosqlite and sqlite3 do is modelled from how the code uses
  them and marked as external in `PROJECT.json`.


## 6. Plan

In the order in which they are to be written; the rows marked "done" are.

| Module | Of | Abstract specification, properties | Theorems |
|---|---|---|---|
| `ConnectionPool` (done) | pool | `PoolLease` | types, leases, permits, connections, refinement (done) |
| `EventBus` (done) | bus | `EventDelivery` | types, room, refinement, drops, quiet close (done) |
| `QueryRun` (done) | executor over SQLite | `QueryContract` | types, refinement, handover, transactions, interrupts (done) |
| `QueryHistory` (done) | history | `HistoryLog`, retention bound, the lock given back | types, refinement, retention (done) |
| `ServerCancel` (done) | PostgreSQL and MySQL adapters | a cancellation hits its own query, clean handover | who may be hit, handover, transactions (done) |
| `Catalogs`, `DuckDBAdapter`, `SchemaCache` (done) | catalog builders, DuckDB adapter, introspector and tree | bulk against single answers; exact answers, a cache that does not go back, complete rows | agreement, exactness, no way back, rows (done) |
| `Session` (done) | app, session, state, results grid | spinner, sessions, history, grid | all five invariants (done) |
| `Plugins` | loader, context, registry | what is registered is owned by a loaded plugin | ownership |

Runs: one more, of the plugins, with two plugins that are loaded, fail half-way
and are unloaded while the session is replaced; and one for each disagreement with
a comment, a docstring or a test that modelling brings to light.
