------------------------------ MODULE Session ------------------------------
(***************************************************************************)
(* registro_tui/app.py, session.py and widgets/results_table.py: workers   *)
(* that connect and replace the session, the one query that streams into   *)
(* the results grid, the keys that cancel it and set the row limit, and    *)
(* the end of the application.  They all are tasks of one event loop; a    *)
(* step here is what one of them does between two awaits.                  *)
(***************************************************************************)
EXTENDS Naturals, FiniteSets

CONSTANTS Conn,    \* the connects asked for, each with a DSN and so a session of its own
          Query,   \* the queries asked for
          Rows,    \* bound: how many rows a query has
          Limits,  \* bound: the row limits in use, 0 for none
          Nobody

ASSUME NobodyAssumption == Nobody \notin Conn \cup Query
ASSUME BoundsAssumption == Rows \in Nat /\ Limits \subseteq Nat /\ Limits # {}

VARIABLES
  app,   \* RegistroApp: _session, state, the plugins' services, _connect_lock, on_unmount
  sess,  \* per session: the resources it has, and those that are closed
  conn,  \* per connect: its worker
  run,   \* per query: its worker
  grid,  \* ResultsTable, its spinner, and _query_in_flight
  limit  \* cfg.ui.max_display_rows
vars == <<app, sess, conn, run, grid, limit>>

Resource == {"history", "pool", "adapter"}
AppState == [session : Conn \cup {Nobody}, state : Conn \cup {Nobody},
             services : Conn \cup {Nobody}, holder : Conn \cup {Nobody},
             exit : {"no", "cancelling", "closing", "done"}, closes : Conn \cup {Nobody}]
\* late: adopted when the application was ending.
ConnState == [pc : {"new", "waiting", "opening", "closing", "refreshing", "over"},
              closes : Conn \cup {Nobody}, cancelled : BOOLEAN, late : BOOLEAN]
\* sent: the rows that came.  replaced: that the session was, meanwhile.  label: of
\* which session _record_history writes; entry: of which it has written.
RunState == [pc : {"new", "queued", "acquiring", "executing", "pulling", "feeding", "closing",
                   "recording", "over"},
             pool : Conn \cup {Nobody}, sent : 0..Rows, cancel : BOOLEAN, replaced : BOOLEAN,
             how : {"none", "complete", "capped", "cancelled", "failed", "torn", "refused"},
             label : Conn \cup {Nobody}, entry : Conn \cup {Nobody}]
\* rows: _rows.  shown: _row_count.  mixed: rows of a query that is not this one.
GridState == [of : Query \cup {Nobody}, rows : 0..Rows, shown : 0..Rows, truncated : BOOLEAN,
              mixed : BOOLEAN, loading : BOOLEAN, inFlight : BOOLEAN,
              summary : [capped : BOOLEAN, cancelled : BOOLEAN]]

Connecting(k) == conn[k].pc \in {"opening", "closing", "refreshing"}

\* One connect at a time gets past the lock.
TypeOK ==
  /\ app \in AppState /\ limit \in Limits
  /\ sess \in [Conn -> [made : SUBSET Resource, closed : SUBSET Resource]]
  /\ conn \in [Conn -> ConnState] /\ run \in [Query -> RunState] /\ grid \in GridState
  /\ grid.shown <= grid.rows
  /\ \A k \in Conn : Connecting(k) <=> app.holder = k

Plain == [capped |-> FALSE, cancelled |-> FALSE]
Init ==
  /\ app = [session |-> Nobody, state |-> Nobody, services |-> Nobody, holder |-> Nobody,
            exit |-> "no", closes |-> Nobody]
  /\ sess = [k \in Conn |-> [made |-> {}, closed |-> {}]]
  /\ conn = [k \in Conn |-> [pc |-> "new", closes |-> Nobody, cancelled |-> FALSE, late |-> FALSE]]
  /\ run = [r \in Query |-> [pc |-> "new", pool |-> Nobody, sent |-> 0, cancel |-> FALSE,
              replaced |-> FALSE, how |-> "none", label |-> Nobody, entry |-> Nobody]]
  /\ grid = [of |-> Nobody, rows |-> 0, shown |-> 0, truncated |-> FALSE, mixed |-> FALSE,
             loading |-> FALSE, inFlight |-> FALSE, summary |-> Plain]
  /\ limit \in Limits

Exiting == app.exit # "no"
Active(r) == run[r].pc \notin {"new", "over"}

-----------------------------------------------------------------------------
(* Session.close: history, pool, adapter *)

NextToClose(k) ==
  IF "history" \notin sess[k].closed THEN "history"
  ELSE IF "pool" \notin sess[k].closed THEN "pool" ELSE "adapter"

\* Each closer goes through all three; what another one has closed it passes over.
Closes(k) == sess' = [sess EXCEPT ![k].closed = @ \cup {NextToClose(k)}]
AllClosed(k) == sess[k].closed = Resource
ClosersOf(k) == {j \in Conn : conn[j].pc = "closing" /\ conn[j].closes = k}
BeingClosed(k) == ClosersOf(k) # {} \/ (app.exit = "closing" /\ app.closes = k)

-----------------------------------------------------------------------------
(* _connect, open_session and _adopt *)

ConnectIs(k, pc) == conn' = [conn EXCEPT ![k].pc = pc]

Connect(k) ==
  /\ ~Exiting /\ conn[k].pc = "new" /\ ConnectIs(k, "waiting")
  /\ UNCHANGED <<app, sess, run, grid, limit>>

\* Mutant: no _connect_lock.
StartOpeningUnlocked(k) ==
  /\ conn[k].pc = "waiting"
  /\ app' = [app EXCEPT !.holder = k] /\ ConnectIs(k, "opening")
  /\ UNCHANGED <<sess, run, grid, limit>>

StartOpening(k) ==
  /\ conn[k].pc = "waiting" /\ app.holder = Nobody
  /\ app' = [app EXCEPT !.holder = k] /\ ConnectIs(k, "opening")
  /\ UNCHANGED <<sess, run, grid, limit>>

\* The pool is there at once, empty or with the only connection there can be.
AdapterConnected(k) ==
  /\ conn[k].pc = "opening" /\ sess[k].made = {}
  /\ sess' = [sess EXCEPT ![k].made = {"adapter", "pool"}]
  /\ UNCHANGED <<app, conn, run, grid, limit>>

\* Mutant: what was opened before the failure stays open.
OpenFailsHalfway(k) ==
  /\ conn[k].pc = "opening"
  /\ app' = [app EXCEPT !.holder = Nobody] /\ ConnectIs(k, "over")
  /\ UNCHANGED <<sess, run, grid, limit>>

OpenFails(k) ==
  /\ conn[k].pc = "opening"
  /\ sess' = [sess EXCEPT ![k].closed = sess[k].made]
  /\ app' = [app EXCEPT !.holder = Nobody] /\ ConnectIs(k, "over")
  /\ UNCHANGED <<run, grid, limit>>

\* history.open() returns, and without another await the session is adopted.
Adopt(k) ==
  /\ conn[k].pc = "opening" /\ sess[k].made = {"adapter", "pool"}
  /\ sess' = [sess EXCEPT ![k].made = Resource]
  /\ app' = [app EXCEPT !.session = k, !.state = k,
               !.services = IF app.session = Nobody THEN k ELSE @]
  /\ conn' = [conn EXCEPT ![k].pc = IF app.session = Nobody THEN "refreshing" ELSE "closing",
                          ![k].closes = app.session, ![k].late = Exiting]
  /\ run' = [r \in Query |-> IF Active(r) THEN [run[r] EXCEPT !.replaced = TRUE] ELSE run[r]]
  /\ UNCHANGED <<grid, limit>>

ClosePrevious(k) ==
  /\ conn[k].pc = "closing" /\ ~AllClosed(conn[k].closes) /\ Closes(conn[k].closes)
  /\ UNCHANGED <<app, conn, run, grid, limit>>
Publish(k) ==
  /\ conn[k].pc = "closing" /\ AllClosed(conn[k].closes)
  /\ app' = [app EXCEPT !.services = app.state] /\ ConnectIs(k, "refreshing")
  /\ UNCHANGED <<sess, run, grid, limit>>

Refreshed(k) ==
  /\ conn[k].pc = "refreshing" /\ ConnectIs(k, "over")
  /\ app' = [app EXCEPT !.holder = Nobody]
  /\ UNCHANGED <<sess, run, grid, limit>>

\* Workers are cancelled when the application ends.  open_session() cleans up after
\* an Exception, which a CancelledError is not.
ConnectCancelled(k) ==
  /\ Exiting /\ conn[k].pc \notin {"new", "over"}
  /\ conn' = [conn EXCEPT ![k].pc = "over", ![k].cancelled = TRUE]
  /\ app' = [app EXCEPT !.holder = IF @ = k THEN Nobody ELSE @]
  /\ UNCHANGED <<sess, run, grid, limit>>

-----------------------------------------------------------------------------
(* action_run_query and _stream_query *)

RunIs(r, pc) == run' = [run EXCEPT ![r].pc = pc]
Idle == UNCHANGED <<app, sess, conn, limit>>

\* Mutant: _query_in_flight is set by the worker.
RunQueryLater(r) ==
  /\ ~Exiting /\ run[r].pc = "new" /\ ~grid.inFlight /\ app.state # Nobody
  /\ run' = [run EXCEPT ![r].pc = "queued", ![r].pool = app.state]
  /\ UNCHANGED grid /\ Idle

\* The guard and the flag are one step; the pool is that of this moment.
RunQuery(r) ==
  /\ ~Exiting /\ run[r].pc = "new" /\ ~grid.inFlight /\ app.state # Nobody
  /\ run' = [run EXCEPT ![r].pc = "queued", ![r].pool = app.state]
  /\ grid' = [grid EXCEPT !.inFlight = TRUE] /\ Idle

\* results.reset(), and the spinner.
Begin(r) ==
  /\ run[r].pc = "queued" /\ RunIs(r, "acquiring") /\ Idle
  /\ grid' = [of |-> r, rows |-> 0, shown |-> 0, truncated |-> FALSE, mixed |-> FALSE,
              loading |-> TRUE, inFlight |-> TRUE, summary |-> Plain]

\* The worker's last finally.
Over(r, how, g) ==
  /\ run' = [run EXCEPT ![r].pc = "over", ![r].how = how]
  /\ grid' = [g EXCEPT !.inFlight = FALSE] /\ Idle
Quiet(g) == [g EXCEPT !.loading = FALSE]

Acquired(r) == run[r].pc = "acquiring" /\ RunIs(r, "executing") /\ UNCHANGED grid /\ Idle
Executed(r) == run[r].pc = "executing" /\ RunIs(r, "pulling") /\ UNCHANGED grid /\ Idle

\* Mutant: "except Exception" leaves the spinner.
FailsBeforeSpinning(r) == run[r].pc \in {"acquiring", "executing"} /\ Over(r, "refused", grid)

\* The pool or the adapter raises: "except Exception" around it all.  Nothing is
\* recorded.
FailsBefore(r) == run[r].pc \in {"acquiring", "executing"} /\ Over(r, "refused", Quiet(grid))

\* A CancelledError: close() of the pool cancels the connection this query waits for,
\* or the worker is cancelled.
PoolClosing(k) == BeingClosed(k) \/ "pool" \in sess[k].closed
TornBefore(r) ==
  /\ \/ run[r].pc = "acquiring" /\ PoolClosing(run[r].pool)
     \/ run[r].pc \in {"queued", "acquiring", "executing"} /\ Exiting
  /\ Over(r, "torn", grid)

\* _record_history writes to the session there is by now.
Record(r, how) ==
  run' = [run EXCEPT ![r].pc = "recording", ![r].how = how, ![r].label = app.state]

\* Mutant: a query that cannot be executed is not recorded.
ExecuteFailsSilently(r) == run[r].pc = "executing" /\ Over(r, "failed", Quiet(grid))

ExecuteFails(r) ==
  /\ run[r].pc = "executing" /\ Record(r, "failed") /\ grid' = Quiet(grid) /\ Idle

\* feed() cuts a batch to what the limit leaves room for, and goes on with it row by
\* row.  (There, chunk by chunk: _CHUNK_ROWS is one row here.)
Room == IF limit = 0 THEN Rows ELSE IF grid.shown < limit THEN limit - grid.shown ELSE 0
Fed(r, n) ==
  LET kept == IF n <= Room THEN n ELSE Room IN
  [Quiet(grid) EXCEPT !.rows = @ + kept, !.shown = @ + (IF kept = 0 THEN 0 ELSE 1),
                      !.truncated = @ \/ kept < n, !.mixed = @ \/ grid.of # r]
AfterFeed(r, g) ==
  IF g.shown < g.rows THEN "feeding" ELSE IF g.truncated THEN "closing" ELSE "pulling"
How(r, g) == IF g.shown = g.rows /\ g.truncated THEN "capped" ELSE "none"

Batch(r) ==
  /\ run[r].pc = "pulling" /\ ~run[r].cancel /\ Idle
  /\ \E n \in 1..(Rows - run[r].sent) :
       /\ grid' = Fed(r, n)
       /\ run' = [run EXCEPT ![r].pc = AfterFeed(r, grid'), ![r].how = How(r, grid'),
                             ![r].sent = @ + n]
FeedMore(r) ==
  /\ run[r].pc = "feeding" /\ Idle
  /\ grid' = [grid EXCEPT !.shown = @ + 1]
  /\ run' = [run EXCEPT ![r].pc = AfterFeed(r, grid'), ![r].how = How(r, grid')]

Ends(r, how) ==
  run' = [run EXCEPT ![r].pc = "closing", ![r].how = how] /\ UNCHANGED grid /\ Idle
EndOfRows(r) == run[r].pc = "pulling" /\ run[r].sent = Rows /\ Ends(r, "complete")
PullFails(r) == run[r].pc = "pulling" /\ Ends(r, "failed")
PullCancelled(r) == run[r].pc = "pulling" /\ run[r].cancel /\ Ends(r, "cancelled")
TornStreaming(r) == run[r].pc \in {"pulling", "feeding"} /\ Exiting /\ Ends(r, "torn")

\* aclose() is done: mark_done(), and _record_history begins.
CloseRun(r) ==
  /\ run[r].pc = "closing" /\ Record(r, run[r].how) /\ Idle
  /\ grid' = [Quiet(grid) EXCEPT !.summary = [capped |-> grid.truncated /\ grid.shown > 0,
                                              cancelled |-> run[r].how = "cancelled"]]

HistoryOpen(k) == "history" \in sess[k].made \ sess[k].closed
Recorded(r) ==
  /\ run[r].pc = "recording" /\ HistoryOpen(run[r].label) /\ Idle
  /\ run' = [run EXCEPT ![r].pc = "over", ![r].entry = run[r].label]
  /\ grid' = [grid EXCEPT !.inFlight = FALSE]
\* A history that is closed raises.
RecordFails(r) ==
  /\ run[r].pc = "recording" /\ ~HistoryOpen(run[r].label) /\ Over(r, run[r].how, Quiet(grid))
TornLate(r) ==
  /\ run[r].pc \in {"closing", "recording"} /\ Exiting /\ Over(r, "torn", grid)

-----------------------------------------------------------------------------
(* Keys, and on_unmount *)

\* _current_run is there from execute() to the end of the worker.
HasRun(r) == run[r].pc \in {"pulling", "feeding", "closing", "recording"}
Cancelled == [r \in Query |-> IF HasRun(r) THEN [run[r] EXCEPT !.cancel = TRUE] ELSE run[r]]

CancelQuery == ~Exiting /\ run' = Cancelled /\ UNCHANGED <<app, sess, conn, grid, limit>>
SetRowLimit == ~Exiting /\ limit' \in Limits /\ UNCHANGED <<app, sess, conn, run, grid>>

Quit ==
  /\ ~Exiting /\ run' = Cancelled /\ app' = [app EXCEPT !.exit = "cancelling"]
  /\ UNCHANGED <<sess, conn, grid, limit>>
StartClosing ==
  /\ app.exit = "cancelling"
  /\ app' = [app EXCEPT !.exit = IF app.session = Nobody THEN "done" ELSE "closing",
                        !.closes = app.session]
  /\ UNCHANGED <<sess, conn, run, grid, limit>>
CloseForExit ==
  /\ app.exit = "closing" /\ ~AllClosed(app.closes) /\ Closes(app.closes)
  /\ UNCHANGED <<app, conn, run, grid, limit>>
\* Whatever session there is by then.
Exit ==
  /\ app.exit = "closing" /\ AllClosed(app.closes)
  /\ app' = [app EXCEPT !.exit = "done", !.session = Nobody]
  /\ UNCHANGED <<sess, conn, run, grid, limit>>

-----------------------------------------------------------------------------
ConnectWorker(k) ==
  \/ Connect(k) \/ StartOpening(k) \/ AdapterConnected(k) \/ OpenFails(k) \/ Adopt(k)
  \/ ClosePrevious(k) \/ Publish(k) \/ Refreshed(k) \/ ConnectCancelled(k)
QueryWorker(r) ==
  \/ RunQuery(r) \/ Begin(r) \/ Acquired(r) \/ FailsBefore(r) \/ TornBefore(r) \/ Executed(r)
  \/ ExecuteFails(r) \/ Batch(r) \/ FeedMore(r) \/ EndOfRows(r) \/ PullFails(r)
  \/ PullCancelled(r) \/ TornStreaming(r) \/ CloseRun(r) \/ Recorded(r) \/ RecordFails(r)
  \/ TornLate(r)

Next ==
  \/ \E k \in Conn : ConnectWorker(k)
  \/ \E r \in Query : QueryWorker(r)
  \/ CancelQuery \/ SetRowLimit \/ Quit \/ StartClosing \/ CloseForExit \/ Exit

Spec == Init /\ [][Next]_vars
-----------------------------------------------------------------------------
(* Properties *)

\* The spinner is there only while a query is in flight (app.py:506-508: "Clear the
\* spinner so the table isn't stuck").  The exception is a CancelledError, which
\* "except Exception" does not see: of a worker when the application ends, and of a
\* query whose session was replaced while it waited for a connection.
SpinnerEnds ==
  grid.loading /\ ~grid.inFlight =>
    run[grid.of].how = "torn" /\ (Exiting \/ PoolClosing(run[grid.of].pool))

\* While the application runs, a session that is open is the current one or is being
\* closed by its successor's worker, a connect that failed leaves nothing open
\* (session.py:102-104), and the plugins have the current session's services unless
\* its worker is still at that.  When it has ended, nothing is open but what a worker
\* that was cancelled held, opened or was closing, and a session adopted meanwhile.
SessionsAccounted ==
  /\ \A k \in Conn : sess[k].made # sess[k].closed =>
       \/ conn[k].pc = "opening" \/ k = app.session \/ BeingClosed(k)
       \/ conn[k].cancelled \/ conn[k].late
       \/ \E j \in Conn : conn[j].cancelled /\ conn[j].closes = k
  /\ ~Exiting => app.services = app.state \/ \E k \in Conn : conn[k].pc = "closing"

\* Each query that was executed is recorded once it is over, under the connection it
\* ran on; under another one only if the session was replaced meanwhile.  Not recorded
\* is what never got as far, what was torn, and what found the history closed.
HistoryOwn ==
  \A r \in Query : run[r].pc = "over" =>
    IF run[r].entry = Nobody
    THEN \/ run[r].how \in {"torn", "refused"}
         \/ (run[r].label # Nobody /\ ~HistoryOpen(run[r].label))
    ELSE run[r].entry = run[r].pool \/ run[r].replaced

\* The grid never mixes two queries, and a result of which it has not every row says
\* so (results_table.py:3-5: "a truncated view is never mistaken for the full result
\* set"), unless the query failed or was torn; nor does a full one say it is cut.
GridHonest ==
  /\ ~grid.mixed
  /\ \A r \in Query : grid.of = r /\ run[r].pc \in {"recording", "over"} =>
       /\ grid.rows < Rows =>
            \/ grid.summary.capped \/ grid.summary.cancelled
            \/ run[r].how \in {"failed", "refused", "torn"}
       /\ grid.truncated => grid.rows < run[r].sent
       /\ run[r].how # "torn" => grid.shown = grid.rows
=============================================================================
