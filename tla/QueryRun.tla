------------------------------ MODULE QueryRun ------------------------------
(***************************************************************************)
(* registro_engine/executor.py over registro_adapters/sqlite_adapter.py:   *)
(* queries run one after the other on one pooled connection, each by a     *)
(* consumer that iterates run.rows and closes the run, until its lease     *)
(* ends and the pool resets the adapter.  Another task may call cancel().  *)
(*                                                                         *)
(* The connection's thread (aiosqlite) works off a queue of jobs; a job    *)
(* whose awaiting task was cancelled is done all the same.  The end of a   *)
(* job and the resumption of the task that awaits it are one step: what    *)
(* may happen in between commutes with them, except for a canceller, whose *)
(* interrupt() acts on the job that follows.  stream() never finds its     *)
(* query cancelled here: nobody has the handle before run() returns.       *)
(***************************************************************************)
EXTENDS Naturals, Sequences, SequencesExt, FiniteSets

CONSTANTS Run,         \* the runs, numbers in the order of their leases
          Batches,     \* bound: how many batches of rows a result may have
          Endless,     \* runs whose fetches end only when interrupted
          NoRun

ASSUME RunAssumption == Run \subseteq Nat /\ IsFiniteSet(Run)
ASSUME BatchesAssumption == Batches \subseteq Nat
ASSUME EndlessAssumption == Endless \subseteq Run /\ NoRun \notin Run

\* A BEGIN, which has no result columns, or a select with so many batches of rows.
Statement == [begins : {FALSE}, batches : Batches] \cup [begins : {TRUE}, batches : {0}]

VARIABLES
  stmt,  \* per run: its statement
  run,   \* per run: its consumer, its QueryHandle and QueryRun, what it published
  conn   \* the adapter: _cursors, _cancel_flags, whose transaction is open, and
         \* the queue of its connection's thread
vars == <<stmt, run, conn>>

\* why: what the generator unwinds for.  source: the generator of stream():
\* none, fresh (not iterated), suspended at a yield, last (its last one), over.
RunState ==
  [pc : {"new", "executing", "returned", "fetching", "holding", "unwinding", "cancelling",
         "closing", "ended", "resetting", "rollback", "released"},
   why : {"none", "aborted", "done", "cancelled", "error", "timeout", "task"},
   source : {"none", "fresh", "suspended", "last", "over"},
   got : Nat, expired : BOOLEAN, cancel : BOOLEAN,
   status : {"pending", "running", "streaming", "succeeded", "failed", "cancelled"},
   events : Seq({"completed", "failed", "cancelled"}),
   canceller : {"idle", "closing", "closed"}]
Job == [of : Run, kind : {"execute", "fetch", "close", "rollback"},
        by : {"consumer", "canceller", "reset", "nobody"}, hit : BOOLEAN]

\* An adapter serves one query at a time: one cursor at most is registered.
TypeOK ==
  /\ stmt \in [Run -> Statement] /\ run \in [Run -> RunState]
  /\ conn.cursors \subseteq Run /\ Cardinality(conn.cursors) <= 1
  /\ conn.flags \in [Run -> {"none", "clear", "set"}]
  /\ conn.txn \in Run \cup {NoRun} /\ conn.queue \in Seq(Job)

Init ==
  /\ stmt \in [Run -> Statement]
  /\ run = [r \in Run |->
       [pc |-> "new", why |-> "none", source |-> "none", got |-> 0, expired |-> FALSE,
        cancel |-> FALSE, status |-> "pending", events |-> <<>>, canceller |-> "idle"]]
  /\ conn = [cursors |-> {}, flags |-> [r \in Run |-> "none"], txn |-> NoRun, queue |-> <<>>]

-----------------------------------------------------------------------------
(* The connection's thread *)

NewJob(r, kind, by) == [of |-> r, kind |-> kind, by |-> by, hit |-> FALSE]
Queue(adapter, r, kind, by) == [adapter EXCEPT !.queue = Append(@, NewJob(r, kind, by))]
Popped == [conn EXCEPT !.queue = Tail(@)]

\* The task that awaits a job of r is cancelled: nobody will see it done.
Deserted(r) == [conn EXCEPT !.queue = [i \in 1..Len(@) |->
  IF @[i].of = r /\ @[i].by = "consumer" THEN [@[i] EXCEPT !.by = "nobody"] ELSE @[i]]]

\* sqlite3's interrupt() reaches the statement that is running, if one is.
Interrupted(queue) ==
  IF queue # <<>> /\ queue[1].kind \in {"execute", "fetch"}
  THEN [queue EXCEPT ![1].hit = TRUE] ELSE queue

\* The thread does its next job, this one.
Does(r, kind, by) ==
  /\ conn.queue # <<>>
  /\ conn.queue[1].of = r /\ conn.queue[1].kind = kind /\ conn.queue[1].by = by

-----------------------------------------------------------------------------
(* QueryExecutor.run, SQLiteAdapter.execute and stream *)

Finished(status) == status \in {"succeeded", "failed", "cancelled"}

Becomes(r, query, adapter) ==
  run' = [run EXCEPT ![r] = query] /\ conn' = adapter /\ UNCHANGED stmt

\* The lease before this one is over.
Start(r) ==
  /\ run[r].pc = "new" /\ \A s \in Run : s < r => run[s].pc = "released"
  /\ Becomes(r, [run[r] EXCEPT !.pc = "executing", !.status = "running"],
                Queue(conn, r, "execute", "consumer"))

\* BEGIN inside a transaction is an error.
MayExecute(r) == stmt[r].begins => conn.txn = NoRun
NextTxn(r) == IF stmt[r].begins THEN r ELSE conn.txn

Executed(r) ==
  /\ Does(r, "execute", "consumer") /\ MayExecute(r)
  /\ Becomes(r, [run[r] EXCEPT !.pc = "returned", !.status = "streaming", !.source = "fresh"],
                [Popped EXCEPT !.cursors = @ \cup {r}, !.flags[r] = "clear", !.txn = NextTxn(r)])

\* _wrap_driver_error looks at the cancel flag, and so creates it.
ExecuteFails(r) ==
  /\ Does(r, "execute", "consumer")
  /\ Becomes(r, [run[r] EXCEPT !.pc = "ended", !.status = "failed", !.events = Append(@, "failed")],
                [Popped EXCEPT !.flags[r] = "clear"])

\* Its consumer was cancelled meanwhile.
ExecutedForNobody(r) ==
  /\ Does(r, "execute", "nobody")
  /\ \/ MayExecute(r) /\ Becomes(r, run[r], [Popped EXCEPT !.txn = NextTxn(r)])
     \/ Becomes(r, run[r], Popped)

-----------------------------------------------------------------------------
(* _wrap and the source it iterates *)

\* The source's finally, for this reason: "await cur.close()".
Unwind(r, why, query, adapter) ==
  Becomes(r, [query EXCEPT !.pc = "unwinding", !.why = why, !.source = "over"],
             Queue(adapter, r, "close", "consumer"))

\* _wrap's except and finally: publish the event and close a source that is
\* suspended at a yield; one that is over, or was never iterated, just goes.
EndWith(r, event, query, adapter) ==
  LET told == [query EXCEPT !.events = Append(@, event)] IN
  \/ /\ query.source \in {"suspended", "last"}
     /\ Becomes(r, [told EXCEPT !.pc = "closing", !.source = "over"],
                   Queue(adapter, r, "close", "consumer"))
  \/ /\ query.source \in {"fresh", "over"}
     /\ Becomes(r, [told EXCEPT !.pc = "ended"], adapter)

\* "except TimeoutError": adapter.cancel, which may have to await cur.close().
TimedOut(r, query, adapter) ==
  LET asked == [adapter EXCEPT !.flags[r] = "set"] IN
  \/ /\ r \in adapter.cursors
     /\ Becomes(r, [query EXCEPT !.pc = "cancelling", !.status = "cancelled"],
                   Queue([asked EXCEPT !.cursors = @ \ {r}], r, "close", "consumer"))
  \/ /\ r \notin adapter.cursors
     /\ EndWith(r, "failed", [query EXCEPT !.status = "failed"],
                             [asked EXCEPT !.queue = Interrupted(@)])

\* Mutant: cancel_event is not looked at.
DeliverAnyway(r, rows, query, adapter) ==
  Becomes(r, [query EXCEPT !.pc = "holding", !.got = @ + rows], adapter)

\* A batch, of rows or the empty last one, reached _wrap: it is given to the
\* consumer, unless cancel_event is set.
Deliver(r, rows, query, adapter) ==
  \/ ~query.cancel /\ Becomes(r, [query EXCEPT !.pc = "holding", !.got = @ + rows], adapter)
  \/ query.cancel /\ EndWith(r, "cancelled", query, adapter)

\* The consumer asks for a batch; is there time left to wait for one?
Asks(r) == run[r].pc \in {"returned", "holding"}

PullTooLate(r) == Asks(r) /\ run[r].expired /\ TimedOut(r, run[r], conn)

Pull(r) ==
  /\ Asks(r) /\ ~run[r].expired
  /\ \/ run[r].source = "last" /\ Unwind(r, "done", run[r], conn)
     \/ /\ run[r].source = "fresh" /\ stmt[r].begins
        /\ Deliver(r, 0, [run[r] EXCEPT !.status = "succeeded", !.source = "last"], conn)
     \/ /\ run[r].source \in {"fresh", "suspended"} /\ ~stmt[r].begins
        /\ \/ /\ conn.flags[r] = "set"
              /\ Unwind(r, "cancelled", [run[r] EXCEPT !.status = "cancelled"], conn)
           \/ /\ conn.flags[r] # "set"
              /\ Becomes(r, [run[r] EXCEPT !.pc = "fetching", !.source = "suspended"],
                            Queue(conn, r, "fetch", "consumer"))

\* Mutant: GeneratorExit is taken for the end of the rows.
AbandonCompletes(r) ==
  \/ /\ run[r].pc = "holding"
     /\ EndWith(r, "completed", [run[r] EXCEPT !.status = "succeeded"], conn)
  \/ run[r].pc = "returned" /\ Becomes(r, [run[r] EXCEPT !.pc = "ended"], conn)

\* "except GeneratorExit": the consumer breaks off, fails or is cancelled while
\* it has the run in hand, and calls aclose().  An iterator that was never
\* started has nothing to unwind: it just goes.
Abandon(r) ==
  \/ /\ run[r].pc = "holding"
     /\ EndWith(r, "cancelled",
                [run[r] EXCEPT !.status = IF Finished(@) THEN @ ELSE "cancelled"], conn)
  \/ run[r].pc = "returned" /\ Becomes(r, [run[r] EXCEPT !.pc = "ended"], conn)

\* The thread has fetched.
Fetched(r) == Does(r, "fetch", "consumer")

FetchRows(r) ==
  /\ Fetched(r) /\ r \notin Endless /\ run[r].got < stmt[r].batches
  /\ Deliver(r, 1, run[r], Popped)

\* Mutant: without its "return" the source goes on after the last batch.
FetchEmptyGoesOn(r) ==
  /\ Fetched(r) /\ r \notin Endless /\ run[r].got = stmt[r].batches
  /\ Deliver(r, 0, [run[r] EXCEPT !.status = "succeeded"], Popped)

FetchEmpty(r) ==
  /\ Fetched(r) /\ r \notin Endless /\ run[r].got = stmt[r].batches
  /\ Deliver(r, 0, [run[r] EXCEPT !.status = "succeeded", !.source = "last"], Popped)

\* _wrap_driver_error: a cancelled query fails as cancelled, whatever the error.
FetchFails(r) ==
  /\ Fetched(r) /\ (r \in Endless => conn.queue[1].hit)
  /\ \/ /\ conn.flags[r] = "set"
        /\ Unwind(r, "cancelled", [run[r] EXCEPT !.status = "cancelled"], Popped)
     \/ conn.flags[r] # "set" /\ Unwind(r, "error", run[r], Popped)

FetchedForNobody(r) ==
  /\ Does(r, "fetch", "nobody") /\ (r \in Endless => conn.queue[1].hit)
  /\ Becomes(r, run[r], Popped)

\* What _wrap makes of the reason the source ended for.
EventOf(why) ==
  CASE why = "done" -> "completed" [] why = "error" -> "failed" [] OTHER -> "cancelled"

\* The source's cursor is closed: it forgets its query and ends.
Forgotten(adapter, r) == [adapter EXCEPT !.cursors = @ \ {r}, !.flags[r] = "none"]

Unwound(r) ==
  /\ Does(r, "close", "consumer") /\ run[r].pc = "unwinding"
  /\ \/ run[r].why = "timeout" /\ TimedOut(r, run[r], Forgotten(Popped, r))
     \/ /\ run[r].why # "timeout"
        /\ EndWith(r, EventOf(run[r].why), run[r], Forgotten(Popped, r))

\* adapter.cancel() has closed the cursor: it interrupts the connection.
TimeoutReported(r) ==
  /\ Does(r, "close", "consumer") /\ run[r].pc = "cancelling"
  /\ EndWith(r, "failed", [run[r] EXCEPT !.status = "failed"],
             [Popped EXCEPT !.queue = Interrupted(@)])

Closed(r) ==
  /\ Does(r, "close", "consumer") /\ run[r].pc = "closing"
  /\ Becomes(r, [run[r] EXCEPT !.pc = "ended"], Forgotten(Popped, r))

\* Closing a cursor for somebody who was cancelled meanwhile.
ClosedForNobody(r) == Does(r, "close", "nobody") /\ Becomes(r, run[r], Popped)

-----------------------------------------------------------------------------
(* Deadline, and cancellation of the consumer's task, at its suspensions *)

\* asyncio.timeout() covers the source's fetch and its finally, once.  When the
\* task had been cancelled already the CancelledError stays one.
Expire(r) ==
  /\ run[r].pc \in {"executing", "returned", "fetching", "holding", "unwinding"}
  /\ ~run[r].expired
  /\ LET late == [run[r] EXCEPT !.expired = TRUE] IN
     \/ run[r].pc \in {"executing", "returned", "holding"} /\ Becomes(r, late, conn)
     \/ run[r].pc = "fetching" /\ Unwind(r, "timeout", late, Deserted(r))
     \/ run[r].pc = "unwinding" /\ run[r].why # "task" /\ TimedOut(r, late, Deserted(r))
     \/ /\ run[r].pc = "unwinding" /\ run[r].why = "task"
        /\ EndWith(r, "cancelled", late, Deserted(r))

CancelExecuting(r) ==
  /\ run[r].pc = "executing"
  /\ Becomes(r, [run[r] EXCEPT !.pc = "ended", !.why = "aborted"], Deserted(r))

\* Mutant: the source's finally does not await cur.close().
CancelFetchingAtOnce(r) ==
  /\ run[r].pc = "fetching"
  /\ EndWith(r, "cancelled", [run[r] EXCEPT !.source = "over"], Forgotten(Deserted(r), r))

CancelFetching(r) ==
  run[r].pc = "fetching" /\ Unwind(r, "task", run[r], Deserted(r))

\* The rest of the source's finally is skipped.
CancelUnwinding(r) ==
  run[r].pc = "unwinding" /\ EndWith(r, "cancelled", run[r], Deserted(r))

\* So is the rest of "except TimeoutError".
CancelCancelling(r) ==
  run[r].pc = "cancelling" /\ EndWith(r, "cancelled", run[r], Deserted(r))

CancelClosing(r) ==
  run[r].pc = "closing" /\ Becomes(r, [run[r] EXCEPT !.pc = "ended"], Deserted(r))

-----------------------------------------------------------------------------
(* QueryExecutor.cancel, by another task *)

\* Mutant: the caller keeps its reference to the run.
CancellableStill(r) == run[r].source # "none"

\* The caller drops its reference to the run when its lease is over.
Cancellable(r) == run[r].source # "none" /\ run[r].pc # "released"

Cancel(r) ==
  /\ Cancellable(r) /\ run[r].canceller = "idle"
  /\ LET asked == [run[r] EXCEPT !.cancel = TRUE, !.status = "cancelled"]
         told == [conn EXCEPT !.flags[r] = "set"]
     IN \/ /\ r \in conn.cursors
           /\ Becomes(r, [asked EXCEPT !.canceller = "closing"],
                         Queue([told EXCEPT !.cursors = @ \ {r}], r, "close", "canceller"))
        \/ /\ r \notin conn.cursors
           /\ Becomes(r, asked, [told EXCEPT !.queue = Interrupted(@)])

CursorClosed(r) ==
  /\ Does(r, "close", "canceller")
  /\ Becomes(r, [run[r] EXCEPT !.canceller = "closed"], Popped)

Interrupt(r) ==
  /\ run[r].canceller = "closed"
  /\ Becomes(r, [run[r] EXCEPT !.canceller = "idle"], [conn EXCEPT !.queue = Interrupted(@)])

-----------------------------------------------------------------------------
(* SQLiteAdapter.reset, when the pool takes the connection back *)

\* Mutant: only AbstractAdapter's part of reset().
NeverRollBack(r, adapter) == Becomes(r, [run[r] EXCEPT !.pc = "released"], adapter)

RollBackOrRelease(r, adapter) ==
  \/ adapter.txn = NoRun /\ Becomes(r, [run[r] EXCEPT !.pc = "released"], adapter)
  \/ /\ adapter.txn # NoRun
     /\ Becomes(r, [run[r] EXCEPT !.pc = "rollback"],
                   Queue(adapter, r, "rollback", "reset"))

Reset(r) ==
  /\ run[r].pc = "ended"
  /\ LET cleared == [conn EXCEPT !.flags = [s \in Run |-> "none"]] IN
     \/ conn.cursors = {} /\ RollBackOrRelease(r, cleared)
     \/ /\ conn.cursors # {}
        /\ Becomes(r, [run[r] EXCEPT !.pc = "resetting"], Queue(cleared, r, "close", "reset"))

\* Mutant: _cursors is not cleared.
CursorsResetKeeps(r) == Does(r, "close", "reset") /\ RollBackOrRelease(r, Popped)

CursorsReset(r) ==
  Does(r, "close", "reset") /\ RollBackOrRelease(r, [Popped EXCEPT !.cursors = {}])

RolledBack(r) ==
  /\ Does(r, "rollback", "reset")
  /\ Becomes(r, [run[r] EXCEPT !.pc = "released"], [Popped EXCEPT !.txn = NoRun])

-----------------------------------------------------------------------------

Worker(r) ==
  \/ Executed(r) \/ ExecuteFails(r) \/ ExecutedForNobody(r)
  \/ FetchRows(r) \/ FetchEmpty(r) \/ FetchFails(r) \/ FetchedForNobody(r)
  \/ Unwound(r) \/ TimeoutReported(r) \/ Closed(r) \/ ClosedForNobody(r)
  \/ CursorClosed(r) \/ CursorsReset(r) \/ RolledBack(r)

Consumer(r) == Pull(r) \/ PullTooLate(r) \/ Abandon(r) \/ Reset(r)

CancelTask(r) ==
  \/ CancelExecuting(r) \/ CancelFetching(r) \/ CancelUnwinding(r)
  \/ CancelCancelling(r) \/ CancelClosing(r)

Next ==
  \E r \in Run :
    \/ Start(r) \/ Worker(r) \/ Consumer(r) \/ Interrupt(r)
    \/ Cancel(r) \/ CancelTask(r) \/ Expire(r)

(***************************************************************************)
(* Fairness: the connection's thread does its jobs, except a fetch that is *)
(* Endless, a consumer iterates or closes the run it has, a canceller that *)
(* can go on goes on.  Nothing makes anybody cancel or a deadline pass.    *)
(***************************************************************************)
Fairness ==
  /\ WF_vars(\E r \in Run : Worker(r))
  /\ \A r \in Run : WF_vars(Consumer(r)) /\ WF_vars(Interrupt(r))

Spec == Init /\ [][Next]_vars
FairSpec == Spec /\ Fairness

-----------------------------------------------------------------------------
(* Properties *)

Over(r) == run[r].pc \in {"ended", "resetting", "rollback", "released"}

\* What the events and the iterator of a run promise, wherever its deadline, a
\* cancellation from outside or of its own task strikes: exactly one terminal event
\* for an iterated run and at most one for any other (ClosingTells says why not
\* one), no batch once cancel() was called, and "completed" only when all were
\* delivered.
Contract == INSTANCE QueryContract
  WITH batches <- [r \in Run |-> stmt[r].batches],
       given <- [r \in Run |-> run[r].got],
       stopped <- {r \in Run : run[r].cancel},
       told <- [r \in Run |-> run[r].events],
       phase <- [r \in Run |->
         IF run[r].events # <<>> \/ Over(r) THEN "over"
         ELSE IF run[r].source \in {"none", "fresh"} THEN "new" ELSE "open"]
KeepsContract == Contract!Spec

\* "Closing is what publishes the terminal lifecycle event" (QueryExecutor.run): a
\* run that its caller has iterated to the end or closed is told of.
ClosingTells == \A r \in Run : Over(r) /\ run[r].source # "none" => run[r].events # <<>>

\* A partial read is not recorded as a full result (_wrap, on GeneratorExit): the
\* status that goes to the history is "succeeded" only after the whole result,
\* and "completed" is not told of a run that is not recorded so, short of a
\* cancellation somebody asked for.
NoPartialSuccess ==
  \A r \in Run :
    /\ run[r].status = "succeeded" => run[r].got = stmt[r].batches
    /\ run[r].events = <<"completed">> /\ ~run[r].cancel => run[r].status = "succeeded"

\* A statement never runs inside the transaction of somebody who had the
\* connection before (AbstractAdapter.reset: the next caller inherits it and
\* "would otherwise run inside someone else's transaction").
NoInheritedTransaction == [][\A r \in Run : Executed(r) => conn.txn \in {NoRun, r}]_vars

\* That is so if nobody's task was cancelled inside execute().
OwnTransaction ==
  [][\A r \in Run : Executed(r) =>
       conn.txn \in {NoRun, r} \/ run[conn.txn].why = "aborted"]_vars

\* No statement of a lease is still under way when the next one starts, even if
\* the consumer's task was cancelled twice: at most cursors are left to close,
\* what was left behind in execute(), and a fetch whose cursor adapter.cancel()
\* (called at a deadline too) has taken out of reset()'s sight.
QuietHandover ==
  [][\A r \in Run : Start(r) => \A i \in 1..Len(conn.queue) :
       LET left == conn.queue[i] IN
       \/ left.kind = "close"
       \/ left.kind = "execute" /\ run[left.of].why = "aborted"
       \/ left.kind = "fetch" /\ (run[left.of].cancel \/ run[left.of].expired)]_vars

\* A statement is interrupted on account of its own run, its deadline included,
\* unless cancel() was still closing a cursor when its run's lease ended.
Hits(j) == j.hit /\ (conn.queue = <<>> \/ ~conn.queue[1].hit)
InterruptsOwn ==
  [][\A j \in Job : conn'.queue # <<>> /\ conn'.queue[1] = j /\ Hits(j) =>
       \/ run'[j.of].cancel \/ run'[j.of].expired \/ j.by = "nobody"
       \/ \E r \in Run : run[r].pc = "released" /\ run[r].canceller = "closed"]_vars

\* Every run that was started ends and gives the connection back.
RunsEnd == \A r \in Run : run[r].pc = "executing" ~> run[r].pc = "released"

\* One call of cancel() stops a query (README.md: "can be cancelled with a single
\* keystroke"; SQLiteAdapter.cancel bypasses the queue of a blocked thread).
CancelStops == \A r \in Run : run[r].cancel /\ run[r].pc = "fetching" ~> Over(r)
=============================================================================
