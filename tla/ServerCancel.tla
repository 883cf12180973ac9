---------------------------- MODULE ServerCancel ----------------------------
(***************************************************************************)
(* registro_adapters/postgres_adapter.py and mysql_adapter.py under        *)
(* registro_engine/executor.py: queries run one after the other on one     *)
(* pooled connection, a lease each.  A query is cancelled through a second *)
(* connection that asks the server to interrupt whatever the first one is  *)
(* doing by the time the request arrives.                                  *)
(*                                                                         *)
(* PostgreSQL prepares a statement in execute() and runs it when it is     *)
(* streamed, a query with rows inside a transaction and one fetch at a     *)
(* time.  MySQL runs it in execute() and keeps sending its rows until they *)
(* are read or drained.                                                    *)
(***************************************************************************)
EXTENDS Naturals, Sequences, FiniteSets

CONSTANTS Lease,       \* the leases, numbers in their order
          Batches,     \* bound: how many batches of rows a select has
          NoQuery

ASSUME LeaseAssumption == Lease \subseteq Nat /\ IsFiniteSet(Lease) /\ NoQuery \notin Lease
ASSUME BatchesAssumption == Batches \in Nat

VARIABLES
  kind,  \* which of the two adapters
  stmt,  \* per lease: its statement
  q,     \* per lease: its consumer, generator and handle, and who cancels it
  conn   \* the adapter's fields, the transaction and the commands at the server
vars == <<kind, stmt, q, conn>>

\* begin, which opens a transaction, and call have no rows; call and stuck, a
\* select, end only when they are killed.
Statement == {"begin", "call", "select", "stuck"}
HasRows(r) == stmt[r] \in {"select", "stuck"}

\* source: the generator of stream().  side: adapter.cancel() on behalf of
\* QueryExecutor.cancel.  asked: that found the query active before its generator
\* had come to its end.  early: cancel() was called before anything was pulled.
QueryState ==
  [pc : {"new", "executing", "returned", "opening", "fetching", "holding", "unwinding",
         "cancelling", "ended", "clearing", "resetting", "released"},
   source : {"none", "fresh", "suspended", "last", "over"}, closing : BOOLEAN,
   got : Nat, expired : BOOLEAN, aborted : BOOLEAN, cancel : BOOLEAN,
   side : {"idle", "connecting", "draining", "done", "failed"},
   asked : BOOLEAN, early : BOOLEAN]
Command == [of : Lease, does : {"prepare", "statement", "open", "fetch", "rollback"},
            by : {"consumer", "reset", "nobody"}, hit : BOOLEAN]

\* An adapter serves one query: one statement at most is registered, the active
\* one unless execute() has given it up.
TypeOK ==
  /\ kind \in {"postgres", "mysql"}
  /\ stmt \in [Lease -> Statement]
  /\ q \in [Lease -> QueryState] /\ conn.queue \in Seq(Command)
  /\ conn.active \in Lease \cup {NoQuery} /\ conn.txn \in Lease \cup {NoQuery}
  /\ conn.flags \subseteq Lease /\ conn.open \subseteq Lease
  /\ Cardinality(conn.open) <= 1 /\ conn.open \subseteq {conn.active}

Init ==
  /\ kind \in {"postgres", "mysql"}
  /\ stmt \in [Lease -> Statement]
  /\ q = [r \in Lease |-> [pc |-> "new", source |-> "none", closing |-> FALSE, got |-> 0,
                           expired |-> FALSE, aborted |-> FALSE, cancel |-> FALSE,
                           side |-> "idle", asked |-> FALSE, early |-> FALSE]]
  /\ conn = [active |-> NoQuery, flags |-> {}, open |-> {}, txn |-> NoQuery, queue |-> <<>>]

Postgres == kind = "postgres"

-----------------------------------------------------------------------------
(* The server works off the commands of the connection, one at a time *)

Sent(c, r, does, by) ==
  [c EXCEPT !.queue = Append(@, [of |-> r, does |-> does, by |-> by, hit |-> FALSE])]
Does(r, does, by) ==
  /\ conn.queue # <<>>
  /\ conn.queue[1].of = r /\ conn.queue[1].does = does /\ conn.queue[1].by = by
Popped == [conn EXCEPT !.queue = Tail(@)]
Working(c, r) == \E i \in 1..Len(c.queue) : c.queue[i].of = r

\* Nobody awaits the command of r any more.  asyncpg then has the server cancel it.
Unwatched(command) == [command EXCEPT !.by = "nobody", !.hit = @ \/ Postgres]
Deserted(r) == [conn EXCEPT !.queue = [i \in 1..Len(conn.queue) |->
  IF conn.queue[i].of = r THEN Unwatched(conn.queue[i]) ELSE conn.queue[i]]]

\* pg_cancel_backend, KILL QUERY: whatever is running on the connection.
Killed == IF conn.queue = <<>> THEN conn ELSE [conn EXCEPT !.queue[1].hit = TRUE]

\* A ROLLBACK that was interrupted on PostgreSQL has not ended its transaction.
RolledBack == IF Postgres /\ conn.queue[1].hit THEN {Popped, [Popped EXCEPT !.txn = NoQuery]}
              ELSE {[Popped EXCEPT !.txn = NoQuery]}

\* The transaction, if the command has opened one by the time it is done.
Begun(r) == IF stmt[r] = "begin" THEN [Popped EXCEPT !.txn = r] ELSE Popped

Ends(r) == stmt[r] \in {"call", "stuck"} => conn.queue[1].hit

\* asyncmy: one task at a time reads from the connection, another one's attempt fails.
Draining == \E s \in Lease : q[s].side = "draining"

DoneForNobody(r) ==
  /\ UNCHANGED <<kind, stmt, q>>
  /\ \/ \E does \in {"prepare", "fetch"} : Does(r, does, "nobody") /\ Ends(r) /\ conn' = Popped
     \/ Does(r, "open", "nobody") /\ conn' \in {Popped, [Popped EXCEPT !.txn = r]}
     \/ Does(r, "rollback", "nobody") /\ conn' \in RolledBack
     \/ /\ Does(r, "statement", "nobody") /\ Ends(r)
        /\ q[r].side # "draining" /\ q[r].pc \notin {"unwinding", "clearing"}
        /\ conn' \in {Popped, Begun(r)}

-----------------------------------------------------------------------------
(* execute() *)

Becomes(r, query, c) == q' = [q EXCEPT ![r] = query] /\ conn' = c /\ UNCHANGED <<kind, stmt>>
At(r, pc) == [q[r] EXCEPT !.pc = pc]

ItsTurn(r) == q[r].pc = "new" /\ \A s \in Lease : s < r => q[s].pc = "released"

\* Mutant: execute() does not note which query is active.
StartUnnamed(r) ==
  /\ ItsTurn(r)
  /\ Becomes(r, At(r, "executing"),
             Sent(conn, r, IF Postgres THEN "prepare" ELSE "statement", "consumer"))

\* The lease before this one is over.  A cursor that still drains the connection
\* makes the statement fail.
Start(r) ==
  /\ ItsTurn(r)
  /\ LET c == [conn EXCEPT !.active = r] IN
     \/ Draining /\ Becomes(r, At(r, "ended"), c)
     \/ /\ ~Draining
        /\ Becomes(r, At(r, "executing"),
                   Sent(c, r, IF Postgres THEN "prepare" ELSE "statement", "consumer"))

\* BEGIN on a connection that is inside a transaction is no error on these servers.
Executed(r) ==
  /\ q[r].pc = "executing"
  /\ LET c == [conn EXCEPT !.open = @ \cup {r}]
         query == [At(r, "returned") EXCEPT !.source = "fresh"]
     IN \/ Does(r, "prepare", "consumer") /\ Becomes(r, query, [c EXCEPT !.queue = Tail(@)])
        \/ Does(r, "statement", "consumer") /\ HasRows(r) /\ Becomes(r, query, c)
        \/ /\ Does(r, "statement", "consumer") /\ ~HasRows(r) /\ Ends(r)
           /\ Becomes(r, query, [Begun(r) EXCEPT !.open = @ \cup {r}])

\* On MySQL the query stays the active one.
ExecuteFails(r) ==
  /\ q[r].pc = "executing" /\ \E does \in {"prepare", "statement"} : Does(r, does, "consumer")
  /\ Becomes(r, At(r, "ended"),
             IF Postgres THEN [Popped EXCEPT !.active = NoQuery] ELSE Popped)

CancelExecuting(r) ==
  /\ q[r].pc = "executing"
  /\ Becomes(r, [At(r, "ended") EXCEPT !.aborted = TRUE], Deserted(r))

-----------------------------------------------------------------------------
(* The generator of stream(), and _wrap around it *)

\* Mutant: the adapter's own part of _forget() is missing.
ForgottenByBase(c, r) == [c EXCEPT !.flags = @ \ {r}, !.open = @ \ {r}]

Forgotten(c, r) ==
  [c EXCEPT !.flags = @ \ {r}, !.open = @ \ {r}, !.active = IF @ = r THEN NoQuery ELSE @]

\* What is over is forgotten; adapter.cancel() at a deadline then returns at once.
\* A generator that was never iterated has no finally to run.
Finish(r, query, c) ==
  IF query.source = "fresh" THEN Becomes(r, [query EXCEPT !.pc = "ended"], c)
  ELSE Becomes(r, [query EXCEPT !.pc = "ended", !.source = "over"], Forgotten(c, r))

\* The generator's way out: it ends the transaction around its cursor, or drains
\* what the server still sends, unless another task is doing that.  MySQL's
\* adapter.cancel() drains at a deadline too, before or without the generator.
Unwind(r, query, c) ==
  LET out == [query EXCEPT !.pc = "unwinding", !.source = IF @ = "fresh" THEN @ ELSE "over"] IN
  IF Postgres
  THEN IF c.txn = r /\ HasRows(r)
       THEN Becomes(r, out, Sent(c, r, "rollback", "consumer"))
       ELSE Finish(r, query, c)
  ELSE IF Working(c, r) /\ q[r].side # "draining"
       THEN Becomes(r, out, c) ELSE Finish(r, query, c)

\* _wrap's finally, or the consumer's aclose(): outside the deadline.
Close(r, query, c) == Unwind(r, [query EXCEPT !.closing = TRUE], c)

\* Before anything else the executor looks at cancel_event.
Deliver(r, rows, query, c) ==
  \/ query.cancel /\ Close(r, query, c)
  \/ ~query.cancel /\ Becomes(r, [query EXCEPT !.pc = "holding", !.got = @ + rows], c)

Asks(r) == q[r].pc \in {"returned", "holding"}

\* Out of time before it pulls: adapter.cancel(), which finds the query active.
PullTooLate(r) == Asks(r) /\ q[r].expired /\ Becomes(r, At(r, "cancelling"), [conn EXCEPT
  !.flags = @ \cup {r}, !.open = IF Postgres THEN @ ELSE @ \ {r}])

\* The cancel flag is looked at before a fetch, not before a statement without rows.
FetchUnlessCancelled(r, query, c) ==
  \/ r \in c.flags /\ Unwind(r, query, c)
  \/ /\ r \notin c.flags
     /\ Becomes(r, [query EXCEPT !.pc = "fetching", !.source = "suspended"],
                IF Postgres THEN Sent(c, r, "fetch", "consumer") ELSE c)

Pull(r) ==
  /\ Asks(r) /\ ~q[r].expired
  /\ \/ q[r].source = "last" /\ Unwind(r, q[r], conn)
     \/ /\ q[r].source = "fresh" /\ Postgres
        /\ \/ /\ ~HasRows(r)
              /\ Becomes(r, [At(r, "fetching") EXCEPT !.source = "suspended"],
                         Sent(conn, r, "statement", "consumer"))
           \/ /\ HasRows(r)
              /\ Becomes(r, [At(r, "opening") EXCEPT !.source = "suspended"],
                         Sent(conn, r, "open", "consumer"))
     \/ /\ q[r].source = "fresh" /\ ~Postgres /\ ~HasRows(r)
        /\ Deliver(r, 0, [q[r] EXCEPT !.source = "last"], conn)
     \/ /\ q[r].source = "suspended" \/ (q[r].source = "fresh" /\ ~Postgres /\ HasRows(r))
        /\ FetchUnlessCancelled(r, [q[r] EXCEPT !.source = "suspended"], conn)

\* "async with conn.transaction()" and the cursor.
Opened(r) ==
  /\ q[r].pc = "opening" /\ Does(r, "open", "consumer")
  /\ FetchUnlessCancelled(r, q[r], [Popped EXCEPT !.txn = r])

\* Breaking off, an error of the consumer, or its cancellation between two batches.
Abandon(r) ==
  \/ q[r].pc = "holding" /\ Close(r, q[r], conn)
  \/ q[r].pc = "returned" /\ Becomes(r, At(r, "ended"), conn)

Fetching(r) ==
  q[r].pc = "fetching" /\ \E does \in {"fetch", "statement"} : Does(r, does, "consumer")

FetchRows(r) ==
  /\ Fetching(r) /\ stmt[r] = "select" /\ q[r].got < Batches
  /\ Deliver(r, 1, q[r], IF Postgres THEN Popped ELSE conn)

FetchEmpty(r) ==
  /\ Fetching(r) /\ stmt[r] \in {"begin", "select"}
  /\ stmt[r] = "select" => q[r].got = Batches
  /\ Deliver(r, 0, [q[r] EXCEPT !.source = "last"], Begun(r))

FetchFails(r) ==
  \/ Fetching(r) /\ Ends(r) /\ Unwind(r, q[r], Popped)
  \/ /\ q[r].pc = "opening" /\ Does(r, "open", "consumer")
     /\ \E c \in {Popped, [Popped EXCEPT !.txn = r]} : Unwind(r, q[r], c)

\* The server is done with what the generator awaits on its way out.
Unwound(r) ==
  /\ q[r].pc = "unwinding"
  /\ \/ Does(r, "rollback", "consumer") /\ \E c \in RolledBack : Finish(r, q[r], c)
     \/ /\ ~Postgres /\ \E by \in {"consumer", "nobody"} : Does(r, "statement", by)
        /\ Ends(r) /\ Finish(r, q[r], Popped)

-----------------------------------------------------------------------------
(* Deadline, and cancellation of the consumer's task *)

\* Inside the generator: CancelledError, and its finally.
Break(r, query) ==
  \/ Postgres /\ Unwind(r, query, Deserted(r))
  \/ /\ Postgres /\ q[r].pc = "opening"
     /\ Unwind(r, query, [Deserted(r) EXCEPT !.txn = r])
  \/ ~Postgres /\ Unwind(r, query, conn)

\* Inside that finally: MySQL's cursor is not closed, and the query not forgotten.
\* A deadline makes it a TimeoutError unless the task had been cancelled before.
BreakUnwinding(r, query, c) ==
  \/ Postgres /\ Finish(r, query, Deserted(r))
  \/ ~Postgres /\ Becomes(r, query, c)

Expire(r) ==
  /\ q[r].pc \in {"executing", "returned", "opening", "fetching", "holding", "unwinding"}
  /\ ~q[r].expired
  /\ LET late == [q[r] EXCEPT !.expired = TRUE] IN
     \/ /\ q[r].pc \in {"executing", "returned", "holding"} \/ q[r].closing
        /\ Becomes(r, late, conn)
     \/ q[r].pc \in {"opening", "fetching"} /\ Break(r, late)
     \/ /\ q[r].pc = "unwinding" /\ ~q[r].closing /\ ~q[r].aborted
        /\ BreakUnwinding(r, [late EXCEPT !.pc = "cancelling"],
             [Deserted(r) EXCEPT !.flags = @ \cup {r}, !.open = @ \ {r}])
     \/ /\ q[r].pc = "unwinding" /\ ~q[r].closing /\ q[r].aborted
        /\ BreakUnwinding(r, [late EXCEPT !.pc = "ended"], Deserted(r))

CancelTask(r) ==
  LET aborted == [q[r] EXCEPT !.aborted = TRUE] IN
  \/ q[r].pc \in {"opening", "fetching"} /\ Break(r, aborted)
  \/ /\ q[r].pc = "unwinding"
     /\ BreakUnwinding(r, [aborted EXCEPT !.pc = "ended"], Deserted(r))
  \/ /\ q[r].pc = "cancelling" /\ q[r].source = "fresh"
     /\ Becomes(r, [aborted EXCEPT !.pc = "ended"], conn)
  \/ q[r].pc = "cancelling" /\ q[r].source # "fresh" /\ Close(r, aborted, conn)

\* adapter.cancel() at a deadline: the request arrives, or there is no side connection.
TimeoutKills(r) == q[r].pc = "cancelling" /\ Close(r, q[r], Killed)
TimeoutCannotKill(r) == q[r].pc = "cancelling" /\ Close(r, q[r], conn)

-----------------------------------------------------------------------------
(* QueryExecutor.cancel, by another task that has the run *)

\* The generator was iterated and has come to its end.
Through(r) == q[r].source = "over" /\ q[r].pc \in {"ended", "clearing", "resetting"}

Cancel(r) ==
  /\ q[r].source # "none" /\ q[r].pc # "released" /\ q[r].side = "idle" /\ ~q[r].cancel
  /\ LET asked == [q[r] EXCEPT !.cancel = TRUE, !.early = q[r].source = "fresh"]
         told == [conn EXCEPT !.flags = @ \cup {r}]
     IN \/ conn.active # r /\ Becomes(r, asked, told)
        \/ /\ conn.active = r
           /\ Becomes(r, [asked EXCEPT !.side = "connecting", !.asked = ~Through(r)],
                      IF Postgres THEN told ELSE [told EXCEPT !.open = @ \ {r}])

\* MySQL then closes the cursor it took: that drains it, if nobody else is reading.
Reading == \E s \in Lease : q[s].pc \in {"executing", "fetching", "unwinding", "clearing", "resetting"}
AfterKill(r, outcome) ==
  IF ~Postgres /\ Working(conn, r) /\ ~Reading
  THEN [q[r] EXCEPT !.side = "draining"] ELSE [q[r] EXCEPT !.side = outcome]

Kill(r) == q[r].side = "connecting" /\ Becomes(r, AfterKill(r, "done"), Killed)
SideFails(r) == q[r].side = "connecting" /\ Becomes(r, AfterKill(r, "failed"), conn)

Drained(r) ==
  /\ q[r].side = "draining"
  /\ \E by \in {"consumer", "nobody"} : Does(r, "statement", by)
  /\ Ends(r) /\ Becomes(r, [q[r] EXCEPT !.side = "done"], Popped)

-----------------------------------------------------------------------------
(* reset(), when the pool takes the connection back *)

\* Of a lease that is over only its cancellation matters.
Released(r) == [At(r, "released") EXCEPT !.source = "over", !.got = 0, !.closing = FALSE]

RollBackOrRelease(r, c, needed) ==
  \/ ~needed /\ Becomes(r, Released(r), c)
  \/ needed /\ Becomes(r, At(r, "resetting"), Sent(c, r, "rollback", "reset"))

\* Mutant: MySQL's reset() rolls back only inside a transaction.
ClearedLazily(r, c) ==
  RollBackOrRelease(r, [c EXCEPT !.active = NoQuery, !.open = {}], c.txn # NoQuery)

\* Mutant: what execute() registered stays registered.
ClearedKeeps(r, c) ==
  RollBackOrRelease(r, c, IF Postgres THEN c.txn # NoQuery ELSE ~Draining)

\* Mutant: only AbstractAdapter's part of reset(), and the fields.
ClearedOnly(r, c) == RollBackOrRelease(r, [c EXCEPT !.active = NoQuery, !.open = {}], FALSE)

\* A ROLLBACK, on PostgreSQL only in a transaction the driver knows of; on MySQL
\* it fails while a cursor drains the connection.
Cleared(r, c) ==
  RollBackOrRelease(r, [c EXCEPT !.active = NoQuery, !.open = {}],
                    IF Postgres THEN c.txn # NoQuery ELSE ~Draining)

\* MySQL's reset() first closes the cursor it finds, which drains it.
MustDrain(r) == ~Postgres /\ r \in conn.open /\ Working(conn, r) /\ ~Draining

Reset(r) ==
  /\ q[r].pc = "ended"
  /\ LET c == [conn EXCEPT !.flags = {}] IN
     \/ MustDrain(r) /\ Becomes(r, At(r, "clearing"), c)
     \/ ~MustDrain(r) /\ Cleared(r, c)

\* The rows are read: by that, or for a cursor that reset() did not find by the
\* driver, which reads what is left of a result before it sends a ROLLBACK.
ResetDrained(r) ==
  /\ ~Postgres /\ \E by \in {"consumer", "nobody"} : Does(r, "statement", by)
  /\ Ends(r)
  /\ \/ q[r].pc = "clearing" /\ Cleared(r, Popped)
     \/ q[r].pc = "resetting" /\ Becomes(r, q[r], Popped)

ResetDone(r) ==
  /\ q[r].pc = "resetting" /\ Does(r, "rollback", "reset")
  /\ \E c \in RolledBack : Becomes(r, Released(r), c)

-----------------------------------------------------------------------------

Server(r) ==
  \/ DoneForNobody(r) \/ Executed(r) \/ ExecuteFails(r) \/ Opened(r)
  \/ FetchRows(r) \/ FetchEmpty(r) \/ FetchFails(r) \/ Unwound(r) \/ Drained(r)
  \/ ResetDrained(r) \/ ResetDone(r)
Consumer(r) == Pull(r) \/ PullTooLate(r) \/ Abandon(r) \/ Reset(r)
Side(r) == Kill(r) \/ SideFails(r)
TimeoutSide(r) == TimeoutKills(r) \/ TimeoutCannotKill(r)

Next ==
  \E r \in Lease :
    \/ Start(r) \/ Server(r) \/ Consumer(r) \/ Cancel(r) \/ Side(r) \/ TimeoutSide(r)
    \/ Expire(r) \/ CancelExecuting(r) \/ CancelTask(r)

\* The server works, except on what ends only when killed; a consumer goes on with the run it
\* has; opening a side connection ends within its five seconds.
Fairness ==
  /\ WF_vars(\E r \in Lease : Server(r))
  /\ \A r \in Lease : WF_vars(Consumer(r)) /\ WF_vars(Side(r)) /\ WF_vars(TimeoutSide(r))

Spec == Init /\ [][Next]_vars
FairSpec == Spec /\ Fairness
-----------------------------------------------------------------------------
(* Properties *)

Over(r) == q[r].pc \in {"ended", "clearing", "resetting", "released"}

\* The request to interrupt a query reaches that query (postgres_adapter.py:261,
\* mysql_adapter.py:248: "Live connection is busy; open side connection").  The
\* one exception: the query was under way when cancel() looked, or its unwinding
\* was cut short on MySQL, and its lease ended while the side connection was being
\* opened.
KillsOwn ==
  [][\A r \in Lease : (Kill(r) \/ TimeoutKills(r)) /\ conn.queue # <<>> =>
       \/ conn.queue[1].of = r
       \/ /\ q[r].pc = "released"
          /\ \/ q[r].asked
             \/ ~Postgres /\ (q[r].aborted \/ q[r].expired)]_vars

\* A statement does not begin inside the transaction of an earlier lease
\* (AbstractAdapter.reset: the next caller "would otherwise run inside someone
\* else's transaction").  On MySQL never; on PostgreSQL only after a task that was
\* cancelled or out of time, or when the ROLLBACK of reset() was hit by a late
\* kill, the one meant for that lease or one still on its way from a lease before.
OwnTransaction ==
  [][\A r \in Lease : Executed(r) => LET of == conn.txn IN
       \/ of \in {NoQuery, r}
       \/ /\ Postgres
          /\ \/ q[of].aborted \/ q[of].expired
             \/ \E s \in Lease : s <= of /\ q[s].asked]_vars

\* When the next lease starts, nothing of an earlier one is under way at the
\* server but what asyncpg has told it to stop, or what cancel() still drains on
\* MySQL; all the rest reset() has drained there, a select that was never iterated
\* included (test_reset_rolls_back_and_clears_in_flight_cursors).
QuietHandover ==
  [][\A r \in Lease : Start(r) =>
       IF Postgres THEN \A i \in 1..Len(conn.queue) : conn.queue[i].hit
       ELSE conn.queue = <<>> \/ Draining]_vars

\* One call of cancel() stops a query that waits for the server, however long that
\* would take (README.md: "can be cancelled with a single keystroke"), if the side
\* connection can be opened; only a statement without rows on PostgreSQL may miss
\* a request that came before the statement was sent.
CancelStops ==
  \A r \in Lease : q[r].cancel /\ q[r].pc = "fetching" ~>
    Over(r) \/ q[r].side = "failed" \/ (q[r].early /\ Postgres /\ ~HasRows(r))
=============================================================================
