------------------------- MODULE ServerCancel_proofs -------------------------
(***************************************************************************)
(* Proofs about ServerCancel for every number of leases and of batches and *)
(* for both adapters: type correctness with at most one registered         *)
(* statement, that a request to interrupt reaches the query it is meant    *)
(* for, whose transaction a statement may find, and what one lease leaves  *)
(* to the next.                                                            *)
(*                                                                         *)
(* The strengthening, Good, is stated of a pair of query records and       *)
(* connection, so that it can also be claimed of a state half-way through  *)
(* an action.  Serial: leases follow one another.  Stages: what the record *)
(* of a query says at each suspension.  Registered: what execute()         *)
(* registered is active only within its lease.  Commands: what may be at   *)
(* the server, who waits for it, and why nobody does.  Drains: a cursor    *)
(* that cancel() drains is alone with its statement.  Transactions: one    *)
(* that outlives its lease has an excuse.                                  *)
(*                                                                         *)
(* Most steps of a generator are taken in two: to a state in which nothing *)
(* is awaited (Ready), where what it awaited has been answered or given    *)
(* up, and from there to what it does next.  Then there is one lemma per   *)
(* action.                                                                 *)
(***************************************************************************)
EXTENDS ServerCancel, FiniteSetTheorems, SequenceTheorems, TLAPS

\* The connection is leased to r.
InLease(qq, r) == qq[r].pc \notin {"new", "released"}
\* Where the consumer of a query waits for the server, and where its generator has
\* not come to its end.
Awaiting == {"executing", "opening", "fetching", "unwinding"}
Streaming == {"returned", "opening", "fetching", "holding", "unwinding", "cancelling"}

ConnState == [active : Lease \cup {NoQuery}, flags : SUBSET Lease, open : SUBSET Lease,
              txn : Lease \cup {NoQuery}, queue : Seq(Command)]

Types(qq, cc) ==
  /\ kind \in {"postgres", "mysql"} /\ stmt \in [Lease -> Statement]
  /\ qq \in [Lease -> QueryState] /\ cc \in ConnState

Serial(qq) == \A r, s \in Lease : s < r /\ qq[r].pc # "new" => qq[s].pc = "released"

\* A deadline or a cancellation of the task has struck.
CutShort(query) == query.aborted \/ query.expired

\* Only a query whose stream() was called can be cancelled, and while it streams
\* its flag is set; cancel() opens a side connection for one that is still under
\* way, or that was cut short on MySQL.
Stage(query, r, cc) ==
  /\ query.source = "none" => ~query.cancel /\ query.side = "idle"
  /\ query.pc \in {"new", "executing"} => query.source = "none"
  /\ query.pc \in Streaming => query.source # "none"
  /\ query.pc \in {"returned", "opening", "fetching", "holding"} => query.source # "over"
  /\ query.asked => query.cancel
  /\ query.side # "idle" => query.cancel
  /\ query.side = "connecting" => query.asked \/ (~Postgres /\ CutShort(query))
  /\ query.side = "draining" => ~Postgres
  /\ query.pc = "opening" => Postgres
  /\ query.cancel /\ query.pc \in Streaming => r \in cc.flags
Stages(qq, cc) == \A r \in Lease : Stage(qq[r], r, cc)

\* The active query is in its lease; its generator is not over, unless it unwinds or
\* its unwinding was cut short on MySQL.
Registered(qq, cc) ==
  /\ cc.open \subseteq {cc.active}
  /\ \A r \in Lease :
       /\ cc.active = r => /\ qq[r].pc \notin {"new", "resetting", "released"}
                           /\ qq[r].source = "over" =>
                                qq[r].pc = "unwinding" \/ (~Postgres /\ CutShort(qq[r]))
       /\ qq[r].pc = "executing" => cc.active = r /\ cc.open = {}

\* Why the transaction of r may outlive its lease.
Excused(qq, r) == CutShort(qq[r]) \/ \E s \in Lease : s <= r /\ qq[s].asked

\* Command i of n.  asyncpg has told the server to stop what nobody awaits; what
\* somebody awaits is the last one.
AtPostgres(qq, c, i, n) ==
  /\ c.by = "nobody" => c.hit /\ CutShort(qq[c.of])
  /\ c.by # "nobody" => i = n
  /\ c.by = "consumer" => qq[c.of].pc \in Awaiting
  /\ c.by = "consumer" /\ qq[c.of].pc = "executing" => c.does = "prepare"
  /\ c.by = "reset" => qq[c.of].pc = "resetting" /\ (c.hit => Excused(qq, c.of))

\* The statement of a lease comes first, and only the ROLLBACK of reset() after it.
AtMySQL(qq, c, i, n) ==
  /\ c.does = "statement" \/ (c.does = "rollback" /\ c.by = "reset")
  /\ c.does = "statement" =>
       /\ i = 1
       /\ c.by # "reset"
       /\ qq[c.of].pc = "released" => qq[c.of].side = "draining"
       /\ qq[c.of].source # "none" => HasRows(c.of)
  /\ c.does = "rollback" => i = n /\ qq[c.of].pc = "resetting"

\* Once a lease streams, all commands are its own.
CommandOK(qq, queue, i) ==
  LET c == queue[i] IN
  /\ qq[c.of].pc # "new"
  /\ \A r \in Lease : InLease(qq, r) /\ qq[r].source # "none" => c.of = r
  /\ IF Postgres THEN AtPostgres(qq, c, i, Len(queue))
     ELSE AtMySQL(qq, c, i, Len(queue)) /\ c.of = queue[1].of
Commands(qq, queue) == \A i \in 1..Len(queue) : CommandOK(qq, queue, i)

\* Nobody else reads while cancel() drains a cursor (AfterKill).
Drains(qq, cc) ==
  \A d \in Lease : qq[d].side = "draining" =>
    /\ cc.queue # <<>> /\ cc.queue[1].of = d /\ cc.queue[1].does = "statement"
    /\ cc.txn = NoQuery
    /\ \A s \in Lease : qq[s].pc \notin {"executing", "fetching", "unwinding", "clearing", "resetting"}

\* On MySQL reset() ends every transaction.
Transactions(qq, cc) ==
  \A t \in Lease : cc.txn = t =>
    /\ qq[t].pc # "new"
    /\ qq[t].pc = "released" => Postgres /\ Excused(qq, t)
    /\ ~Postgres => stmt[t] = "begin"

Good(qq, cc) ==
  /\ Types(qq, cc) /\ Serial(qq) /\ Stages(qq, cc) /\ Registered(qq, cc)
  /\ Commands(qq, cc.queue) /\ Drains(qq, cc) /\ Transactions(qq, cc)

IInv == Good(q, conn)

-----------------------------------------------------------------------------
(* One lease changes *)

\* A lease that is not new goes on, and is not taken back once it is over.
LEMMA SerialKept ==
  ASSUME NEW qq \in [Lease -> QueryState], NEW r \in Lease, NEW u, Serial(qq),
         qq[r].pc # "new", u.pc # "new", qq[r].pc = "released" => u.pc = "released"
  PROVE  Serial([qq EXCEPT ![r] = u])
BY DEF Serial

\* Serial leases: the connection has one lessee at most.
LEMMA OneInLease ==
  ASSUME NEW qq \in [Lease -> QueryState], NEW r \in Lease, NEW s \in Lease, Serial(qq),
         InLease(qq, r), InLease(qq, s)
  PROVE  r = s
BY LeaseAssumption DEF Serial, InLease

\* The stage of r is as claimed, and nobody else's flag is taken away.
LEMMA StagesKept ==
  ASSUME NEW qq \in [Lease -> QueryState], NEW r \in Lease, NEW u, NEW c, NEW d,
         Stages(qq, c), Stage(u, r, d),
         \A s \in Lease \ {r} : qq[s].pc \in Streaming /\ s \in c.flags => s \in d.flags
  PROVE  Stages([qq EXCEPT ![r] = u], d)
BY DEF Stages, Stage, Streaming

\* Only the lessee registers anything.
LEMMA RegisteredKept ==
  ASSUME NEW qq \in [Lease -> QueryState], NEW r \in Lease, NEW u, NEW c, NEW d,
         Registered(qq, c), Serial(qq),
         d.open \subseteq {d.active},
         d.active = c.active \/ (d.active = NoQuery /\ InLease(qq, r)),
         d.active = r => /\ u.pc \notin {"new", "resetting", "released"}
                         /\ u.source = "over" =>
                              u.pc = "unwinding" \/ (~Postgres /\ CutShort(u)),
         d.open \subseteq c.open \/ InLease(qq, r),
         u.pc = "executing" => d.active = r /\ d.open = {}
  PROVE  Registered([qq EXCEPT ![r] = u], d)
<1>1. ASSUME NEW s \in Lease, s # r, qq[s].pc = "executing" PROVE d.active = s /\ d.open = {}
  BY <1>1, OneInLease DEF Registered, InLease
<1> QED BY <1>1, LeaseAssumption DEF Registered

\* What excuses a query is not taken back.
Monotone(query, u) ==
  /\ query.aborted => u.aborted
  /\ query.expired => u.expired
  /\ query.asked => u.asked

\* An excuse stays one.
LEMMA ExcusedKept ==
  ASSUME NEW qq \in [Lease -> QueryState], NEW r \in Lease, NEW u, Monotone(qq[r], u),
         NEW t \in Lease, Excused(qq, t)
  PROVE  Excused([qq EXCEPT ![r] = u], t)
BY DEF Monotone, Excused, CutShort

\* A step of r opens only its own transaction, and ends any.
LEMMA TransactionsKept ==
  ASSUME NEW qq \in [Lease -> QueryState], NEW r \in Lease, NEW u, NEW c, NEW d,
         Transactions(qq, c), Monotone(qq[r], u), u.pc # "new",
         d.txn \in {c.txn, r, NoQuery},
         d.txn = r => /\ u.pc = "released" => Postgres /\ Excused([qq EXCEPT ![r] = u], r)
                      /\ ~Postgres => stmt[r] = "begin"
  PROVE  Transactions([qq EXCEPT ![r] = u], d)
<1>1. ASSUME NEW t \in Lease, t # r, Excused(qq, t) PROVE Excused([qq EXCEPT ![r] = u], t)
  BY <1>1, ExcusedKept
<1> QED BY <1>1, LeaseAssumption DEF Transactions

-----------------------------------------------------------------------------
(* The commands of the connection *)

LEMMA CommandsEmpty == ASSUME NEW qq PROVE Commands(qq, <<>>)
BY DEF Commands

\* What is awaited is the last command, so that the first one is if it is awaited.
LEMMA LastCommand ==
  ASSUME NEW qq \in [Lease -> QueryState], NEW queue \in Seq(Command), Commands(qq, queue),
         queue # <<>>,
         IF Postgres THEN queue[1].by # "nobody"
         ELSE queue[1].does = "rollback" \/ qq[queue[1].of].pc # "resetting"
  PROVE  Len(queue) = 1 /\ Tail(queue) = <<>>
<1>0. Len(queue) \in Nat /\ Len(queue) >= 1
  BY EmptySeq
<1>1. 1 \in 1..Len(queue) /\ CommandOK(qq, queue, 1)
  BY <1>0 DEF Commands
<1>2. Len(queue) = 1
  <2>1. CASE Postgres
    BY <1>1, <2>1 DEF CommandOK, AtPostgres
  <2>2. CASE ~Postgres
    <3> SUFFICES ASSUME Len(queue) >= 2 PROVE FALSE
      BY <1>0
    <3>1. 2 \in 1..Len(queue)
      BY <1>0
    <3>2. CommandOK(qq, queue, 2)
      BY <3>1 DEF Commands
    <3> QED BY <1>1, <2>2, <3>1, <3>2 DEF CommandOK, AtMySQL
  <2> QED BY <2>1, <2>2
<1>3. Tail(queue) \in Seq(Command) /\ Len(Tail(queue)) = 0
  BY <1>2, HeadTailProperties
<1>4. Tail(queue) = <<>>
  BY <1>3, EmptySeq, Zenon
<1> QED BY <1>2, <1>4

\* What the commands of r say of r.
Fits(queue, r, u) ==
  \A i \in 1..Len(queue) : queue[i].of = r =>
    IF Postgres
    THEN /\ queue[i].by = "consumer" =>
              u.pc \in Awaiting /\ (u.pc = "executing" => queue[i].does = "prepare")
         /\ queue[i].by = "reset" => u.pc = "resetting"
    ELSE /\ queue[i].does = "statement" =>
              /\ u.pc = "released" => u.side = "draining"
              /\ u.source # "none" => HasRows(r)
         /\ queue[i].does = "rollback" => u.pc = "resetting"

\* A lease that streams has the queue for itself.
Owns(queue, r, u) ==
  u.pc # "released" /\ u.source # "none" => \A i \in 1..Len(queue) : queue[i].of = r

\* The queue stays as it is and r goes on.
LEMMA CommandsKept ==
  ASSUME NEW qq \in [Lease -> QueryState], NEW r \in Lease, NEW u \in QueryState,
         NEW queue \in Seq(Command), Commands(qq, queue),
         Monotone(qq[r], u), u.pc # "new", Owns(queue, r, u), Fits(queue, r, u)
  PROVE  Commands([qq EXCEPT ![r] = u], queue)
<1> DEFINE new == [qq EXCEPT ![r] = u]
<1> SUFFICES ASSUME NEW i \in 1..Len(queue) PROVE CommandOK(new, queue, i)
  BY DEF Commands
<1>0. queue[i] \in Command
  OBVIOUS
<1>1. CommandOK(qq, queue, i) /\ queue[i] \in Command /\ queue[i].of \in Lease
  BY <1>0 DEF Commands, Command
<1>2. new \in [Lease -> QueryState] /\ new[r] = u /\ \A s \in Lease \ {r} : new[s] = qq[s]
  OBVIOUS
<1>3. Excused(qq, queue[i].of) => Excused(new, queue[i].of)
  BY <1>1, ExcusedKept
<1>4. CutShort(qq[queue[i].of]) => CutShort(new[queue[i].of])
  BY <1>1, <1>2 DEF CutShort, Monotone
<1> HIDE DEF new
<1>5. new[queue[i].of].pc # "new" /\ \A s \in Lease : InLease(new, s) /\ new[s].source # "none" => queue[i].of = s
  BY <1>1, <1>2 DEF CommandOK, InLease, Owns
<1>6. CASE Postgres
  <2>1. AtPostgres(new, queue[i], i, Len(queue))
    BY <1>1, <1>2, <1>3, <1>4, <1>6 DEF CommandOK, AtPostgres, Fits
  <2> QED BY <1>5, <1>6, <2>1 DEF CommandOK
<1>7. CASE ~Postgres
  <2>1. AtMySQL(new, queue[i], i, Len(queue)) /\ queue[i].of = queue[1].of
    BY <1>1, <1>2, <1>7 DEF CommandOK, AtMySQL, Fits
  <2> QED BY <1>5, <1>7, <2>1 DEF CommandOK
<1> QED BY <1>6, <1>7

\* Nothing in the queue is awaited.
Idle(queue) == \A i \in 1..Len(queue) : queue[i].by = "nobody"

\* A command is added for r, which has the connection.
LEMMA CommandsSent ==
  ASSUME NEW qq \in [Lease -> QueryState], NEW r \in Lease, NEW queue \in Seq(Command),
         Commands(qq, queue), NEW command \in Command,
         command.of = r, command.by # "nobody", ~command.hit,
         qq[r].pc # "new",
         \A s \in Lease : InLease(qq, s) /\ qq[s].source # "none" => s = r,
         IF Postgres
         THEN /\ Idle(queue)
              /\ command.by = "consumer" =>
                   /\ qq[r].pc \in Awaiting
                   /\ qq[r].pc = "executing" => command.does = "prepare"
              /\ command.by = "reset" => qq[r].pc = "resetting"
         ELSE \/ /\ queue = <<>> /\ command.does = "statement" /\ command.by = "consumer"
                 /\ qq[r].pc # "released" /\ qq[r].source = "none"
              \/ /\ command.does = "rollback" /\ command.by = "reset" /\ qq[r].pc = "resetting"
                 /\ \A i \in 1..Len(queue) : queue[i].of = r /\ queue[i].does = "statement"
  PROVE  Commands(qq, Append(queue, command))
<1> DEFINE longer == Append(queue, command)
           n == Len(queue) + 1
<1>1. Len(longer) = n /\ longer[n] = command /\ \A i \in 1..Len(queue) : longer[i] = queue[i]
  OBVIOUS
<1> HIDE DEF longer
<1>2. ASSUME NEW i \in 1..Len(queue) PROVE CommandOK(qq, longer, i)
  <2>1. CommandOK(qq, queue, i) /\ longer[i] = queue[i] /\ longer[1] = queue[1] /\ i \in Nat /\ i < n
    BY <1>1 DEF Commands
  <2>2. CASE Postgres
    BY <1>1, <2>1, <2>2 DEF CommandOK, AtPostgres, Idle
  <2>3. CASE ~Postgres
    BY <1>1, <2>1, <2>3 DEF CommandOK, AtMySQL
  <2> QED BY <2>2, <2>3
<1>3. CommandOK(qq, longer, n)
  <2>1. n \in Nat /\ (queue = <<>> => n = 1) /\ (queue # <<>> => longer[1] = queue[1] /\ 1 \in 1..Len(queue))
    BY <1>1
  <2>2. CASE Postgres
    BY <1>1, <2>1, <2>2 DEF CommandOK, AtPostgres
  <2>3. CASE ~Postgres
    BY <1>1, <2>1, <2>3 DEF CommandOK, AtMySQL
  <2> QED BY <2>2, <2>3
<1>4. \A i \in 1..Len(longer) : i \in 1..Len(queue) \/ i = n
  BY <1>1
<1> QED BY <1>2, <1>3, <1>4 DEF Commands, longer

\* The first command is done.
LEMMA CommandsDone ==
  ASSUME NEW qq \in [Lease -> QueryState], NEW queue \in Seq(Command), Commands(qq, queue),
         queue # <<>>
  PROVE  Commands(qq, Tail(queue)) /\ Tail(queue) \in Seq(Command)
<1> DEFINE rest == Tail(queue)
           n == Len(queue)
<1>1. /\ rest \in Seq(Command) /\ n \in Nat /\ n >= 1 /\ Len(rest) = n - 1
      /\ \A i \in 1..(n - 1) : rest[i] = queue[i + 1] /\ i + 1 \in 1..n
  OBVIOUS
<1> HIDE DEF rest
<1>2. ASSUME NEW i \in 1..Len(rest) PROVE CommandOK(qq, rest, i)
  <2>1. i \in Nat /\ i >= 1 /\ i + 1 # 1 /\ (i + 1 = n => i = Len(rest)) /\ i + 1 \in 1..n
    BY <1>1
  <2>2. rest[i] = queue[i + 1] /\ rest[1] = queue[2] /\ 2 \in 1..n
    BY <1>1, <2>1
  <2>3. CommandOK(qq, queue, i + 1) /\ CommandOK(qq, queue, 2)
    BY <2>1, <2>2 DEF Commands
  <2>4. CASE Postgres
    BY <2>1, <2>2, <2>3, <2>4 DEF CommandOK, AtPostgres
  <2>5. CASE ~Postgres
    BY <2>1, <2>2, <2>3, <2>5 DEF CommandOK, AtMySQL
  <2> QED BY <2>4, <2>5
<1> QED BY <1>1, <1>2 DEF Commands, rest

\* Nobody awaits the commands of r any more.
LEMMA CommandsDeserted ==
  ASSUME NEW qq \in [Lease -> QueryState], NEW r \in Lease, NEW u \in QueryState,
         NEW queue \in Seq(Command), Commands(qq, queue), Serial(qq),
         NEW deserted \in Seq(Command), Len(deserted) = Len(queue),
         \A i \in 1..Len(queue) :
           /\ deserted[i].of = queue[i].of /\ deserted[i].does = queue[i].does
           /\ queue[i].of # r => deserted[i] = queue[i]
           /\ queue[i].of = r =>
                deserted[i].by = "nobody" /\ (Postgres => deserted[i].hit),
         InLease(qq, r), qq[r].pc # "resetting", u.pc \notin {"new", "released"},
         Monotone(qq[r], u), Postgres => CutShort(u), Owns(queue, r, u),
         ~Postgres /\ u.source # "none" /\ qq[r].source = "none" => queue = <<>>
  PROVE  /\ Commands([qq EXCEPT ![r] = u], deserted)
         /\ Postgres => Idle(deserted)
<1> DEFINE new == [qq EXCEPT ![r] = u]
<1>2. new \in [Lease -> QueryState] /\ new[r] = u /\ \A s \in Lease \ {r} : new[s] = qq[s]
  OBVIOUS
<1>3. ASSUME NEW i \in 1..Len(queue), queue[i].of # r, Postgres PROVE queue[i].by = "nobody"
  <2>1. queue[i] \in Command
    OBVIOUS
  <2>2. queue[i].of \in Lease /\ CommandOK(qq, queue, i) /\ queue[i].by \in {"consumer", "reset", "nobody"}
    BY <2>1 DEF Command, Commands
  <2>3. queue[i].by # "nobody" => InLease(qq, queue[i].of)
    BY <1>3, <2>2 DEF CommandOK, AtPostgres, Awaiting, InLease
  <2> QED BY <1>3, <2>2, <2>3, OneInLease
<1>4. Postgres => Idle(deserted)
  BY <1>3 DEF Idle
<1>5. ASSUME NEW i \in 1..Len(deserted) PROVE CommandOK(new, deserted, i)
  <2>0. queue[i] \in Command
    BY <1>5
  <2>1. CommandOK(qq, queue, i) /\ queue[i].of \in Lease
    BY <1>5, <2>0 DEF Commands, Command
  <2>2. deserted[i].of = queue[i].of /\ deserted[i].does = queue[i].does /\ deserted[1].of = queue[1].of
    BY <1>5
  <2>3. CutShort(qq[queue[i].of]) => CutShort(new[queue[i].of])
    BY <2>1, <1>2 DEF CutShort, Monotone
  <2> HIDE DEF new
  <2>4. new[queue[i].of].pc # "new" /\ \A s \in Lease : InLease(new, s) /\ new[s].source # "none" => queue[i].of = s
    BY <1>5, <2>1, <1>2 DEF CommandOK, InLease, Owns
  <2>5. CASE Postgres
    <3>1. AtPostgres(new, deserted[i], i, Len(deserted))
      BY <1>2, <1>4, <1>5, <2>1, <2>2, <2>3, <2>5 DEF CommandOK, AtPostgres, Idle
    <3> QED BY <2>2, <2>4, <2>5, <3>1 DEF CommandOK
  <2>6. CASE ~Postgres
    <3>1. AtMySQL(new, deserted[i], i, Len(deserted)) /\ queue[i].of = queue[1].of
      BY <1>2, <1>5, <2>1, <2>2, <2>6 DEF CommandOK, AtMySQL, InLease
    <3> QED BY <2>2, <2>4, <2>6, <3>1 DEF CommandOK
  <2> QED BY <2>5, <2>6
<1> QED BY <1>4, <1>5 DEF Commands

\* The first command is hit; if it is the ROLLBACK of reset(), with an excuse.
LEMMA CommandsKilled ==
  ASSUME NEW qq \in [Lease -> QueryState], NEW queue \in Seq(Command), Commands(qq, queue),
         queue # <<>>, Postgres /\ queue[1].by = "reset" => Excused(qq, queue[1].of)
  PROVE  /\ [queue EXCEPT ![1].hit = TRUE] \in Seq(Command)
         /\ Commands(qq, [queue EXCEPT ![1].hit = TRUE])
<1> DEFINE killed == [queue EXCEPT ![1].hit = TRUE]
<1>0. 1 \in 1..Len(queue)
  <2>1. Len(queue) \in Nat /\ Len(queue) >= 1
    BY EmptySeq
  <2> QED BY <2>1
<1>1. queue[1] \in Command
  BY <1>0
<1>2. [queue[1] EXCEPT !.hit = TRUE] \in Command
  BY <1>1 DEF Command
<1>3. killed = [queue EXCEPT ![1] = [queue[1] EXCEPT !.hit = TRUE]]
  OBVIOUS
<1>4. killed \in Seq(Command) /\ Len(killed) = Len(queue)
  BY <1>0, <1>2, <1>3
<1>5. \A i \in 1..Len(queue) :
        /\ killed[i].of = queue[i].of /\ killed[i].does = queue[i].does /\ killed[i].by = queue[i].by
        /\ i # 1 => killed[i] = queue[i]
        /\ i = 1 => killed[i].hit
  BY <1>1, <1>3, <1>4 DEF Command
<1> HIDE DEF killed
<1>6. ASSUME NEW i \in 1..Len(killed) PROVE CommandOK(qq, killed, i)
  <2>1. CommandOK(qq, queue, i) /\ i \in 1..Len(queue)
    BY <1>4, <1>6 DEF Commands
  <2>2. killed[1].of = queue[1].of
    BY <1>0, <1>5
  <2>3. CASE Postgres
    BY <1>4, <1>5, <2>1, <2>2, <2>3 DEF CommandOK, AtPostgres
  <2>4. CASE ~Postgres
    BY <1>4, <1>5, <2>1, <2>2, <2>4 DEF CommandOK, AtMySQL
  <2> QED BY <2>3, <2>4
<1> QED BY <1>4, <1>6 DEF killed, Commands

-----------------------------------------------------------------------------
(* All of it, when one lease changes *)

\* What the connection and the new record of r have to do with each other.
Tied(r, u, d) ==
  /\ Stage(u, r, d)
  /\ d.open \subseteq {d.active}
  /\ d.active = r => /\ u.pc \notin {"new", "resetting", "released"}
                     /\ u.source = "over" =>
                          u.pc = "unwinding" \/ (~Postgres /\ CutShort(u))
  /\ u.pc = "executing" => d.active = r /\ d.open = {}
  /\ d.txn = r /\ ~Postgres => stmt[r] = "begin"

\* A step of r within its lease.
LEMMA GoodKept ==
  ASSUME NEW qq, NEW c, Good(qq, c), NEW r \in Lease, InLease(qq, r),
         NEW u \in QueryState, NEW d \in ConnState,
         u.pc \notin {"new", "released"}, Monotone(qq[r], u), Tied(r, u, d),
         c.flags \ {r} \subseteq d.flags,
         d.active \in {c.active, NoQuery}, d.txn \in {c.txn, r, NoQuery},
         Commands([qq EXCEPT ![r] = u], d.queue),
         u.side = "draining" => qq[r].side = "draining",
         \/ \A s \in Lease : qq[s].side # "draining"
         \/ /\ u.pc \notin {"executing", "fetching", "unwinding", "clearing", "resetting"}
            /\ d.queue # <<>> /\ d.queue[1].of = c.queue[1].of /\ d.queue[1].does = c.queue[1].does
            /\ d.txn \in {c.txn, NoQuery}
  PROVE  Good([qq EXCEPT ![r] = u], d)
<1> USE DEF Good
<1>0. qq \in [Lease -> QueryState] /\ c \in ConnState
  BY DEF Types
<1>1. Types([qq EXCEPT ![r] = u], d)
  BY DEF Types
<1>2. Serial([qq EXCEPT ![r] = u])
  BY <1>0, SerialKept DEF InLease
<1>3. Stages([qq EXCEPT ![r] = u], d)
  BY <1>0, StagesKept DEF Tied
<1>4. Registered([qq EXCEPT ![r] = u], d)
  BY <1>0, RegisteredKept DEF Tied
<1>5. Drains([qq EXCEPT ![r] = u], d)
  <2>1. ASSUME NEW s \in Lease, [qq EXCEPT ![r] = u][s].side = "draining"
        PROVE  qq[s].side = "draining"
    BY <1>0, <2>1
  <2>2. CASE \A s \in Lease : qq[s].side # "draining"
    BY <2>1, <2>2 DEF Drains
  <2>3. CASE ~ \A s \in Lease : qq[s].side # "draining"
    <3>1. c.txn = NoQuery
      BY <2>3 DEF Drains
    <3>2. ASSUME NEW s \in Lease, [qq EXCEPT ![r] = u][s].side = "draining"
          PROVE  /\ qq[s].side = "draining"
                 /\ u.pc \notin {"executing", "fetching", "unwinding", "clearing", "resetting"}
                 /\ d.queue # <<>> /\ d.queue[1].of = c.queue[1].of /\ d.queue[1].does = c.queue[1].does
                 /\ d.txn = NoQuery
      BY <2>1, <2>3, <3>1, <3>2
    <3> HIDE DEF Good
    <3>3. Drains(qq, c)
      BY DEF Good
    <3> QED BY <1>0, <3>2, <3>3 DEF Drains
  <2> QED BY <2>2, <2>3
<1>6. Transactions([qq EXCEPT ![r] = u], d)
  BY <1>0, TransactionsKept DEF Tied
<1> QED BY <1>1, <1>2, <1>3, <1>4, <1>5, <1>6

\* Good does not read a variable but kind and stmt.
LEMMA Transfer ==
  ASSUME NEW qq, NEW d, Good(qq, d), q' = qq, conn' = d, UNCHANGED <<kind, stmt>>
  PROVE  IInv'
<1> USE DEF Good, IInv
<1>1. Types(q, conn)' /\ Serial(q)'
  BY DEF Types, Serial
<1>2. Stages(q, conn)' /\ Registered(q, conn)'
  BY DEF Stages, Stage, Registered, Postgres, CutShort
<1>3. Drains(q, conn)' /\ Transactions(q, conn)'
  BY DEF Drains, Transactions, Postgres, Excused, CutShort
<1>4. Commands(q, conn.queue)'
  BY DEF Commands, CommandOK, InLease, Postgres, AtPostgres, AtMySQL, HasRows, Excused, CutShort
<1> QED BY <1>1, <1>2, <1>3, <1>4

\* How every action of r ends.
LEMMA BecomesGood ==
  ASSUME NEW r \in Lease, NEW u, NEW d, Becomes(r, u, d), Good([q EXCEPT ![r] = u], d)
  PROVE  IInv'
BY Transfer DEF Becomes

\* r sits between two batches: where its generator is about to do something.
Mid(query) == [query EXCEPT !.pc = "holding", !.source = "suspended"]
\* The same query later on, its cancellation apart.
Later(query, u) ==
  /\ u \in QueryState /\ Monotone(query, u)
  /\ u.side = query.side /\ u.cancel = query.cancel /\ u.asked = query.asked

\* Sitting between two batches is only a matter of pc and source.
LEMMA MidLater ==
  ASSUME NEW query \in QueryState, NEW u, Later(query, u)
  PROVE  /\ Later(query, Mid(u)) /\ Mid(u).pc = "holding" /\ Mid(u).source = "suspended"
<1>1. u \in QueryState
  BY DEF Later
<1>2. /\ Mid(u).pc = "holding" /\ Mid(u).source = "suspended" /\ Mid(u).side = u.side
      /\ Mid(u).cancel = u.cancel /\ Mid(u).asked = u.asked /\ Mid(u).aborted = u.aborted
      /\ Mid(u).expired = u.expired
  BY <1>1 DEF Mid, QueryState
<1>3. Mid(u) \in QueryState
  BY <1>1 DEF Mid, QueryState
<1> QED BY <1>2, <1>3 DEF Later, Monotone

\* With query as the record of r, and c as the connection, nothing is awaited: the
\* state would be a good one if r sat between two batches.
Ready(r, query, c) ==
  /\ query \in QueryState /\ query.side = q[r].side
  /\ Good([q EXCEPT ![r] = Mid(query)], c) /\ (Postgres => Idle(c.queue))

\* PostgreSQL: a lessee that awaits nothing has nothing awaited at the server.
LEMMA IdleQueue ==
  ASSUME NEW qq, NEW c, Good(qq, c), NEW r \in Lease, InLease(qq, r),
         qq[r].pc \notin Awaiting, qq[r].pc # "resetting", Postgres
  PROVE  Idle(c.queue)
<1> SUFFICES ASSUME NEW i \in 1..Len(c.queue) PROVE c.queue[i].by = "nobody"
  BY DEF Idle
<1>1. qq \in [Lease -> QueryState] /\ Serial(qq) /\ CommandOK(qq, c.queue, i) /\ c.queue \in Seq(Command)
  BY DEF Good, Types, ConnState, Commands
<1>2. c.queue[i] \in Command
  BY <1>1
<1>3. c.queue[i].of \in Lease /\ c.queue[i].by \in {"consumer", "reset", "nobody"}
  BY <1>2 DEF Command
<1>4. c.queue[i].by # "nobody" =>
         InLease(qq, c.queue[i].of) /\ (qq[c.queue[i].of].pc \in Awaiting \/ qq[c.queue[i].of].pc = "resetting")
  BY <1>1, <1>3 DEF CommandOK, AtPostgres, InLease, Awaiting
<1> QED BY <1>1, <1>3, <1>4, OneInLease

\* A query that awaits nothing, or fetches from MySQL, is ready as it is.
LEMMA HoldHere ==
  ASSUME IInv, NEW r \in Lease,
         q[r].pc \in {"returned", "holding", "cancelling"} \/ (~Postgres /\ q[r].pc = "fetching"),
         NEW query, Later(q[r], query)
  PROVE  Ready(r, query, conn)
<1> DEFINE u == Mid(query)
<1>0. /\ Good(q, conn) /\ q \in [Lease -> QueryState] /\ conn \in ConnState
      /\ conn.queue \in Seq(Command) /\ Commands(q, conn.queue) /\ Stage(q[r], r, conn)
      /\ Registered(q, conn)
  BY DEF IInv, Good, Types, Stages, ConnState
<1>1. Later(q[r], u) /\ u.pc = "holding" /\ u.source = "suspended"
  BY <1>0, MidLater
<1> HIDE DEF u
<1>2. InLease(q, r) /\ q[r].source # "none" /\ q[r].pc \in Streaming
  BY <1>0 DEF InLease, Stage, Streaming
<1>3. Tied(r, u, conn)
  BY <1>0, <1>1, <1>2 DEF Tied, Stage, Streaming, Registered, Later, Monotone, CutShort,
     Good, Transactions
<1>4. Commands([q EXCEPT ![r] = u], conn.queue)
  <2>1. Owns(conn.queue, r, u)
    BY <1>0, <1>2 DEF Owns, Commands, CommandOK
  <2>2. Fits(conn.queue, r, u)
    BY <1>0, <1>1, <1>2 DEF Fits, Commands, CommandOK, AtPostgres, AtMySQL, Awaiting
  <2> QED BY <1>0, <1>1, <2>1, <2>2, CommandsKept DEF Later
<1>5. Good([q EXCEPT ![r] = u], conn)
  <2>1. \/ \A s \in Lease : q[s].side # "draining"
        \/ conn.queue # <<>>
    BY <1>0 DEF Good, Drains
  <2> QED BY <1>0, <1>1, <1>2, <1>3, <1>4, <2>1, GoodKept DEF Later
<1>6. Postgres => Idle(conn.queue)
  BY <1>0, <1>2, IdleQueue DEF Awaiting
<1> QED BY <1>5, <1>6 DEF Ready, u, Later

\* Popped changes the queue only.
LEMMA PoppedIs ==
  ASSUME conn \in ConnState, conn.queue # <<>>
  PROVE  /\ Popped \in ConnState /\ Popped.queue = Tail(conn.queue)
         /\ Popped.active = conn.active /\ Popped.flags = conn.flags
         /\ Popped.open = conn.open /\ Popped.txn = conn.txn
<1>1. conn.queue \in Seq(Command)
  BY DEF ConnState
<1>2. Tail(conn.queue) \in Seq(Command)
  BY <1>1, HeadTailProperties
<1> QED BY <1>2 DEF Popped, ConnState

\* And so for the transaction.
LEMMA TxnSet ==
  ASSUME NEW c \in ConnState, NEW t \in Lease \cup {NoQuery}
  PROVE  /\ [c EXCEPT !.txn = t] \in ConnState /\ [c EXCEPT !.txn = t].queue = c.queue
         /\ [c EXCEPT !.txn = t].active = c.active /\ [c EXCEPT !.txn = t].flags = c.flags
         /\ [c EXCEPT !.txn = t].open = c.open /\ [c EXCEPT !.txn = t].txn = t
BY DEF ConnState

\* Deserted changes the commands of r only.
LEMMA DesertedIs ==
  ASSUME conn \in ConnState, NEW r \in Lease
  PROVE  /\ Deserted(r) \in ConnState /\ Deserted(r).active = conn.active
         /\ Deserted(r).flags = conn.flags
         /\ Deserted(r).open = conn.open /\ Deserted(r).txn = conn.txn
         /\ Len(Deserted(r).queue) = Len(conn.queue)
         /\ \A i \in 1..Len(conn.queue) :
              /\ Deserted(r).queue[i].of = conn.queue[i].of
              /\ Deserted(r).queue[i].does = conn.queue[i].does
              /\ conn.queue[i].of # r => Deserted(r).queue[i] = conn.queue[i]
              /\ conn.queue[i].of = r =>
                   Deserted(r).queue[i].by = "nobody" /\ (Postgres => Deserted(r).queue[i].hit)
<1> DEFINE left(i) == IF conn.queue[i].of = r
                      THEN Unwatched(conn.queue[i])
                      ELSE conn.queue[i]
           deserted == [i \in 1..Len(conn.queue) |-> left(i)]
<1>1. conn.queue \in Seq(Command)
  BY DEF ConnState
<1>2. ASSUME NEW i \in 1..Len(conn.queue)
      PROVE  /\ left(i) \in Command
             /\ left(i).of = conn.queue[i].of /\ left(i).does = conn.queue[i].does
             /\ conn.queue[i].of # r => left(i) = conn.queue[i]
             /\ conn.queue[i].of = r => left(i).by = "nobody" /\ (Postgres => left(i).hit)
  <2>1. conn.queue[i] \in Command
    BY <1>1
  <2>2. CASE conn.queue[i].of = r
    BY <2>1, <2>2 DEF Command, Postgres, Unwatched
  <2>3. CASE conn.queue[i].of # r
    BY <2>1, <2>3
  <2> QED BY <2>2, <2>3
<1> HIDE DEF left
<1>3. deserted \in Seq(Command) /\ Len(deserted) = Len(conn.queue)
  BY <1>1, <1>2
<1>4. \A i \in 1..Len(conn.queue) : deserted[i] = left(i)
  OBVIOUS
<1>5. Deserted(r) = [conn EXCEPT !.queue = deserted]
  BY DEF Deserted, left
<1> HIDE DEF deserted
<1>6. /\ Deserted(r) \in ConnState /\ Deserted(r).active = conn.active
      /\ Deserted(r).flags = conn.flags /\ Deserted(r).open = conn.open
      /\ Deserted(r).txn = conn.txn /\ Deserted(r).queue = deserted
  BY <1>3, <1>5 DEF ConnState
<1> QED BY <1>2, <1>3, <1>4, <1>6

\* The parts of the invariant, to be cited at once.
LEMMA Held ==
  ASSUME IInv
  PROVE  /\ Good(q, conn) /\ q \in [Lease -> QueryState] /\ conn \in ConnState
         /\ conn.queue \in Seq(Command) /\ Commands(q, conn.queue) /\ Serial(q)
         /\ Registered(q, conn) /\ Drains(q, conn) /\ Transactions(q, conn)
         /\ \A r \in Lease : Stage(q[r], r, conn)
         /\ stmt \in [Lease -> Statement] /\ kind \in {"postgres", "mysql"}
BY DEF IInv, Good, Types, Stages, ConnState

\* What r awaits at the server is the only command there.
LEMMA Answered ==
  ASSUME IInv, NEW r \in Lease, NEW does, NEW by, Does(r, does, by),
         IF Postgres THEN by # "nobody" ELSE does = "rollback" \/ q[r].pc # "resetting"
  PROVE  Popped.queue = <<>> /\ Len(conn.queue) = 1
<1>1. /\ q \in [Lease -> QueryState] /\ conn \in ConnState /\ conn.queue \in Seq(Command)
      /\ Commands(q, conn.queue)
  BY Held
<1>2. Tail(conn.queue) = <<>> /\ Len(conn.queue) = 1
  BY <1>1, LastCommand DEF Does
<1> QED BY <1>1, <1>2, PoppedIs DEF Does

\* What r awaits is answered: it is ready.
LEMMA HoldPopped ==
  ASSUME IInv, NEW r \in Lease, q[r].pc \in {"opening", "fetching", "unwinding"},
         NEW does, NEW by, Does(r, does, by), Postgres => by # "nobody",
         NEW query, Later(q[r], query),
         NEW d, \/ d = Popped \/ d = [Popped EXCEPT !.txn = NoQuery]
                \/ d = [Popped EXCEPT !.txn = r] /\ (Postgres \/ stmt[r] = "begin")
  PROVE  Ready(r, query, d)
<1> DEFINE u == Mid(query)
<1>0. /\ Good(q, conn) /\ q \in [Lease -> QueryState] /\ conn \in ConnState
      /\ Commands(q, conn.queue) /\ Stage(q[r], r, conn) /\ Registered(q, conn)
  BY Held
<1>1. Later(q[r], u) /\ u.pc = "holding" /\ u.source = "suspended"
  BY <1>0, MidLater
<1> HIDE DEF u
<1>2. InLease(q, r) /\ q[r].source # "none" /\ q[r].pc \in Streaming
  BY <1>0 DEF InLease, Stage, Streaming
<1>3. /\ d \in ConnState /\ d.queue = <<>> /\ d.active = conn.active /\ d.flags = conn.flags
      /\ d.open = conn.open
      /\ d.txn \in {conn.txn, NoQuery} \/ (d.txn = r /\ (Postgres \/ stmt[r] = "begin"))
  <2>1. conn.queue # <<>> /\ Popped.queue = <<>>
    BY Answered DEF Does
  <2>2. /\ Popped \in ConnState /\ Popped.active = conn.active /\ Popped.flags = conn.flags
        /\ Popped.open = conn.open /\ Popped.txn = conn.txn
    BY <1>0, <2>1, PoppedIs
  <2>3. CASE d = Popped
    BY <2>1, <2>2, <2>3
  <2>4. CASE d = [Popped EXCEPT !.txn = r] /\ (Postgres \/ stmt[r] = "begin")
    BY <2>1, <2>2, <2>4, TxnSet
  <2>5. CASE d = [Popped EXCEPT !.txn = NoQuery]
    BY <2>1, <2>2, <2>5, TxnSet
  <2> QED BY <2>3, <2>4, <2>5
<1>4. Tied(r, u, d)
  <2>1. Stage(u, r, d)
    BY <1>0, <1>1, <1>2, <1>3 DEF Stage, Streaming, Later, Monotone, CutShort
  <2>2. d.txn = r /\ ~Postgres => stmt[r] = "begin"
    BY <1>0, <1>3, LeaseAssumption DEF Good, Transactions
  <2>3. d.open \subseteq {d.active}
    BY <1>0, <1>3 DEF Registered
  <2> QED BY <1>1, <2>1, <2>2, <2>3 DEF Tied
<1>5. \A s \in Lease : q[s].side # "draining"
  BY <1>0 DEF Good, Drains, Stage, Stages
<1>6. Good([q EXCEPT ![r] = u], d)
  BY <1>0, <1>1, <1>2, <1>3, <1>4, <1>5, CommandsEmpty, GoodKept DEF Later
<1> QED BY <1>3, <1>6 DEF Ready, u, Later, Idle

\* PostgreSQL: r gives up what it awaits: it is ready.
LEMMA HoldDeserted ==
  ASSUME IInv, Postgres, NEW r \in Lease, q[r].pc \in {"opening", "fetching", "unwinding"},
         NEW query, Later(q[r], query), CutShort(query),
         NEW d, d \in {Deserted(r), [Deserted(r) EXCEPT !.txn = r]}
  PROVE  Ready(r, query, d)
<1> DEFINE u == Mid(query)
<1>0. /\ Good(q, conn) /\ q \in [Lease -> QueryState] /\ conn \in ConnState /\ Serial(q)
      /\ conn.queue \in Seq(Command)
      /\ Commands(q, conn.queue) /\ Stage(q[r], r, conn) /\ Registered(q, conn)
  BY Held
<1>1. Later(q[r], u) /\ u.pc = "holding" /\ u.source = "suspended"
  BY <1>0, MidLater
<1>2. CutShort(u)
  BY DEF CutShort, Mid, Later, QueryState
<1> HIDE DEF u
<1>3. InLease(q, r) /\ q[r].source # "none" /\ q[r].pc \in Streaming
  BY <1>0 DEF InLease, Stage, Streaming
<1>4. /\ d \in ConnState /\ d.queue = Deserted(r).queue /\ d.active = conn.active
      /\ d.flags = conn.flags /\ d.open = conn.open /\ d.txn \in {conn.txn, r}
  <2>1. /\ Deserted(r) \in ConnState /\ Deserted(r).active = conn.active
        /\ Deserted(r).flags = conn.flags
        /\ Deserted(r).open = conn.open /\ Deserted(r).txn = conn.txn
    BY <1>0, DesertedIs
  <2>2. CASE d = Deserted(r)
    BY <2>1, <2>2
  <2>3. CASE d = [Deserted(r) EXCEPT !.txn = r]
    BY <2>1, <2>3, TxnSet
  <2> QED BY <2>2, <2>3
<1>5. Tied(r, u, d)
  BY <1>0, <1>1, <1>2, <1>3, <1>4 DEF Tied, Stage, Streaming, Registered, Later, Monotone,
     CutShort, Good, Transactions
<1>6. \A s \in Lease : q[s].side # "draining"
  BY <1>0 DEF Good, Stage, Stages
<1>7. Commands([q EXCEPT ![r] = u], d.queue) /\ Idle(d.queue)
  <2>1. Owns(conn.queue, r, u)
    BY <1>0, <1>3 DEF Owns, Commands, CommandOK
  <2>2. Deserted(r).queue \in Seq(Command)
    BY <1>4 DEF ConnState
  <2>3. /\ Len(Deserted(r).queue) = Len(conn.queue)
        /\ \A i \in 1..Len(conn.queue) :
             /\ Deserted(r).queue[i].of = conn.queue[i].of
             /\ Deserted(r).queue[i].does = conn.queue[i].does
             /\ conn.queue[i].of # r => Deserted(r).queue[i] = conn.queue[i]
             /\ conn.queue[i].of = r =>
                  Deserted(r).queue[i].by = "nobody" /\ (Postgres => Deserted(r).queue[i].hit)
    BY <1>0, DesertedIs
  <2>4. u \in QueryState /\ Monotone(q[r], u)
    BY <1>1 DEF Later
  <2>5. Commands([q EXCEPT ![r] = u], Deserted(r).queue) /\ Idle(Deserted(r).queue)
    BY <1>0, <1>1, <1>2, <1>3, <2>1, <2>2, <2>3, <2>4, CommandsDeserted
  <2> QED BY <1>4, <2>5
<1>8. Good([q EXCEPT ![r] = u], d)
  BY <1>0, <1>1, <1>3, <1>4, <1>5, <1>6, <1>7, GoodKept DEF Later
<1> QED BY <1>7, <1>8 DEF Ready, u, Later

\* Killed marks the first command, if there is one.
LEMMA KilledIs ==
  ASSUME conn \in ConnState
  PROVE  /\ Killed.active = conn.active /\ Killed.flags = conn.flags
         /\ Killed.open = conn.open /\ Killed.txn = conn.txn
         /\ conn.queue = <<>> => Killed = conn
         /\ conn.queue # <<>> => Killed.queue = [conn.queue EXCEPT ![1].hit = TRUE]
BY DEF Killed, ConnState

\* A kill in a good state hits a command that may be hit.
LEMMA KilledGood ==
  ASSUME NEW qq, Good(qq, conn), conn.queue # <<>>,
         Postgres /\ conn.queue[1].by = "reset" => Excused(qq, conn.queue[1].of)
  PROVE  /\ Killed \in ConnState /\ Commands(qq, Killed.queue)
         /\ Killed.queue # <<>> /\ Len(Killed.queue) = Len(conn.queue)
         /\ Killed.queue[1].of = conn.queue[1].of /\ Killed.queue[1].does = conn.queue[1].does
         /\ \A i \in 1..Len(conn.queue) : Killed.queue[i].by = conn.queue[i].by
<1> DEFINE killed == [conn.queue EXCEPT ![1].hit = TRUE]
<1>1. /\ qq \in [Lease -> QueryState] /\ conn \in ConnState /\ conn.queue \in Seq(Command)
      /\ Commands(qq, conn.queue)
  BY DEF Good, Types, ConnState
<1>2. killed \in Seq(Command) /\ Commands(qq, killed)
  BY <1>1, CommandsKilled
<1>3. Killed.queue = killed /\ Killed \in ConnState
  BY <1>1, <1>2, KilledIs DEF Killed, ConnState
<1>4. /\ Len(killed) = Len(conn.queue) /\ 1 \in 1..Len(conn.queue)
      /\ killed = [conn.queue EXCEPT ![1] = [conn.queue[1] EXCEPT !.hit = TRUE]]
  <2>1. Len(conn.queue) \in Nat /\ Len(conn.queue) >= 1
    BY <1>1, EmptySeq
  <2> QED BY <1>1, <2>1
<1>5. conn.queue[1] \in Command
  BY <1>1, <1>4
<1>6. /\ killed[1].of = conn.queue[1].of /\ killed[1].does = conn.queue[1].does
      /\ \A i \in 1..Len(conn.queue) : killed[i].by = conn.queue[i].by
  BY <1>1, <1>4, <1>5 DEF Command
<1>7. killed # <<>>
  BY <1>2, <1>4, EmptySeq
<1> QED BY <1>2, <1>3, <1>4, <1>6, <1>7

\* It changes nothing else.
LEMMA KilledKeeps ==
  ASSUME NEW qq, Good(qq, conn), conn.queue # <<>>,
         Postgres /\ conn.queue[1].by = "reset" => Excused(qq, conn.queue[1].of)
  PROVE  Good(qq, Killed)
<1>1. /\ Killed \in ConnState /\ Commands(qq, Killed.queue) /\ Killed.queue # <<>>
      /\ Killed.queue[1].of = conn.queue[1].of /\ Killed.queue[1].does = conn.queue[1].does
  BY KilledGood
<1>2. /\ Killed.active = conn.active /\ Killed.flags = conn.flags
      /\ Killed.open = conn.open /\ Killed.txn = conn.txn
  BY KilledIs DEF Good, Types
<1>3. Types(qq, Killed) /\ Serial(qq)
  BY <1>1 DEF Good, Types
<1>4. Stages(qq, Killed)
  BY <1>2 DEF Good, Stages, Stage
<1>5. Registered(qq, Killed)
  BY <1>2 DEF Good, Registered
<1>6. Drains(qq, Killed)
  BY <1>1, <1>2 DEF Good, Drains
<1>7. Transactions(qq, Killed)
  BY <1>2 DEF Good, Transactions
<1> QED BY <1>1, <1>3, <1>4, <1>5, <1>6, <1>7 DEF Good

\* A step of r alone, from a state in which nothing is awaited.
LEMMA ReadyStep ==
  ASSUME NEW r \in Lease, q \in [Lease -> QueryState], NEW query, NEW c, Ready(r, query, c),
         NEW u \in QueryState, NEW d \in ConnState,
         u.pc \notin {"new", "released", "executing"}, Monotone(query, u), Tied(r, u, d),
         u.side = query.side,
         c.flags \ {r} \subseteq d.flags, d.active \in {c.active, NoQuery}, d.txn = c.txn,
         \/ d.queue = c.queue
         \/ /\ Postgres /\ u.pc \in Awaiting
            /\ \E command \in Command :
                 /\ command.of = r /\ command.by = "consumer" /\ ~command.hit
                 /\ d.queue = Append(c.queue, command),
         u.pc \notin {"executing", "fetching", "unwinding", "clearing", "resetting"} \/ Postgres
           \/ (\A s \in Lease : q[s].side # "draining")
  PROVE  Good([q EXCEPT ![r] = u], d)
<1> DEFINE mid == Mid(query)
           qq == [q EXCEPT ![r] = mid]
<1>0. /\ query \in QueryState /\ query.side = q[r].side /\ Good(qq, c)
      /\ (Postgres => Idle(c.queue))
  BY DEF Ready
<1>1. /\ mid \in QueryState /\ mid.pc = "holding" /\ mid.source = "suspended"
      /\ mid.side = query.side /\ Monotone(mid, u)
  <2>1. Later(query, query)
    BY <1>0 DEF Later, Monotone
  <2>2. Later(query, mid) /\ mid.pc = "holding" /\ mid.source = "suspended"
    BY <1>0, <2>1, MidLater
  <2>3. mid.aborted = query.aborted /\ mid.expired = query.expired /\ mid.asked = query.asked
    BY <1>0 DEF Mid, QueryState
  <2> QED BY <2>2, <2>3 DEF Later, Monotone
<1> HIDE DEF mid
<1>2. qq \in [Lease -> QueryState] /\ qq[r] = mid /\ \A s \in Lease \ {r} : qq[s] = q[s]
  BY <1>1
<1>3. [qq EXCEPT ![r] = u] = [q EXCEPT ![r] = u]
  BY <1>1
<1>4. c \in ConnState /\ c.queue \in Seq(Command) /\ Commands(qq, c.queue) /\ InLease(qq, r) /\ Serial(qq)
  BY <1>0, <1>1, <1>2 DEF Good, Types, ConnState, InLease
<1>5. Commands([q EXCEPT ![r] = u], c.queue)
  <2>1. Owns(c.queue, r, u)
    BY <1>1, <1>2, <1>4 DEF Owns, Commands, CommandOK, InLease
  <2>2. Fits(c.queue, r, u)
    BY <1>0, <1>1, <1>2, <1>4 DEF Fits, Commands, CommandOK, AtMySQL, Idle
  <2>3. Commands([qq EXCEPT ![r] = u], c.queue)
    BY <1>1, <1>2, <1>4, <2>1, <2>2, CommandsKept
  <2> QED BY <1>3, <2>3
<1>6. Commands([q EXCEPT ![r] = u], d.queue)
  <2>1. CASE d.queue = c.queue
    BY <1>5, <2>1
  <2>2. CASE /\ Postgres /\ u.pc \in Awaiting
             /\ \E command \in Command :
                  /\ command.of = r /\ command.by = "consumer" /\ ~command.hit
                  /\ d.queue = Append(c.queue, command)
    <3> DEFINE new == [q EXCEPT ![r] = u]
    <3>1. PICK command \in Command : /\ command.of = r /\ command.by = "consumer" /\ ~command.hit
                                     /\ d.queue = Append(c.queue, command)
      BY <2>2
    <3>2. new \in [Lease -> QueryState] /\ new[r] = u
      OBVIOUS
    <3>3. \A s \in Lease : InLease(new, s) => s = r
      <4> SUFFICES ASSUME NEW s \in Lease, s # r, InLease(new, s) PROVE FALSE
        OBVIOUS
      <4>1. InLease(qq, s)
        BY <1>2 DEF InLease
      <4> QED BY <1>2, <1>4, <4>1, OneInLease
    <3> HIDE DEF new
    <3>4. Commands(new, c.queue) /\ Idle(c.queue)
      BY <1>0, <1>5, <2>2 DEF new
    <3>5. Commands(new, Append(c.queue, command))
      BY <1>4, <2>2, <3>1, <3>2, <3>3, <3>4, CommandsSent
    <3> QED BY <3>1, <3>5 DEF new
  <2> QED BY <2>1, <2>2
<1>7. \/ \A s \in Lease : qq[s].side # "draining"
      \/ /\ u.pc \notin {"executing", "fetching", "unwinding", "clearing", "resetting"}
         /\ d.queue # <<>> /\ d.queue[1].of = c.queue[1].of /\ d.queue[1].does = c.queue[1].does
         /\ d.txn \in {c.txn, NoQuery}
  <2>1. CASE \A s \in Lease : q[s].side # "draining"
    BY <1>0, <1>1, <1>2, <2>1
  <2>2. CASE Postgres
    BY <1>0, <2>2 DEF Good, Stages, Stage
  <2>3. CASE ~Postgres /\ u.pc \notin {"executing", "fetching", "unwinding", "clearing", "resetting"}
    BY <1>0, <2>3 DEF Good, Drains
  <2> QED BY <2>1, <2>2, <2>3
<1>8. Good([qq EXCEPT ![r] = u], d)
  <2>1. Commands([qq EXCEPT ![r] = u], d.queue)
    BY <1>3, <1>6
  <2> HIDE DEF qq
  <2> QED BY <1>0, <1>1, <1>2, <1>4, <1>7, <2>1, GoodKept
<1> QED BY <1>3, <1>8

\* Sent adds one command.
LEMMA SentIs ==
  ASSUME NEW c \in ConnState, NEW r \in Lease,
         NEW does \in {"prepare", "statement", "open", "fetch", "rollback"},
         NEW by \in {"consumer", "reset"}
  PROVE  /\ Sent(c, r, does, by) \in ConnState
         /\ Sent(c, r, does, by).active = c.active /\ Sent(c, r, does, by).flags = c.flags
         /\ Sent(c, r, does, by).open = c.open /\ Sent(c, r, does, by).txn = c.txn
         /\ \E command \in Command :
              /\ command.of = r /\ command.does = does /\ command.by = by /\ ~command.hit
              /\ Sent(c, r, does, by).queue = Append(c.queue, command)
<1> DEFINE command == [of |-> r, does |-> does, by |-> by, hit |-> FALSE]
<1>1. /\ command \in Command
      /\ command.of = r /\ command.does = does /\ command.by = by /\ ~command.hit
  BY DEF Command
<1>2. c.queue \in Seq(Command)
  BY DEF ConnState
<1>3. Append(c.queue, command) \in Seq(Command)
  BY <1>1, <1>2
<1>4. Sent(c, r, does, by) = [c EXCEPT !.queue = Append(c.queue, command)]
  BY DEF Sent
<1> HIDE DEF command
<1>5. /\ Sent(c, r, does, by) \in ConnState
      /\ Sent(c, r, does, by).active = c.active /\ Sent(c, r, does, by).flags = c.flags
      /\ Sent(c, r, does, by).open = c.open /\ Sent(c, r, does, by).txn = c.txn
      /\ Sent(c, r, does, by).queue = Append(c.queue, command)
  BY <1>3, <1>4 DEF ConnState
<1> QED BY <1>1, <1>5

\* Forgotten unregisters r.
LEMMA ForgottenIs ==
  ASSUME NEW c \in ConnState, NEW r \in Lease
  PROVE  /\ Forgotten(c, r) \in ConnState /\ Forgotten(c, r).flags = c.flags \ {r}
         /\ Forgotten(c, r).open = c.open \ {r}
         /\ Forgotten(c, r).active = (IF c.active = r THEN NoQuery ELSE c.active)
         /\ Forgotten(c, r).txn = c.txn /\ Forgotten(c, r).queue = c.queue
BY DEF Forgotten, ConnState

\* What a Ready state says of r.
Known(r, query, c) ==
  /\ c \in ConnState /\ c.queue \in Seq(Command) /\ query \in QueryState
  /\ query.side = q[r].side
  /\ c.open \subseteq {c.active}
  /\ query.cancel => r \in c.flags
  /\ query.asked => query.cancel
  /\ query.side # "idle" => query.cancel
  /\ query.side = "connecting" => query.asked \/ (~Postgres /\ CutShort(query))
  /\ query.side = "draining" => ~Postgres
  /\ c.txn = r /\ ~Postgres => stmt[r] = "begin"
  /\ \A s \in Lease : q[s].side = "draining" => s = r

\* A Ready state ties the record and the connection.
LEMMA ReadyIs ==
  ASSUME NEW r \in Lease, q \in [Lease -> QueryState], NEW query, NEW c, Ready(r, query, c)
  PROVE  Known(r, query, c)
<1> DEFINE mid == Mid(query)
           qq == [q EXCEPT ![r] = mid]
<1>0. query \in QueryState /\ query.side = q[r].side /\ Good(qq, c)
  BY DEF Ready
<1>1. /\ mid.pc = "holding" /\ mid.source = "suspended"
      /\ mid.side = query.side /\ mid.asked = query.asked
      /\ mid.cancel = query.cancel /\ CutShort(mid) = CutShort(query)
  BY <1>0 DEF Mid, QueryState, CutShort
<1> HIDE DEF mid
<1>2. qq[r] = mid /\ \A s \in Lease \ {r} : qq[s] = q[s]
  OBVIOUS
<1> HIDE DEF qq
<1>3. /\ c \in ConnState /\ c.queue \in Seq(Command) /\ Stage(mid, r, c) /\ Registered(qq, c)
      /\ Transactions(qq, c) /\ Drains(qq, c) /\ Commands(qq, c.queue)
  BY <1>0, <1>2 DEF Good, Types, ConnState, Stages
<1>4. ASSUME NEW s \in Lease, q[s].side = "draining" PROVE s = r
  <2>1. qq[s].side = "draining"
    BY <1>0, <1>1, <1>2, <1>4
  <2>2. c.queue # <<>> /\ c.queue[1].of = s
    BY <1>3, <2>1 DEF Drains
  <2>3. 1 \in 1..Len(c.queue)
    BY <1>3, <2>2, EmptySeq
  <2>4. CommandOK(qq, c.queue, 1)
    BY <1>3, <2>3 DEF Commands
  <2> QED BY <1>1, <1>2, <2>2, <2>4 DEF CommandOK, InLease
<1> QED BY <1>0, <1>1, <1>3, <1>4 DEF Known, Stage, Streaming, Registered, Transactions

\* From a Ready state: forgotten, and over; or over only, if it was never iterated.
LEMMA FinishGood ==
  ASSUME NEW r \in Lease, q \in [Lease -> QueryState], NEW query, NEW c, Ready(r, query, c),
         Finish(r, query, c)
  PROVE  IInv'
<1> DEFINE unused == [query EXCEPT !.pc = "ended"]
           over == [query EXCEPT !.pc = "ended", !.source = "over"]
<1>0. Known(r, query, c)
  BY ReadyIs
<1>1. /\ over \in QueryState /\ over.pc = "ended" /\ over.source = "over" /\ over.side = query.side
      /\ over.asked = query.asked /\ over.cancel = query.cancel
      /\ over.aborted = query.aborted /\ over.expired = query.expired
  BY <1>0 DEF Known, QueryState
<1>2. /\ unused \in QueryState /\ unused.pc = "ended" /\ unused.source = query.source
      /\ unused.side = query.side /\ unused.asked = query.asked /\ unused.cancel = query.cancel
      /\ unused.aborted = query.aborted /\ unused.expired = query.expired
  BY <1>0 DEF Known, QueryState
<1>3. \/ query.source = "fresh" /\ Becomes(r, unused, c)
      \/ Becomes(r, over, Forgotten(c, r))
  BY Zenon DEF Finish
<1> HIDE DEF over, unused
<1>4. CASE query.source = "fresh" /\ Becomes(r, unused, c)
  <2>1. Tied(r, unused, c) /\ Monotone(query, unused)
    BY <1>0, <1>2, <1>4 DEF Known, Tied, Stage, Streaming, CutShort, Monotone
  <2>2. Good([q EXCEPT ![r] = unused], c)
    BY <1>0, <1>2, <2>1, ReadyStep DEF Known
  <2> QED BY <1>4, <2>2, BecomesGood
<1>5. CASE Becomes(r, over, Forgotten(c, r))
  <2>1. Tied(r, over, Forgotten(c, r))
    BY <1>0, <1>1, ForgottenIs, LeaseAssumption DEF Known, Tied, Stage, Streaming, CutShort
  <2>2. /\ Forgotten(c, r) \in ConnState /\ c.flags \ {r} \subseteq Forgotten(c, r).flags
        /\ Forgotten(c, r).active \in {c.active, NoQuery} /\ Forgotten(c, r).txn = c.txn
        /\ Forgotten(c, r).queue = c.queue
    BY <1>0, ForgottenIs DEF Known
  <2>3. /\ Monotone(query, over)
        /\ over.pc \notin {"new", "released", "executing", "fetching", "unwinding", "clearing", "resetting"}
    BY <1>1 DEF Monotone
  <2>4. Good([q EXCEPT ![r] = over], Forgotten(c, r))
    BY <1>1, <2>1, <2>2, <2>3, ReadyStep
  <2> QED BY <1>5, <2>4, BecomesGood
<1> QED BY <1>3, <1>4, <1>5

\* From a Ready state: the way out, with its ROLLBACK or the rows that are left.
LEMMA UnwindGood ==
  ASSUME NEW r \in Lease, q \in [Lease -> QueryState], NEW query, NEW c, Ready(r, query, c),
         Unwind(r, query, c)
  PROVE  IInv'
<1> DEFINE out == [query EXCEPT !.pc = "unwinding", !.source = IF @ = "fresh" THEN @ ELSE "over"]
<1>0. Known(r, query, c)
  BY ReadyIs
<1>1. /\ out \in QueryState /\ out.pc = "unwinding" /\ out.source \in {"fresh", "over"} /\ out.side = query.side
      /\ out.asked = query.asked /\ out.cancel = query.cancel
      /\ out.aborted = query.aborted /\ out.expired = query.expired
  BY <1>0 DEF Known, QueryState
<1>3. \/ Finish(r, query, c)
      \/ Postgres /\ Becomes(r, out, Sent(c, r, "rollback", "consumer"))
      \/ /\ ~Postgres /\ Working(c, r) /\ q[r].side # "draining"
         /\ Becomes(r, out, c)
  BY Zenon DEF Unwind
<1> HIDE DEF out
<1>4. CASE Finish(r, query, c)
  BY <1>4, FinishGood
<1>5. CASE Postgres /\ Becomes(r, out, Sent(c, r, "rollback", "consumer"))
  <2> DEFINE d == Sent(c, r, "rollback", "consumer")
  <2>1. /\ d \in ConnState /\ d.active = c.active /\ d.flags = c.flags /\ d.open = c.open
        /\ d.txn = c.txn
        /\ \E command \in Command :
             /\ command.of = r /\ command.by = "consumer" /\ ~command.hit
             /\ d.queue = Append(c.queue, command)
    BY <1>0, SentIs DEF Known
  <2> HIDE DEF d
  <2>2. Tied(r, out, d)
    BY <1>0, <1>1, <1>5, <2>1 DEF Known, Tied, Stage, Streaming, CutShort
  <2>3. Monotone(query, out) /\ out.pc \in Awaiting /\ out.pc \notin {"new", "released", "executing"}
    BY <1>1 DEF Monotone, Awaiting
  <2>4. c.flags \ {r} \subseteq d.flags /\ d.active \in {c.active, NoQuery}
    BY <2>1
  <2>5. Good([q EXCEPT ![r] = out], d)
    BY <1>1, <1>5, <2>1, <2>2, <2>3, <2>4, ReadyStep
  <2> QED BY <1>5, <2>5, BecomesGood DEF d
<1>6. CASE /\ ~Postgres /\ Working(c, r) /\ q[r].side # "draining"
           /\ Becomes(r, out, c)
  <2>1. Tied(r, out, c)
    BY <1>0, <1>1, <1>6 DEF Known, Tied, Stage, Streaming, CutShort
  <2>2. Good([q EXCEPT ![r] = out], c)
    BY <1>0, <1>1, <1>6, <2>1, ReadyStep DEF Known, Monotone
  <2> QED BY <1>6, <2>2, BecomesGood
<1> QED BY <1>3, <1>4, <1>5, <1>6

\* Ready states do not depend on where r is.
LEMMA ReadyLater ==
  ASSUME NEW r \in Lease, q \in [Lease -> QueryState], NEW query, NEW c, Ready(r, query, c),
         NEW u, Later(query, u)
  PROVE  Ready(r, u, c)
<1> DEFINE mid == Mid(u)
<1>0. Known(r, query, c)
  BY ReadyIs
<1>1. Later(query, mid) /\ mid.pc = "holding" /\ mid.source = "suspended"
  BY <1>0, MidLater DEF Known
<1> HIDE DEF mid
<1>2. Tied(r, mid, c)
  BY <1>0, <1>1 DEF Known, Tied, Stage, Streaming, Later, Monotone, CutShort
<1>3. Good([q EXCEPT ![r] = mid], c)
  BY <1>0, <1>1, <1>2, ReadyStep DEF Known, Later
<1> QED BY <1>3 DEF Ready, Later, mid

\* From a Ready state: aclose().
LEMMA CloseGood ==
  ASSUME NEW r \in Lease, q \in [Lease -> QueryState], NEW query, NEW c, Ready(r, query, c),
         Close(r, query, c)
  PROVE  IInv'
<1>1. query \in QueryState
  BY DEF Ready
<1>2. Later(query, [query EXCEPT !.closing = TRUE])
  BY <1>1 DEF Later, Monotone, QueryState
<1> QED BY <1>2, ReadyLater, UnwindGood DEF Close

\* From a Ready state: a batch for the executor, which may find the query cancelled.
LEMMA DeliverGood ==
  ASSUME NEW r \in Lease, q \in [Lease -> QueryState], NEW query, NEW c, Ready(r, query, c),
         query.source \notin {"none", "over"}, NEW rows \in Nat, Deliver(r, rows, query, c)
  PROVE  IInv'
<1> DEFINE u == [query EXCEPT !.pc = "holding", !.got = query.got + rows]
<1>0. Known(r, query, c)
  BY ReadyIs
<1>1. CASE Close(r, query, c)
  BY <1>1, CloseGood
<1>2. CASE Becomes(r, u, c)
  <2>1. /\ u.pc = "holding" /\ u.source = query.source /\ u.side = query.side
        /\ u.asked = query.asked /\ u.cancel = query.cancel
        /\ u.aborted = query.aborted /\ u.expired = query.expired
    BY <1>0 DEF Known, QueryState
  <2>2. u \in QueryState
    <3>1. query.got + rows \in Nat
      BY <1>0 DEF Known, QueryState
    <3> QED BY <1>0, <3>1, ZenonT(60) DEF Known, QueryState
  <2> HIDE DEF u
  <2>3. Tied(r, u, c)
    BY <1>0, <2>1 DEF Known, Tied, Stage, Streaming, CutShort
  <2>4. Monotone(query, u)
    BY <2>1 DEF Monotone
  <2>5. Good([q EXCEPT ![r] = u], c)
    BY <1>0, <2>1, <2>2, <2>3, <2>4, ReadyStep DEF Known
  <2> QED BY <1>2, <2>5, BecomesGood
<1> QED BY <1>1, <1>2 DEF Deliver

\* From a Ready state: the next fetch, unless the flag is set.
LEMMA FetchGood ==
  ASSUME NEW r \in Lease, q \in [Lease -> QueryState], NEW query, NEW c, Ready(r, query, c),
         FetchUnlessCancelled(r, query, c)
  PROVE  IInv'
<1> DEFINE u == [query EXCEPT !.pc = "fetching", !.source = "suspended"]
           d == IF Postgres THEN Sent(c, r, "fetch", "consumer") ELSE c
<1>0. Known(r, query, c)
  BY ReadyIs
<1>1. CASE Unwind(r, query, c)
  BY <1>1, UnwindGood
<1>2. CASE r \notin c.flags /\ Becomes(r, u, d)
  <2>1. /\ u.pc = "fetching" /\ u.source = "suspended" /\ u.side = query.side
        /\ u.asked = query.asked /\ u.cancel = query.cancel
        /\ u.aborted = query.aborted /\ u.expired = query.expired
    BY <1>0 DEF Known, QueryState
  <2>2. u \in QueryState
    BY <1>0 DEF Known, QueryState
  <2> HIDE DEF u
  <2>3. /\ d \in ConnState /\ d.active = c.active /\ d.flags = c.flags /\ d.open = c.open
        /\ d.txn = c.txn
        /\ \/ d.queue = c.queue
           \/ /\ Postgres
              /\ \E command \in Command :
                   /\ command.of = r /\ command.by = "consumer" /\ ~command.hit
                   /\ d.queue = Append(c.queue, command)
    <3>1. CASE Postgres
      BY <1>0, <3>1, SentIs DEF Known
    <3>2. CASE ~Postgres
      BY <1>0, <3>2 DEF Known
    <3> QED BY <3>1, <3>2
  <2> HIDE DEF d
  <2>4. Tied(r, u, d)
    BY <1>0, <2>1, <2>3 DEF Known, Tied, Stage, Streaming, CutShort
  <2>5. Monotone(query, u) /\ u.pc \in Awaiting
    BY <2>1 DEF Monotone, Awaiting
  <2>6. \A s \in Lease : q[s].side # "draining"
    BY <1>0, <1>2 DEF Known
  <2>7. c.flags \ {r} \subseteq d.flags /\ d.active \in {c.active, NoQuery} /\ u.pc \notin {"new", "released", "executing"}
    BY <2>1, <2>3
  <2>8. Good([q EXCEPT ![r] = u], d)
    BY <2>1, <2>2, <2>3, <2>4, <2>5, <2>6, <2>7, ReadyStep
  <2> QED BY <1>2, <2>8, BecomesGood
<1> QED BY <1>1, <1>2 DEF FetchUnlessCancelled

\* From a Ready state, PostgreSQL: the portal is opened or the statement run.
LEMMA SendGood ==
  ASSUME NEW r \in Lease, q \in [Lease -> QueryState], Postgres, NEW query, NEW c, Ready(r, query, c),
         NEW pc \in {"opening", "fetching"}, NEW does \in {"statement", "open"},
         NEW u, u = [query EXCEPT !.pc = pc, !.source = "suspended"],
         Becomes(r, u, Sent(c, r, does, "consumer"))
  PROVE  IInv'
<1> DEFINE d == Sent(c, r, does, "consumer")
<1>0. Known(r, query, c)
  BY ReadyIs
<1>1. /\ u \in QueryState /\ u.pc = pc /\ u.source = "suspended" /\ u.side = query.side
      /\ u.asked = query.asked /\ u.cancel = query.cancel
      /\ u.aborted = query.aborted /\ u.expired = query.expired
  BY <1>0 DEF Known, QueryState
<1>2. /\ d \in ConnState /\ d.active = c.active /\ d.flags = c.flags /\ d.open = c.open
      /\ d.txn = c.txn
      /\ \E command \in Command :
           /\ command.of = r /\ command.by = "consumer" /\ ~command.hit
           /\ d.queue = Append(c.queue, command)
  <2>1. CASE does = "statement"
    BY <1>0, <2>1, SentIs DEF Known
  <2>2. CASE does = "open"
    BY <1>0, <2>2, SentIs DEF Known
  <2> QED BY <2>1, <2>2
<1> HIDE DEF d
<1>3. Tied(r, u, d)
  BY <1>0, <1>1, <1>2 DEF Known, Tied, Stage, Streaming, CutShort
<1>4. Monotone(query, u) /\ u.pc \in Awaiting /\ u.pc \notin {"new", "released", "executing"}
  BY <1>1 DEF Monotone, Awaiting
<1>5. c.flags \ {r} \subseteq d.flags /\ d.active \in {c.active, NoQuery}
  BY <1>2
<1>6. Good([q EXCEPT ![r] = u], d)
  BY <1>1, <1>2, <1>3, <1>4, <1>5, ReadyStep
<1> QED BY <1>6, BecomesGood DEF d

\* The records the actions make are later ones.
LEMMA LaterSelf ==
  ASSUME NEW query \in QueryState
  PROVE  /\ Later(query, query)
         /\ \A source \in {"suspended", "last"} : Later(query, [query EXCEPT !.source = source])
         /\ Later(query, [query EXCEPT !.expired = TRUE])
         /\ Later(query, [query EXCEPT !.aborted = TRUE])
         /\ \A pc \in {"cancelling", "ended"} :
              /\ Later(query, [[query EXCEPT !.expired = TRUE] EXCEPT !.pc = pc])
              /\ Later(query, [[query EXCEPT !.aborted = TRUE] EXCEPT !.pc = pc])
         /\ CutShort([query EXCEPT !.expired = TRUE]) /\ CutShort([query EXCEPT !.aborted = TRUE])
<1>1. /\ Later(query, query)
      /\ \A source \in {"suspended", "last"} : Later(query, [query EXCEPT !.source = source])
  BY DEF Later, Monotone, QueryState
<1>2. Later(query, [query EXCEPT !.expired = TRUE]) /\ Later(query, [query EXCEPT !.aborted = TRUE])
  BY DEF Later, Monotone, QueryState
<1>3. ASSUME NEW pc \in {"cancelling", "ended"}
      PROVE  Later(query, [[query EXCEPT !.expired = TRUE] EXCEPT !.pc = pc])
  BY <1>3 DEF Later, Monotone, QueryState
<1>4. ASSUME NEW pc \in {"cancelling", "ended"}
      PROVE  Later(query, [[query EXCEPT !.aborted = TRUE] EXCEPT !.pc = pc])
  BY <1>4 DEF Later, Monotone, QueryState
<1>5. CutShort([query EXCEPT !.expired = TRUE]) /\ CutShort([query EXCEPT !.aborted = TRUE])
  BY DEF QueryState, CutShort
<1> QED BY <1>1, <1>2, <1>3, <1>4, <1>5

LEMMA PullGood == ASSUME IInv, NEW r \in Lease, Pull(r) PROVE IInv'
<1>0. q \in [Lease -> QueryState] /\ Stage(q[r], r, conn) /\ q[r] \in QueryState
  BY Held
<1>1. q[r].pc \in {"returned", "holding"}
  BY DEF Pull, Asks
<1>2. Ready(r, q[r], conn)
  BY <1>0, <1>1, HoldHere, LaterSelf
<1>3. CASE Unwind(r, q[r], conn)
  BY <1>0, <1>2, <1>3, UnwindGood
<1>4. CASE Postgres /\ Becomes(r, [At(r, "fetching") EXCEPT !.source = "suspended"],
                               Sent(conn, r, "statement", "consumer"))
  <2>1. [At(r, "fetching") EXCEPT !.source = "suspended"] = [q[r] EXCEPT !.pc = "fetching", !.source = "suspended"]
    BY <1>0 DEF At, QueryState
  <2> QED BY <1>0, <1>2, <1>4, <2>1, SendGood
<1>5. CASE Postgres /\ Becomes(r, [At(r, "opening") EXCEPT !.source = "suspended"],
                               Sent(conn, r, "open", "consumer"))
  <2>1. [At(r, "opening") EXCEPT !.source = "suspended"] = [q[r] EXCEPT !.pc = "opening", !.source = "suspended"]
    BY <1>0 DEF At, QueryState
  <2> QED BY <1>0, <1>2, <1>5, <2>1, SendGood
<1>6. CASE Deliver(r, 0, [q[r] EXCEPT !.source = "last"], conn)
  <2>1. Ready(r, [q[r] EXCEPT !.source = "last"], conn)
    BY <1>0, <1>1, HoldHere, LaterSelf
  <2>2. [q[r] EXCEPT !.source = "last"].source \notin {"none", "over"}
    BY <1>0 DEF QueryState
  <2> QED BY <1>0, <1>6, <2>1, <2>2, DeliverGood
<1>7. CASE FetchUnlessCancelled(r, [q[r] EXCEPT !.source = "suspended"], conn)
  <2>1. Ready(r, [q[r] EXCEPT !.source = "suspended"], conn)
    BY <1>0, <1>1, HoldHere, LaterSelf
  <2> QED BY <1>0, <1>7, <2>1, FetchGood
<1> QED BY <1>3, <1>4, <1>5, <1>6, <1>7 DEF Pull

LEMMA PullTooLateGood == ASSUME IInv, NEW r \in Lease, PullTooLate(r) PROVE IInv'
<1> DEFINE u == At(r, "cancelling")
           d == [conn EXCEPT !.flags = @ \cup {r}, !.open = IF Postgres THEN @ ELSE @ \ {r}]
<1>0. /\ q \in [Lease -> QueryState] /\ Stage(q[r], r, conn) /\ q[r] \in QueryState
      /\ conn \in ConnState /\ Registered(q, conn)
  BY Held
<1>1. q[r].pc \in {"returned", "holding"} /\ Becomes(r, u, d)
  BY DEF PullTooLate, Asks
<1>2. Ready(r, q[r], conn) /\ Known(r, q[r], conn)
  BY <1>0, <1>1, HoldHere, LaterSelf, ReadyIs
<1>3. /\ u \in QueryState /\ u.pc = "cancelling" /\ u.source = q[r].source /\ u.side = q[r].side
      /\ u.asked = q[r].asked /\ u.cancel = q[r].cancel
      /\ u.aborted = q[r].aborted /\ u.expired = q[r].expired
  BY <1>0 DEF At, QueryState
<1>4. /\ d \in ConnState /\ d.active = conn.active /\ d.flags = conn.flags \cup {r}
      /\ d.open \subseteq conn.open /\ d.txn = conn.txn /\ d.queue = conn.queue
  BY <1>0 DEF ConnState
<1> HIDE DEF u, d
<1>5. Tied(r, u, d)
  <2>1. q[r].source \notin {"none", "over"}
    BY <1>0, <1>1 DEF Stage, Streaming
  <2> QED BY <1>2, <1>3, <1>4, <2>1 DEF Known, Tied, Stage, Streaming, CutShort
<1>6. Good([q EXCEPT ![r] = u], d)
  <2>1. Monotone(q[r], u)
    BY <1>3 DEF Monotone
  <2>2. conn.flags \ {r} \subseteq d.flags /\ d.active \in {conn.active, NoQuery}
    BY <1>4
  <2> QED BY <1>0, <1>2, <1>3, <1>4, <1>5, <2>1, <2>2, ReadyStep
<1> QED BY <1>1, <1>6, BecomesGood

LEMMA OpenedGood == ASSUME IInv, NEW r \in Lease, Opened(r) PROVE IInv'
<1>0. q \in [Lease -> QueryState] /\ Stage(q[r], r, conn) /\ q[r] \in QueryState
  BY Held
<1>1. Postgres
  BY <1>0 DEF Opened, Stage
<1>2. Ready(r, q[r], [Popped EXCEPT !.txn = r])
  BY <1>0, <1>1, HoldPopped, LaterSelf DEF Opened
<1> QED BY <1>0, <1>2, FetchGood DEF Opened

LEMMA AbandonGood == ASSUME IInv, NEW r \in Lease, Abandon(r) PROVE IInv'
<1>0. /\ q \in [Lease -> QueryState] /\ Stage(q[r], r, conn) /\ q[r] \in QueryState
      /\ conn \in ConnState /\ Registered(q, conn)
  BY Held
<1>1. q[r].pc \in {"holding", "returned"}
  BY DEF Abandon
<1>2. Ready(r, q[r], conn) /\ Known(r, q[r], conn)
  BY <1>0, <1>1, HoldHere, LaterSelf, ReadyIs
<1>3. CASE Close(r, q[r], conn)
  BY <1>0, <1>2, <1>3, CloseGood
<1>4. CASE Becomes(r, At(r, "ended"), conn)
  <2> DEFINE u == At(r, "ended")
  <2>1. /\ u \in QueryState /\ u.pc = "ended" /\ u.source = q[r].source /\ u.side = q[r].side
        /\ u.asked = q[r].asked /\ u.cancel = q[r].cancel
        /\ u.aborted = q[r].aborted /\ u.expired = q[r].expired
    BY <1>0 DEF At, QueryState
  <2> HIDE DEF u
  <2>2. q[r].source \notin {"none", "over"}
    BY <1>0, <1>1 DEF Stage, Streaming
  <2>3. Tied(r, u, conn) /\ Monotone(q[r], u)
    BY <1>2, <2>1, <2>2 DEF Known, Tied, Stage, Streaming, CutShort, Monotone
  <2>4. Good([q EXCEPT ![r] = u], conn)
    BY <1>0, <1>2, <2>1, <2>3, ReadyStep
  <2> QED BY <1>4, <2>4, BecomesGood DEF u
<1> QED BY <1>3, <1>4 DEF Abandon

\* A query that fetches waits for an answer.
LEMMA FetchingIs ==
  ASSUME IInv, NEW r \in Lease, Fetching(r)
  PROVE  /\ q[r].pc = "fetching" /\ q[r].source \notin {"none", "over"}
         /\ \E does : Does(r, does, "consumer")
<1>1. Stage(q[r], r, conn)
  BY Held
<1> QED BY <1>1 DEF Fetching, Stage, Streaming

LEMMA FetchRowsGood == ASSUME IInv, NEW r \in Lease, FetchRows(r) PROVE IInv'
<1>0. q \in [Lease -> QueryState] /\ q[r] \in QueryState
  BY Held
<1>1. q[r].pc = "fetching" /\ q[r].source \notin {"none", "over"} /\ \E does : Does(r, does, "consumer")
  BY FetchingIs DEF FetchRows
<1>2. CASE Postgres
  <2>1. Ready(r, q[r], Popped)
    BY <1>0, <1>1, HoldPopped, LaterSelf
  <2>2. Deliver(r, 1, q[r], Popped)
    BY <1>2 DEF FetchRows
  <2> QED BY <1>0, <1>1, <2>1, <2>2, DeliverGood
<1>3. CASE ~Postgres
  <2>1. Ready(r, q[r], conn)
    BY <1>0, <1>1, <1>3, HoldHere, LaterSelf
  <2>2. Deliver(r, 1, q[r], conn)
    BY <1>3 DEF FetchRows
  <2> QED BY <1>0, <1>1, <2>1, <2>2, DeliverGood
<1> QED BY <1>2, <1>3

LEMMA FetchEmptyGood == ASSUME IInv, NEW r \in Lease, FetchEmpty(r) PROVE IInv'
<1> DEFINE u == [q[r] EXCEPT !.source = "last"]
<1>0. q \in [Lease -> QueryState] /\ q[r] \in QueryState
  BY Held
<1>1. q[r].pc = "fetching" /\ \E does : Does(r, does, "consumer")
  BY FetchingIs DEF FetchEmpty
<1>2. Ready(r, u, Begun(r))
  BY <1>0, <1>1, HoldPopped, LaterSelf DEF Begun
<1>3. u.source \notin {"none", "over"}
  BY <1>0 DEF QueryState
<1> QED BY <1>0, <1>2, <1>3, DeliverGood DEF FetchEmpty

LEMMA FetchFailsGood == ASSUME IInv, NEW r \in Lease, FetchFails(r) PROVE IInv'
<1>0. q \in [Lease -> QueryState] /\ q[r] \in QueryState /\ Stage(q[r], r, conn)
  BY Held
<1>1. CASE Fetching(r) /\ Unwind(r, q[r], Popped)
  <2>1. q[r].pc = "fetching" /\ \E does : Does(r, does, "consumer")
    BY <1>1, FetchingIs
  <2>2. Ready(r, q[r], Popped)
    BY <1>0, <2>1, HoldPopped, LaterSelf
  <2> QED BY <1>0, <1>1, <2>2, UnwindGood
<1>2. CASE /\ q[r].pc = "opening" /\ Does(r, "open", "consumer")
           /\ \E c \in {Popped, [Popped EXCEPT !.txn = r]} : Unwind(r, q[r], c)
  <2>1. Postgres
    BY <1>0, <1>2 DEF Stage
  <2>2. PICK c \in {Popped, [Popped EXCEPT !.txn = r]} : Unwind(r, q[r], c)
    BY <1>2
  <2>3. Ready(r, q[r], c)
    BY <1>0, <1>2, <2>1, HoldPopped, LaterSelf
  <2> QED BY <1>0, <2>2, <2>3, UnwindGood
<1> QED BY <1>1, <1>2 DEF FetchFails

LEMMA UnwoundGood == ASSUME IInv, NEW r \in Lease, Unwound(r) PROVE IInv'
<1>0. q \in [Lease -> QueryState] /\ q[r] \in QueryState /\ q[r].pc = "unwinding"
  BY Held DEF Unwound
<1>1. CASE Does(r, "rollback", "consumer") /\ \E c \in RolledBack : Finish(r, q[r], c)
  <2>1. PICK c \in RolledBack : Finish(r, q[r], c)
    BY <1>1
  <2>2. c = Popped \/ c = [Popped EXCEPT !.txn = NoQuery]
    BY DEF RolledBack
  <2>3. Ready(r, q[r], c)
    BY <1>0, <1>1, <2>2, HoldPopped, LaterSelf
  <2> QED BY <1>0, <2>1, <2>3, FinishGood
<1>2. CASE /\ ~Postgres /\ \E by \in {"consumer", "nobody"} : Does(r, "statement", by)
           /\ Finish(r, q[r], Popped)
  <2>1. PICK by \in {"consumer", "nobody"} : Does(r, "statement", by)
    BY <1>2
  <2>2. Ready(r, q[r], Popped)
    BY <1>0, <1>2, <2>1, HoldPopped, LaterSelf
  <2> QED BY <1>0, <1>2, <2>2, FinishGood
<1> QED BY <1>1, <1>2 DEF Unwound

LEMMA TimeoutSideGood == ASSUME IInv, NEW r \in Lease, TimeoutSide(r) PROVE IInv'
<1> DEFINE mid == Mid(q[r])
           qq == [q EXCEPT ![r] = mid]
<1>0. /\ q \in [Lease -> QueryState] /\ q[r] \in QueryState /\ q[r].pc = "cancelling"
      /\ conn \in ConnState
  BY Held DEF TimeoutSide, TimeoutKills, TimeoutCannotKill
<1>1. Ready(r, q[r], conn)
  BY <1>0, HoldHere, LaterSelf
<1>2. CASE Close(r, q[r], conn)
  BY <1>0, <1>1, <1>2, CloseGood
<1>3. CASE Close(r, q[r], Killed)
  <2>1. CASE conn.queue = <<>>
    BY <1>0, <1>1, <1>3, <2>1, KilledIs, CloseGood
  <2>2. CASE conn.queue # <<>>
    <3>1. Good(qq, conn) /\ (Postgres => Idle(conn.queue))
      BY <1>1 DEF Ready
    <3>3. /\ conn.queue \in Seq(Command) /\ 1 \in 1..Len(conn.queue)
      BY <1>0, <2>2, EmptySeq DEF ConnState
    <3>4. Postgres => conn.queue[1].by # "reset"
      BY <3>1, <3>3 DEF Idle
    <3>5. /\ Killed \in ConnState /\ Commands(qq, Killed.queue)
          /\ Killed.queue # <<>> /\ Len(Killed.queue) = Len(conn.queue)
          /\ Killed.queue[1].of = conn.queue[1].of /\ Killed.queue[1].does = conn.queue[1].does
          /\ \A i \in 1..Len(conn.queue) : Killed.queue[i].by = conn.queue[i].by
      BY <2>2, <3>1, <3>4, KilledGood
    <3>11. Good(qq, Killed)
      BY <2>2, <3>1, <3>4, KilledKeeps
    <3>12. Postgres => Idle(Killed.queue)
      BY <3>1, <3>5 DEF Idle
    <3>13. Ready(r, q[r], Killed)
      BY <1>0, <3>11, <3>12 DEF Ready, qq, mid
    <3> QED BY <1>0, <1>3, <3>13, CloseGood
  <2> QED BY <2>1, <2>2
<1> QED BY <1>2, <1>3 DEF TimeoutSide, TimeoutKills, TimeoutCannotKill

\* What strikes while the generator is on its way out.
LEMMA BreakUnwindingGood ==
  ASSUME IInv, NEW r \in Lease, q[r].pc = "unwinding",
         NEW query, Later(q[r], query), CutShort(query),
         query.pc \in {"cancelling", "ended"}, query.source = q[r].source,
         NEW c \in ConnState, c.queue = Deserted(r).queue, c.active = conn.active,
         c.txn = conn.txn, conn.flags \subseteq c.flags, c.open \subseteq conn.open,
         BreakUnwinding(r, query, c)
  PROVE  IInv'
<1>0. /\ Good(q, conn) /\ q \in [Lease -> QueryState] /\ conn \in ConnState /\ Serial(q)
      /\ conn.queue \in Seq(Command)
      /\ Commands(q, conn.queue) /\ Stage(q[r], r, conn) /\ Registered(q, conn)
      /\ Drains(q, conn) /\ Transactions(q, conn)
  BY Held
<1>1. CASE Postgres
  <2>1. Ready(r, query, Deserted(r))
    BY <1>1, HoldDeserted
  <2>2. Finish(r, query, Deserted(r))
    BY <1>1 DEF BreakUnwinding
  <2> QED BY <1>0, <2>1, <2>2, FinishGood
<1>2. CASE ~Postgres
  <2>1. Becomes(r, query, c)
    BY <1>2 DEF BreakUnwinding
  <2>2. InLease(q, r) /\ q[r].source # "none" /\ q[r].pc \in Streaming
    BY <1>0 DEF InLease, Stage, Streaming
  <2>3. Tied(r, query, c)
    <3>1. Stage(query, r, c)
      BY <1>0, <1>2, <2>2 DEF Stage, Streaming, Later, CutShort, Monotone
    <3>2. c.open \subseteq {c.active} /\ (c.txn = r => stmt[r] = "begin")
      BY <1>0, <1>2 DEF Registered, Transactions
    <3> QED BY <1>2, <3>1, <3>2 DEF Tied
  <2>4. \A s \in Lease : q[s].side # "draining"
    BY <1>0 DEF Drains
  <2>5. query \in QueryState /\ Monotone(q[r], query) /\ query.side = q[r].side
    BY DEF Later
  <2>6. Commands([q EXCEPT ![r] = query], c.queue)
    <3>1. Owns(conn.queue, r, query)
      BY <1>0, <2>2 DEF Owns, Commands, CommandOK
    <3>2. c.queue \in Seq(Command)
      BY DEF ConnState
    <3>3. /\ Len(c.queue) = Len(conn.queue)
          /\ \A i \in 1..Len(conn.queue) :
               /\ c.queue[i].of = conn.queue[i].of /\ c.queue[i].does = conn.queue[i].does
               /\ conn.queue[i].of # r => c.queue[i] = conn.queue[i]
               /\ conn.queue[i].of = r =>
                    c.queue[i].by = "nobody" /\ (Postgres => c.queue[i].hit)
      BY <1>0, DesertedIs
    <3> QED BY <1>0, <1>2, <2>2, <2>5, <3>1, <3>2, <3>3, CommandsDeserted
  <2>7. Good([q EXCEPT ![r] = query], c)
    <3>1. /\ conn.flags \ {r} \subseteq c.flags /\ c.active \in {conn.active, NoQuery}
          /\ c.txn \in {conn.txn, r, NoQuery} /\ query.pc \notin {"new", "released"}
          /\ (query.side = "draining" => q[r].side = "draining")
      BY <2>5
    <3> QED BY <1>0, <2>2, <2>3, <2>4, <2>5, <2>6, <3>1, GoodKept
  <2> QED BY <2>1, <2>7, BecomesGood
<1> QED BY <1>1, <1>2

\* What strikes while the generator awaits the server.
LEMMA BreakGood ==
  ASSUME IInv, NEW r \in Lease, q[r].pc \in {"opening", "fetching"},
         NEW query, Later(q[r], query), CutShort(query), Break(r, query)
  PROVE  IInv'
<1>0. q \in [Lease -> QueryState] /\ Stage(q[r], r, conn)
  BY Held
<1>1. CASE Postgres /\ Unwind(r, query, Deserted(r))
  <2>1. Ready(r, query, Deserted(r))
    BY <1>1, HoldDeserted
  <2> QED BY <1>0, <1>1, <2>1, UnwindGood
<1>2. CASE Postgres /\ Unwind(r, query, [Deserted(r) EXCEPT !.txn = r])
  <2>1. Ready(r, query, [Deserted(r) EXCEPT !.txn = r])
    BY <1>2, HoldDeserted
  <2> QED BY <1>0, <1>2, <2>1, UnwindGood
<1>3. CASE ~Postgres /\ Unwind(r, query, conn)
  <2>1. q[r].pc = "fetching"
    BY <1>0, <1>3 DEF Stage
  <2>2. Ready(r, query, conn)
    BY <1>3, <2>1, HoldHere
  <2> QED BY <1>0, <1>3, <2>2, UnwindGood
<1> QED BY <1>1, <1>2, <1>3 DEF Break

\* Only the deadline of r has passed.
LEMMA LateGood ==
  ASSUME IInv, NEW r \in Lease,
         q[r].pc \in {"executing", "returned", "opening", "fetching", "holding", "unwinding"},
         Becomes(r, [q[r] EXCEPT !.expired = TRUE], conn)
  PROVE  IInv'
<1> DEFINE u == [q[r] EXCEPT !.expired = TRUE]
<1>0. /\ Good(q, conn) /\ q \in [Lease -> QueryState] /\ conn \in ConnState /\ q[r] \in QueryState
      /\ conn.queue \in Seq(Command) /\ Transactions(q, conn)
      /\ Commands(q, conn.queue) /\ Stage(q[r], r, conn) /\ Registered(q, conn) /\ Drains(q, conn)
  BY Held
<1>1. /\ u \in QueryState /\ u.pc = q[r].pc /\ u.source = q[r].source /\ u.side = q[r].side
      /\ u.asked = q[r].asked /\ u.cancel = q[r].cancel /\ u.aborted = q[r].aborted /\ u.expired
  BY <1>0 DEF QueryState
<1> HIDE DEF u
<1>2. InLease(q, r)
  BY DEF InLease
<1>3. Tied(r, u, conn)
  <2>1. Stage(u, r, conn)
    BY <1>0, <1>1 DEF Stage, CutShort
  <2> QED BY <1>0, <1>1, <2>1 DEF Tied, Registered, Transactions, CutShort
<1>4. Commands([q EXCEPT ![r] = u], conn.queue)
  <2>1. Owns(conn.queue, r, u)
    BY <1>0, <1>1, <1>2 DEF Owns, Commands, CommandOK
  <2>2. Fits(conn.queue, r, u)
    BY <1>0, <1>1 DEF Fits, Commands, CommandOK, AtPostgres, AtMySQL
  <2> QED BY <1>0, <1>1, <1>2, <2>1, <2>2, CommandsKept DEF InLease, Monotone
<1>5. Good([q EXCEPT ![r] = u], conn)
  <2>1. /\ conn.flags \ {r} \subseteq conn.flags /\ conn.active \in {conn.active, NoQuery}
        /\ conn.txn \in {conn.txn, r, NoQuery} /\ u.pc \notin {"new", "released"}
        /\ (u.side = "draining" => q[r].side = "draining") /\ Monotone(q[r], u)
    BY <1>1 DEF Monotone
  <2>2. \/ \A s \in Lease : q[s].side # "draining"
        \/ /\ u.pc \notin {"executing", "fetching", "unwinding", "clearing", "resetting"}
           /\ conn.queue # <<>> /\ conn.txn \in {conn.txn, NoQuery}
    BY <1>0, <1>1 DEF Drains
  <2> QED BY <1>0, <1>1, <1>2, <1>3, <1>4, <2>1, <2>2, GoodKept
<1> QED BY <1>5, BecomesGood DEF u

LEMMA ExpireGood == ASSUME IInv, NEW r \in Lease, Expire(r) PROVE IInv'
<1> DEFINE late == [q[r] EXCEPT !.expired = TRUE]
           c == [Deserted(r) EXCEPT !.flags = @ \cup {r}, !.open = @ \ {r}]
<1>0. q \in [Lease -> QueryState] /\ conn \in ConnState /\ q[r] \in QueryState
  BY Held
<1>1. CASE Becomes(r, late, conn)
  BY <1>1, LateGood DEF Expire
<1>2. CASE q[r].pc \in {"opening", "fetching"} /\ Break(r, late)
  BY <1>0, <1>2, LaterSelf, BreakGood
<1>3. CASE q[r].pc = "unwinding" /\ BreakUnwinding(r, [late EXCEPT !.pc = "cancelling"], c)
  <2> DEFINE u == [late EXCEPT !.pc = "cancelling"]
  <2>1. Later(q[r], u)
    BY <1>0, LaterSelf
  <2>2. u.pc = "cancelling" /\ u.source = q[r].source /\ CutShort(u)
    BY <1>0 DEF QueryState, CutShort
  <2>3. /\ Deserted(r) \in ConnState /\ Deserted(r).active = conn.active
        /\ Deserted(r).flags = conn.flags /\ Deserted(r).open = conn.open
        /\ Deserted(r).txn = conn.txn
    BY <1>0, DesertedIs
  <2>4. /\ c \in ConnState /\ c.queue = Deserted(r).queue /\ c.active = conn.active
        /\ c.txn = conn.txn /\ conn.flags \subseteq c.flags /\ c.open \subseteq conn.open
    BY <2>3 DEF ConnState
  <2> HIDE DEF c, u
  <2> QED BY <1>3, <2>1, <2>2, <2>4, BreakUnwindingGood DEF u
<1>4. CASE q[r].pc = "unwinding" /\ BreakUnwinding(r, [late EXCEPT !.pc = "ended"], Deserted(r))
  <2> DEFINE u == [late EXCEPT !.pc = "ended"]
  <2>1. Later(q[r], u)
    BY <1>0, LaterSelf
  <2>2. u.pc = "ended" /\ u.source = q[r].source /\ CutShort(u)
    BY <1>0 DEF QueryState, CutShort
  <2>3. /\ Deserted(r) \in ConnState /\ Deserted(r).active = conn.active
        /\ Deserted(r).flags = conn.flags /\ Deserted(r).open = conn.open
        /\ Deserted(r).txn = conn.txn
    BY <1>0, DesertedIs
  <2> HIDE DEF u
  <2> QED BY <1>4, <2>1, <2>2, <2>3, BreakUnwindingGood DEF u
<1> QED BY <1>1, <1>2, <1>3, <1>4 DEF Expire

LEMMA CancelTaskGood == ASSUME IInv, NEW r \in Lease, CancelTask(r) PROVE IInv'
<1> DEFINE aborted == [q[r] EXCEPT !.aborted = TRUE]
<1>0. q \in [Lease -> QueryState] /\ conn \in ConnState /\ q[r] \in QueryState
  BY Held
<1>1. CASE q[r].pc \in {"opening", "fetching"} /\ Break(r, aborted)
  BY <1>0, <1>1, LaterSelf, BreakGood
<1>2. CASE q[r].pc = "unwinding" /\ BreakUnwinding(r, [aborted EXCEPT !.pc = "ended"], Deserted(r))
  <2> DEFINE u == [aborted EXCEPT !.pc = "ended"]
  <2>1. Later(q[r], u)
    BY <1>0, LaterSelf
  <2>2. u.pc = "ended" /\ u.source = q[r].source /\ CutShort(u)
    BY <1>0 DEF QueryState, CutShort
  <2>3. /\ Deserted(r) \in ConnState /\ Deserted(r).active = conn.active
        /\ Deserted(r).flags = conn.flags /\ Deserted(r).open = conn.open
        /\ Deserted(r).txn = conn.txn
    BY <1>0, DesertedIs
  <2> HIDE DEF u
  <2> QED BY <1>2, <2>1, <2>2, <2>3, BreakUnwindingGood DEF u
<1>3. CASE q[r].pc = "cancelling" /\ Close(r, aborted, conn)
  <2>1. Ready(r, aborted, conn)
    BY <1>0, <1>3, LaterSelf, HoldHere
  <2> QED BY <1>0, <1>3, <2>1, CloseGood
<1>4. CASE /\ q[r].pc = "cancelling" /\ q[r].source = "fresh"
           /\ Becomes(r, [aborted EXCEPT !.pc = "ended"], conn)
  <2>1. Ready(r, aborted, conn)
    BY <1>0, <1>4, LaterSelf, HoldHere
  <2>2. aborted.source = "fresh"
    BY <1>0, <1>4 DEF QueryState
  <2>3. Finish(r, aborted, conn)
    BY <1>4, <2>2 DEF Finish
  <2> QED BY <1>0, <2>1, <2>3, FinishGood
<1> QED BY <1>1, <1>2, <1>3, <1>4 DEF CancelTask

\* A step of r out of execute().
LEMMA ExecutingStep ==
  ASSUME IInv, NEW r \in Lease, q[r].pc = "executing",
         NEW u \in QueryState, NEW d \in ConnState,
         \/ u.pc = "returned" /\ u.source = "fresh"
         \/ u.pc = "ended" /\ u.source = "none",
         Monotone(q[r], u), u.side = q[r].side, u.cancel = q[r].cancel, u.asked = q[r].asked,
         d.flags = conn.flags, d.open \subseteq {d.active}, d.active \in {conn.active, NoQuery},
         d.txn = conn.txn \/ (d.txn = r /\ (Postgres \/ stmt[r] = "begin")),
         Commands([q EXCEPT ![r] = u], d.queue), Becomes(r, u, d)
  PROVE  IInv'
<1>0. /\ Good(q, conn) /\ q \in [Lease -> QueryState] /\ conn \in ConnState /\ Drains(q, conn)
      /\ Stage(q[r], r, conn) /\ Registered(q, conn) /\ Transactions(q, conn)
      /\ \A s \in Lease : Stage(q[s], s, conn)
  BY Held
<1>1. InLease(q, r) /\ ~q[r].cancel /\ q[r].side = "idle"
  BY <1>0 DEF InLease, Stage
<1>2. Tied(r, u, d)
  <2>1. Stage(u, r, d)
    BY <1>0, <1>1 DEF Stage, Streaming
  <2> QED BY <1>0, <2>1, LeaseAssumption DEF Tied, Registered, Transactions
<1>3. \A s \in Lease : q[s].side # "draining"
  BY <1>0 DEF Drains, Stage
<1>4. Good([q EXCEPT ![r] = u], d)
  <2>1. /\ conn.flags \ {r} \subseteq d.flags /\ d.txn \in {conn.txn, r, NoQuery}
        /\ u.pc \notin {"new", "released"} /\ (u.side = "draining" => q[r].side = "draining")
    OBVIOUS
  <2> QED BY <1>0, <1>1, <1>2, <1>3, <2>1, GoodKept
<1> QED BY <1>4, BecomesGood

LEMMA ExecutedGood == ASSUME IInv, NEW r \in Lease, Executed(r) PROVE IInv'
<1> DEFINE u == [At(r, "returned") EXCEPT !.source = "fresh"]
<1>0. /\ q \in [Lease -> QueryState] /\ conn \in ConnState /\ q[r] \in QueryState
      /\ conn.queue \in Seq(Command) /\ Commands(q, conn.queue) /\ Registered(q, conn)
  BY Held
<1>1. q[r].pc = "executing"
  BY DEF Executed
<1>2. /\ u \in QueryState /\ u.pc = "returned" /\ u.source = "fresh" /\ u.side = q[r].side
      /\ u.asked = q[r].asked /\ u.cancel = q[r].cancel /\ Monotone(q[r], u)
  BY <1>0 DEF QueryState, At, Monotone
<1>3. conn.active = r
  BY <1>0, <1>1 DEF Registered
<1> HIDE DEF u
<1>4. CASE \E does \in {"prepare", "statement"}, d \in {Popped, Begun(r)} :
             Does(r, does, "consumer") /\ Becomes(r, u, [d EXCEPT !.open = @ \cup {r}])
  <2>1. PICK does \in {"prepare", "statement"}, d \in {Popped, Begun(r)} :
          Does(r, does, "consumer") /\ Becomes(r, u, [d EXCEPT !.open = @ \cup {r}])
    BY <1>4
  <2>2. conn.queue # <<>> /\ Popped.queue = <<>>
    BY <1>1, <2>1, Answered DEF Does
  <2>3. /\ d \in ConnState /\ d.queue = <<>> /\ d.active = conn.active /\ d.flags = conn.flags
        /\ d.open = conn.open /\ (d.txn = conn.txn \/ (d.txn = r /\ stmt[r] = "begin"))
    <3>1. /\ Popped \in ConnState /\ Popped.active = conn.active /\ Popped.flags = conn.flags
          /\ Popped.open = conn.open /\ Popped.txn = conn.txn
      BY <1>0, <2>2, PoppedIs
    <3>2. CASE d = Popped
      BY <2>2, <3>1, <3>2
    <3>3. CASE d = [Popped EXCEPT !.txn = r] /\ stmt[r] = "begin"
      BY <2>2, <3>1, <3>3, TxnSet
    <3> QED BY <3>2, <3>3 DEF Begun
  <2> DEFINE c == [d EXCEPT !.open = @ \cup {r}]
  <2>4. /\ c \in ConnState /\ c.queue = <<>> /\ c.active = conn.active /\ c.flags = conn.flags
        /\ c.open = conn.open \cup {r} /\ c.txn = d.txn
    BY <2>3 DEF ConnState
  <2> HIDE DEF c
  <2>5. c.open \subseteq {c.active} /\ Commands([q EXCEPT ![r] = u], c.queue)
    BY <1>0, <1>3, <2>4, CommandsEmpty DEF Registered
  <2>6. Becomes(r, u, c)
    BY <2>1 DEF c
  <2> QED BY <1>1, <1>2, <2>3, <2>4, <2>5, <2>6, ExecutingStep
<1>5. CASE /\ Does(r, "statement", "consumer") /\ HasRows(r)
           /\ Becomes(r, u, [conn EXCEPT !.open = @ \cup {r}])
  <2> DEFINE c == [conn EXCEPT !.open = @ \cup {r}]
  <2>1. /\ c \in ConnState /\ c.queue = conn.queue /\ c.active = conn.active
        /\ c.flags = conn.flags /\ c.open = conn.open \cup {r} /\ c.txn = conn.txn
    BY <1>0 DEF ConnState
  <2> HIDE DEF c
  <2>2. c.open \subseteq {c.active}
    BY <1>0, <1>3, <2>1 DEF Registered
  <2>3. 1 \in 1..Len(conn.queue) /\ CommandOK(q, conn.queue, 1)
    <3>1. Len(conn.queue) \in Nat /\ Len(conn.queue) >= 1
      BY <1>0, <1>5, EmptySeq DEF Does
    <3> QED BY <1>0, <3>1 DEF Commands
  <2>4. ~Postgres
    BY <1>1, <1>5, <2>3 DEF Does, CommandOK, AtPostgres
  <2>5. \A i \in 1..Len(conn.queue) : conn.queue[i].of = r
    BY <1>0, <1>5, <2>4 DEF Does, Commands, CommandOK
  <2>6. Owns(conn.queue, r, u) /\ Fits(conn.queue, r, u)
    BY <1>0, <1>1, <1>2, <1>5, <2>4, <2>5 DEF Owns, Fits, Commands, CommandOK, AtMySQL
  <2>7. Commands([q EXCEPT ![r] = u], c.queue)
    BY <1>0, <1>2, <2>1, <2>6, CommandsKept
  <2>8. Becomes(r, u, c)
    BY <1>5 DEF c
  <2> QED BY <1>1, <1>2, <2>1, <2>2, <2>7, <2>8, ExecutingStep
<1> QED
  <2>1. CASE /\ Does(r, "prepare", "consumer")
             /\ Becomes(r, u, [[conn EXCEPT !.open = @ \cup {r}] EXCEPT !.queue = Tail(@)])
    <3>1. [[conn EXCEPT !.open = @ \cup {r}] EXCEPT !.queue = Tail(@)]
            = [Popped EXCEPT !.open = @ \cup {r}]
      BY <1>0 DEF ConnState, Popped
    <3> QED BY <1>4, <2>1, <3>1
  <2>2. CASE /\ Does(r, "statement", "consumer")
             /\ Becomes(r, u, [Begun(r) EXCEPT !.open = @ \cup {r}])
    BY <1>4, <2>2
  <2> QED BY <1>5, <2>1, <2>2 DEF Executed, u

LEMMA ExecuteFailsGood == ASSUME IInv, NEW r \in Lease, ExecuteFails(r) PROVE IInv'
<1> DEFINE u == At(r, "ended")
           d == IF Postgres THEN [Popped EXCEPT !.active = NoQuery] ELSE Popped
<1>0. /\ q \in [Lease -> QueryState] /\ conn \in ConnState /\ q[r] \in QueryState
      /\ Stage(q[r], r, conn) /\ Registered(q, conn)
  BY Held
<1>1. q[r].pc = "executing" /\ Becomes(r, u, d) /\ \E does : Does(r, does, "consumer")
  BY DEF ExecuteFails
<1>2. conn.queue # <<>> /\ Popped.queue = <<>>
  BY <1>1, Answered DEF Does
<1>3. /\ u \in QueryState /\ u.pc = "ended" /\ u.source = q[r].source /\ u.side = q[r].side
      /\ u.asked = q[r].asked /\ u.cancel = q[r].cancel /\ Monotone(q[r], u)
  BY <1>0 DEF QueryState, At, Monotone
<1>4. conn.active = r /\ conn.open = {} /\ q[r].source = "none"
  BY <1>0, <1>1 DEF Registered, Stage
<1>5. /\ Popped \in ConnState /\ Popped.active = conn.active /\ Popped.flags = conn.flags
      /\ Popped.open = conn.open /\ Popped.txn = conn.txn
  BY <1>0, <1>2, PoppedIs
<1>6. /\ d \in ConnState /\ d.queue = <<>> /\ d.active \in {conn.active, NoQuery}
      /\ d.flags = conn.flags /\ d.open = conn.open /\ d.txn = conn.txn
  BY <1>2, <1>5 DEF ConnState
<1> HIDE DEF u, d
<1>7. d.open \subseteq {d.active} /\ Commands([q EXCEPT ![r] = u], d.queue)
  BY <1>4, <1>6, CommandsEmpty
<1> QED BY <1>1, <1>3, <1>4, <1>6, <1>7, ExecutingStep

LEMMA CancelExecutingGood == ASSUME IInv, NEW r \in Lease, CancelExecuting(r) PROVE IInv'
<1> DEFINE u == [At(r, "ended") EXCEPT !.aborted = TRUE]
<1>0. /\ q \in [Lease -> QueryState] /\ conn \in ConnState /\ q[r] \in QueryState /\ Serial(q)
      /\ conn.queue \in Seq(Command) /\ Commands(q, conn.queue)
      /\ Stage(q[r], r, conn) /\ Registered(q, conn)
  BY Held
<1>1. q[r].pc = "executing" /\ Becomes(r, u, Deserted(r))
  BY DEF CancelExecuting
<1>2. /\ u \in QueryState /\ u.pc = "ended" /\ u.source = q[r].source /\ u.side = q[r].side
      /\ u.asked = q[r].asked /\ u.cancel = q[r].cancel /\ Monotone(q[r], u) /\ CutShort(u)
  BY <1>0 DEF QueryState, At, Monotone, CutShort
<1> HIDE DEF u
<1>3. q[r].source = "none" /\ InLease(q, r)
  BY <1>0, <1>1 DEF Stage, InLease
<1>4. /\ Deserted(r) \in ConnState /\ Deserted(r).active = conn.active
      /\ Deserted(r).flags = conn.flags /\ Deserted(r).open = conn.open
      /\ Deserted(r).txn = conn.txn
      /\ Len(Deserted(r).queue) = Len(conn.queue)
      /\ \A i \in 1..Len(conn.queue) :
           /\ Deserted(r).queue[i].of = conn.queue[i].of
           /\ Deserted(r).queue[i].does = conn.queue[i].does
           /\ conn.queue[i].of # r => Deserted(r).queue[i] = conn.queue[i]
           /\ conn.queue[i].of = r =>
                Deserted(r).queue[i].by = "nobody" /\ (Postgres => Deserted(r).queue[i].hit)
  BY <1>0, DesertedIs
<1>5. Deserted(r).open \subseteq {Deserted(r).active} /\ Deserted(r).queue \in Seq(Command)
  BY <1>0, <1>4 DEF Registered, ConnState
<1>6. Commands([q EXCEPT ![r] = u], Deserted(r).queue)
  <2>1. Owns(conn.queue, r, u)
    BY <1>2, <1>3 DEF Owns
  <2>2. /\ u.pc \notin {"new", "released"} /\ q[r].pc # "resetting"
        /\ ~(~Postgres /\ u.source # "none" /\ q[r].source = "none")
    BY <1>1, <1>2, <1>3
  <2>3. u \in QueryState /\ Monotone(q[r], u) /\ CutShort(u)
    BY <1>2
  <2>4. /\ Len(Deserted(r).queue) = Len(conn.queue)
        /\ \A i \in 1..Len(conn.queue) :
             /\ Deserted(r).queue[i].of = conn.queue[i].of
             /\ Deserted(r).queue[i].does = conn.queue[i].does
             /\ conn.queue[i].of # r => Deserted(r).queue[i] = conn.queue[i]
             /\ conn.queue[i].of = r =>
                  Deserted(r).queue[i].by = "nobody" /\ (Postgres => Deserted(r).queue[i].hit)
    BY <1>4
  <2>5. /\ q \in [Lease -> QueryState] /\ conn.queue \in Seq(Command) /\ Commands(q, conn.queue)
        /\ Serial(q) /\ InLease(q, r) /\ Deserted(r).queue \in Seq(Command)
    BY <1>0, <1>3, <1>5
  <2> QED BY <2>1, <2>2, <2>3, <2>4, <2>5, CommandsDeserted
<1> QED BY <1>1, <1>2, <1>3, <1>4, <1>5, <1>6, ExecutingStep

-----------------------------------------------------------------------------
(* The handover from lease to lease *)

\* When a lease begins all others are new or over, and nothing is registered.
LEMMA TurnIs ==
  ASSUME IInv, NEW r \in Lease, ItsTurn(r)
  PROVE  /\ q[r].pc = "new"
         /\ \A s \in Lease : q[s].pc \in {"new", "released"}
         /\ conn.active = NoQuery /\ conn.open = {}
<1>0. /\ q \in [Lease -> QueryState] /\ Serial(q) /\ Registered(q, conn) /\ conn \in ConnState
  BY Held
<1>1. q[r].pc = "new" /\ \A s \in Lease : s < r => q[s].pc = "released"
  BY DEF ItsTurn
<1>2. \A s \in Lease : q[s].pc \in {"new", "released"}
  <2> SUFFICES ASSUME NEW s \in Lease, q[s].pc \notin {"new", "released"} PROVE FALSE
    OBVIOUS
  <2>1. s < r \/ s = r \/ r < s
    BY LeaseAssumption
  <2> QED BY <1>0, <1>1, <2>1 DEF Serial
<1>3. conn.active = NoQuery
  BY <1>0, <1>2 DEF Registered, ConnState
<1>4. conn.open = {}
  BY <1>0, <1>3, LeaseAssumption DEF Registered, ConnState
<1> QED BY <1>1, <1>2, <1>3, <1>4

\* Then nobody awaits anything at the server.
LEMMA QuietTurn ==
  ASSUME IInv, NEW r \in Lease, ItsTurn(r)
  PROVE  IF Postgres THEN Idle(conn.queue) /\ \A i \in 1..Len(conn.queue) : conn.queue[i].hit
         ELSE conn.queue = <<>> \/ Draining
<1>0. /\ q \in [Lease -> QueryState] /\ conn.queue \in Seq(Command) /\ Commands(q, conn.queue)
      /\ \A s \in Lease : q[s].pc \in {"new", "released"}
  BY Held, TurnIs
<1>1. ASSUME Postgres, NEW i \in 1..Len(conn.queue)
      PROVE  conn.queue[i].by = "nobody" /\ conn.queue[i].hit
  <2>1. conn.queue[i] \in Command
    BY <1>0
  <2>2. CommandOK(q, conn.queue, i) /\ conn.queue[i].of \in Lease /\ conn.queue[i].by \in {"consumer", "reset", "nobody"}
    BY <1>0, <2>1 DEF Commands, Command
  <2> QED BY <1>0, <1>1, <2>2 DEF CommandOK, AtPostgres, Awaiting
<1>2. ASSUME ~Postgres, conn.queue # <<>> PROVE Draining
  <2>0. Len(conn.queue) \in Nat /\ Len(conn.queue) >= 1
    BY <1>0, <1>2, EmptySeq
  <2>1. 1 \in 1..Len(conn.queue) /\ conn.queue[1] \in Command
    BY <1>0, <2>0
  <2>2. CommandOK(q, conn.queue, 1) /\ conn.queue[1].of \in Lease
    BY <1>0, <2>1 DEF Commands, Command
  <2>3. q[conn.queue[1].of].side = "draining"
    BY <1>0, <1>2, <2>2 DEF CommandOK, AtMySQL
  <2> QED BY <2>2, <2>3 DEF Draining
<1> QED BY <1>1, <1>2 DEF Idle

LEMMA StartGood == ASSUME IInv, NEW r \in Lease, Start(r) PROVE IInv'
<1> DEFINE c == [conn EXCEPT !.active = r]
           d == Sent(c, r, IF Postgres THEN "prepare" ELSE "statement", "consumer")
           ended == At(r, "ended")
           executing == At(r, "executing")
<1>0. /\ Good(q, conn) /\ q \in [Lease -> QueryState] /\ conn \in ConnState /\ q[r] \in QueryState
      /\ conn.queue \in Seq(Command) /\ Commands(q, conn.queue) /\ Serial(q) /\ Stage(q[r], r, conn)
      /\ \A s \in Lease : Stage(q[s], s, conn)
      /\ Drains(q, conn) /\ Transactions(q, conn) /\ Types(q, conn)
  BY Held DEF IInv, Good
<1>1. /\ ItsTurn(r) /\ q[r].pc = "new" /\ \A s \in Lease : q[s].pc \in {"new", "released"}
      /\ conn.active = NoQuery /\ conn.open = {}
  BY TurnIs DEF Start
<1>2. c \in ConnState /\ c.active = r /\ c.flags = conn.flags /\ c.open = {} /\ c.txn = conn.txn /\ c.queue = conn.queue
  BY <1>0, <1>1 DEF ConnState
<1>3. q[r].source = "none" /\ ~q[r].cancel /\ q[r].side = "idle"
  BY <1>0, <1>1 DEF Stage
\* Apart from the queue the two outcomes of Start are alike.
<1>4. ASSUME NEW u \in QueryState, NEW e \in ConnState, u.pc \in {"ended", "executing"},
             u.source = "none", ~u.cancel, u.side = "idle", Monotone(q[r], u), u.asked = q[r].asked,
             e.active = r, e.flags = conn.flags, e.open = {}, e.txn = conn.txn,
             Commands([q EXCEPT ![r] = u], e.queue),
             \/ \A s \in Lease : q[s].side # "draining"
             \/ u.pc = "ended" /\ e.queue = conn.queue
      PROVE  Good([q EXCEPT ![r] = u], e)
  <2> DEFINE new == [q EXCEPT ![r] = u]
  <2>1. new \in [Lease -> QueryState] /\ new[r] = u /\ \A s \in Lease \ {r} : new[s] = q[s]
    BY <1>0
  <2>2. Serial(new)
    BY <1>0, <1>1, <1>4, SerialKept DEF Serial, ItsTurn
  <2>3. Stages(new, e)
    <3>1. Stage(u, r, e)
      BY <1>0, <1>3, <1>4 DEF Stage, Streaming
    <3>2. \A s \in Lease : Stage(q[s], s, e)
      BY <1>0, <1>4 DEF Stage
    <3> QED BY <2>1, <3>1, <3>2 DEF Stages
  <2> HIDE DEF new
  <2>4. Registered(new, e)
    BY <1>1, <1>4, <2>1 DEF Registered
  <2>5. Drains(new, e)
    BY <1>0, <1>4, <2>1 DEF Drains
  <2>6. Transactions(new, e)
    <3>1. \A t \in Lease : Excused(q, t) => Excused(new, t)
      BY <1>0, <1>4, ExcusedKept DEF new
    <3> QED BY <1>0, <1>1, <1>4, <2>1, <3>1 DEF Transactions
  <2>7. Types(new, e)
    BY <1>0, <1>4, <2>1 DEF Types
  <2>8. Commands(new, e.queue)
    BY <1>4 DEF new
  <2> QED BY <2>2, <2>3, <2>4, <2>5, <2>6, <2>7, <2>8 DEF Good, new
\* None of the commands is of r.
<1>5. ASSUME NEW u \in QueryState, u.pc \in {"ended", "executing"}, u.source = "none", Monotone(q[r], u)
      PROVE  Commands([q EXCEPT ![r] = u], conn.queue)
  <2>1. \A i \in 1..Len(conn.queue) : conn.queue[i].of # r
    BY <1>0, <1>1 DEF Commands, CommandOK
  <2>2. Owns(conn.queue, r, u) /\ Fits(conn.queue, r, u)
    BY <1>5, <2>1 DEF Owns, Fits
  <2> QED BY <1>0, <1>1, <1>5, <2>2, CommandsKept
<1>6. ASSUME NEW u, u \in {ended, executing}
      PROVE  /\ u \in QueryState /\ u.pc \in {"ended", "executing"} /\ (u = ended => u.pc = "ended")
             /\ u.source = "none" /\ ~u.cancel /\ u.side = "idle"
             /\ (u = executing => u.pc = "executing")
             /\ Monotone(q[r], u) /\ u.asked = q[r].asked
  BY <1>0, <1>3, <1>6 DEF At, Monotone, QueryState
<1> HIDE DEF c, ended, executing
<1>7. CASE Draining /\ Becomes(r, ended, c)
  <2>1. Good([q EXCEPT ![r] = ended], c)
    BY <1>2, <1>4, <1>5, <1>6
  <2> QED BY <1>7, <2>1, BecomesGood
<1>8. CASE ~Draining /\ Becomes(r, executing, d)
  <2>1. \A s \in Lease : q[s].side # "draining"
    BY <1>8 DEF Draining
  <2>2. /\ d \in ConnState /\ d.active = r /\ d.flags = conn.flags /\ d.open = {} /\ d.txn = conn.txn
        /\ \E command \in Command :
             /\ command.of = r /\ command.by = "consumer" /\ ~command.hit
             /\ command.does = (IF Postgres THEN "prepare" ELSE "statement")
             /\ d.queue = Append(conn.queue, command)
    <3> DEFINE command == [of |-> r, does |-> IF Postgres THEN "prepare" ELSE "statement",
                           by |-> "consumer", hit |-> FALSE]
    <3>1. /\ command \in Command /\ command.of = r /\ command.by = "consumer" /\ ~command.hit
          /\ command.does = (IF Postgres THEN "prepare" ELSE "statement")
      BY DEF Command
    <3>2. d = [c EXCEPT !.queue = Append(c.queue, command)]
      BY DEF Sent
    <3> HIDE DEF d, command
    <3>3. Append(c.queue, command) \in Seq(Command)
      BY <1>0, <1>2, <3>1
    <3>4. /\ d \in ConnState /\ d.active = r /\ d.flags = conn.flags /\ d.open = {}
          /\ d.txn = conn.txn /\ d.queue = Append(conn.queue, command)
      BY <1>2, <3>2, <3>3 DEF ConnState
    <3> QED BY <3>1, <3>4
  <2> HIDE DEF d
  <2>3. PICK command \in Command :
             /\ command.of = r /\ command.by = "consumer" /\ ~command.hit
             /\ command.does = (IF Postgres THEN "prepare" ELSE "statement")
             /\ d.queue = Append(conn.queue, command)
    BY <2>2
  <2> DEFINE new == [q EXCEPT ![r] = executing]
  <2>4. Commands(new, conn.queue)
    BY <1>5, <1>6
  <2>5. new \in [Lease -> QueryState] /\ new[r] = executing /\ \A s \in Lease \ {r} : new[s] = q[s]
    BY <1>0, <1>6
  <2> HIDE DEF new
  <2>6. \A s \in Lease : InLease(new, s) /\ new[s].source # "none" => s = r
    BY <1>1, <2>5 DEF InLease
  <2>7. IF Postgres THEN Idle(conn.queue) ELSE conn.queue = <<>>
    BY <1>1, <1>8, QuietTurn
  <2>8. Commands(new, Append(conn.queue, command))
    <3>1. new[r].pc = "executing" /\ new[r].source = "none"
      BY <1>6, <2>5
    <3>2. CASE Postgres
      BY <1>0, <2>3, <2>4, <2>5, <2>6, <2>7, <3>1, <3>2, CommandsSent DEF Awaiting
    <3>3. CASE ~Postgres
      BY <1>0, <2>3, <2>4, <2>5, <2>6, <2>7, <3>1, <3>3, CommandsSent
    <3> QED BY <3>2, <3>3
  <2>9. Commands([q EXCEPT ![r] = executing], d.queue)
    BY <2>3, <2>8 DEF new
  <2>10. Good([q EXCEPT ![r] = executing], d)
    BY <1>4, <1>6, <2>1, <2>2, <2>9
  <2> QED BY <1>8, <2>10, BecomesGood
<1> QED BY <1>7, <1>8 DEF Start, c, ended, executing

\* Releasing keeps the record of the cancellation.
LEMMA ReleasedIs ==
  ASSUME NEW r \in Lease, q[r] \in QueryState
  PROVE  /\ Released(r) \in QueryState /\ Released(r).pc = "released" /\ Released(r).source = "over"
         /\ Released(r).side = q[r].side /\ Released(r).cancel = q[r].cancel
         /\ Released(r).asked = q[r].asked /\ Monotone(q[r], Released(r))
         /\ Released(r).aborted = q[r].aborted /\ Released(r).expired = q[r].expired
<1>1. /\ Released(r) \in QueryState /\ Released(r).pc = "released" /\ Released(r).source = "over"
      /\ Released(r).side = q[r].side /\ Released(r).cancel = q[r].cancel
      /\ Released(r).asked = q[r].asked /\ Monotone(q[r], Released(r))
  BY DEF Released, At, QueryState, Monotone
<1>2. Released(r).aborted = q[r].aborted /\ Released(r).expired = q[r].expired
  BY DEF Released, At, QueryState
<1> QED BY <1>1, <1>2

\* What reset() does once nothing is left to drain: the lease is over, but for a ROLLBACK.
LEMMA ClearedGood ==
  ASSUME IInv, NEW r \in Lease, q[r].pc \in {"ended", "clearing"}, NEW from \in ConnState,
         from.txn = conn.txn, from.queue = conn.queue \/ (from.queue = <<>> /\ ~Draining),
         Cleared(r, from)
  PROVE  IInv'
<1> DEFINE c == [from EXCEPT !.active = NoQuery, !.open = {}]
           released == Released(r)
           resetting == At(r, "resetting")
           command == [of |-> r, does |-> "rollback", by |-> "reset", hit |-> FALSE]
           longer == [c EXCEPT !.queue = Append(c.queue, command)]
           needed == IF Postgres THEN from.txn # NoQuery ELSE ~Draining
<1>0. /\ Good(q, conn) /\ q \in [Lease -> QueryState] /\ conn \in ConnState /\ q[r] \in QueryState
      /\ conn.queue \in Seq(Command) /\ Commands(q, conn.queue) /\ Serial(q)
      /\ \A s \in Lease : Stage(q[s], s, conn)
      /\ Registered(q, conn) /\ Drains(q, conn) /\ Transactions(q, conn) /\ Types(q, conn)
  BY Held DEF IInv, Good
<1>1. q[r].pc \in {"ended", "clearing"} /\ InLease(q, r) /\ \A s \in Lease : s # r => ~InLease(q, s)
  <2>1. InLease(q, r)
    BY DEF InLease
  <2> QED BY <1>0, <2>1, OneInLease
<1>2. /\ c \in ConnState /\ c.active = NoQuery /\ c.open = {} /\ c.txn = conn.txn
      /\ c.queue = from.queue
  BY <1>0 DEF ConnState
<1>3. \/ ~needed /\ Becomes(r, released, c)
      \/ needed /\ Becomes(r, resetting, longer)
  BY Zenon DEF Cleared, RollBackOrRelease, Sent
<1>4. /\ resetting \in QueryState /\ resetting.pc = "resetting" /\ resetting.source = q[r].source
      /\ resetting.side = q[r].side /\ resetting.cancel = q[r].cancel
      /\ resetting.asked = q[r].asked /\ Monotone(q[r], resetting)
      /\ resetting.aborted = q[r].aborted /\ resetting.expired = q[r].expired
  BY <1>0 DEF At, Monotone, QueryState
<1>5. /\ released \in QueryState /\ released.pc = "released" /\ released.source = "over"
      /\ released.side = q[r].side /\ released.cancel = q[r].cancel
      /\ released.asked = q[r].asked /\ Monotone(q[r], released)
      /\ released.aborted = q[r].aborted /\ released.expired = q[r].expired
  BY <1>0, ReleasedIs
<1>6. /\ command \in Command /\ command.of = r /\ command.does = "rollback" /\ command.by = "reset"
      /\ ~command.hit
  BY DEF Command
<1> HIDE DEF c, released, resetting, command
<1>7. Postgres => Idle(from.queue)
  BY <1>0, <1>1, IdleQueue DEF Awaiting, Idle
<1>12. Commands(q, from.queue) /\ from.queue \in Seq(Command)
  BY <1>0, CommandsEmpty DEF ConnState
\* MySQL: a cursor that drains has the only command, and is alone with it.
<1>8. ASSUME ~Postgres, NEW i \in 1..Len(from.queue)
      PROVE  /\ from.queue[i].does = "statement" /\ i = 1
             /\ from.queue[i].of = r \/ q[from.queue[i].of].side = "draining"
  <2>0. from.queue[i] \in Command
    BY <1>12
  <2>1. CommandOK(q, from.queue, i) /\ from.queue[i].of \in Lease
    BY <1>12, <2>0 DEF Commands, Command
  <2> QED BY <1>1, <1>8, <2>1 DEF CommandOK, AtMySQL, InLease
<1>9. ASSUME NEW u \in QueryState, u \in {released, resetting}, NEW d \in ConnState,
             u = released => ~needed, u = resetting => needed,
             d.active = NoQuery, d.open = {}, d.txn = conn.txn,
             Commands([q EXCEPT ![r] = u], d.queue), ~Draining \/ d.queue = conn.queue
      PROVE  Good([q EXCEPT ![r] = u], d)
  <2> DEFINE new == [q EXCEPT ![r] = u]
  <2>1. new \in [Lease -> QueryState] /\ new[r] = u /\ \A s \in Lease \ {r} : new[s] = q[s]
    BY <1>0
  <2>2. Serial(new)
    BY <1>0, <1>1, <1>4, <1>5, <1>9, SerialKept
  <2>3. Stages(new, d)
    <3>1. Stage(u, r, d)
      BY <1>0, <1>1, <1>4, <1>5, <1>9 DEF Stage, Streaming, CutShort
    <3>2. \A s \in Lease \ {r} : Stage(q[s], s, d)
      BY <1>0, <1>1, <1>9 DEF Stage, Streaming, InLease
    <3> QED BY <2>1, <3>1, <3>2 DEF Stages
  <2>4. \A t \in Lease : Excused(q, t) => Excused(new, t)
    BY <1>0, <1>4, <1>5, <1>9, ExcusedKept
  <2>5. Types(new, d) /\ Commands(new, d.queue)
    BY <1>0, <1>9, <2>1 DEF Types
  <2> HIDE DEF new
  <2>6. Registered(new, d)
    BY <1>1, <1>4, <1>5, <1>9, <2>1, LeaseAssumption DEF Registered, InLease
  <2>7. Drains(new, d)
    <3>1. CASE Postgres
      BY <1>0, <1>4, <1>5, <1>9, <2>1, <3>1 DEF Drains, Stage
    <3>2. CASE ~Postgres /\ ~Draining
      BY <1>0, <1>4, <1>5, <1>9, <2>1, <3>2 DEF Drains, Draining
    <3>3. CASE ~Postgres /\ Draining
      <4>1. u = released /\ d.queue = conn.queue
        BY <1>9, <3>3
      <4> QED BY <1>0, <1>5, <1>9, <2>1, <4>1 DEF Drains
    <3> QED BY <3>1, <3>2, <3>3
  <2>8. Transactions(new, d)
    <3>1. CASE u = resetting
      BY <1>0, <1>1, <1>4, <1>9, <2>1, <2>4, <3>1 DEF Transactions
    <3>2. CASE u = released
      <4>1. conn.txn = NoQuery
        BY <1>0, <1>9, <3>2 DEF Drains, Draining
      <4> QED BY <1>9, <4>1, LeaseAssumption DEF Transactions
    <3> QED BY <1>9, <3>1, <3>2
  <2> QED BY <2>2, <2>3, <2>5, <2>6, <2>7, <2>8 DEF Good, new
<1> HIDE DEF longer
<1>10. CASE ~needed /\ Becomes(r, released, c)
  <2>1. Owns(from.queue, r, released)
    BY <1>5 DEF Owns
  <2>2. Fits(from.queue, r, released)
    <3>1. CASE Postgres
      BY <1>7, <3>1 DEF Fits, Idle
    <3>2. CASE ~Postgres
      <4> SUFFICES ASSUME NEW i \in 1..Len(from.queue), from.queue[i].of = r
                   PROVE  /\ from.queue[i].does = "statement" /\ q[r].side = "draining" /\ HasRows(r)
        BY <1>5, <3>2 DEF Fits
      <4>1. from.queue[i].does = "statement" /\ i = 1
        BY <1>8, <3>2
      <4>2. PICK s \in Lease : q[s].side = "draining"
        BY <1>10, <3>2 DEF Draining
      <4>3. s = r
        BY <1>0, <1>12, <4>1, <4>2 DEF Drains, Draining
      <4>4. q[r].source # "none"
        BY <1>0, <1>12, <4>2, <4>3 DEF Stage
      <4> QED BY <1>0, <1>12, <3>2, <4>1, <4>2, <4>3, <4>4 DEF Commands, CommandOK, AtMySQL
    <3> QED BY <3>1, <3>2
  <2>3. Commands([q EXCEPT ![r] = released], c.queue)
    BY <1>0, <1>12, <1>2, <1>5, <2>1, <2>2, CommandsKept
  <2>4. released # resetting
    BY <1>4, <1>5
  <2>5. Good([q EXCEPT ![r] = released], c)
    BY <1>2, <1>5, <1>9, <1>10, <2>3, <2>4
  <2> QED BY <1>10, <2>5, BecomesGood
<1>11. CASE needed /\ Becomes(r, resetting, longer)
  <2>1. Owns(from.queue, r, resetting)
    BY <1>0, <1>12, <1>1, <1>4 DEF Owns, Commands, CommandOK
  <2>2. Fits(from.queue, r, resetting)
    BY <1>0, <1>12, <1>4, <1>7, <1>8 DEF Fits, Idle, Commands, CommandOK, AtMySQL
  <2> DEFINE new == [q EXCEPT ![r] = resetting]
  <2>3. Commands(new, from.queue)
    BY <1>0, <1>12, <1>4, <2>1, <2>2, CommandsKept
  <2>4. new \in [Lease -> QueryState] /\ new[r] = resetting /\ \A s \in Lease \ {r} : new[s] = q[s]
    BY <1>0, <1>12, <1>4
  <2> HIDE DEF new
  <2>5. \A s \in Lease : InLease(new, s) /\ new[s].source # "none" => s = r
    BY <1>1, <2>4 DEF InLease
  <2>6. ASSUME ~Postgres, NEW i \in 1..Len(from.queue)
        PROVE  from.queue[i].of = r /\ from.queue[i].does = "statement"
    <3>0. from.queue[i] \in Command
      BY <1>0, <1>12
    <3>1. from.queue[i].of \in Lease
      BY <3>0 DEF Command
    <3> QED BY <1>8, <1>11, <2>6, <3>1 DEF Draining
  <2>7. Commands(new, Append(from.queue, command))
    <3>1. CASE Postgres
      BY <1>0, <1>12, <1>4, <1>6, <1>7, <2>3, <2>4, <2>5, <3>1, CommandsSent
    <3>2. CASE ~Postgres
      BY <1>0, <1>12, <1>4, <1>6, <2>3, <2>4, <2>5, <2>6, <3>2, CommandsSent
    <3> QED BY <3>1, <3>2
  <2>8. Append(from.queue, command) \in Seq(Command)
    BY <1>0, <1>12, <1>6
  <2>9. /\ longer \in ConnState /\ longer.active = NoQuery /\ longer.open = {}
        /\ longer.txn = conn.txn /\ longer.queue = Append(from.queue, command)
    BY <1>2, <2>8 DEF longer, ConnState
  <2>10. released # resetting
    BY <1>4, <1>5
  <2>11. ~Draining
    BY <1>0, <1>12, <1>11 DEF Draining, Stage
  <2>12. Good([q EXCEPT ![r] = resetting], longer)
    BY <1>4, <1>9, <1>11, <2>7, <2>9, <2>10, <2>11 DEF new
  <2> QED BY <1>11, <2>12, BecomesGood
<1> QED BY <1>3, <1>10, <1>11

\* Who is not streaming has no use for the flags.
LEMMA FlagsDropped ==
  ASSUME NEW qq, NEW c, Good(qq, c), NEW d \in ConnState,
         d.active = c.active, d.open = c.open, d.txn = c.txn, d.queue = c.queue,
         \A s \in Lease : qq[s].pc \notin Streaming
  PROVE  Good(qq, d)
<1>1. Types(qq, d) /\ Serial(qq) /\ Commands(qq, d.queue)
  BY DEF Good, Types
<1>2. Stages(qq, d)
  BY DEF Good, Stages, Stage, Streaming
<1>3. Registered(qq, d) /\ Drains(qq, d) /\ Transactions(qq, d)
  BY DEF Good, Registered, Drains, Transactions
<1> QED BY <1>1, <1>2, <1>3 DEF Good

LEMMA ResetGood == ASSUME IInv, NEW r \in Lease, Reset(r) PROVE IInv'
<1> DEFINE d == [conn EXCEPT !.flags = {}]
           u == At(r, "clearing")
           new == [q EXCEPT ![r] = u]
<1>0. /\ Good(q, conn) /\ q \in [Lease -> QueryState] /\ conn \in ConnState /\ q[r] \in QueryState
      /\ conn.queue \in Seq(Command) /\ Commands(q, conn.queue) /\ Serial(q)
      /\ Stage(q[r], r, conn) /\ Registered(q, conn) /\ Transactions(q, conn)
  BY Held
<1>1. q[r].pc = "ended" /\ InLease(q, r)
  BY DEF Reset, InLease
<1>2. /\ d \in ConnState /\ d.active = conn.active /\ d.open = conn.open /\ d.txn = conn.txn
      /\ d.queue = conn.queue
  BY <1>0 DEF ConnState
<1>3. /\ u \in QueryState /\ u.pc = "clearing" /\ u.source = q[r].source
      /\ u.side = q[r].side /\ u.cancel = q[r].cancel
      /\ u.asked = q[r].asked /\ Monotone(q[r], u)
      /\ u.aborted = q[r].aborted /\ u.expired = q[r].expired
  BY <1>0 DEF At, Monotone, QueryState
<1>4. \/ ~Draining /\ Becomes(r, u, d)
      \/ Cleared(r, d)
  BY DEF Reset, MustDrain
<1> HIDE DEF d, u
<1>5. CASE Cleared(r, d)
  BY <1>1, <1>2, <1>5, ClearedGood
<1>6. CASE ~Draining /\ Becomes(r, u, d)
  <2>1. Owns(conn.queue, r, u)
    BY <1>0, <1>1, <1>3 DEF Owns, Commands, CommandOK
  <2>2. Fits(conn.queue, r, u)
    BY <1>0, <1>1, <1>3 DEF Fits, Commands, CommandOK, AtPostgres, AtMySQL, Awaiting
  <2>3. Commands(new, conn.queue)
    BY <1>0, <1>3, <2>1, <2>2, CommandsKept
  <2>4. Tied(r, u, conn)
    BY <1>0, <1>1, <1>3 DEF Tied, Stage, Streaming, CutShort, Registered, Transactions
  <2>5. Good(new, conn)
    <3>1. /\ u.side = "draining" => q[r].side = "draining"
          /\ \A s \in Lease : q[s].side # "draining"
          /\ conn.flags \ {r} \subseteq conn.flags /\ conn.active \in {conn.active, NoQuery}
          /\ conn.txn \in {conn.txn, r, NoQuery} /\ u.pc \notin {"new", "released"}
      BY <1>3, <1>6 DEF Draining
    <3> QED BY <1>0, <1>1, <1>3, <2>3, <2>4, <3>1, GoodKept
  <2>6. \A s \in Lease : new[s].pc \notin Streaming
    <3>1. \A s \in Lease : s # r => ~InLease(q, s)
      BY <1>0, <1>1, OneInLease
    <3> QED BY <1>0, <1>3, <3>1 DEF InLease, Streaming
  <2>7. Good(new, d)
    BY <1>2, <2>5, <2>6, FlagsDropped
  <2> QED BY <1>6, <2>7, BecomesGood
<1> QED BY <1>4, <1>5, <1>6

\* The rows are read, for the cursor that reset() closes or before its ROLLBACK.
LEMMA ResetDrainedGood == ASSUME IInv, NEW r \in Lease, ResetDrained(r) PROVE IInv'
<1>0. /\ Good(q, conn) /\ q \in [Lease -> QueryState] /\ conn \in ConnState
      /\ conn.queue \in Seq(Command) /\ Commands(q, conn.queue)
      /\ \A s \in Lease : Stage(q[s], s, conn)
      /\ Registered(q, conn) /\ Transactions(q, conn) /\ Drains(q, conn)
  BY Held
<1>1. PICK by \in {"consumer", "nobody"} : Does(r, "statement", by)
  BY DEF ResetDrained
<1>2. /\ Popped \in ConnState /\ Popped.queue = Tail(conn.queue)
      /\ Popped.active = conn.active /\ Popped.flags = conn.flags
      /\ Popped.open = conn.open /\ Popped.txn = conn.txn
  BY <1>0, <1>1, PoppedIs DEF Does
<1>3. q[r].pc \in {"clearing", "resetting"} /\ ~Postgres
  BY DEF ResetDrained
<1>4. \A s \in Lease : q[s].side # "draining"
  BY <1>0, <1>3 DEF Drains
<1>5. CASE q[r].pc = "clearing" /\ Cleared(r, Popped)
  <2>1. Popped.queue = <<>>
    BY <1>1, <1>3, <1>5, Answered
  <2> QED BY <1>2, <1>4, <1>5, <2>1, ClearedGood DEF Draining
<1>6. CASE q[r].pc = "resetting" /\ Becomes(r, q[r], Popped)
  <2>1. q' = q /\ conn' = Popped /\ UNCHANGED <<kind, stmt>>
    BY <1>0, <1>6 DEF Becomes
  <2>2. Types(q, Popped) /\ Serial(q)
    BY <1>0, <1>2 DEF Good, Types
  <2>3. Commands(q, Popped.queue)
    BY <1>0, <1>1, <1>2, CommandsDone DEF Does
  <2>4. Stages(q, Popped) /\ Registered(q, Popped) /\ Transactions(q, Popped)
    BY <1>0, <1>2 DEF Stages, Stage, Registered, Transactions
  <2>5. Drains(q, Popped)
    BY <1>4 DEF Drains
  <2>6. Good(q, Popped)
    BY <2>2, <2>3, <2>4, <2>5 DEF Good
  <2> QED BY <2>1, <2>6, Transfer
<1> QED BY <1>5, <1>6 DEF ResetDrained

LEMMA ResetDoneGood == ASSUME IInv, NEW r \in Lease, ResetDone(r) PROVE IInv'
<1> DEFINE u == Released(r)
           new == [q EXCEPT ![r] = u]
<1>0. /\ q \in [Lease -> QueryState] /\ conn \in ConnState /\ q[r] \in QueryState
      /\ conn.queue \in Seq(Command) /\ Commands(q, conn.queue) /\ Serial(q)
      /\ \A s \in Lease : Stage(q[s], s, conn)
      /\ Registered(q, conn) /\ Drains(q, conn) /\ Transactions(q, conn) /\ Types(q, conn)
  BY Held DEF IInv, Good
<1>1. q[r].pc = "resetting" /\ InLease(q, r) /\ Does(r, "rollback", "reset")
  BY DEF ResetDone, InLease
<1>2. \A s \in Lease : s # r => ~InLease(q, s)
  BY <1>0, <1>1, OneInLease
<1>3. PICK d \in RolledBack : Becomes(r, u, d)
  BY DEF ResetDone
<1>4. Popped.queue = <<>> /\ conn.queue # <<>> /\ Len(conn.queue) = 1
  <2>1. IF Postgres THEN "reset" # "nobody" ELSE "rollback" = "rollback" \/ q[r].pc # "resetting"
    OBVIOUS
  <2> QED BY <1>1, <2>1, Answered DEF Does
<1>5. /\ d \in ConnState /\ d.queue = <<>> /\ d.active = conn.active /\ d.flags = conn.flags
      /\ d.open = conn.open /\ d.txn \in {conn.txn, NoQuery}
      /\ d.txn # NoQuery => Postgres /\ conn.queue[1].hit
  <2>1. /\ Popped \in ConnState /\ Popped.active = conn.active /\ Popped.flags = conn.flags
        /\ Popped.open = conn.open /\ Popped.txn = conn.txn
    BY <1>0, <1>4, PoppedIs
  <2>2. NoQuery \in Lease \cup {NoQuery}
    OBVIOUS
  <2>3. CASE d = Popped /\ Postgres /\ conn.queue[1].hit
    BY <1>4, <2>1, <2>3
  <2>4. CASE d = [Popped EXCEPT !.txn = NoQuery]
    BY <1>4, <2>1, <2>2, <2>4, TxnSet
  <2> QED BY <1>3, <2>3, <2>4 DEF RolledBack
\* The ROLLBACK was hit: somebody's cancellation is behind that.
<1>6. d.txn # NoQuery => Postgres /\ Excused(q, r)
  <2>1. conn.queue[1].of = r /\ conn.queue[1].by = "reset"
    BY <1>1 DEF Does
  <2>2. CommandOK(q, conn.queue, 1)
    BY <1>0, <1>4 DEF Commands
  <2> QED BY <1>5, <2>1, <2>2 DEF CommandOK, AtPostgres
<1>7. conn.active = NoQuery /\ conn.open = {}
  <2>1. conn.active = NoQuery
    BY <1>0, <1>1, <1>2 DEF Registered, ConnState, InLease
  <2> QED BY <1>0, <2>1, LeaseAssumption DEF Registered, ConnState
<1>8. \A s \in Lease : q[s].side # "draining"
  BY <1>0, <1>1 DEF Drains
<1>9. /\ u \in QueryState /\ u.pc = "released" /\ u.source = "over"
      /\ u.side = q[r].side /\ u.cancel = q[r].cancel
      /\ u.asked = q[r].asked /\ Monotone(q[r], u)
      /\ u.aborted = q[r].aborted /\ u.expired = q[r].expired
  BY <1>0, ReleasedIs
<1> HIDE DEF u
<1>10. new \in [Lease -> QueryState] /\ new[r] = u /\ \A s \in Lease \ {r} : new[s] = q[s]
  BY <1>0, <1>9
<1>11. Serial(new)
  BY <1>0, <1>1, <1>9, SerialKept
<1>12. Stages(new, d)
  <2>1. Stage(u, r, d)
    BY <1>0, <1>1, <1>9 DEF Stage, Streaming, CutShort
  <2>2. \A s \in Lease : Stage(q[s], s, d)
    BY <1>0, <1>5 DEF Stage
  <2> QED BY <1>10, <2>1, <2>2 DEF Stages
<1>13. \A t \in Lease : Excused(q, t) => Excused(new, t)
  BY <1>0, <1>9, ExcusedKept
<1>14. Types(new, d)
  BY <1>0, <1>5, <1>10 DEF Types
<1> HIDE DEF new
<1>15. Registered(new, d)
  BY <1>2, <1>5, <1>7, <1>9, <1>10, LeaseAssumption DEF Registered, InLease
<1>16. Commands(new, d.queue)
  BY <1>5, CommandsEmpty
<1>17. Drains(new, d)
  BY <1>8, <1>9, <1>10 DEF Drains
<1>18. Transactions(new, d)
  <2> SUFFICES ASSUME NEW t \in Lease, d.txn = t
               PROVE  /\ new[t].pc # "new" /\ Postgres
                      /\ new[t].pc = "released" => Excused(new, t)
    BY DEF Transactions
  <2>1. t # NoQuery
    BY LeaseAssumption
  <2>2. d.txn # NoQuery /\ conn.txn = t
    BY <1>5, <2>1
  <2>3. CASE t = r
    BY <1>6, <1>9, <1>10, <1>13, <2>2, <2>3
  <2>4. CASE t # r
    BY <1>0, <1>5, <1>10, <1>13, <2>2, <2>4 DEF Transactions
  <2> QED BY <2>3, <2>4
<1>19. Good(new, d)
  BY <1>11, <1>12, <1>14, <1>15, <1>16, <1>17, <1>18 DEF Good
<1> QED BY <1>3, <1>19, BecomesGood DEF u, new

-----------------------------------------------------------------------------
(* cancel(), from another task *)

\* Only the record of the cancellation changes, not where r is.
Aside(query, u) ==
  /\ u \in QueryState /\ u.pc = query.pc /\ u.source = query.source
  /\ u.aborted = query.aborted /\ u.expired = query.expired
  /\ query.asked => u.asked

\* A change of that record does not concern the commands,
LEMMA AsideCommands ==
  ASSUME IInv, NEW r \in Lease, q[r].pc # "new", q[r].side # "draining", NEW u, Aside(q[r], u)
  PROVE  Commands([q EXCEPT ![r] = u], conn.queue)
<1>0. /\ q \in [Lease -> QueryState] /\ conn.queue \in Seq(Command) /\ Commands(q, conn.queue)
  BY Held
<1>1. Monotone(q[r], u) /\ u \in QueryState /\ u.pc # "new"
  BY DEF Aside, Monotone
<1>2. ASSUME NEW i \in 1..Len(conn.queue) PROVE CommandOK(q, conn.queue, i)
  BY <1>0 DEF Commands
<1>3. Owns(conn.queue, r, u)
  BY <1>2 DEF Owns, Aside, CommandOK, InLease
<1>4. Fits(conn.queue, r, u)
  <2>1. CASE Postgres
    BY <1>2, <2>1 DEF Fits, Aside, CommandOK, AtPostgres
  <2>2. CASE ~Postgres
    BY <1>2, <2>2 DEF Fits, Aside, CommandOK, AtMySQL
  <2> QED BY <2>1, <2>2
<1> QED BY <1>0, <1>1, <1>3, <1>4, CommandsKept

\* nor the rest, if the connection fits.
LEMMA AsideGood ==
  ASSUME IInv, NEW r \in Lease, q[r].pc # "new", NEW u, Aside(q[r], u),
         NEW d \in ConnState, Stage(u, r, d),
         d.active = conn.active, conn.flags \subseteq d.flags, d.open \subseteq conn.open,
         d.txn = conn.txn,
         Commands([q EXCEPT ![r] = u], d.queue), Drains([q EXCEPT ![r] = u], d)
  PROVE  Good([q EXCEPT ![r] = u], d)
<1> DEFINE new == [q EXCEPT ![r] = u]
<1>0. /\ q \in [Lease -> QueryState] /\ conn \in ConnState /\ Serial(q)
      /\ \A s \in Lease : Stage(q[s], s, conn)
      /\ Registered(q, conn) /\ Transactions(q, conn) /\ Types(q, conn)
  BY Held DEF IInv, Good
<1>1. new \in [Lease -> QueryState] /\ new[r] = u /\ \A s \in Lease \ {r} : new[s] = q[s]
  BY <1>0 DEF Aside
<1>2. /\ Monotone(q[r], u) /\ u.pc = q[r].pc /\ u.source = q[r].source
      /\ u.aborted = q[r].aborted /\ u.expired = q[r].expired
  BY DEF Aside, Monotone
<1>3. Serial(new)
  BY <1>0, <1>2, SerialKept
<1>4. \A t \in Lease : Excused(q, t) => Excused(new, t)
  BY <1>0, <1>2, ExcusedKept
<1> HIDE DEF new
<1>5. Types(new, d)
  BY <1>0, <1>1 DEF Types
<1>6. Stages(new, d)
  <2>1. \A s \in Lease \ {r} : Stage(q[s], s, d)
    BY <1>0 DEF Stage
  <2> QED BY <1>1, <2>1 DEF Stages
<1>7. Registered(new, d)
  <2>1. \A s \in Lease : new[s].pc = q[s].pc /\ new[s].source = q[s].source /\ (CutShort(q[s]) => CutShort(new[s]))
    BY <1>1, <1>2 DEF CutShort
  <2> QED BY <1>0, <2>1 DEF Registered
<1>8. Transactions(new, d)
  BY <1>0, <1>1, <1>2, <1>4 DEF Transactions
<1> QED BY <1>3, <1>5, <1>6, <1>7, <1>8 DEF Good, new

LEMMA CancelGood == ASSUME IInv, NEW r \in Lease, Cancel(r) PROVE IInv'
<1> DEFINE asked == [q[r] EXCEPT !.cancel = TRUE, !.early = q[r].source = "fresh"]
           connecting == [asked EXCEPT !.side = "connecting", !.asked = ~Through(r)]
           told == [conn EXCEPT !.flags = @ \cup {r}]
           closed == [told EXCEPT !.open = @ \ {r}]
<1>0. /\ q \in [Lease -> QueryState] /\ conn \in ConnState /\ q[r] \in QueryState
      /\ Stage(q[r], r, conn) /\ Registered(q, conn) /\ Drains(q, conn)
  BY Held
<1>1. /\ q[r].source # "none" /\ q[r].pc \notin {"new", "executing", "released"}
      /\ q[r].side = "idle" /\ ~q[r].cancel /\ ~q[r].asked
  BY <1>0 DEF Cancel, Stage
<1>2. /\ told \in ConnState /\ told.active = conn.active /\ told.flags = conn.flags \cup {r}
      /\ told.open = conn.open /\ told.txn = conn.txn /\ told.queue = conn.queue
  BY <1>0 DEF ConnState
<1>3. /\ closed \in ConnState /\ closed.active = conn.active /\ closed.flags = conn.flags \cup {r}
      /\ closed.open = conn.open \ {r} /\ closed.txn = conn.txn /\ closed.queue = conn.queue
  BY <1>0, <1>2 DEF ConnState
<1>4. /\ Aside(q[r], asked) /\ asked.cancel /\ asked.side = "idle" /\ asked.asked = q[r].asked
  BY <1>0, <1>1 DEF QueryState, Aside
<1>5. /\ Aside(q[r], connecting) /\ connecting.cancel /\ connecting.side = "connecting"
      /\ connecting.asked = ~Through(r)
  <2>1. Through(r) \in BOOLEAN
    BY DEF Through
  <2> HIDE DEF asked
  <2>2. asked \in QueryState
    BY <1>4 DEF Aside
  <2>3. /\ connecting \in QueryState /\ connecting.pc = asked.pc /\ connecting.source = asked.source
        /\ connecting.aborted = asked.aborted /\ connecting.expired = asked.expired
        /\ connecting.cancel = asked.cancel /\ connecting.side = "connecting"
        /\ connecting.asked = ~Through(r)
    BY <2>1, <2>2 DEF QueryState
  <2> QED BY <1>1, <1>4, <2>3 DEF Aside
<1>6. Cancel(r) => \/ Becomes(r, asked, told)
                   \/ conn.active = r /\ Becomes(r, connecting, IF Postgres THEN told ELSE closed)
  BY DEF Cancel
<1> HIDE DEF asked, connecting, told, closed
<1>7. ASSUME NEW u \in {asked, connecting}, NEW d \in {told, closed},
             u = connecting => u.asked \/ (~Postgres /\ CutShort(u))
      PROVE  Good([q EXCEPT ![r] = u], d)
  <2>1. Aside(q[r], u) /\ u.cancel /\ u.side \in {"idle", "connecting"} /\ (u.side = "connecting" => u = connecting)
    BY <1>4, <1>5
  <2>2. Stage(u, r, d)
    BY <1>0, <1>1, <1>2, <1>3, <1>7, <2>1 DEF Stage, Aside
  <2>3. Commands([q EXCEPT ![r] = u], d.queue)
    BY <1>1, <1>2, <1>3, <2>1, AsideCommands
  <2>4. Drains([q EXCEPT ![r] = u], d)
    BY <1>0, <1>2, <1>3, <2>1 DEF Drains, Aside
  <2> QED BY <1>1, <1>2, <1>3, <2>1, <2>2, <2>3, <2>4, AsideGood
<1>8. CASE Becomes(r, asked, told)
  <2>1. asked # connecting
    BY <1>4, <1>5
  <2>2. Good([q EXCEPT ![r] = asked], told)
    BY <1>7, <2>1
  <2> QED BY <1>8, <2>2, BecomesGood
\* A run that is through and still registered was cut short, on MySQL.
<1>9. CASE conn.active = r /\ Becomes(r, connecting, IF Postgres THEN told ELSE closed)
  <2>1. connecting.asked \/ (~Postgres /\ CutShort(connecting))
    BY <1>0, <1>5, <1>9 DEF Through, Registered, Aside, CutShort
  <2>2. Good([q EXCEPT ![r] = connecting], IF Postgres THEN told ELSE closed)
    BY <1>7, <2>1
  <2> QED BY <1>9, <2>2, BecomesGood
<1> QED BY <1>6, <1>8, <1>9

\* The request has arrived, or it never will: the cursor cancel() took is closed.
LEMMA AfterKillGood ==
  ASSUME IInv, NEW r \in Lease, q[r].side = "connecting", NEW outcome \in {"done", "failed"},
         NEW u, u = AfterKill(r, outcome)
  PROVE  Aside(q[r], u) /\ Good([q EXCEPT ![r] = u], conn)
<1>0. /\ q \in [Lease -> QueryState] /\ conn \in ConnState /\ q[r] \in QueryState
      /\ conn.queue \in Seq(Command) /\ Commands(q, conn.queue)
      /\ Stage(q[r], r, conn) /\ Drains(q, conn) /\ Transactions(q, conn)
  BY Held
<1>1. /\ Aside(q[r], u) /\ u.cancel = q[r].cancel /\ u.asked = q[r].asked
      /\ u.side \in {"draining", "done", "failed"}
      /\ u.side = "draining" => ~Postgres /\ Working(conn, r) /\ ~Reading
  BY <1>0 DEF AfterKill, QueryState, Aside
<1>2. Stage(u, r, conn) /\ q[r].pc # "new" /\ q[r].source # "none"
  BY <1>0, <1>1 DEF Stage, Aside
<1>3. Commands([q EXCEPT ![r] = u], conn.queue)
  BY <1>1, <1>2, AsideCommands
<1>4. Drains([q EXCEPT ![r] = u], conn)
  <2>1. CASE u.side # "draining"
    BY <1>0, <1>1, <2>1 DEF Drains, Aside
  <2>2. CASE u.side = "draining"
    <3>1. PICK i \in 1..Len(conn.queue) : conn.queue[i].of = r
      BY <1>1, <2>2 DEF Working
    <3>2. 1 \in 1..Len(conn.queue) /\ conn.queue # <<>>
      <4>1. Len(conn.queue) \in Nat /\ i \in Nat /\ 1 <= i /\ i <= Len(conn.queue)
        BY <1>0, <3>1
      <4> QED BY <1>0, <4>1, EmptySeq
    <3>3. conn.queue[1].of = r /\ conn.queue[1] \in Command
      BY <1>0, <1>1, <2>2, <3>1, <3>2 DEF Commands, CommandOK
    <3>4. AtMySQL(q, conn.queue[1], 1, Len(conn.queue))
      BY <1>0, <1>1, <2>2, <3>2 DEF Commands, CommandOK
    <3>5. \A s \in Lease : q[s].pc \notin {"executing", "fetching", "unwinding", "clearing", "resetting"}
      BY <1>1, <2>2 DEF Reading
    <3>6. conn.queue[1].does = "statement"
      BY <3>3, <3>4, <3>5 DEF AtMySQL
    <3>7. HasRows(r) /\ InLease(q, r)
      BY <1>2, <3>3, <3>4, <3>6 DEF AtMySQL, InLease
    \* A transaction of begin would be the one of r, which has rows.
    <3>8. conn.txn = NoQuery
      <4> SUFFICES ASSUME NEW t \in Lease, conn.txn = t PROVE FALSE
        BY <1>0 DEF ConnState
      <4>1. InLease(q, t) /\ stmt[t] = "begin"
        BY <1>0, <1>1, <2>2 DEF Transactions, InLease
      <4>2. t = r
        BY <1>0, <3>7, <4>1, Held, OneInLease
      <4> QED BY <3>7, <4>1, <4>2 DEF HasRows
    <3>9. \A s \in Lease : q[s].side # "draining"
      BY <1>0, <3>3 DEF Drains
    <3> QED BY <1>0, <1>1, <3>2, <3>3, <3>5, <3>6, <3>8, <3>9 DEF Drains, Aside
  <2> QED BY <2>1, <2>2
<1>5. Good([q EXCEPT ![r] = u], conn)
  BY <1>0, <1>1, <1>2, <1>3, <1>4, AsideGood
<1> QED BY <1>1, <1>5

LEMMA SideFailsGood == ASSUME IInv, NEW r \in Lease, SideFails(r) PROVE IInv'
<1>1. q[r].side = "connecting" /\ Becomes(r, AfterKill(r, "failed"), conn)
  BY DEF SideFails
<1>2. Good([q EXCEPT ![r] = AfterKill(r, "failed")], conn)
  BY <1>1, AfterKillGood
<1> QED BY <1>1, <1>2, BecomesGood

LEMMA KillGood == ASSUME IInv, NEW r \in Lease, Kill(r) PROVE IInv'
<1> DEFINE u == AfterKill(r, "done")
           new == [q EXCEPT ![r] = u]
<1>0. /\ q \in [Lease -> QueryState] /\ conn.queue \in Seq(Command) /\ Commands(q, conn.queue)
      /\ Serial(q) /\ Stage(q[r], r, conn) /\ conn \in ConnState
  BY Held
<1>1. q[r].side = "connecting" /\ Becomes(r, u, Killed)
  BY DEF Kill
<1>2. Aside(q[r], u) /\ Good(new, conn)
  BY <1>1, AfterKillGood
<1> HIDE DEF u
<1>3. CASE conn.queue = <<>>
  BY <1>0, <1>1, <1>2, <1>3, KilledIs, BecomesGood
<1>4. CASE conn.queue # <<>>
  \* A ROLLBACK that is hit is the one of this lease or of a later one.
  <2>1. ASSUME Postgres, conn.queue[1].by = "reset" PROVE Excused(new, conn.queue[1].of)
    <3>0. Len(conn.queue) \in Nat /\ Len(conn.queue) >= 1
      BY <1>0, <1>4, EmptySeq
    <3>1. 1 \in 1..Len(conn.queue) /\ conn.queue[1] \in Command
      BY <1>0, <3>0
    <3>2. conn.queue[1].of \in Lease /\ q[conn.queue[1].of].pc = "resetting"
      BY <1>0, <2>1, <3>1 DEF Command, Commands, CommandOK, AtPostgres
    <3>3. q[r].asked /\ q[r].pc # "new"
      BY <1>0, <1>1, <2>1 DEF Stage
    <3>4. r <= conn.queue[1].of
      <4>1. ~(conn.queue[1].of < r)
        BY <1>0, <3>2, <3>3 DEF Serial
      <4>2. r \in Nat /\ conn.queue[1].of \in Nat
        BY <3>2, LeaseAssumption
      <4> QED BY <4>1, <4>2
    <3>5. Excused(q, conn.queue[1].of)
      BY <3>3, <3>4 DEF Excused
    <3>6. Monotone(q[r], u)
      BY <1>2 DEF Aside, Monotone
    <3> QED BY <1>0, <3>2, <3>5, <3>6, ExcusedKept
  <2>2. Good(new, Killed)
    BY <1>2, <1>4, <2>1, KilledKeeps
  <2> QED BY <1>1, <2>2, BecomesGood
<1> QED BY <1>3, <1>4

LEMMA DrainedGood == ASSUME IInv, NEW r \in Lease, Drained(r) PROVE IInv'
<1> DEFINE u == [q[r] EXCEPT !.side = "done"]
<1>0. /\ q \in [Lease -> QueryState] /\ conn \in ConnState /\ q[r] \in QueryState
      /\ Stage(q[r], r, conn) /\ Drains(q, conn)
  BY Held
<1>1. q[r].side = "draining" /\ Becomes(r, u, Popped)
  BY DEF Drained
<1>2. PICK by \in {"consumer", "nobody"} : Does(r, "statement", by)
  BY DEF Drained
<1>3. ~Postgres /\ q[r].pc \notin {"new", "resetting"}
  BY <1>0, <1>1 DEF Stage, Drains
<1>4. Popped.queue = <<>> /\ conn.queue # <<>>
  BY <1>2, <1>3, Answered DEF Does
<1>5. /\ Popped \in ConnState /\ Popped.active = conn.active /\ Popped.flags = conn.flags
      /\ Popped.open = conn.open /\ Popped.txn = conn.txn
  BY <1>0, <1>4, PoppedIs
<1>6. /\ Aside(q[r], u) /\ u.side = "done" /\ u.cancel = q[r].cancel /\ u.asked = q[r].asked
  BY <1>0 DEF QueryState, Aside
<1> HIDE DEF u
<1>7. Stage(u, r, Popped)
  BY <1>0, <1>1, <1>5, <1>6 DEF Stage, Aside
<1>8. Commands([q EXCEPT ![r] = u], Popped.queue)
  BY <1>4, CommandsEmpty
<1>9. Drains([q EXCEPT ![r] = u], Popped)
  BY <1>0, <1>1, <1>6 DEF Drains
<1>10. Good([q EXCEPT ![r] = u], Popped)
  BY <1>3, <1>5, <1>6, <1>7, <1>8, <1>9, AsideGood
<1> QED BY <1>1, <1>10, BecomesGood

-----------------------------------------------------------------------------
(* A command that nobody awaits any more *)

LEMMA DoneForNobodyGood == ASSUME IInv, NEW r \in Lease, DoneForNobody(r) PROVE IInv'
<1>0. /\ q \in [Lease -> QueryState] /\ conn \in ConnState /\ conn.queue \in Seq(Command)
      /\ Commands(q, conn.queue) /\ Good(q, conn)
      /\ Drains(q, conn) /\ Transactions(q, conn) /\ Registered(q, conn)
      /\ \A s \in Lease : Stage(q[s], s, conn)
  BY Held
<1>1. PICK does : Does(r, does, "nobody")
  BY DEF DoneForNobody
<1>2. /\ conn.queue # <<>> /\ conn.queue[1].of = r /\ conn.queue[1].does = does
      /\ conn.queue[1].by = "nobody"
  BY <1>1 DEF Does
<1>3. /\ Popped \in ConnState /\ Popped.active = conn.active /\ Popped.flags = conn.flags
      /\ Popped.open = conn.open /\ Popped.txn = conn.txn /\ Popped.queue = Tail(conn.queue)
  BY <1>0, <1>2, PoppedIs
<1>4. CommandOK(q, conn.queue, 1)
  <2>1. Len(conn.queue) \in Nat /\ Len(conn.queue) >= 1
    BY <1>0, <1>2, EmptySeq
  <2> QED BY <1>0, <2>1 DEF Commands
\* asyncpg let it run on because its task was cut short; asyncmy left a statement
\* that nobody drains.
<1>5. IF Postgres THEN CutShort(q[r])
      ELSE does = "statement" /\ (q[r].side # "draining" => q[r].pc # "released")
  BY <1>2, <1>4 DEF CommandOK, AtPostgres, AtMySQL
<1>6. q[r].pc # "new"
  BY <1>2, <1>4 DEF CommandOK
<1>7. PICK d : /\ q' = q /\ conn' = d /\ UNCHANGED <<kind, stmt>>
               /\ d \in ConnState /\ d.active = conn.active /\ d.flags = conn.flags
               /\ d.open = conn.open /\ d.queue = Tail(conn.queue)
               /\ d.txn \in {conn.txn, r, NoQuery}
               /\ d.txn = r /\ conn.txn # r => Postgres \/ stmt[r] = "begin"
               /\ ~Postgres => q[r].side # "draining"
  <2>1. q' = q /\ UNCHANGED <<kind, stmt>>
    BY DEF DoneForNobody
  <2>2. Popped.txn = conn.txn /\ Popped \in ConnState
    BY <1>3
  <2>3. ASSUME NEW t \in {r, NoQuery}
        PROVE  LET d == [Popped EXCEPT !.txn = t] IN
               /\ d \in ConnState /\ d.active = conn.active /\ d.flags = conn.flags
               /\ d.open = conn.open /\ d.queue = Tail(conn.queue) /\ d.txn = t
    BY <1>3, TxnSet
  <2>4. CASE Postgres /\ conn' \in {Popped, [Popped EXCEPT !.txn = r], [Popped EXCEPT !.txn = NoQuery]}
    <3>1. CASE conn' = Popped
      BY <1>3, <2>1, <2>4, <3>1
    <3>2. CASE conn' = [Popped EXCEPT !.txn = r]
      BY <2>1, <2>3, <2>4, <3>2
    <3>3. CASE conn' = [Popped EXCEPT !.txn = NoQuery]
      BY <2>1, <2>3, <2>4, <3>3
    <3> QED BY <2>4, <3>1, <3>2, <3>3
  <2>5. CASE ~Postgres
    <3>1. Does(r, "statement", "nobody") /\ q[r].side # "draining" /\ conn' \in {Popped, Begun(r)}
      BY <1>2, <1>5, <2>5 DEF DoneForNobody, Does
    <3>2. CASE conn' = Popped
      BY <1>3, <2>1, <2>5, <3>1, <3>2
    <3>3. CASE conn' = [Popped EXCEPT !.txn = r] /\ stmt[r] = "begin"
      BY <2>1, <2>3, <2>5, <3>1, <3>3
    <3> QED BY <3>1, <3>2, <3>3 DEF Begun
  <2> QED BY <2>4, <2>5 DEF DoneForNobody, RolledBack, Begun
<1>8. Commands(q, d.queue) /\ Types(q, d)
  BY <1>0, <1>2, <1>7, CommandsDone DEF Good, Types
<1>9. Serial(q) /\ Stages(q, d)
  BY <1>0, <1>7 DEF Good, Stages, Stage
<1>10. Registered(q, d)
  BY <1>0, <1>7 DEF Registered
\* A statement that is drained is done for who drains it.
<1>11. Drains(q, d)
  <2>1. \A s \in Lease : q[s].side # "draining"
    BY <1>0, <1>2, <1>7 DEF Drains, Stage
  <2> QED BY <2>1 DEF Drains
<1>12. Transactions(q, d)
  <2> SUFFICES ASSUME NEW t \in Lease, d.txn = t
               PROVE  /\ q[t].pc # "new" /\ (q[t].pc = "released" => Postgres /\ Excused(q, t))
                      /\ ~Postgres => stmt[t] = "begin"
    BY DEF Transactions
  <2>1. CASE conn.txn = t
    BY <1>0, <2>1 DEF Transactions
  <2>2. CASE conn.txn # t
    <3>1. t = r
      BY <1>7, <2>2, LeaseAssumption
    <3> QED BY <1>5, <1>6, <1>7, <2>2, <3>1 DEF Excused
  <2> QED BY <2>1, <2>2
<1>13. Good(q, d)
  BY <1>8, <1>9, <1>10, <1>11, <1>12 DEF Good
<1> QED BY <1>7, <1>13, Transfer

-----------------------------------------------------------------------------
(* The theorems *)

LEMMA InitGood == Init => IInv
<1> SUFFICES ASSUME Init PROVE IInv
  OBVIOUS
<1> DEFINE fresh == [pc |-> "new", source |-> "none", closing |-> FALSE, got |-> 0,
                     expired |-> FALSE, aborted |-> FALSE, cancel |-> FALSE,
                     side |-> "idle", asked |-> FALSE, early |-> FALSE]
<1>1. /\ kind \in {"postgres", "mysql"} /\ stmt \in [Lease -> Statement]
      /\ q = [r \in Lease |-> fresh]
      /\ conn = [active |-> NoQuery, flags |-> {}, open |-> {}, txn |-> NoQuery, queue |-> <<>>]
  BY DEF Init
<1>2. fresh \in QueryState
  BY DEF QueryState
<1>3. /\ fresh.pc = "new" /\ fresh.source = "none" /\ ~fresh.cancel /\ fresh.side = "idle"
      /\ ~fresh.asked
  OBVIOUS
<1> HIDE DEF fresh
<1>4. q \in [Lease -> QueryState] /\ \A r \in Lease : q[r] = fresh
  BY <1>1, <1>2
<1>5. /\ conn \in ConnState /\ conn.active = NoQuery /\ conn.open = {} /\ conn.txn = NoQuery
      /\ conn.queue = <<>>
  BY <1>1 DEF ConnState
<1>6. Types(q, conn) /\ Commands(q, conn.queue)
  BY <1>1, <1>4, <1>5, CommandsEmpty DEF Types
<1>7. Serial(q) /\ Stages(q, conn) /\ Drains(q, conn)
  BY <1>3, <1>4 DEF Serial, Stages, Stage, Streaming, Drains
<1>8. Registered(q, conn) /\ Transactions(q, conn)
  BY <1>3, <1>4, <1>5, LeaseAssumption DEF Registered, Transactions
<1> QED BY <1>6, <1>7, <1>8 DEF IInv, Good

LEMMA NextGood == ASSUME IInv, Next PROVE IInv'
<1> SUFFICES ASSUME NEW r \in Lease,
                    \/ Start(r) \/ Server(r) \/ Consumer(r) \/ Cancel(r) \/ Side(r)
                    \/ TimeoutSide(r) \/ Expire(r) \/ CancelExecuting(r) \/ CancelTask(r)
             PROVE  IInv'
  BY DEF Next
<1>1. CASE Server(r)
  BY <1>1, DoneForNobodyGood, ExecutedGood, ExecuteFailsGood, OpenedGood, FetchRowsGood,
     FetchEmptyGood, FetchFailsGood, UnwoundGood, DrainedGood, ResetDrainedGood, ResetDoneGood
     DEF Server
<1>2. CASE Consumer(r)
  BY <1>2, PullGood, PullTooLateGood, AbandonGood, ResetGood DEF Consumer
<1>3. CASE Side(r)
  BY <1>3, KillGood, SideFailsGood DEF Side
<1> QED BY <1>1, <1>2, <1>3, StartGood, CancelGood, TimeoutSideGood, ExpireGood,
           CancelExecutingGood, CancelTaskGood

\* Every reachable state is one in which whatever is still at the server is of the
\* lease there is, or accounted for.
THEOREM Invariant == Spec => []IInv
<1>1. IInv /\ [Next]_vars => IInv'
  <2>1. ASSUME IInv, UNCHANGED vars PROVE IInv'
    <3>1. Good(q, conn) /\ q' = q /\ conn' = conn /\ UNCHANGED <<kind, stmt>>
      BY <2>1 DEF IInv, vars
    <3> QED BY <3>1, Transfer
  <2> QED BY <2>1, NextGood
<1> QED BY InitGood, <1>1, PTL DEF Spec

\* An adapter serves one query: one statement at most is registered, and it is the
\* active one.
THEOREM TypeCorrect == Spec => []TypeOK
<1>1. IInv => TypeOK
  <2> SUFFICES ASSUME IInv PROVE TypeOK
    OBVIOUS
  <2>1. /\ kind \in {"postgres", "mysql"} /\ stmt \in [Lease -> Statement]
        /\ q \in [Lease -> QueryState] /\ conn \in ConnState /\ conn.open \subseteq {conn.active}
    BY Held DEF Registered
  <2>2. conn.open = {} \/ conn.open = {conn.active}
    BY <2>1
  <2>3. Cardinality({}) = 0 /\ Cardinality({conn.active}) = 1
    BY FS_EmptySet, FS_Singleton
  <2>4. Cardinality(conn.open) <= 1
    BY <2>2, <2>3
  <2> QED BY <2>1, <2>4 DEF TypeOK, ConnState
<1> QED BY Invariant, <1>1, PTL

\* Within a lease everything at the server is of that lease (Commands); a request
\* still on its way when its lease is over is the excused one.
THEOREM KillsReachOwn == Spec => KillsOwn
<1>1. IInv => \A r \in Lease : (Kill(r) \/ TimeoutKills(r)) /\ conn.queue # <<>> =>
        \/ conn.queue[1].of = r
        \/ /\ q[r].pc = "released"
           /\ \/ q[r].asked
              \/ ~Postgres /\ (q[r].aborted \/ q[r].expired)
  <2> SUFFICES ASSUME IInv, NEW r \in Lease, Kill(r) \/ TimeoutKills(r), conn.queue # <<>>,
                      conn.queue[1].of # r
               PROVE  /\ q[r].pc = "released"
                      /\ q[r].asked \/ (~Postgres /\ (q[r].aborted \/ q[r].expired))
    OBVIOUS
  <2>0. conn.queue \in Seq(Command) /\ Commands(q, conn.queue) /\ Stage(q[r], r, conn)
    BY Held
  <2>1. Len(conn.queue) \in Nat /\ Len(conn.queue) >= 1
    BY <2>0, EmptySeq
  <2>2. CommandOK(q, conn.queue, 1)
    BY <2>0, <2>1 DEF Commands
  <2>3. ~(InLease(q, r) /\ q[r].source # "none")
    BY <2>2 DEF CommandOK
  <2>4. q[r].side = "connecting" \/ q[r].pc = "cancelling"
    BY DEF Kill, TimeoutKills
  <2> QED BY <2>0, <2>3, <2>4 DEF Stage, Streaming, InLease, CutShort
<1> QED BY Invariant, <1>1, PTL DEF KillsOwn

\* A transaction that outlives its lease does so on PostgreSQL, and somebody cut its
\* task short or asked for a kill that could hit its ROLLBACK.
THEOREM TransactionsOwn == Spec => OwnTransaction
<1>1. IInv => \A r \in Lease : Executed(r) => LET of == conn.txn IN
        \/ of \in {NoQuery, r}
        \/ /\ Postgres
           /\ \/ q[of].aborted \/ q[of].expired
              \/ \E s \in Lease : s <= of /\ q[s].asked
  <2> SUFFICES ASSUME IInv, NEW r \in Lease, Executed(r), conn.txn \notin {NoQuery, r}
               PROVE  Postgres /\ Excused(q, conn.txn)
    BY DEF Excused, CutShort
  <2>1. conn.txn \in Lease
    BY Held DEF ConnState
  <2>2. InLease(q, r)
    BY DEF Executed, InLease
  <2>3. ~InLease(q, conn.txn)
    BY <2>1, <2>2, Held, OneInLease
  <2> QED BY <2>1, <2>3, Held DEF Transactions, InLease
<1> QED BY Invariant, <1>1, PTL DEF OwnTransaction

\* A lease ends with nothing awaited: what asyncpg still has at the server it has
\* told to stop, and MySQL's ROLLBACK comes after all but what cancel() drains.
THEOREM HandoverQuiet == Spec => QuietHandover
<1>1. IInv => \A r \in Lease : Start(r) =>
        IF Postgres THEN \A i \in 1..Len(conn.queue) : conn.queue[i].hit
        ELSE conn.queue = <<>> \/ Draining
  BY QuietTurn DEF Start
<1> QED BY Invariant, <1>1, PTL DEF QuietHandover
==============================================================================
