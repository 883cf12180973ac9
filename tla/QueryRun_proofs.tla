--------------------------- MODULE QueryRun_proofs ---------------------------
(***************************************************************************)
(* Proofs about QueryRun for every number of runs and of batches: type     *)
(* correctness with at most one cursor, no partial success, that a run     *)
(* implements QueryContract, and what a lease leaves to the next one.      *)
(*                                                                         *)
(* The first strengthening has four parts.  Serial: leases follow one      *)
(* another.  Orderly: the thread's queue has at most one job that the      *)
(* consumer or the reset of a run awaits, and that is what the run is      *)
(* waiting for.  CursorsHeld: a cursor is registered between execute() and *)
(* reset().  Stages: what a QueryHandle and its generator say at each      *)
(* suspension.  The second one, JInv, is about what nobody awaits any      *)
(* more: the jobs a cancelled task left in the queue, and its transaction. *)
(*                                                                         *)
(* Both proofs go the same way: lemmas about the operations on the queue,  *)
(* then about the ways a run unwinds and ends, then one per action.        *)
(***************************************************************************)
EXTENDS QueryRun, FiniteSetTheorems, TLAPS

ConnState == [cursors : SUBSET Run, flags : [Run -> {"none", "clear", "set"}],
              txn : Run \cup {NoRun}, queue : Seq(Job)]
Types == stmt \in [Run -> Statement] /\ run \in [Run -> RunState] /\ conn \in ConnState

Serial == \A r, s \in Run : s < r /\ run[r].pc # "new" => run[s].pc = "released"

CursorsHeld == \A r \in conn.cursors : run[r].pc \notin {"new", "executing", "rollback", "released"}

\* The jobs of r that somebody awaits as part of the lease.
Own(job, r) == job.of = r /\ job.by \in {"consumer", "reset"}

\* What a run that is at q waits for.
Awaits(q, job) ==
  \/ job.by = "consumer" /\ \/ job.kind = "execute" /\ q.pc = "executing"
                            \/ job.kind = "fetch" /\ q.pc = "fetching"
                            \/ job.kind = "close" /\ q.pc \in {"unwinding", "cancelling", "closing"}
  \/ job.by = "reset" /\ \/ job.kind = "close" /\ q.pc = "resetting"
                         \/ job.kind = "rollback" /\ q.pc = "rollback"

Orderly(queue, r, q) ==
  \A i \in 1..Len(queue) :
    Own(queue[i], r) => /\ Awaits(q, queue[i])
                        /\ \A j \in 1..Len(queue) : Own(queue[j], r) => j = i
Orders == \A r \in Run : Orderly(conn.queue, r, run[r])

\* A record of a run of this statement.
Stage(q, statement) ==
  /\ q.pc \in {"new", "executing"} => q.source = "none" /\ ~q.cancel
  /\ q.pc = "returned" => q.source = "fresh"
  /\ q.pc = "fetching" => q.source = "suspended"
  /\ q.pc = "holding" => q.source \in {"suspended", "last"}
  /\ q.pc = "unwinding" => q.source = "over"
  /\ q.pc \in {"new", "executing", "returned", "fetching", "holding", "unwinding", "cancelling"} =>
       q.events = <<>>
  /\ q.pc = "closing" => q.events # <<>>
  /\ Len(q.events) <= 1
  /\ q.source \in {"none", "fresh"} => q.got = 0
  /\ q.source = "last" => q.got = statement.batches
  /\ q.source = "last" /\ q.pc = "holding" /\ ~q.cancel => q.status = "succeeded"
  /\ q.why = "done" /\ q.pc = "unwinding" =>
       q.got = statement.batches /\ (~q.cancel => q.status = "succeeded")
  /\ q.status = "succeeded" => q.got = statement.batches
  /\ q.events = <<"completed">> /\ ~q.cancel => q.status = "succeeded"
Stages == \A r \in Run : Stage(run[r], stmt[r])

IInv == Types /\ Serial /\ CursorsHeld /\ Orders /\ Stages

-----------------------------------------------------------------------------
(* The queue of the connection's thread *)

Silent(queue, r) == \A i \in 1..Len(queue) : ~Own(queue[i], r)

\* The other runs find nothing new in the queue that concerns them.
Leaves(queue, new, r) ==
  \A s \in Run \ {r} : \A q : Orderly(queue, s, q) => Orderly(new, s, q)

LEMMA SilentOrderly == ASSUME NEW queue, NEW r, NEW q, Silent(queue, r) PROVE Orderly(queue, r, q)
BY DEF Silent, Orderly

\* A run that waits for no job has none.
LEMMA NothingAwaited ==
  ASSUME NEW queue, NEW r, NEW q, Orderly(queue, r, q),
         q.pc \in {"new", "returned", "holding", "ended", "released"}
  PROVE  Silent(queue, r)
BY DEF Silent, Orderly, Awaits

\* The thread takes the first job: if it was awaited, nothing of its run is left.
LEMMA PoppedJob ==
  ASSUME NEW queue \in Seq(Job), queue # <<>>, NEW r \in Run, NEW q, Orderly(queue, r, q)
  PROVE  /\ Tail(queue) \in Seq(Job)
         /\ Orderly(Tail(queue), r, q)
         /\ Own(queue[1], r) => Silent(Tail(queue), r)
<1>. DEFINE rest == Tail(queue)
<1>1. /\ rest \in Seq(Job) /\ 1 \in 1..Len(queue)
      /\ \A i \in 1..Len(rest) : i + 1 \in 1..Len(queue) /\ rest[i] = queue[i + 1] /\ i + 1 # 1
      /\ \A i, j \in 1..Len(rest) : i + 1 = j + 1 => i = j
  OBVIOUS
<1>. HIDE DEF rest
<1>2. Orderly(rest, r, q)
  <2>. SUFFICES ASSUME NEW i \in 1..Len(rest), Own(rest[i], r)
                PROVE  /\ Awaits(q, rest[i])
                       /\ \A j \in 1..Len(rest) : Own(rest[j], r) => j = i
    BY DEF Orderly
  <2>1. i + 1 \in 1..Len(queue) /\ rest[i] = queue[i + 1]
    BY <1>1
  <2>2. /\ Awaits(q, queue[i + 1])
        /\ \A j \in 1..Len(queue) : Own(queue[j], r) => j = i + 1
    BY Zenon, <2>1 DEF Orderly
  <2>3. \A j \in 1..Len(rest) : Own(rest[j], r) => j + 1 = i + 1
    BY Zenon, <1>1, <2>2
  <2>. QED
    BY Zenon, <1>1, <2>1, <2>2, <2>3
<1>3. ASSUME Own(queue[1], r) PROVE Silent(rest, r)
  <2>1. \A j \in 1..Len(queue) : Own(queue[j], r) => j = 1
    BY Zenon, <1>1, <1>3 DEF Orderly
  <2>. QED
    BY Zenon, <1>1, <2>1 DEF Silent
<1>. QED
  BY <1>1, <1>2, <1>3 DEF rest

LEMMA PoppedLeaves ==
  ASSUME NEW queue \in Seq(Job), queue # <<>>, NEW r \in Run
  PROVE  Leaves(queue, Tail(queue), r)
BY PoppedJob DEF Leaves

\* A job is put in the queue when its run has none there, or awaits none of it.
LEMMA QueuedJob ==
  ASSUME NEW queue \in Seq(Job), NEW job \in Job, NEW r \in Run, NEW q, Orderly(queue, r, q),
         Own(job, r) => Silent(queue, r) /\ Awaits(q, job)
  PROVE  Append(queue, job) \in Seq(Job) /\ Orderly(Append(queue, job), r, q)
<1>. DEFINE longer == Append(queue, job)
<1>1. /\ longer \in Seq(Job) /\ Len(queue) \in Nat /\ Len(longer) = Len(queue) + 1
      /\ longer[Len(queue) + 1] = job
      /\ \A i \in 1..Len(queue) : longer[i] = queue[i]
      /\ \A i \in 1..Len(longer) : i \in 1..Len(queue) \/ i = Len(queue) + 1
  OBVIOUS
<1>. HIDE DEF longer
<1>2. ASSUME NEW i \in 1..Len(longer), Own(longer[i], r)
      PROVE  /\ Awaits(q, longer[i])
             /\ \A j \in 1..Len(longer) : Own(longer[j], r) => j = i
  <2>1. CASE Own(job, r)
    BY Zenon, <1>1, <1>2, <2>1 DEF Silent
  <2>2. CASE ~Own(job, r)
    BY Zenon, <1>1, <1>2, <2>2 DEF Orderly
  <2>. QED
    BY <2>1, <2>2
<1>. QED
  BY Zenon, <1>1, <1>2 DEF Orderly, longer

LEMMA QueuedLeaves ==
  ASSUME NEW queue \in Seq(Job), NEW job \in Job, NEW r \in Run, job.of = r
  PROVE  Leaves(queue, Append(queue, job), r)
<1>1. \A s \in Run \ {r} : ~Own(job, s)
  BY DEF Own
<1>. QED
  BY <1>1, QueuedJob DEF Leaves

\* A queue in which every job is of the same run and kind, and is awaited by the
\* same task or by nobody any more.
Fades(queue, new) ==
  /\ Len(new) = Len(queue)
  /\ \A i \in 1..Len(queue) :
       /\ new[i].of = queue[i].of /\ new[i].kind = queue[i].kind
       /\ new[i].by \in {queue[i].by, "nobody"}

LEMMA FadedJobs ==
  ASSUME NEW queue, NEW new, Fades(queue, new), NEW r, NEW q, Orderly(queue, r, q)
  PROVE  Orderly(new, r, q)
<1>1. ASSUME NEW i \in 1..Len(queue), Own(new[i], r)
      PROVE  Own(queue[i], r) /\ new[i].by = queue[i].by
  BY <1>1 DEF Fades, Own
<1>2. ASSUME NEW i \in 1..Len(queue), Own(new[i], r), Awaits(q, queue[i]) PROVE Awaits(q, new[i])
  BY <1>1, <1>2 DEF Fades, Awaits
<1>3. Len(new) = Len(queue)
  BY DEF Fades
<1>. QED
  BY Zenon, <1>1, <1>2, <1>3 DEF Orderly

LEMMA FadedLeaves ==
  ASSUME NEW queue, NEW new, Fades(queue, new), NEW r
  PROVE  Leaves(queue, new, r)
BY FadedJobs DEF Leaves

\* interrupt() leaves the queue as it is, but for the mark on the running job.
LEMMA InterruptedFades ==
  ASSUME NEW queue \in Seq(Job)
  PROVE  Interrupted(queue) \in Seq(Job) /\ Fades(queue, Interrupted(queue))
<1>1. CASE queue # <<>> /\ queue[1].kind \in {"execute", "fetch"}
  <2>1. /\ Interrupted(queue) = [queue EXCEPT ![1].hit = TRUE] /\ 1 \in 1..Len(queue)
        /\ \A i \in 1..Len(queue) : queue[i] \in Job
    BY <1>1 DEF Interrupted
  <2>. DEFINE job == [queue[1] EXCEPT !.hit = TRUE]
  <2>2. job \in Job /\ job.of = queue[1].of /\ job.kind = queue[1].kind /\ job.by = queue[1].by
    BY <2>1 DEF Job
  <2>3. Interrupted(queue) = [queue EXCEPT ![1] = job]
    BY <2>1
  <2>. HIDE DEF job
  <2>. DEFINE new == [queue EXCEPT ![1] = job]
  <2>4. new \in Seq(Job) /\ Len(new) = Len(queue)
    BY <2>1, <2>2
  <2>5. \A i \in 1..Len(queue) : new[i] = IF i = 1 THEN job ELSE queue[i]
    BY <2>1, <2>2
  <2>. HIDE DEF new
  <2>6. Fades(queue, new)
    BY <2>2, <2>4, <2>5 DEF Fades
  <2>. QED
    BY <2>3, <2>4, <2>6 DEF new
<1>2. CASE ~(queue # <<>> /\ queue[1].kind \in {"execute", "fetch"})
  <2>1. Interrupted(queue) = queue
    BY <1>2 DEF Interrupted
  <2>. QED
    BY <2>1 DEF Fades
<1>. QED
  BY <1>1, <1>2

\* Nobody awaits any more what a cancelled consumer awaited.
LEMMA DesertedFades ==
  ASSUME conn \in ConnState, NEW r \in Run, Orderly(conn.queue, r, run[r]),
         run[r].pc \notin {"resetting", "rollback"}
  PROVE  /\ Deserted(r) \in ConnState
         /\ Deserted(r).cursors = conn.cursors /\ Deserted(r).flags = conn.flags
         /\ Deserted(r).txn = conn.txn
         /\ Fades(conn.queue, Deserted(r).queue) /\ Silent(Deserted(r).queue, r)
<1>. DEFINE queue == conn.queue
            change(i) == IF queue[i].of = r /\ queue[i].by = "consumer"
                         THEN [queue[i] EXCEPT !.by = "nobody"] ELSE queue[i]
            new == [i \in 1..Len(queue) |-> change(i)]
<1>1. queue \in Seq(Job) /\ Len(queue) \in Nat /\ \A i \in 1..Len(queue) : queue[i] \in Job
  BY DEF ConnState
<1>2. ASSUME NEW i \in 1..Len(queue)
      PROVE  /\ change(i) \in Job
             /\ change(i).of = queue[i].of /\ change(i).kind = queue[i].kind
             /\ change(i).by = IF queue[i].of = r /\ queue[i].by = "consumer"
                               THEN "nobody" ELSE queue[i].by
  BY <1>1 DEF Job
<1>3. Deserted(r) = [conn EXCEPT !.queue = new]
  BY DEF Deserted
<1>. HIDE DEF change
<1>4. new \in Seq(Job) /\ Len(new) = Len(queue) /\ \A i \in 1..Len(queue) : new[i] = change(i)
  BY <1>1, <1>2
<1>. HIDE DEF new
<1>5. Fades(queue, new)
  BY <1>2, <1>4 DEF Fades
<1>6. Silent(new, r)
  <2>1. ASSUME NEW i \in 1..Len(queue), Own(new[i], r) PROVE FALSE
    <3>1. queue[i].of = r /\ queue[i].by = "reset"
      BY <1>2, <1>4, <2>1 DEF Own
    <3>2. Awaits(run[r], queue[i])
      BY <3>1 DEF Orderly, Own
    <3>. QED
      BY <3>1, <3>2 DEF Awaits
  <2>. QED
    BY <1>4, <2>1 DEF Silent
<1>. QED
  BY <1>3, <1>4, <1>5, <1>6 DEF ConnState

-----------------------------------------------------------------------------
(* One run becomes query and the adapter becomes adapter *)

\* How the contract sees a record.
PhaseOf(q) ==
  IF q.events # <<>> \/ q.pc \in {"ended", "resetting", "rollback", "released"} THEN "over"
  ELSE IF q.source \in {"none", "fresh"} THEN "new" ELSE "open"

\* The update of a record is a step of the contract, or none.
Honours(q, new, statement) ==
  \/ /\ new.got = q.got /\ new.cancel = q.cancel /\ new.events = q.events
     /\ PhaseOf(new) = PhaseOf(q) \/ (PhaseOf(q) = "new" /\ PhaseOf(new) \in {"open", "over"})
  \/ /\ new.got = q.got + 1 /\ q.got < statement.batches /\ new.cancel = q.cancel /\ ~q.cancel
     /\ new.events = q.events /\ PhaseOf(q) = "open" /\ PhaseOf(new) = "open"
  \/ /\ new.got = q.got /\ new.cancel
     /\ new.events = q.events /\ PhaseOf(new) = PhaseOf(q)
  \/ /\ new.got = q.got /\ new.cancel = q.cancel
     /\ \E event \in {"completed", "failed", "cancelled"} :
          /\ new.events = Append(q.events, event)
          /\ event = "completed" => PhaseOf(q) = "open" /\ q.got = statement.batches
     /\ PhaseOf(q) # "over" /\ PhaseOf(new) = "over"

SoundQuery(r, query) ==
  /\ query \in RunState /\ Stage(query, stmt[r]) /\ Honours(run[r], query, stmt[r])
  /\ run[r].pc = "new" /\ query.pc # "new" => \A s \in Run : s < r => run[s].pc = "released"
  /\ run[r].pc = "released" => query.pc = "released"

SoundAdapter(r, query, adapter) ==
  /\ adapter \in ConnState
  /\ adapter.cursors \subseteq conn.cursors \cup {r}
  /\ r \in adapter.cursors => query.pc \notin {"new", "executing", "rollback", "released"}
  /\ Orderly(adapter.queue, r, query) /\ Leaves(conn.queue, adapter.queue, r)

ContractKept == Contract!Next \/ UNCHANGED Contract!vars

\* The update of one record is a step of the contract.
LEMMA HonoursStep ==
  ASSUME Types, NEW r \in Run, NEW query, run' = [run EXCEPT ![r] = query], stmt' = stmt,
         Honours(run[r], query, stmt[r])
  PROVE  ContractKept
<1>. DEFINE given(f) == [s \in Run |-> f[s].got]
            stopped(f) == {s \in Run : f[s].cancel}
            told(f) == [s \in Run |-> f[s].events]
            phase(f) == [s \in Run |-> PhaseOf(f[s])]
<1>1. /\ Contract!vars = <<[s \in Run |-> stmt[s].batches], phase(run), given(run), stopped(run), told(run)>>
      /\ Contract!vars' = <<[s \in Run |-> stmt[s].batches], phase(run'), given(run'), stopped(run'), told(run')>>
  BY DEF Contract!vars, PhaseOf, Over
<1>. run \in [Run -> RunState]
  BY DEF Types
<1>2. run'[r] = query /\ \A s \in Run : s # r => run'[s] = run[s]
  OBVIOUS
<1>3. /\ given(run') = [given(run) EXCEPT ![r] = query.got]
      /\ told(run') = [told(run) EXCEPT ![r] = query.events]
      /\ phase(run') = [phase(run) EXCEPT ![r] = PhaseOf(query)]
  BY <1>2
<1>4. CASE given(run') = given(run) /\ stopped(run') = stopped(run) /\ told(run') = told(run)
           /\ phase(run') = phase(run)
  BY <1>1, <1>4 DEF ContractKept
<1>5. CASE /\ given(run') = given(run) /\ stopped(run') = stopped(run) /\ told(run') = told(run)
           /\ PhaseOf(run[r]) = "new" /\ PhaseOf(query) = "open"
  <2>1. Contract!Open(r)
    BY <1>3, <1>5 DEF Contract!Open, PhaseOf, Over
  <2>. QED
    BY <2>1 DEF ContractKept, Contract!Next
<1>6. CASE /\ query.got = run[r].got + 1 /\ run[r].got < stmt[r].batches
           /\ stopped(run') = stopped(run) /\ r \notin stopped(run) /\ told(run') = told(run)
           /\ phase(run') = phase(run) /\ PhaseOf(run[r]) = "open"
  <2>1. Contract!Deliver(r)
    BY <1>3, <1>6 DEF Contract!Deliver, PhaseOf, Over
  <2>. QED
    BY <2>1 DEF ContractKept, Contract!Next
<1>7. CASE /\ given(run') = given(run) /\ stopped(run') = stopped(run) \cup {r}
           /\ told(run') = told(run) /\ phase(run') = phase(run)
  <2>1. Contract!Stop(r)
    BY <1>7 DEF Contract!Stop, PhaseOf, Over
  <2>. QED
    BY <2>1 DEF ContractKept, Contract!Next
<1>8. CASE /\ given(run') = given(run) /\ stopped(run') = stopped(run)
           /\ \E event \in {"completed", "failed", "cancelled"} :
                /\ query.events = Append(run[r].events, event)
                /\ event = "completed" => PhaseOf(run[r]) = "open" /\ run[r].got = stmt[r].batches
           /\ PhaseOf(run[r]) # "over" /\ PhaseOf(query) = "over"
  <2>1. PICK event \in {"completed", "failed", "cancelled"} :
          /\ query.events = Append(run[r].events, event)
          /\ event = "completed" => PhaseOf(run[r]) = "open" /\ run[r].got = stmt[r].batches
    BY <1>8
  <2>2. Contract!End(r, event)
    BY <1>3, <1>8, <2>1 DEF Contract!End, PhaseOf, Over
  <2>. QED
    BY <2>2 DEF ContractKept, Contract!Next
<1>11. CASE /\ given(run') = given(run) /\ stopped(run') = stopped(run) /\ told(run') = told(run)
            /\ PhaseOf(run[r]) = "new" /\ PhaseOf(query) = "over"
  <2>1. Contract!Vanish(r)
    BY <1>3, <1>11 DEF Contract!Vanish, PhaseOf, Over
  <2>. QED
    BY <2>1 DEF ContractKept, Contract!Next
<1>9. /\ query.got = run[r].got => given(run') = given(run)
      /\ query.cancel = run[r].cancel => stopped(run') = stopped(run)
      /\ query.cancel => stopped(run') = stopped(run) \cup {r}
      /\ query.events = run[r].events => told(run') = told(run)
      /\ PhaseOf(query) = PhaseOf(run[r]) => phase(run') = phase(run)
  BY <1>2
<1>10. ~run[r].cancel => r \notin stopped(run)
  OBVIOUS
<1>. HIDE DEF given, stopped, told, phase
<1>. QED
  BY <1>10, <1>11, <1>4, <1>5, <1>6, <1>7, <1>8, <1>9 DEF Honours

\* A sound update keeps the invariant and the contract.
LEMMA BecomesStep ==
  ASSUME IInv, NEW r \in Run, NEW query, NEW adapter, Becomes(r, query, adapter),
         SoundQuery(r, query), SoundAdapter(r, query, adapter)
  PROVE  IInv' /\ ContractKept
<1>1. run' = [run EXCEPT ![r] = query] /\ conn' = adapter /\ stmt' = stmt
  BY DEF Becomes
<1>2. /\ run \in [Run -> RunState] /\ run'[r] = query
      /\ \A s \in Run : s # r => run'[s] = run[s]
  BY <1>1 DEF IInv, Types
<1>3. Types'
  BY <1>1, <1>2 DEF IInv, Types, SoundQuery, SoundAdapter
<1>4. Serial'
  <2>. SUFFICES ASSUME NEW s \in Run, NEW u \in Run, u < s, run'[s].pc # "new"
                PROVE  run'[u].pc = "released"
    BY DEF Serial
  <2>. s \in Nat /\ u \in Nat
    BY RunAssumption
  <2>1. s # u
    OBVIOUS
  <2>2. CASE s = r
    BY <1>2, <2>1, <2>2 DEF IInv, Serial, SoundQuery
  <2>3. CASE s # r
    <3>1. run[u].pc = "released"
      BY <1>2, <2>3 DEF IInv, Serial
    <3>. QED
      BY <1>2, <3>1 DEF SoundQuery
  <2>. QED
    BY <2>2, <2>3
<1>5. CursorsHeld'
  BY <1>1, <1>2 DEF IInv, CursorsHeld, SoundAdapter, Types, ConnState
<1>6. Orders'
  BY <1>1, <1>2 DEF IInv, Orders, SoundAdapter, Leaves
<1>7. Stages'
  BY <1>1, <1>2 DEF IInv, Stages, SoundQuery
<1>8. ContractKept
  BY <1>1, HonoursStep DEF IInv, SoundQuery
<1>. QED
  BY <1>3, <1>4, <1>5, <1>6, <1>7, <1>8 DEF IInv

\* An adapter whose thread has nothing to do that this run awaits.
Ready(r, adapter) ==
  /\ adapter \in ConnState /\ adapter.cursors \subseteq conn.cursors
  /\ Silent(adapter.queue, r) /\ Leaves(conn.queue, adapter.queue, r)

LEMMA ReadyHere ==
  ASSUME IInv, NEW r \in Run, run[r].pc \in {"new", "returned", "holding", "ended", "released"}
  PROVE  Ready(r, conn)
BY NothingAwaited DEF IInv, Types, Orders, Ready, Leaves

LEMMA PoppedProperties ==
  ASSUME IInv, conn.queue # <<>>
  PROVE  /\ Popped \in ConnState /\ Popped.queue = Tail(conn.queue) /\ Popped.cursors = conn.cursors
         /\ Popped.flags = conn.flags /\ Popped.txn = conn.txn
<1>1. conn \in ConnState /\ conn.queue \in Seq(Job)
  BY DEF IInv, Types, ConnState
<1>2. Tail(conn.queue) \in Seq(Job)
  BY <1>1
<1>. QED
  BY <1>1, <1>2 DEF ConnState, Popped

LEMMA ReadyPopped ==
  ASSUME IInv, NEW r \in Run, NEW kind, NEW by \in {"consumer", "reset"}, Does(r, kind, by)
  PROVE  Ready(r, Popped) /\ Awaits(run[r], conn.queue[1])
<1>1. conn.queue \in Seq(Job) /\ conn.queue # <<>> /\ Own(conn.queue[1], r)
  BY DEF IInv, Types, ConnState, Does, Own
<1>2. Orderly(conn.queue, r, run[r]) /\ 1 \in 1..Len(conn.queue)
  BY <1>1 DEF IInv, Orders
<1>3. Silent(Tail(conn.queue), r) /\ Leaves(conn.queue, Tail(conn.queue), r)
  BY <1>1, <1>2, PoppedJob, PoppedLeaves
<1>4. Awaits(run[r], conn.queue[1])
  BY <1>1, <1>2 DEF Orderly
<1>. QED
  BY <1>1, <1>3, <1>4, PoppedProperties DEF Ready

LEMMA ReadyDeserted ==
  ASSUME IInv, NEW r \in Run, run[r].pc \notin {"resetting", "rollback"}
  PROVE  Ready(r, Deserted(r))
BY DesertedFades, FadedLeaves DEF IInv, Types, Orders, Ready

LEMMA ReadyForgotten ==
  ASSUME IInv, NEW r \in Run, NEW adapter, Ready(r, adapter)
  PROVE  Ready(r, Forgotten(adapter, r)) /\ r \notin Forgotten(adapter, r).cursors
BY DEF Ready, Forgotten, ConnState

LEMMA ReadyInterrupted ==
  ASSUME IInv, NEW r \in Run, NEW adapter, Ready(r, adapter)
  PROVE  Ready(r, [adapter EXCEPT !.queue = Interrupted(@)])
<1>. DEFINE new == Interrupted(adapter.queue)
<1>1. adapter \in ConnState /\ adapter.queue \in Seq(Job)
  BY DEF Ready, ConnState
<1>2. new \in Seq(Job) /\ Fades(adapter.queue, new)
  BY <1>1, InterruptedFades
<1>. HIDE DEF new
<1>3. Silent(new, r)
  BY <1>2 DEF Silent, Fades, Own, Ready
<1>4. Leaves(conn.queue, new, r)
  BY <1>2, FadedLeaves DEF Ready, Leaves
<1>5. /\ [adapter EXCEPT !.queue = new] \in ConnState
      /\ [adapter EXCEPT !.queue = new].queue = new
      /\ [adapter EXCEPT !.queue = new].cursors = adapter.cursors
  BY <1>1, <1>2 DEF ConnState
<1>. QED
  BY <1>3, <1>4, <1>5 DEF Ready, new

\* A run goes on without waiting for the thread.
LEMMA ReadySound ==
  ASSUME NEW r \in Run, NEW query, NEW adapter, Ready(r, adapter),
         r \in adapter.cursors => query.pc \notin {"new", "executing", "rollback", "released"}
  PROVE  SoundAdapter(r, query, adapter)
BY SilentOrderly DEF SoundAdapter, Ready

\* A run queues a job and waits for it.
LEMMA QueueSound ==
  ASSUME NEW r \in Run, NEW query, NEW adapter, Ready(r, adapter),
         NEW kind, NEW by, NewJob(r, kind, by) \in Job, Awaits(query, NewJob(r, kind, by)),
         r \in adapter.cursors => query.pc \notin {"new", "executing", "rollback", "released"}
  PROVE  SoundAdapter(r, query, Queue(adapter, r, kind, by))
<1>. DEFINE job == NewJob(r, kind, by)
            new == Append(adapter.queue, job)
<1>1. adapter \in ConnState /\ adapter.queue \in Seq(Job)
  BY DEF Ready, ConnState
<1>2. /\ job.of = r /\ job \in Job /\ Awaits(query, job) /\ Silent(adapter.queue, r)
      /\ Orderly(adapter.queue, r, query) /\ Leaves(conn.queue, adapter.queue, r)
  BY SilentOrderly DEF Ready, NewJob
<1>. HIDE DEF job
<1>3. new \in Seq(Job) /\ Orderly(new, r, query) /\ Leaves(adapter.queue, new, r)
  BY <1>1, <1>2, QueuedJob, QueuedLeaves
<1>4. Leaves(conn.queue, new, r)
  BY <1>2, <1>3 DEF Leaves
<1>. HIDE DEF new
<1>5. /\ Queue(adapter, r, kind, by) = [adapter EXCEPT !.queue = new]
      /\ [adapter EXCEPT !.queue = new] \in ConnState
      /\ [adapter EXCEPT !.queue = new].queue = new
      /\ [adapter EXCEPT !.queue = new].cursors = adapter.cursors
  BY <1>1, <1>3 DEF ConnState, Queue, new, job
<1>. QED
  BY <1>3, <1>4, <1>5 DEF SoundAdapter, Ready

Kept == IInv' /\ ContractKept

LEMMA GoesOn ==
  ASSUME IInv, NEW r \in Run, NEW query, NEW adapter, Becomes(r, query, adapter),
         SoundQuery(r, query), Ready(r, adapter),
         r \in adapter.cursors => query.pc \notin {"new", "executing", "rollback", "released"}
  PROVE  Kept
BY ReadySound, BecomesStep DEF Kept

LEMMA WaitsFor ==
  ASSUME IInv, NEW r \in Run, NEW query, NEW adapter, NEW kind, NEW by,
         Becomes(r, query, Queue(adapter, r, kind, by)), SoundQuery(r, query), Ready(r, adapter),
         NewJob(r, kind, by) \in Job, Awaits(query, NewJob(r, kind, by)),
         r \in adapter.cursors => query.pc \notin {"new", "executing", "rollback", "released"}
  PROVE  Kept
<1>1. SoundAdapter(r, query, Queue(adapter, r, kind, by))
  BY QueueSound
<1>. QED
  BY <1>1, BecomesStep DEF Kept

LEMMA RunHere ==
  ASSUME IInv, NEW r \in Run
  PROVE  /\ run[r] \in RunState /\ Stage(run[r], stmt[r])
         /\ stmt[r].batches \in Nat /\ (stmt[r].begins => stmt[r].batches = 0)
<1>1. run[r] \in RunState /\ Stage(run[r], stmt[r]) /\ stmt[r] \in Statement
  BY DEF IInv, Types, Stages
<1>2. \A s \in Statement : s.batches \in Nat /\ (s.begins => s.batches = 0)
  <2>. SUFFICES ASSUME NEW s \in Statement PROVE s.batches \in Nat /\ (s.begins => s.batches = 0)
    OBVIOUS
  <2>1. CASE s \in [begins : {FALSE}, batches : Batches]
    BY <2>1, BatchesAssumption
  <2>2. CASE s \in [begins : {TRUE}, batches : {0}]
    BY <2>2
  <2>. QED
    BY <2>1, <2>2 DEF Statement
<1>. QED
  BY <1>1, <1>2

-----------------------------------------------------------------------------
(* How a run unwinds and ends *)

Active(r) == run[r].pc \in {"returned", "fetching", "holding", "unwinding", "cancelling"}

\* A record that run[r], which is iterated, may pass through.
Continues(r, query) ==
  /\ query \in RunState /\ query.events = <<>>
  /\ query.got = run[r].got /\ query.cancel = run[r].cancel
  /\ query.source \in {"none", "fresh"} => query.source = run[r].source
  /\ query.source = "last" => query.got = stmt[r].batches
  /\ query.status = "succeeded" => query.got = stmt[r].batches

LEMMA ContinuesHere == ASSUME IInv, NEW r \in Run, Active(r) PROVE Continues(r, run[r])
BY RunHere DEF Continues, Stage, Active

LEMMA UnwindKept ==
  ASSUME IInv, NEW r \in Run, Active(r), NEW query, Continues(r, query), NEW adapter,
         Ready(r, adapter), NEW why \in {"done", "cancelled", "error", "timeout", "task"},
         Unwind(r, why, query, adapter),
         why = "done" => query.got = stmt[r].batches /\ (~query.cancel => query.status = "succeeded")
  PROVE  Kept
<1>. DEFINE new == [query EXCEPT !.pc = "unwinding", !.why = why, !.source = "over"]
<1>1. new \in RunState
  BY ZenonT(60) DEF Continues, RunState
<1>2. /\ new.pc = "unwinding" /\ new.why = why /\ new.source = "over"
      /\ new.got = run[r].got /\ new.cancel = run[r].cancel /\ new.status = query.status
      /\ new.events = <<>>
  BY DEF Continues, RunState
<1>3. Becomes(r, new, Queue(adapter, r, "close", "consumer"))
  BY DEF Unwind
<1>. HIDE DEF new
<1>4. Stage(new, stmt[r])
  BY <1>2 DEF Continues, Stage
<1>5. run[r].events = <<>> /\ Stage(run[r], stmt[r])
  BY RunHere DEF Active, Stage
<1>6. Honours(run[r], new, stmt[r])
  BY <1>2, <1>5 DEF Honours, PhaseOf, Active
<1>7. SoundQuery(r, new)
  BY <1>1, <1>2, <1>4, <1>6 DEF SoundQuery, Active
<1>8. NewJob(r, "close", "consumer") \in Job /\ Awaits(new, NewJob(r, "close", "consumer"))
  BY <1>2 DEF NewJob, Job, Awaits
<1>. QED
  BY <1>2, <1>3, <1>7, <1>8, WaitsFor

LEMMA Told ==
  ASSUME NEW events, events = <<>>, NEW event
  PROVE  /\ Append(events, event) = <<event>> /\ <<event>> # <<>>
         /\ Last(<<event>>) = event /\ Len(<<event>>) = 1
BY DEF Last

LEMMA EndWithKept ==
  ASSUME IInv, NEW r \in Run, Active(r), NEW query, Continues(r, query), NEW adapter,
         Ready(r, adapter), NEW event \in {"completed", "failed", "cancelled"},
         EndWith(r, event, query, adapter),
         event = "completed" => /\ PhaseOf(run[r]) = "open" /\ query.got = stmt[r].batches
                                /\ ~query.cancel => query.status = "succeeded"
  PROVE  Kept
<1>1. run[r].events = <<>> /\ Stage(run[r], stmt[r])
  BY RunHere DEF Active, Stage
<1>2. <<event>> \in Seq({"completed", "failed", "cancelled"}) /\ <<event>> # <<>>
      /\ Last(<<event>>) = event /\ Len(<<event>>) = 1
  BY Told
<1>. DEFINE told == [query EXCEPT !.events = Append(@, event)]
<1>3. told = [query EXCEPT !.events = <<event>>]
  BY Told DEF Continues
<1>4. ASSUME NEW new, new \in RunState, new.events = <<event>>, new.pc \in {"closing", "ended"},
             new.got = run[r].got, new.cancel = run[r].cancel, new.status = query.status,
             new.source = "over" \/ (new.source = "fresh" /\ query.source = "fresh")
      PROVE  SoundQuery(r, new)
  <2>1. Stage(new, stmt[r])
    BY <1>1, <1>2, <1>4 DEF Stage, Continues
  <2>2. Honours(run[r], new, stmt[r])
    <3>1. new.events = Append(run[r].events, event)
      BY <1>1, <1>4, Told
    <3>. QED
      BY <1>1, <1>2, <1>4, <3>1 DEF Honours, PhaseOf, Active, Continues
  <2>. QED
    BY <1>4, <2>1, <2>2 DEF SoundQuery, Active
<1>5. CASE Becomes(r, [told EXCEPT !.pc = "closing", !.source = "over"],
                      Queue(adapter, r, "close", "consumer"))
  <2>. DEFINE new == [told EXCEPT !.pc = "closing", !.source = "over"]
  <2>1. new \in RunState
    BY ZenonT(60), <1>2, <1>3 DEF Continues, RunState
  <2>2. /\ new.pc = "closing" /\ new.source = "over" /\ new.events = <<event>>
        /\ new.got = run[r].got /\ new.cancel = run[r].cancel /\ new.status = query.status
    BY <1>3 DEF Continues, RunState
  <2>. HIDE DEF new
  <2>3. SoundQuery(r, new)
    BY <1>4, <2>1, <2>2
  <2>4. NewJob(r, "close", "consumer") \in Job /\ Awaits(new, NewJob(r, "close", "consumer"))
    BY <2>2 DEF NewJob, Job, Awaits
  <2>. QED
    BY <1>5, <2>2, <2>3, <2>4, WaitsFor DEF new
<1>6. CASE query.source \in {"fresh", "over"} /\ Becomes(r, [told EXCEPT !.pc = "ended"], adapter)
  <2>. DEFINE new == [told EXCEPT !.pc = "ended"]
  <2>1. new \in RunState
    BY ZenonT(60), <1>2, <1>3 DEF Continues, RunState
  <2>2. /\ new.pc = "ended" /\ new.source = query.source /\ new.events = <<event>>
        /\ new.got = run[r].got /\ new.cancel = run[r].cancel /\ new.status = query.status
    BY <1>3 DEF Continues, RunState
  <2>3. Becomes(r, new, adapter)
    BY <1>6
  <2>. HIDE DEF new
  <2>4. SoundQuery(r, new)
    BY <1>4, <1>6, <2>1, <2>2
  <2>. QED
    BY <2>2, <2>3, <2>4, GoesOn
<1>. QED
  BY <1>5, <1>6 DEF EndWith

LEMMA ReadyCleared ==
  ASSUME NEW r \in Run, NEW adapter, Ready(r, adapter), NEW value \in {"none", "clear", "set"}
  PROVE  /\ Ready(r, [adapter EXCEPT !.flags[r] = value])
         /\ [adapter EXCEPT !.flags[r] = value].cursors = adapter.cursors
         /\ Ready(r, [[adapter EXCEPT !.flags[r] = value] EXCEPT !.cursors = @ \ {r}])
         /\ r \notin [[adapter EXCEPT !.flags[r] = value] EXCEPT !.cursors = @ \ {r}].cursors
BY DEF Ready, ConnState

LEMMA TimedOutKept ==
  ASSUME IInv, NEW r \in Run, Active(r), NEW query, Continues(r, query),
         query.source = run[r].source, NEW adapter, Ready(r, adapter), TimedOut(r, query, adapter)
  PROVE  Kept
<1>. DEFINE asked == [adapter EXCEPT !.flags[r] = "set"]
            rest == [asked EXCEPT !.cursors = @ \ {r}]
            told == [asked EXCEPT !.queue = Interrupted(@)]
            new == [query EXCEPT !.pc = "cancelling", !.status = "cancelled"]
            failed == [query EXCEPT !.status = "failed"]
<1>1. CASE Becomes(r, new, Queue(rest, r, "close", "consumer"))
  <2>1. new \in RunState
    BY ZenonT(60) DEF Continues, RunState
  <2>2. /\ new.pc = "cancelling" /\ new.source = run[r].source /\ new.events = <<>>
        /\ new.got = run[r].got /\ new.cancel = run[r].cancel /\ new.status = "cancelled"
    BY DEF Continues, RunState
  <2>3. Ready(r, rest) /\ r \notin rest.cursors
    BY ReadyCleared
  <2>. HIDE DEF new, rest
  <2>4. run[r].events = <<>> /\ Stage(run[r], stmt[r])
    BY RunHere DEF Active, Stage
  <2>5. Stage(new, stmt[r])
    BY <2>2, <2>4 DEF Continues, Stage
  <2>6. Honours(run[r], new, stmt[r])
    BY <2>2, <2>4 DEF Honours, PhaseOf, Active
  <2>7. SoundQuery(r, new)
    BY <2>1, <2>2, <2>5, <2>6 DEF SoundQuery, Active
  <2>8. NewJob(r, "close", "consumer") \in Job /\ Awaits(new, NewJob(r, "close", "consumer"))
    BY <2>2 DEF NewJob, Job, Awaits
  <2>. QED
    BY <1>1, <2>3, <2>7, <2>8, WaitsFor
<1>2. CASE EndWith(r, "failed", failed, told)
  <2>1. Ready(r, told)
    BY ReadyCleared, ReadyInterrupted
  <2>2. Continues(r, failed)
    <3>1. failed \in RunState
      BY ZenonT(60) DEF Continues, RunState
    <3>2. /\ failed.events = <<>> /\ failed.source = query.source /\ failed.got = query.got
          /\ failed.cancel = query.cancel /\ failed.status = "failed"
      BY DEF Continues, RunState
    <3>. HIDE DEF failed
    <3>. QED
      BY <3>1, <3>2 DEF Continues
  <2>. HIDE DEF failed, told
  <2>. QED
    BY <1>2, <2>1, <2>2, EndWithKept
<1>. QED
  BY <1>1, <1>2 DEF TimedOut

LEMMA DeliverKept ==
  ASSUME IInv, NEW r \in Run, Active(r), NEW query, Continues(r, query), NEW rows \in {0, 1},
         query.source \in {"suspended", "last"}, NEW adapter, Ready(r, adapter),
         Deliver(r, rows, query, adapter),
         query.source = "last" => rows = 0 /\ (~query.cancel => query.status = "succeeded"),
         rows = 1 => PhaseOf(run[r]) = "open" /\ run[r].got < stmt[r].batches
  PROVE  Kept
<1>. DEFINE new == [query EXCEPT !.pc = "holding", !.got = @ + rows]
<1>1. CASE ~query.cancel /\ Becomes(r, new, adapter)
  <2>. query.got \in Nat /\ query.got + rows \in Nat
    BY DEF Continues, RunState
  <2>1. new \in RunState
    BY ZenonT(60) DEF Continues, RunState
  <2>2. /\ new.pc = "holding" /\ new.source = query.source /\ new.events = <<>>
        /\ new.got = run[r].got + rows /\ new.cancel = run[r].cancel
        /\ new.status = query.status /\ ~new.cancel
    BY <1>1 DEF Continues, RunState
  <2>. HIDE DEF new
  <2>3. run[r].events = <<>> /\ run[r].got \in Nat /\ stmt[r].batches \in Nat
    BY RunHere DEF Active, Stage, RunState
  <2>4. Stage(new, stmt[r])
    BY <2>2, <2>3 DEF Continues, Stage
  <2>5. Honours(run[r], new, stmt[r])
    BY <1>1, <2>2, <2>3 DEF Honours, PhaseOf, Active, Continues
  <2>6. SoundQuery(r, new)
    BY <2>1, <2>2, <2>4, <2>5 DEF SoundQuery, Active
  <2>. QED
    BY <1>1, <2>2, <2>6, GoesOn
<1>2. CASE EndWith(r, "cancelled", query, adapter)
  BY <1>2, EndWithKept
<1>. QED
  BY <1>1, <1>2 DEF Deliver

-----------------------------------------------------------------------------
(* Every action keeps the invariant and the contract: the thread's jobs *)

LEMMA AwaitedJob ==
  ASSUME IInv, NEW r \in Run, NEW kind, NEW by \in {"consumer", "reset"}, Does(r, kind, by)
  PROVE  /\ by = "consumer" /\ kind = "execute" => run[r].pc = "executing"
         /\ by = "consumer" /\ kind = "fetch" => run[r].pc = "fetching"
         /\ by = "consumer" /\ kind = "close" => run[r].pc \in {"unwinding", "cancelling", "closing"}
         /\ by = "reset" /\ kind = "close" => run[r].pc = "resetting"
         /\ by = "reset" /\ kind = "rollback" => run[r].pc = "rollback"
BY ReadyPopped DEF Does, Awaits

\* A job of r that nobody of its lease awaits is done, or was queued.
LEMMA ElsewhereSound ==
  ASSUME IInv, NEW r \in Run, NEW query, query.pc = run[r].pc, NEW adapter \in ConnState,
         adapter.cursors \subseteq conn.cursors,
         Orderly(adapter.queue, r, run[r]), Leaves(conn.queue, adapter.queue, r)
  PROVE  SoundAdapter(r, query, adapter)
<1>1. Orderly(adapter.queue, r, query)
  BY DEF Orderly, Awaits
<1>2. r \in adapter.cursors => run[r].pc \notin {"new", "executing", "rollback", "released"}
  BY DEF IInv, CursorsHeld
<1>. QED
  BY <1>1, <1>2 DEF SoundAdapter

LEMMA UnchangedSound == ASSUME IInv, NEW r \in Run PROVE SoundQuery(r, run[r])
BY RunHere DEF SoundQuery, Honours

LEMMA ForNobodyKept ==
  ASSUME IInv, NEW r \in Run, conn.queue # <<>>,
         \/ Becomes(r, run[r], Popped)
         \/ Becomes(r, run[r], [Popped EXCEPT !.txn = NextTxn(r)])
  PROVE  Kept
<1>1. PICK adapter \in {Popped, [Popped EXCEPT !.txn = NextTxn(r)]} : Becomes(r, run[r], adapter)
  OBVIOUS
<1>2. Popped \in ConnState /\ Popped.queue = Tail(conn.queue) /\ Popped.cursors = conn.cursors
  BY PoppedProperties
<1>3. NextTxn(r) \in Run \cup {NoRun}
  BY DEF NextTxn, IInv, Types, ConnState
<1>4. adapter \in ConnState /\ adapter.queue = Tail(conn.queue) /\ adapter.cursors = conn.cursors
  BY <1>2, <1>3 DEF ConnState
<1>5. conn.queue \in Seq(Job) /\ Orderly(conn.queue, r, run[r])
  BY DEF IInv, Types, ConnState, Orders
<1>6. Orderly(adapter.queue, r, run[r]) /\ Leaves(conn.queue, adapter.queue, r)
  BY <1>4, <1>5, PoppedJob, PoppedLeaves
<1>7. SoundAdapter(r, run[r], adapter)
  BY <1>4, <1>6, ElsewhereSound
<1>. QED
  BY <1>1, <1>7, UnchangedSound, BecomesStep DEF Kept

LEMMA NobodyKept ==
  ASSUME IInv, NEW r \in Run, ExecutedForNobody(r) \/ FetchedForNobody(r) \/ ClosedForNobody(r)
  PROVE  Kept
BY ForNobodyKept DEF ExecutedForNobody, FetchedForNobody, ClosedForNobody, Does

LEMMA ExecutedKept == ASSUME IInv, NEW r \in Run, Executed(r) PROVE Kept
<1>. DEFINE new == [run[r] EXCEPT !.pc = "returned", !.status = "streaming", !.source = "fresh"]
            adapter == [Popped EXCEPT !.cursors = @ \cup {r}, !.flags[r] = "clear", !.txn = NextTxn(r)]
<1>1. Becomes(r, new, adapter) /\ Does(r, "execute", "consumer")
  BY DEF Executed
<1>2. Ready(r, Popped) /\ run[r].pc = "executing"
  BY <1>1, ReadyPopped, AwaitedJob
<1>3. run[r] \in RunState /\ Stage(run[r], stmt[r])
  BY RunHere
<1>4. new \in RunState
  BY ZenonT(60), <1>3 DEF RunState
<1>5. /\ new.pc = "returned" /\ new.status = "streaming" /\ new.source = "fresh"
      /\ new.got = run[r].got /\ new.cancel = run[r].cancel /\ new.events = run[r].events
  BY <1>3 DEF RunState
<1>6. NextTxn(r) \in Run \cup {NoRun}
  BY DEF NextTxn, IInv, Types, ConnState
<1>7. adapter \in ConnState /\ adapter.queue = Popped.queue /\ adapter.cursors = Popped.cursors \cup {r}
  BY <1>2, <1>6 DEF Ready, ConnState
<1>. HIDE DEF new, adapter
<1>8. Stage(new, stmt[r])
  <2>1. run[r].events = <<>> /\ run[r].got = 0 /\ ~run[r].cancel /\ Len(run[r].events) <= 1
    BY <1>2, <1>3 DEF Stage
  <2>2. new.events # <<"completed">>
    BY <1>5, <2>1
  <2>. QED
    BY <1>5, <2>1, <2>2 DEF Stage
<1>9. Honours(run[r], new, stmt[r])
  BY <1>2, <1>3, <1>5 DEF Honours, Stage, PhaseOf
<1>10. SoundQuery(r, new)
  BY <1>2, <1>4, <1>8, <1>9 DEF SoundQuery
<1>11. SoundAdapter(r, new, adapter)
  BY <1>2, <1>5, <1>7, SilentOrderly DEF SoundAdapter, Ready
<1>. QED
  BY <1>1, <1>10, <1>11, BecomesStep DEF Kept

LEMMA ExecuteFailsKept == ASSUME IInv, NEW r \in Run, ExecuteFails(r) PROVE Kept
<1>. DEFINE new == [run[r] EXCEPT !.pc = "ended", !.status = "failed", !.events = Append(@, "failed")]
            adapter == [Popped EXCEPT !.flags[r] = "clear"]
<1>1. Becomes(r, new, adapter) /\ Does(r, "execute", "consumer")
  BY DEF ExecuteFails
<1>2. Ready(r, adapter) /\ run[r].pc = "executing"
  BY <1>1, ReadyPopped, ReadyCleared, AwaitedJob
<1>3. run[r] \in RunState /\ Stage(run[r], stmt[r]) /\ run[r].events = <<>>
  BY <1>2, RunHere DEF Stage
<1>4. <<"failed">> \in Seq({"completed", "failed", "cancelled"}) /\ <<"failed">> # <<>>
      /\ Last(<<"failed">>) = "failed" /\ Len(<<"failed">>) = 1 /\ <<"failed">> # <<"completed">>
  BY Told
<1>5. new = [run[r] EXCEPT !.pc = "ended", !.status = "failed", !.events = <<"failed">>]
  BY <1>3, Told
<1>6. new \in RunState
  BY ZenonT(60), <1>3, <1>4, <1>5 DEF RunState
<1>7. /\ new.pc = "ended" /\ new.status = "failed" /\ new.events = <<"failed">>
      /\ new.got = run[r].got /\ new.cancel = run[r].cancel /\ new.source = run[r].source
  BY <1>3, <1>5 DEF RunState
<1>. HIDE DEF new, adapter
<1>8. Stage(new, stmt[r])
  BY <1>2, <1>3, <1>4, <1>7 DEF Stage
<1>9. Honours(run[r], new, stmt[r])
  <2>1. new.events = Append(run[r].events, "failed")
    BY <1>3, <1>7, Told
  <2>. QED
    BY <1>2, <1>3, <1>4, <1>7, <2>1 DEF Honours, Stage, PhaseOf
<1>10. SoundQuery(r, new)
  BY <1>2, <1>6, <1>8, <1>9 DEF SoundQuery
<1>. QED
  BY <1>1, <1>2, <1>7, <1>10, GoesOn

LEMMA FetchKept ==
  ASSUME IInv, NEW r \in Run, FetchRows(r) \/ FetchEmpty(r) \/ FetchFails(r)
  PROVE  Kept
<1>1. Does(r, "fetch", "consumer")
  BY DEF FetchRows, FetchEmpty, FetchFails, Fetched
<1>2. Ready(r, Popped) /\ run[r].pc = "fetching"
  BY <1>1, ReadyPopped, AwaitedJob
<1>3. /\ Active(r) /\ Continues(r, run[r]) /\ run[r] \in RunState /\ Stage(run[r], stmt[r])
      /\ run[r].source = "suspended" /\ run[r].events = <<>> /\ PhaseOf(run[r]) = "open"
  BY <1>2, RunHere, ContinuesHere DEF Active, Stage, PhaseOf
<1>4. CASE FetchRows(r)
  <2>1. Deliver(r, 1, run[r], Popped) /\ run[r].got < stmt[r].batches
    BY <1>4 DEF FetchRows
  <2>2. run[r].source \in {"suspended", "last"} /\ run[r].source # "last" /\ 1 \in {0, 1}
    BY <1>3
  <2>. QED
    BY <1>2, <1>3, <2>1, <2>2, DeliverKept
<1>5. CASE FetchEmpty(r)
  <2>. DEFINE last == [run[r] EXCEPT !.status = "succeeded", !.source = "last"]
  <2>1. last \in RunState
    BY ZenonT(60), <1>3 DEF RunState
  <2>2. /\ last.status = "succeeded" /\ last.source = "last" /\ last.got = run[r].got
        /\ last.cancel = run[r].cancel /\ last.events = run[r].events
    BY <1>3 DEF RunState
  <2>3. Deliver(r, 0, last, Popped) /\ run[r].got = stmt[r].batches
    BY <1>5 DEF FetchEmpty
  <2>. HIDE DEF last
  <2>4. Continues(r, last)
    BY <1>3, <2>1, <2>2, <2>3 DEF Continues
  <2>. QED
    BY <1>2, <1>3, <2>2, <2>3, <2>4, DeliverKept
<1>6. CASE FetchFails(r)
  <2>1. CASE Unwind(r, "error", run[r], Popped)
    BY <1>2, <1>3, <2>1, UnwindKept
  <2>2. CASE Unwind(r, "cancelled", [run[r] EXCEPT !.status = "cancelled"], Popped)
    <3>. DEFINE new == [run[r] EXCEPT !.status = "cancelled"]
    <3>1. new \in RunState
      BY ZenonT(60), <1>3 DEF RunState
    <3>2. /\ new.status = "cancelled" /\ new.source = run[r].source /\ new.got = run[r].got
          /\ new.cancel = run[r].cancel /\ new.events = run[r].events
      BY <1>3 DEF RunState
    <3>. HIDE DEF new
    <3>3. Continues(r, new)
      BY <1>3, <3>1, <3>2 DEF Continues
    <3>. QED
      BY <1>2, <1>3, <2>2, <3>3, UnwindKept DEF new
  <2>. QED
    BY <1>6, <2>1, <2>2 DEF FetchFails
<1>. QED
  BY <1>4, <1>5, <1>6

LEMMA UnwoundKept ==
  ASSUME IInv, NEW r \in Run, Unwound(r) \/ TimeoutReported(r)
  PROVE  Kept
<1>1. Does(r, "close", "consumer") /\ run[r].pc \in {"unwinding", "cancelling"}
  BY DEF Unwound, TimeoutReported
<1>2. Ready(r, Popped)
  BY <1>1, ReadyPopped
<1>3. /\ Active(r) /\ Continues(r, run[r]) /\ run[r] \in RunState /\ Stage(run[r], stmt[r])
      /\ run[r].events = <<>>
  BY <1>1, RunHere, ContinuesHere DEF Active, Stage
<1>4. CASE Unwound(r)
  <2>1. Ready(r, Forgotten(Popped, r)) /\ run[r].pc = "unwinding" /\ run[r].source = "over"
    BY <1>2, <1>3, <1>4, ReadyForgotten DEF Unwound, Stage
  <2>2. CASE TimedOut(r, run[r], Forgotten(Popped, r))
    BY <1>3, <2>1, <2>2, TimedOutKept
  <2>3. CASE EndWith(r, EventOf(run[r].why), run[r], Forgotten(Popped, r))
    <3>1. EventOf(run[r].why) \in {"completed", "failed", "cancelled"}
      BY DEF EventOf
    <3>2. EventOf(run[r].why) = "completed" =>
            /\ PhaseOf(run[r]) = "open" /\ run[r].got = stmt[r].batches
            /\ ~run[r].cancel => run[r].status = "succeeded"
      BY <1>3, <2>1 DEF EventOf, PhaseOf, Stage
    <3>. QED
      BY <1>3, <2>1, <2>3, <3>1, <3>2, EndWithKept
  <2>. QED
    BY <1>4, <2>2, <2>3 DEF Unwound
<1>5. CASE TimeoutReported(r)
  <2>. DEFINE new == [run[r] EXCEPT !.status = "failed"]
              told == [Popped EXCEPT !.queue = Interrupted(@)]
  <2>1. Ready(r, told) /\ EndWith(r, "failed", new, told)
    BY <1>2, <1>5, ReadyInterrupted DEF TimeoutReported
  <2>2. new \in RunState
    BY ZenonT(60), <1>3 DEF RunState
  <2>3. /\ new.status = "failed" /\ new.source = run[r].source /\ new.got = run[r].got
        /\ new.cancel = run[r].cancel /\ new.events = run[r].events
    BY <1>3 DEF RunState
  <2>. HIDE DEF new, told
  <2>4. Continues(r, new)
    BY <1>3, <2>2, <2>3 DEF Continues
  <2>. QED
    BY <1>3, <2>1, <2>4, EndWithKept
<1>. QED
  BY <1>4, <1>5

\* Nothing is told of a run any more once its event is out.
LEMMA OverMove ==
  ASSUME IInv, NEW r \in Run, run[r].pc \in {"closing", "ended", "resetting", "rollback"},
         NEW pc \in {"ended", "resetting", "rollback", "released"}
  PROVE  /\ SoundQuery(r, [run[r] EXCEPT !.pc = pc])
         /\ [run[r] EXCEPT !.pc = pc].pc = pc
<1>. DEFINE new == [run[r] EXCEPT !.pc = pc]
<1>1. run[r] \in RunState /\ Stage(run[r], stmt[r])
  BY RunHere
<1>2. new \in RunState
  BY ZenonT(60), <1>1 DEF RunState
<1>3. /\ new.pc = pc /\ new.status = run[r].status /\ new.source = run[r].source
      /\ new.got = run[r].got /\ new.cancel = run[r].cancel /\ new.events = run[r].events
  BY <1>1 DEF RunState
<1>. HIDE DEF new
<1>4. Stage(new, stmt[r])
  BY <1>1, <1>3 DEF Stage
<1>5. Honours(run[r], new, stmt[r])
  BY <1>1, <1>3 DEF Honours, Stage, PhaseOf
<1>6. SoundQuery(r, new)
  BY <1>2, <1>4, <1>5 DEF SoundQuery
<1>. QED
  BY <1>3, <1>6 DEF new

LEMMA ClosedKept == ASSUME IInv, NEW r \in Run, Closed(r) PROVE Kept
<1>1. /\ Does(r, "close", "consumer") /\ run[r].pc = "closing"
      /\ Becomes(r, [run[r] EXCEPT !.pc = "ended"], Forgotten(Popped, r))
  BY DEF Closed
<1>2. Ready(r, Forgotten(Popped, r))
  BY <1>1, ReadyPopped, ReadyForgotten
<1>. QED
  BY <1>1, <1>2, OverMove, GoesOn

-----------------------------------------------------------------------------
(* The reset *)

LEMMA RollBackOrReleaseKept ==
  ASSUME IInv, NEW r \in Run, run[r].pc \in {"ended", "resetting"}, NEW adapter,
         Ready(r, adapter), adapter.cursors = {}, RollBackOrRelease(r, adapter)
  PROVE  Kept
<1>1. CASE Becomes(r, [run[r] EXCEPT !.pc = "released"], adapter)
  BY <1>1, OverMove, GoesOn
<1>2. CASE Becomes(r, [run[r] EXCEPT !.pc = "rollback"], Queue(adapter, r, "rollback", "reset"))
  <2>. DEFINE new == [run[r] EXCEPT !.pc = "rollback"]
  <2>1. SoundQuery(r, new) /\ new.pc = "rollback"
    BY OverMove
  <2>. HIDE DEF new
  <2>2. NewJob(r, "rollback", "reset") \in Job /\ Awaits(new, NewJob(r, "rollback", "reset"))
    BY <2>1 DEF NewJob, Job, Awaits
  <2>. QED
    BY <1>2, <2>1, <2>2, WaitsFor DEF new
<1>. QED
  BY <1>1, <1>2 DEF RollBackOrRelease

LEMMA ResetKept == ASSUME IInv, NEW r \in Run, Reset(r) PROVE Kept
<1>. DEFINE cleared == [conn EXCEPT !.flags = [s \in Run |-> "none"]]
<1>1. run[r].pc = "ended" /\ Ready(r, conn)
  BY ReadyHere DEF Reset
<1>2. Ready(r, cleared) /\ cleared.cursors = conn.cursors
  BY <1>1 DEF Ready, ConnState
<1>3. CASE conn.cursors = {} /\ RollBackOrRelease(r, cleared)
  <2>. HIDE DEF cleared
  <2>. QED
    BY <1>1, <1>2, <1>3, RollBackOrReleaseKept
<1>4. CASE Becomes(r, [run[r] EXCEPT !.pc = "resetting"], Queue(cleared, r, "close", "reset"))
  <2>. DEFINE new == [run[r] EXCEPT !.pc = "resetting"]
  <2>1. SoundQuery(r, new) /\ new.pc = "resetting" /\ Becomes(r, new, Queue(cleared, r, "close", "reset"))
    BY <1>1, <1>4, OverMove
  <2>. HIDE DEF cleared, new
  <2>2. NewJob(r, "close", "reset") \in Job /\ Awaits(new, NewJob(r, "close", "reset"))
    BY <2>1 DEF NewJob, Job, Awaits
  <2>. QED
    BY <1>2, <2>1, <2>2, WaitsFor
<1>. QED
  BY <1>3, <1>4 DEF Reset

LEMMA CursorsResetKept == ASSUME IInv, NEW r \in Run, CursorsReset(r) PROVE Kept
<1>. DEFINE adapter == [Popped EXCEPT !.cursors = {}]
<1>1. Does(r, "close", "reset") /\ RollBackOrRelease(r, adapter)
  BY DEF CursorsReset
<1>2. Ready(r, Popped) /\ run[r].pc = "resetting"
  BY <1>1, ReadyPopped, AwaitedJob
<1>3. Ready(r, adapter) /\ adapter.cursors = {}
  BY <1>2 DEF Ready, ConnState
<1>. HIDE DEF adapter
<1>. QED
  BY <1>1, <1>2, <1>3, RollBackOrReleaseKept

LEMMA RolledBackKept == ASSUME IInv, NEW r \in Run, RolledBack(r) PROVE Kept
<1>. DEFINE adapter == [Popped EXCEPT !.txn = NoRun]
<1>1. Does(r, "rollback", "reset") /\ Becomes(r, [run[r] EXCEPT !.pc = "released"], adapter)
  BY DEF RolledBack
<1>2. Ready(r, Popped) /\ run[r].pc = "rollback"
  BY <1>1, ReadyPopped, AwaitedJob
<1>3. Ready(r, adapter) /\ adapter.cursors = Popped.cursors
  BY <1>2 DEF Ready, ConnState
<1>4. r \notin adapter.cursors
  BY <1>2, <1>3 DEF Ready, IInv, CursorsHeld
<1>. HIDE DEF adapter
<1>. QED
  BY <1>1, <1>2, <1>3, <1>4, OverMove, GoesOn

-----------------------------------------------------------------------------
(* The canceller *)

LEMMA CursorClosedKept ==
  ASSUME IInv, NEW r \in Run, CursorClosed(r) \/ Interrupt(r)
  PROVE  Kept
<1>. DEFINE new(c) == [run[r] EXCEPT !.canceller = c]
<1>1. run[r] \in RunState /\ Stage(run[r], stmt[r])
  BY RunHere
<1>2. ASSUME NEW c \in {"closed", "idle"} PROVE SoundQuery(r, new(c)) /\ new(c).pc = run[r].pc
  <2>1. new(c) \in RunState
    BY ZenonT(60), <1>1 DEF RunState
  <2>2. /\ new(c).pc = run[r].pc /\ new(c).why = run[r].why /\ new(c).status = run[r].status
        /\ new(c).source = run[r].source /\ new(c).got = run[r].got
        /\ new(c).cancel = run[r].cancel /\ new(c).events = run[r].events
    BY <1>1 DEF RunState
  <2>. HIDE DEF new
  <2>3. Stage(new(c), stmt[r])
    BY <1>1, <2>2 DEF Stage
  <2>4. Honours(run[r], new(c), stmt[r])
    BY <2>2 DEF Honours, PhaseOf
  <2>. QED
    BY <2>1, <2>2, <2>3, <2>4 DEF SoundQuery
<1>. HIDE DEF new
<1>3. conn \in ConnState /\ conn.queue \in Seq(Job) /\ Orderly(conn.queue, r, run[r])
  BY DEF IInv, Types, ConnState, Orders
<1>4. CASE CursorClosed(r)
  <2>1. conn.queue # <<>> /\ Becomes(r, new("closed"), Popped)
    BY <1>4 DEF CursorClosed, Does, new
  <2>2. /\ Popped \in ConnState /\ Popped.cursors = conn.cursors
        /\ Orderly(Popped.queue, r, run[r]) /\ Leaves(conn.queue, Popped.queue, r)
    BY <1>3, <2>1, PoppedProperties, PoppedJob, PoppedLeaves
  <2>3. SoundAdapter(r, new("closed"), Popped)
    BY <1>2, <2>2, ElsewhereSound
  <2>. QED
    BY <1>2, <2>1, <2>3, BecomesStep DEF Kept
<1>5. CASE Interrupt(r)
  <2>. DEFINE adapter == [conn EXCEPT !.queue = Interrupted(@)]
              queue == Interrupted(conn.queue)
  <2>1. Becomes(r, new("idle"), adapter)
    BY <1>5 DEF Interrupt, new
  <2>2. queue \in Seq(Job) /\ Fades(conn.queue, queue)
    BY <1>3, InterruptedFades
  <2>. HIDE DEF queue
  <2>3. adapter \in ConnState /\ adapter.queue = queue /\ adapter.cursors = conn.cursors
    BY <1>3, <2>2 DEF ConnState, queue
  <2>. HIDE DEF adapter
  <2>4. Orderly(adapter.queue, r, run[r]) /\ Leaves(conn.queue, adapter.queue, r)
    BY <1>3, <2>2, <2>3, FadedJobs, FadedLeaves
  <2>5. SoundAdapter(r, new("idle"), adapter)
    BY <1>2, <2>3, <2>4, ElsewhereSound
  <2>. QED
    BY <1>2, <2>1, <2>5, BecomesStep DEF Kept
<1>. QED
  BY <1>4, <1>5

LEMMA CancelKept == ASSUME IInv, NEW r \in Run, Cancel(r) PROVE Kept
<1>. DEFINE new(c) == [[run[r] EXCEPT !.cancel = TRUE, !.status = "cancelled"] EXCEPT !.canceller = c]
            told == [conn EXCEPT !.flags[r] = "set"]
            rest == [told EXCEPT !.cursors = @ \ {r}]
            job == NewJob(r, "close", "canceller")
            longer == Append(conn.queue, job)
            hit == Interrupted(conn.queue)
<1>1. run[r] \in RunState /\ Stage(run[r], stmt[r]) /\ run[r].source # "none" /\ run[r].canceller = "idle"
  BY RunHere DEF Cancel, Cancellable
<1>2. ASSUME NEW c \in {"idle", "closing"} PROVE SoundQuery(r, new(c)) /\ new(c).pc = run[r].pc
  <2>1. new(c) \in RunState
    BY ZenonT(60), <1>1 DEF RunState
  <2>2. /\ new(c).pc = run[r].pc /\ new(c).why = run[r].why /\ new(c).status = "cancelled"
        /\ new(c).source = run[r].source /\ new(c).got = run[r].got
        /\ new(c).cancel /\ new(c).events = run[r].events
    BY <1>1 DEF RunState
  <2>. HIDE DEF new
  <2>3. Stage(new(c), stmt[r])
    BY <1>1, <2>2 DEF Stage
  <2>4. Honours(run[r], new(c), stmt[r])
    BY <2>2 DEF Honours, PhaseOf
  <2>. QED
    BY <2>1, <2>2, <2>3, <2>4 DEF SoundQuery
<1>3. conn \in ConnState /\ conn.queue \in Seq(Job) /\ Orderly(conn.queue, r, run[r])
  BY DEF IInv, Types, ConnState, Orders
<1>4. job \in Job /\ job.of = r /\ ~Own(job, r)
  BY DEF NewJob, Job, Own
<1>5. CASE Becomes(r, new("closing"), Queue(rest, r, "close", "canceller"))
  <2>. DEFINE adapter == Queue(rest, r, "close", "canceller")
  <2>. HIDE DEF job
  <2>1. longer \in Seq(Job) /\ Orderly(longer, r, run[r]) /\ Leaves(conn.queue, longer, r)
    BY <1>3, <1>4, QueuedJob, QueuedLeaves
  <2>. HIDE DEF longer
  <2>2. adapter \in ConnState /\ adapter.queue = longer /\ adapter.cursors \subseteq conn.cursors
    BY <1>3, <2>1 DEF ConnState, Queue, longer, job
  <2>. HIDE DEF new, adapter
  <2>3. SoundAdapter(r, new("closing"), adapter)
    BY <1>2, <2>1, <2>2, ElsewhereSound
  <2>. QED
    BY <1>2, <1>5, <2>3, BecomesStep DEF Kept, adapter
<1>6. CASE Becomes(r, [run[r] EXCEPT !.cancel = TRUE, !.status = "cancelled"], [told EXCEPT !.queue = Interrupted(@)])
  <2>. DEFINE adapter == [told EXCEPT !.queue = hit]
  <2>1. hit \in Seq(Job) /\ Fades(conn.queue, hit)
    BY <1>3, InterruptedFades
  <2>2. Becomes(r, new("idle"), adapter)
    <3>1. new("idle") = [run[r] EXCEPT !.cancel = TRUE, !.status = "cancelled"]
      BY <1>1 DEF RunState
    <3>2. adapter = [told EXCEPT !.queue = Interrupted(@)]
      BY <1>3 DEF ConnState
    <3>. HIDE DEF new, adapter
    <3>. QED
      BY <1>6, <3>1, <3>2
  <2>. HIDE DEF hit
  <2>3. adapter \in ConnState /\ adapter.queue = hit /\ adapter.cursors = conn.cursors
    BY <1>3, <2>1 DEF ConnState
  <2>. HIDE DEF new, adapter
  <2>4. Orderly(adapter.queue, r, run[r]) /\ Leaves(conn.queue, adapter.queue, r)
    BY <1>3, <2>1, <2>3, FadedJobs, FadedLeaves
  <2>5. SoundAdapter(r, new("idle"), adapter)
    BY <1>2, <2>3, <2>4, ElsewhereSound
  <2>. QED
    BY <1>2, <2>2, <2>5, BecomesStep DEF Kept
<1>. QED
  BY <1>5, <1>6 DEF Cancel

-----------------------------------------------------------------------------
(* The consumer, its deadline, and the cancellation of its task *)

LEMMA StartKept == ASSUME IInv, NEW r \in Run, Start(r) PROVE Kept
<1>. DEFINE new == [run[r] EXCEPT !.pc = "executing", !.status = "running"]
<1>1. /\ run[r].pc = "new" /\ \A s \in Run : s < r => run[s].pc = "released"
      /\ Becomes(r, new, Queue(conn, r, "execute", "consumer"))
  BY DEF Start
<1>2. run[r] \in RunState /\ Stage(run[r], stmt[r])
  BY RunHere
<1>3. Ready(r, conn) /\ r \notin conn.cursors
  BY <1>1, ReadyHere DEF IInv, CursorsHeld
<1>4. new \in RunState
  BY ZenonT(60), <1>2 DEF RunState
<1>5. /\ new.pc = "executing" /\ new.status = "running" /\ new.source = run[r].source
      /\ new.got = run[r].got /\ new.cancel = run[r].cancel /\ new.events = run[r].events
  BY <1>2 DEF RunState
<1>. HIDE DEF new
<1>6. Stage(new, stmt[r])
  <2>1. run[r].events = <<>>
    BY <1>1, <1>2 DEF Stage
  <2>2. new.events # <<"completed">>
    BY <1>5, <2>1
  <2>. QED
    BY <1>1, <1>2, <1>5, <2>1, <2>2 DEF Stage
<1>7. Honours(run[r], new, stmt[r])
  BY <1>1, <1>5 DEF Honours, PhaseOf
<1>8. SoundQuery(r, new)
  BY <1>1, <1>4, <1>5, <1>6, <1>7 DEF SoundQuery
<1>9. NewJob(r, "execute", "consumer") \in Job /\ Awaits(new, NewJob(r, "execute", "consumer"))
  BY <1>5 DEF NewJob, Job, Awaits
<1>. QED
  BY <1>1, <1>3, <1>8, <1>9, WaitsFor

LEMMA PullKept == ASSUME IInv, NEW r \in Run, Pull(r) \/ PullTooLate(r) PROVE Kept
<1>1. run[r].pc \in {"returned", "holding"} /\ Active(r)
  BY DEF Pull, PullTooLate, Asks, Active
<1>2. /\ Ready(r, conn) /\ Continues(r, run[r]) /\ run[r] \in RunState /\ Stage(run[r], stmt[r])
      /\ run[r].events = <<>> /\ (stmt[r].begins => stmt[r].batches = 0)
  BY <1>1, ReadyHere, RunHere, ContinuesHere DEF Stage
<1>3. CASE PullTooLate(r)
  BY <1>1, <1>2, <1>3, TimedOutKept DEF PullTooLate
<1>4. CASE run[r].source = "last" /\ Unwind(r, "done", run[r], conn)
  <2>1. run[r].got = stmt[r].batches /\ (~run[r].cancel => run[r].status = "succeeded")
    BY <1>1, <1>2, <1>4 DEF Stage
  <2>. QED
    BY <1>1, <1>2, <1>4, <2>1, UnwindKept
<1>5. CASE /\ run[r].source = "fresh" /\ stmt[r].begins
           /\ Deliver(r, 0, [run[r] EXCEPT !.status = "succeeded", !.source = "last"], conn)
  <2>. DEFINE last == [run[r] EXCEPT !.status = "succeeded", !.source = "last"]
  <2>1. last \in RunState
    BY ZenonT(60), <1>2 DEF RunState
  <2>2. /\ last.status = "succeeded" /\ last.source = "last" /\ last.got = run[r].got
        /\ last.cancel = run[r].cancel /\ last.events = run[r].events
    BY <1>2 DEF RunState
  <2>3. Deliver(r, 0, last, conn)
    BY <1>5
  <2>. HIDE DEF last
  <2>4. run[r].got = stmt[r].batches
    BY <1>2, <1>5 DEF Stage
  <2>5. Continues(r, last)
    BY <1>2, <2>1, <2>2, <2>4 DEF Continues
  <2>. QED
    BY <1>1, <1>2, <2>2, <2>3, <2>5, DeliverKept
<1>6. CASE Unwind(r, "cancelled", [run[r] EXCEPT !.status = "cancelled"], conn)
  <2>. DEFINE new == [run[r] EXCEPT !.status = "cancelled"]
  <2>1. new \in RunState
    BY ZenonT(60), <1>2 DEF RunState
  <2>2. /\ new.status = "cancelled" /\ new.source = run[r].source /\ new.got = run[r].got
        /\ new.cancel = run[r].cancel /\ new.events = run[r].events
    BY <1>2 DEF RunState
  <2>. HIDE DEF new
  <2>3. Continues(r, new)
    BY <1>2, <2>1, <2>2 DEF Continues
  <2>. QED
    BY <1>1, <1>2, <1>6, <2>3, UnwindKept DEF new
<1>7. CASE /\ run[r].source \in {"fresh", "suspended"}
           /\ Becomes(r, [run[r] EXCEPT !.pc = "fetching", !.source = "suspended"],
                         Queue(conn, r, "fetch", "consumer"))
  <2>. DEFINE new == [run[r] EXCEPT !.pc = "fetching", !.source = "suspended"]
  <2>1. new \in RunState
    BY ZenonT(60), <1>2 DEF RunState
  <2>2. /\ new.pc = "fetching" /\ new.status = run[r].status /\ new.source = "suspended"
        /\ new.got = run[r].got /\ new.cancel = run[r].cancel /\ new.events = run[r].events
    BY <1>2 DEF RunState
  <2>3. Becomes(r, new, Queue(conn, r, "fetch", "consumer"))
    BY <1>7
  <2>. HIDE DEF new
  <2>4. Stage(new, stmt[r])
    <3>1. new.events # <<"completed">>
      BY <1>2, <2>2
    <3>. QED
      BY <1>2, <2>2, <3>1 DEF Stage
  <2>5. Honours(run[r], new, stmt[r])
    BY <1>1, <1>2, <1>7, <2>2 DEF Honours, PhaseOf
  <2>6. SoundQuery(r, new)
    BY <1>1, <2>1, <2>4, <2>5 DEF SoundQuery
  <2>7. NewJob(r, "fetch", "consumer") \in Job /\ Awaits(new, NewJob(r, "fetch", "consumer"))
    BY <2>2 DEF NewJob, Job, Awaits
  <2>. QED
    BY <1>2, <2>2, <2>3, <2>6, <2>7, WaitsFor
<1>. QED
  BY <1>3, <1>4, <1>5, <1>6, <1>7 DEF Pull

\* An iterator that was never started ends without an event.
LEMMA VanishSound ==
  ASSUME IInv, NEW r \in Run, run[r].pc \in {"executing", "returned"}, NEW new \in RunState,
         new.pc = "ended", new.status = run[r].status, new.source = run[r].source,
         new.got = run[r].got, new.cancel = run[r].cancel, new.events = run[r].events
  PROVE  SoundQuery(r, new)
<1>1. Stage(run[r], stmt[r]) /\ run[r].events = <<>> /\ run[r].source \in {"none", "fresh"}
  BY RunHere DEF Stage
<1>2. Stage(new, stmt[r])
  BY <1>1 DEF Stage
<1>3. Honours(run[r], new, stmt[r])
  BY <1>1 DEF Honours, PhaseOf
<1>. QED
  BY <1>2, <1>3 DEF SoundQuery

LEMMA AbandonKept == ASSUME IInv, NEW r \in Run, Abandon(r) PROVE Kept
<1>1. run[r].pc \in {"returned", "holding"} /\ Active(r)
  BY DEF Abandon, Active
<1>2. Ready(r, conn) /\ Continues(r, run[r]) /\ run[r] \in RunState /\ run[r].events = <<>>
  BY <1>1, ReadyHere, RunHere, ContinuesHere DEF Continues
<1>3. CASE run[r].pc = "holding"
  <2>. DEFINE new == [run[r] EXCEPT !.status = IF Finished(@) THEN @ ELSE "cancelled"]
  <2>1. EndWith(r, "cancelled", new, conn)
    BY <1>3 DEF Abandon
  <2>2. new \in RunState
    BY ZenonT(60), <1>2 DEF RunState
  <2>3. /\ new.status \in {run[r].status, "cancelled"} /\ new.source = run[r].source
        /\ new.got = run[r].got /\ new.cancel = run[r].cancel /\ new.events = run[r].events
    BY <1>2 DEF RunState
  <2>. HIDE DEF new
  <2>4. Continues(r, new)
    BY <1>2, <2>2, <2>3 DEF Continues
  <2>. QED
    BY <1>1, <1>2, <2>1, <2>4, EndWithKept
<1>4. CASE run[r].pc = "returned"
  <2>. DEFINE new == [run[r] EXCEPT !.pc = "ended"]
  <2>1. Becomes(r, new, conn)
    BY <1>4 DEF Abandon
  <2>2. new \in RunState
    BY ZenonT(60), <1>2 DEF RunState
  <2>3. /\ new.pc = "ended" /\ new.status = run[r].status /\ new.source = run[r].source
        /\ new.got = run[r].got /\ new.cancel = run[r].cancel /\ new.events = run[r].events
    BY <1>2 DEF RunState
  <2>. HIDE DEF new
  <2>4. SoundQuery(r, new)
    BY <1>4, <2>2, <2>3, VanishSound
  <2>. QED
    BY <1>2, <2>1, <2>3, <2>4, GoesOn
<1>. QED
  BY <1>1, <1>3, <1>4

LEMMA ExpireKept == ASSUME IInv, NEW r \in Run, Expire(r) PROVE Kept
<1>. DEFINE late == [run[r] EXCEPT !.expired = TRUE]
<1>1. run[r] \in RunState /\ Stage(run[r], stmt[r])
  BY RunHere
<1>2. late \in RunState
  BY ZenonT(60), <1>1 DEF RunState
<1>3. /\ late.pc = run[r].pc /\ late.why = run[r].why /\ late.status = run[r].status
      /\ late.source = run[r].source /\ late.got = run[r].got
      /\ late.cancel = run[r].cancel /\ late.events = run[r].events
  BY <1>1 DEF RunState
<1>4. \/ Becomes(r, late, conn)
      \/ run[r].pc = "fetching" /\ Unwind(r, "timeout", late, Deserted(r))
      \/ run[r].pc = "unwinding" /\ TimedOut(r, late, Deserted(r))
      \/ run[r].pc = "unwinding" /\ EndWith(r, "cancelled", late, Deserted(r))
  BY DEF Expire
<1>. HIDE DEF late
<1>5. CASE Becomes(r, late, conn)
  <2>1. Stage(late, stmt[r])
    BY <1>1, <1>3 DEF Stage
  <2>2. Honours(run[r], late, stmt[r])
    BY <1>3 DEF Honours, PhaseOf
  <2>3. SoundQuery(r, late)
    BY <1>2, <1>3, <2>1, <2>2 DEF SoundQuery
  <2>4. conn \in ConnState /\ Orderly(conn.queue, r, run[r]) /\ Leaves(conn.queue, conn.queue, r)
    BY DEF IInv, Types, Orders, Leaves
  <2>5. SoundAdapter(r, late, conn)
    BY <1>3, <2>4, ElsewhereSound
  <2>. QED
    BY <1>5, <2>3, <2>5, BecomesStep DEF Kept
<1>6. CASE run[r].pc \in {"fetching", "unwinding"}
  <2>1. Active(r) /\ Ready(r, Deserted(r)) /\ Continues(r, run[r])
    BY <1>6, ReadyDeserted, ContinuesHere DEF Active
  <2>2. Continues(r, late)
    BY <1>2, <1>3, <2>1 DEF Continues
  <2>3. CASE Unwind(r, "timeout", late, Deserted(r))
    BY <2>1, <2>2, <2>3, UnwindKept
  <2>4. CASE TimedOut(r, late, Deserted(r))
    BY <1>3, <2>1, <2>2, <2>4, TimedOutKept
  <2>5. CASE EndWith(r, "cancelled", late, Deserted(r))
    BY <2>1, <2>2, <2>5, EndWithKept
  <2>. QED
    BY <1>4, <1>5, <2>3, <2>4, <2>5
<1>. QED
  BY <1>4, <1>5, <1>6

LEMMA CancelTaskKept == ASSUME IInv, NEW r \in Run, CancelTask(r) PROVE Kept
<1>1. /\ run[r].pc \in {"executing", "fetching", "unwinding", "cancelling", "closing"}
      /\ Ready(r, Deserted(r)) /\ run[r] \in RunState
  BY ReadyDeserted, RunHere
     DEF CancelTask, CancelExecuting, CancelFetching, CancelUnwinding, CancelCancelling, CancelClosing
<1>2. CASE CancelExecuting(r)
  <2>. DEFINE new == [run[r] EXCEPT !.pc = "ended", !.why = "aborted"]
  <2>1. Becomes(r, new, Deserted(r)) /\ run[r].pc = "executing"
    BY <1>2 DEF CancelExecuting
  <2>2. new \in RunState
    BY ZenonT(60), <1>1 DEF RunState
  <2>3. /\ new.pc = "ended" /\ new.status = run[r].status /\ new.source = run[r].source
        /\ new.got = run[r].got /\ new.cancel = run[r].cancel /\ new.events = run[r].events
    BY <1>1 DEF RunState
  <2>. HIDE DEF new
  <2>4. SoundQuery(r, new)
    BY <2>1, <2>2, <2>3, VanishSound
  <2>. QED
    BY <1>1, <2>1, <2>3, <2>4, GoesOn
<1>3. CASE CancelFetching(r)
  <2>1. Active(r) /\ Continues(r, run[r])
    BY <1>3, ContinuesHere DEF Active, CancelFetching
  <2>. QED
    BY <1>1, <1>3, <2>1, UnwindKept DEF CancelFetching
<1>4. CASE CancelUnwinding(r) \/ CancelCancelling(r)
  <2>1. Active(r) /\ Continues(r, run[r])
    BY <1>4, ContinuesHere DEF Active, CancelUnwinding, CancelCancelling
  <2>. QED
    BY <1>1, <1>4, <2>1, EndWithKept DEF CancelUnwinding, CancelCancelling
<1>5. CASE CancelClosing(r)
  <2>1. run[r].pc = "closing" /\ Becomes(r, [run[r] EXCEPT !.pc = "ended"], Deserted(r))
    BY <1>5 DEF CancelClosing
  <2>. QED
    BY <1>1, <2>1, OverMove, GoesOn
<1>. QED
  BY <1>2, <1>3, <1>4, <1>5 DEF CancelTask

-----------------------------------------------------------------------------
(* The specification *)

LEMMA InitHolds == Init => IInv /\ Contract!Init
<1>. SUFFICES ASSUME Init PROVE IInv /\ Contract!Init
  OBVIOUS
<1>. DEFINE fresh == [pc |-> "new", why |-> "none", source |-> "none", got |-> 0,
                      expired |-> FALSE, cancel |-> FALSE, status |-> "pending",
                      events |-> <<>>, canceller |-> "idle"]
<1>1. \A r \in Run : run[r] = fresh
  BY DEF Init
<1>2. fresh \in RunState
  BY DEF RunState
<1>3. \A r \in Run : Stage(fresh, stmt[r])
  BY DEF Stage
<1>4. /\ fresh.pc = "new" /\ fresh.source = "none" /\ fresh.got = 0 /\ ~fresh.cancel
      /\ fresh.events = <<>>
  OBVIOUS
<1>5. run = [r \in Run |-> fresh]
  BY DEF Init
<1>. HIDE DEF fresh
<1>6. Types
  <2>1. run \in [Run -> RunState]
    BY <1>2, <1>5
  <2>2. conn \in ConnState
    BY DEF Init, ConnState
  <2>. QED
    BY <2>1, <2>2 DEF Types, Init
<1>7. conn.queue = <<>> /\ conn.cursors = {}
  BY DEF Init
<1>8. Serial /\ CursorsHeld /\ Orders /\ Stages
  BY <1>1, <1>3, <1>4, <1>7 DEF Serial, CursorsHeld, Orders, Orderly, Stages
<1>9. Contract!Init
  <2>1. [r \in Run |-> stmt[r].batches] \in [Run -> Nat]
    BY <1>6, <1>8, RunHere DEF IInv
  <2>. QED
    BY <1>1, <1>4, <2>1 DEF Contract!Init, Over
<1>. QED
  BY <1>6, <1>8, <1>9 DEF IInv

LEMMA StepKept == IInv /\ [Next]_vars => Kept
<1>. SUFFICES ASSUME IInv, [Next]_vars PROVE Kept
  OBVIOUS
<1>1. CASE Next
  <2>1. PICK r \in Run : Start(r) \/ Worker(r) \/ Consumer(r) \/ Interrupt(r)
                         \/ Cancel(r) \/ CancelTask(r) \/ Expire(r)
    BY <1>1 DEF Next
  <2>2. CASE Worker(r)
    BY <2>2, ExecutedKept, ExecuteFailsKept, NobodyKept, FetchKept, UnwoundKept, ClosedKept,
       CursorClosedKept, CursorsResetKept, RolledBackKept DEF Worker
  <2>3. CASE Consumer(r)
    BY <2>3, PullKept, AbandonKept, ResetKept DEF Consumer
  <2>. QED
    BY <2>1, <2>2, <2>3, StartKept, CursorClosedKept, CancelKept, CancelTaskKept, ExpireKept
<1>2. CASE UNCHANGED vars
  <2>1. stmt' = stmt /\ run' = run /\ conn' = conn
    BY <1>2 DEF vars
  <2>2. IInv'
    BY <2>1 DEF IInv, Types, Serial, CursorsHeld, Orders, Stages
  <2>3. UNCHANGED Contract!vars
    BY <2>1 DEF Contract!vars, Over
  <2>. QED
    BY <2>2, <2>3 DEF Kept, ContractKept
<1>. QED
  BY <1>1, <1>2

\* Every reachable state is one of an orderly queue and of consistent records.
THEOREM Invariant == Spec => []IInv
<1>1. IInv /\ [Next]_vars => IInv'
  BY StepKept DEF Kept
<1>. QED
  BY InitHolds, <1>1, PTL DEF Spec

\* An adapter serves one query at a time: the leases are serial (Serial) and a
\* cursor is only registered within its lease (CursorsHeld), so that no two are.
THEOREM TypeCorrect == Spec => []TypeOK
<1>1. IInv => TypeOK
  <2>. SUFFICES ASSUME IInv PROVE TypeOK
    OBVIOUS
  <2>1. /\ stmt \in [Run -> Statement] /\ run \in [Run -> RunState]
        /\ conn.cursors \subseteq Run /\ conn.flags \in [Run -> {"none", "clear", "set"}]
        /\ conn.txn \in Run \cup {NoRun} /\ conn.queue \in Seq(Job)
    BY DEF IInv, Types, ConnState
  <2>2. ASSUME NEW r \in conn.cursors, NEW s \in conn.cursors PROVE r = s
    <3>1. r \in Nat /\ s \in Nat /\ r \in Run /\ s \in Run
      BY <2>1, RunAssumption
    <3>2. ~(r < s) /\ ~(s < r)
      BY <3>1 DEF IInv, Serial, CursorsHeld
    <3>. QED
      BY <3>1, <3>2
  <2>3. conn.cursors = {} \/ \E r \in Run : conn.cursors = {r}
    BY <2>1, <2>2
  <2>4. Cardinality({}) = 0 /\ \A r \in Run : Cardinality({r}) = 1
    BY FS_EmptySet, FS_Singleton
  <2>5. Cardinality(conn.cursors) <= 1
    BY <2>3, <2>4
  <2>. QED
    BY <2>1, <2>5 DEF TypeOK
<1>. QED
  BY Invariant, <1>1, PTL

\* A partial read is not recorded as a full result, whichever way the run ended.
THEOREM PartialNeverSucceeds == Spec => []NoPartialSuccess
<1>1. IInv => NoPartialSuccess
  BY DEF IInv, Stages, Stage, NoPartialSuccess
<1>. QED
  BY Invariant, <1>1, PTL

\* Wherever a deadline or a cancellation strikes, the batches, the events and the
\* cancellation of a run are a behaviour of QueryContract.
THEOREM ContractHeld == Spec => KeepsContract
<1>1. IInv /\ [Next]_vars => [Contract!Next]_(Contract!vars)
  BY StepKept DEF Kept, ContractKept
<1>. QED
  BY InitHolds, Invariant, <1>1, PTL DEF Spec, KeepsContract, Contract!Spec

-----------------------------------------------------------------------------
(* Leases that leave the connection quiet.  A second invariant says what is *)
(* left of a run when its lease ends: whose transaction may stay open, and  *)
(* which of its jobs may still be in the thread's queue.                    *)

Ending == {"ended", "resetting", "rollback", "released"}

\* A cursor stays registered until its run unwinds, unless somebody cancels the
\* query, the deadline included, and only an aborted execute() leaves BEGIN behind.
Standing(r, q, adapter) ==
  /\ q.why = "aborted" => q.pc \in Ending
  /\ q.canceller # "idle" => q.cancel
  /\ q.pc \in {"returned", "fetching", "holding", "unwinding"} /\ ~q.cancel /\ ~q.expired =>
       r \in adapter.cursors
  /\ adapter.txn = r => q.why = "aborted" \/ q.pc \notin {"new", "executing", "released"}

\* Only the running job is interrupted; what nobody awaits is a close, an aborted
\* execute(), or a fetch that is done before what its run awaits now, and whose
\* cursor reset() will wait for, if nobody cancelled the query.
Lawful(queue, i, r, q, cursors) ==
  /\ queue[i].hit => i = 1
  /\ queue[i].kind = "rollback" => queue[i].by = "reset"
  /\ queue[i].by = "canceller" => q.cancel
  /\ queue[i].kind = "execute" =>
       queue[i].by = "consumer" \/ (queue[i].by = "nobody" /\ q.why = "aborted")
  /\ queue[i].kind = "fetch" =>
       \/ queue[i].by = "consumer"
       \/ /\ queue[i].by = "nobody"
          /\ \/ q.cancel \/ q.expired
             \/ r \in cursors /\ \A k \in 1..Len(queue) : Own(queue[k], r) => i < k
Laws(queue, r, q, cursors) ==
  \A i \in 1..Len(queue) : queue[i].of = r => Lawful(queue, i, r, q, cursors)

JInv == \A r \in Run : Standing(r, run[r], conn) /\ Laws(conn.queue, r, run[r], conn.cursors)

LeavesLaws(queue, new, r) ==
  \A s \in Run \ {r} : \A q : \A cursors : Laws(queue, s, q, cursors) => Laws(new, s, q, cursors)

\* A record that differs in what the laws do not look at, or for the better.
LEMMA LawsGrow ==
  ASSUME NEW queue, NEW r, NEW q, NEW query, NEW cursors, NEW more, Laws(queue, r, q, cursors),
         q.cancel => query.cancel, q.expired => query.expired,
         q.why = "aborted" => query.why = "aborted",
         query.cancel \/ query.expired \/ (r \in cursors => r \in more)
  PROVE  Laws(queue, r, query, more)
BY DEF Laws, Lawful

\* Behind the job that its run awaits there is no fetch that nobody awaits.
LEMMA TailLaws ==
  ASSUME NEW queue \in Seq(Job), queue # <<>>, NEW r \in Run, NEW q, NEW cursors,
         Laws(queue, r, q, cursors)
  PROVE  /\ Laws(Tail(queue), r, q, cursors)
         /\ Own(queue[1], r) => Laws(Tail(queue), r, q, {})
<1>. DEFINE rest == Tail(queue)
<1>1. /\ 1 \in 1..Len(queue)
      /\ \A i \in 1..Len(rest) : i + 1 \in 1..Len(queue) /\ rest[i] = queue[i + 1] /\ i + 1 # 1
                                  /\ ~(i + 1 < 1)
      /\ \A i, k \in 1..Len(rest) : i + 1 < k + 1 => i < k
  OBVIOUS
<1>. HIDE DEF rest
<1>2. ASSUME NEW i \in 1..Len(rest), rest[i].of = r
      PROVE  Lawful(rest, i, r, q, cursors) /\ (Own(queue[1], r) => Lawful(rest, i, r, q, {}))
  <2>1. i + 1 \in 1..Len(queue) /\ rest[i] = queue[i + 1] /\ i + 1 # 1 /\ ~(i + 1 < 1)
    BY <1>1
  <2>2. Lawful(queue, i + 1, r, q, cursors)
    BY <1>2, <2>1 DEF Laws
  <2>3. \A k \in 1..Len(rest) : Own(rest[k], r) => Own(queue[k + 1], r) /\ k + 1 \in 1..Len(queue)
    BY <1>1
  <2>4. (\A k \in 1..Len(queue) : Own(queue[k], r) => i + 1 < k) =>
          /\ \A k \in 1..Len(rest) : Own(rest[k], r) => i < k
          /\ ~Own(queue[1], r)
    BY Zenon, <1>1, <2>1, <2>3
  <2>. QED
    BY Zenon, <2>1, <2>2, <2>4 DEF Lawful
<1>. QED
  BY <1>2 DEF Laws, rest

LEMMA TailLeavesLaws ==
  ASSUME NEW queue \in Seq(Job), queue # <<>>, NEW r \in Run
  PROVE  LeavesLaws(queue, Tail(queue), r)
BY TailLaws DEF LeavesLaws

\* What may be queued.
Allowed(job, q) ==
  /\ ~job.hit /\ job.by # "nobody"
  /\ job.kind = "rollback" => job.by = "reset"
  /\ job.kind \in {"execute", "fetch"} => job.by = "consumer"
  /\ job.by = "canceller" => q.cancel

LEMMA AppendLaws ==
  ASSUME NEW queue \in Seq(Job), NEW job \in Job, NEW r \in Run, NEW q, NEW cursors,
         Laws(queue, r, q, cursors), job.of = r => Allowed(job, q)
  PROVE  Laws(Append(queue, job), r, q, cursors)
<1>. DEFINE longer == Append(queue, job)
<1>1. /\ \A i \in 1..Len(queue) : i \in 1..Len(longer) /\ longer[i] = queue[i] /\ i < Len(queue) + 1
      /\ longer[Len(queue) + 1] = job
      /\ \A i \in 1..Len(longer) : i \in 1..Len(queue) \/ i = Len(queue) + 1
  OBVIOUS
<1>. HIDE DEF longer
<1>2. ASSUME NEW i \in 1..Len(longer), longer[i].of = r PROVE Lawful(longer, i, r, q, cursors)
  <2>1. CASE i \in 1..Len(queue)
    <3>1. longer[i] = queue[i] /\ i < Len(queue) + 1
      BY <1>1, <2>1
    <3>2. Lawful(queue, i, r, q, cursors)
      BY <1>2, <2>1, <3>1 DEF Laws
    <3>3. (\A k \in 1..Len(queue) : Own(queue[k], r) => i < k) =>
            \A k \in 1..Len(longer) : Own(longer[k], r) => i < k
      BY Zenon, <1>1, <3>1
    <3>. QED
      BY Zenon, <3>1, <3>2, <3>3 DEF Lawful
  <2>2. CASE i = Len(queue) + 1
    BY Zenon, <1>1, <1>2, <2>2 DEF Lawful, Allowed
  <2>. QED
    BY <1>1, <2>1, <2>2
<1>. QED
  BY <1>2 DEF Laws, longer

LEMMA AppendLeavesLaws ==
  ASSUME NEW queue \in Seq(Job), NEW job \in Job, NEW r \in Run, job.of = r
  PROVE  LeavesLaws(queue, Append(queue, job), r)
BY AppendLaws DEF LeavesLaws

LEMMA InterruptedJobs ==
  ASSUME NEW queue \in Seq(Job)
  PROVE  /\ Len(Interrupted(queue)) = Len(queue)
         /\ \A i \in 1..Len(queue) :
              /\ Interrupted(queue)[i].of = queue[i].of
              /\ Interrupted(queue)[i].kind = queue[i].kind
              /\ Interrupted(queue)[i].by = queue[i].by
              /\ Interrupted(queue)[i].hit =>
                   queue[i].hit \/ (i = 1 /\ queue[1].kind \in {"execute", "fetch"})
<1>1. CASE queue # <<>> /\ queue[1].kind \in {"execute", "fetch"}
  <2>1. /\ Interrupted(queue) = [queue EXCEPT ![1].hit = TRUE] /\ 1 \in 1..Len(queue)
        /\ \A i \in 1..Len(queue) : queue[i] \in Job
    BY <1>1 DEF Interrupted
  <2>. DEFINE job == [queue[1] EXCEPT !.hit = TRUE]
  <2>2. job \in Job /\ job.of = queue[1].of /\ job.kind = queue[1].kind /\ job.by = queue[1].by
    BY <2>1 DEF Job
  <2>3. Interrupted(queue) = [queue EXCEPT ![1] = job]
    BY <2>1
  <2>. HIDE DEF job
  <2>. DEFINE new == [queue EXCEPT ![1] = job]
  <2>4. Len(new) = Len(queue) /\ \A i \in 1..Len(queue) : new[i] = IF i = 1 THEN job ELSE queue[i]
    BY <2>1, <2>2
  <2>. HIDE DEF new
  <2>5. Interrupted(queue) = new
    BY <2>3 DEF new
  <2>. QED
    BY <1>1, <2>2, <2>4, <2>5
<1>2. CASE ~(queue # <<>> /\ queue[1].kind \in {"execute", "fetch"})
  <2>1. Interrupted(queue) = queue
    BY <1>2 DEF Interrupted
  <2>. QED
    BY <2>1
<1>. QED
  BY <1>1, <1>2

LEMMA InterruptedLaws ==
  ASSUME NEW queue \in Seq(Job), NEW r, NEW q, NEW cursors, Laws(queue, r, q, cursors)
  PROVE  Laws(Interrupted(queue), r, q, cursors)
<1>. DEFINE new == Interrupted(queue)
<1>1. /\ Len(new) = Len(queue)
      /\ \A i \in 1..Len(queue) :
           /\ new[i].of = queue[i].of /\ new[i].kind = queue[i].kind /\ new[i].by = queue[i].by
           /\ new[i].hit => queue[i].hit \/ i = 1
  BY InterruptedJobs
<1>. HIDE DEF new
<1>2. ASSUME NEW i \in 1..Len(queue), new[i].of = r PROVE Lawful(new, i, r, q, cursors)
  <2>1. Lawful(queue, i, r, q, cursors)
    BY <1>1, <1>2 DEF Laws
  <2>2. \A k \in 1..Len(queue) : Own(new[k], r) => Own(queue[k], r)
    BY <1>1 DEF Own
  <2>. QED
    BY Zenon, <1>1, <2>1, <2>2 DEF Lawful
<1>. QED
  BY <1>1, <1>2 DEF Laws, new

LEMMA InterruptedLeavesLaws ==
  ASSUME NEW queue \in Seq(Job), NEW r \in Run
  PROVE  LeavesLaws(queue, Interrupted(queue), r)
BY InterruptedLaws DEF LeavesLaws

LEMMA DesertedJobs ==
  ASSUME conn \in ConnState, NEW r \in Run
  PROVE  /\ Len(Deserted(r).queue) = Len(conn.queue)
         /\ \A i \in 1..Len(conn.queue) :
              /\ Deserted(r).queue[i].of = conn.queue[i].of
              /\ Deserted(r).queue[i].kind = conn.queue[i].kind
              /\ Deserted(r).queue[i].hit = conn.queue[i].hit
              /\ Deserted(r).queue[i].by =
                   IF conn.queue[i].of = r /\ conn.queue[i].by = "consumer"
                   THEN "nobody" ELSE conn.queue[i].by
<1>. DEFINE queue == conn.queue
            change(i) == IF queue[i].of = r /\ queue[i].by = "consumer"
                         THEN [queue[i] EXCEPT !.by = "nobody"] ELSE queue[i]
            new == [i \in 1..Len(queue) |-> change(i)]
<1>1. queue \in Seq(Job) /\ Len(queue) \in Nat /\ \A i \in 1..Len(queue) : queue[i] \in Job
  BY DEF ConnState
<1>2. ASSUME NEW i \in 1..Len(queue)
      PROVE  /\ change(i).of = queue[i].of /\ change(i).kind = queue[i].kind
             /\ change(i).hit = queue[i].hit
             /\ change(i).by = IF queue[i].of = r /\ queue[i].by = "consumer"
                               THEN "nobody" ELSE queue[i].by
  BY <1>1 DEF Job
<1>3. Deserted(r) = [conn EXCEPT !.queue = new]
  BY DEF Deserted
<1>. HIDE DEF change
<1>4. Len(new) = Len(queue) /\ \A i \in 1..Len(queue) : new[i] = change(i)
  BY <1>1
<1>. HIDE DEF new
<1>5. Deserted(r).queue = new
  BY <1>3 DEF ConnState
<1>. QED
  BY Zenon, <1>2, <1>4, <1>5

LEMMA DesertedLaws ==
  ASSUME IInv, JInv, NEW r \in Run, NEW query,
         run[r].pc \in {"executing", "fetching", "unwinding", "cancelling", "closing"},
         run[r].cancel => query.cancel, run[r].expired => query.expired,
         run[r].why = "aborted" => query.why = "aborted",
         run[r].pc = "executing" => query.why = "aborted"
  PROVE  Laws(Deserted(r).queue, r, query, conn.cursors)
<1>. DEFINE queue == conn.queue
            new == Deserted(r).queue
<1>1. conn \in ConnState /\ Orderly(queue, r, run[r])
  BY DEF IInv, Types, Orders
<1>2. /\ Len(new) = Len(queue)
      /\ \A i \in 1..Len(queue) :
           /\ new[i].of = queue[i].of /\ new[i].kind = queue[i].kind /\ new[i].hit = queue[i].hit
           /\ new[i].by = IF queue[i].of = r /\ queue[i].by = "consumer" THEN "nobody" ELSE queue[i].by
  BY <1>1, DesertedJobs
<1>3. Silent(new, r)
  BY <1>1, DesertedFades
<1>. HIDE DEF new
<1>4. ASSUME NEW i \in 1..Len(queue), new[i].of = r PROVE Lawful(new, i, r, query, conn.cursors)
  <2>1. Lawful(queue, i, r, run[r], conn.cursors)
    BY <1>2, <1>4 DEF JInv, Laws
  <2>2. \A k \in 1..Len(new) : ~Own(new[k], r)
    BY <1>3 DEF Silent
  <2>3. CASE queue[i].by # "consumer"
    BY Zenon, <1>2, <2>1, <2>2, <2>3 DEF Lawful
  <2>4. CASE queue[i].by = "consumer"
    <3>1. Awaits(run[r], queue[i]) /\ new[i].by = "nobody" /\ new[i].kind = queue[i].kind
      BY <1>1, <1>2, <1>4, <2>4 DEF Orderly, Own
    <3>2. queue[i].kind = "execute" => query.why = "aborted"
      BY <2>4, <3>1 DEF Awaits
    <3>3. queue[i].kind = "fetch" => query.cancel \/ query.expired \/ r \in conn.cursors
      BY <2>4, <3>1 DEF Awaits, JInv, Standing
    <3>4. queue[i].kind # "rollback"
      BY <2>1, <2>4 DEF Lawful
    <3>. QED
      BY Zenon, <1>2, <2>1, <2>2, <3>1, <3>2, <3>3, <3>4 DEF Lawful
  <2>. QED
    BY <2>3, <2>4
<1>. QED
  BY <1>2, <1>4 DEF Laws, new

LEMMA DesertedLeavesLaws ==
  ASSUME IInv, NEW r \in Run
  PROVE  LeavesLaws(conn.queue, Deserted(r).queue, r)
<1>. DEFINE queue == conn.queue
            new == Deserted(r).queue
<1>1. /\ Len(new) = Len(queue)
      /\ \A i \in 1..Len(queue) :
           /\ new[i].of = queue[i].of /\ new[i].kind = queue[i].kind /\ new[i].hit = queue[i].hit
           /\ queue[i].of # r => new[i].by = queue[i].by
  BY DesertedJobs DEF IInv, Types
<1>. HIDE DEF new
<1>. SUFFICES ASSUME NEW s \in Run \ {r}, NEW q, NEW cursors, Laws(queue, s, q, cursors),
                     NEW i \in 1..Len(queue), new[i].of = s
              PROVE  Lawful(new, i, s, q, cursors)
  BY <1>1 DEF LeavesLaws, Laws, new
<1>2. Lawful(queue, i, s, q, cursors) /\ new[i].by = queue[i].by
  BY <1>1 DEF Laws
<1>3. \A k \in 1..Len(queue) : Own(new[k], s) => Own(queue[k], s)
  BY <1>1 DEF Own
<1>. QED
  BY Zenon, <1>1, <1>2, <1>3 DEF Lawful

-----------------------------------------------------------------------------
(* Steps that keep the second invariant and interrupt no other run *)

\* The running job is interrupted on account of r, or nobody awaits it.
Excused(r, query, job) ==
  \/ job.by = "nobody"
  \/ conn.queue # <<>> /\ conn.queue[1].hit
  \/ job.of = r /\ (query.cancel \/ query.expired)
  \/ run[r].pc = "released" /\ run[r].canceller = "closed"

Careful(r, query, adapter) ==
  /\ Standing(r, query, adapter)
  /\ adapter.txn \in {conn.txn, NoRun, r}
  /\ conn.cursors \ {r} \subseteq adapter.cursors
  /\ Laws(adapter.queue, r, query, adapter.cursors)
  /\ LeavesLaws(conn.queue, adapter.queue, r)
  /\ adapter.queue # <<>> /\ adapter.queue[1].hit => Excused(r, query, adapter.queue[1])

\* What the step says of InterruptsOwn.
HitsOwn ==
  \A j \in Job : conn'.queue # <<>> /\ conn'.queue[1] = j /\ Hits(j) =>
    \/ run'[j.of].cancel \/ run'[j.of].expired \/ j.by = "nobody"
    \/ \E r \in Run : run[r].pc = "released" /\ run[r].canceller = "closed"

Quiet == JInv' /\ HitsOwn

LEMMA CarefulStep ==
  ASSUME IInv, JInv, NEW r \in Run, NEW query, NEW adapter, Becomes(r, query, adapter),
         Careful(r, query, adapter)
  PROVE  Quiet
<1>1. run' = [run EXCEPT ![r] = query] /\ conn' = adapter
  BY DEF Becomes
<1>2. /\ run \in [Run -> RunState] /\ run'[r] = query
      /\ \A s \in Run : s # r => run'[s] = run[s]
  BY <1>1 DEF IInv, Types
<1>3. NoRun \notin Run
  BY EndlessAssumption
<1>4. ASSUME NEW s \in Run PROVE Standing(s, run'[s], conn') /\ Laws(conn'.queue, s, run'[s], conn'.cursors)
  <2>1. CASE s = r
    BY <1>1, <1>2, <2>1 DEF Careful
  <2>2. CASE s # r
    <3>1. Standing(s, run[s], conn) /\ Laws(conn.queue, s, run[s], conn.cursors) /\ run'[s] = run[s]
      BY <1>2, <2>2 DEF JInv
    <3>2. (s \in conn.cursors => s \in conn'.cursors) /\ (conn'.txn = s => conn.txn = s)
      BY <1>1, <1>3, <2>2 DEF Careful
    <3>3. Standing(s, run'[s], conn')
      BY <3>1, <3>2 DEF Standing
    <3>4. Laws(conn'.queue, s, run[s], conn.cursors)
      BY <1>1, <2>2, <3>1 DEF Careful, LeavesLaws
    <3>. QED
      BY <3>1, <3>2, <3>3, <3>4, LawsGrow
  <2>. QED
    BY <2>1, <2>2
<1>5. HitsOwn
  BY <1>1, <1>2 DEF HitsOwn, Hits, Careful, Excused
<1>. QED
  BY <1>4, <1>5 DEF Quiet, JInv

\* An adapter that r may be left with, whatever becomes of its record.
Calm(r, adapter) ==
  /\ adapter.txn = conn.txn
  /\ conn.cursors \ {r} \subseteq adapter.cursors
  /\ LeavesLaws(conn.queue, adapter.queue, r)
  /\ adapter.queue # <<>> /\ adapter.queue[1].hit =>
       adapter.queue[1].by = "nobody" \/ (conn.queue # <<>> /\ conn.queue[1].hit)

LEMMA CalmGoesOn ==
  ASSUME IInv, JInv, NEW r \in Run, NEW query, NEW adapter, Becomes(r, query, adapter),
         Calm(r, adapter), Laws(adapter.queue, r, query, adapter.cursors),
         Standing(r, query, adapter)
  PROVE  Quiet
<1>1. Careful(r, query, adapter)
  BY DEF Careful, Calm, Excused
<1>. QED
  BY <1>1, CarefulStep

LEMMA CalmWaits ==
  ASSUME IInv, JInv, NEW r \in Run, NEW query, NEW adapter \in ConnState, NEW kind, NEW by,
         Becomes(r, query, Queue(adapter, r, kind, by)),
         Calm(r, adapter), Laws(adapter.queue, r, query, adapter.cursors),
         Standing(r, query, adapter),
         NewJob(r, kind, by) \in Job, Allowed(NewJob(r, kind, by), query)
  PROVE  Quiet
<1>. DEFINE job == NewJob(r, kind, by)
            longer == Append(adapter.queue, job)
            new == Queue(adapter, r, kind, by)
<1>1. job \in Job /\ job.of = r /\ ~job.hit /\ Allowed(job, query) /\ adapter.queue \in Seq(Job)
  BY DEF NewJob, ConnState
<1>2. /\ new.queue = longer /\ new.cursors = adapter.cursors /\ new.txn = adapter.txn
  BY DEF Queue, ConnState
<1>. HIDE DEF job
<1>3. Laws(longer, r, query, adapter.cursors) /\ LeavesLaws(adapter.queue, longer, r)
  BY <1>1, AppendLaws, AppendLeavesLaws
<1>4. LeavesLaws(conn.queue, longer, r)
  BY <1>3 DEF Calm, LeavesLaws
<1>5. longer[1] = IF adapter.queue = <<>> THEN job ELSE adapter.queue[1]
  BY <1>1
<1>. HIDE DEF longer, new
<1>6. Careful(r, query, new)
  BY <1>1, <1>2, <1>3, <1>4, <1>5 DEF Careful, Calm, Excused, Standing
<1>. QED
  BY <1>6, CarefulStep DEF new

LEMMA OneLease ==
  ASSUME IInv, NEW r \in Run, NEW s \in Run, r # s, run[r].pc \notin {"new", "released"}
  PROVE  run[s].pc \in {"new", "released"}
<1>1. r \in Nat /\ s \in Nat
  BY RunAssumption
<1>2. r < s \/ s < r
  BY <1>1
<1>. QED
  BY <1>2 DEF IInv, Serial

LEMMA CalmHere == ASSUME NEW r \in Run PROVE Calm(r, conn)
BY DEF Calm, LeavesLaws

LEMMA CalmPopped == ASSUME IInv, JInv, NEW r \in Run, conn.queue # <<>> PROVE Calm(r, Popped)
<1>1. conn.queue \in Seq(Job)
  BY DEF IInv, Types, ConnState
<1>2. LeavesLaws(conn.queue, Tail(conn.queue), r)
  BY <1>1, TailLeavesLaws
<1>3. ASSUME Tail(conn.queue) # <<>> PROVE ~Tail(conn.queue)[1].hit
  <2>1. 2 \in 1..Len(conn.queue) /\ Tail(conn.queue)[1] = conn.queue[2] /\ conn.queue[2] \in Job
    BY <1>1, <1>3
  <2>2. conn.queue[2].of \in Run
    BY <2>1 DEF Job
  <2>3. Lawful(conn.queue, 2, conn.queue[2].of, run[conn.queue[2].of], conn.cursors)
    BY <2>1, <2>2 DEF JInv, Laws
  <2>. QED
    BY <2>1, <2>3 DEF Lawful
<1>. QED
  BY <1>2, <1>3, PoppedProperties DEF Calm

LEMMA CalmDeserted ==
  ASSUME IInv, NEW r \in Run, run[r].pc \notin {"resetting", "rollback"}
  PROVE  Calm(r, Deserted(r))
<1>1. conn \in ConnState /\ conn.queue \in Seq(Job) /\ Orderly(conn.queue, r, run[r])
  BY DEF IInv, Types, ConnState, Orders
<1>2. /\ Deserted(r) \in ConnState /\ Deserted(r).cursors = conn.cursors /\ Deserted(r).txn = conn.txn
  BY <1>1, DesertedFades
<1>3. Len(Deserted(r).queue) = Len(conn.queue)
      /\ \A i \in 1..Len(conn.queue) : Deserted(r).queue[i].hit = conn.queue[i].hit
  BY <1>1, DesertedJobs
<1>4. ASSUME Deserted(r).queue # <<>>, Deserted(r).queue[1].hit
      PROVE  conn.queue # <<>> /\ conn.queue[1].hit
  <2>1. Deserted(r).queue \in Seq(Job)
    BY <1>2 DEF ConnState
  <2>2. 1 \in 1..Len(conn.queue)
    BY <1>1, <1>3, <1>4, <2>1
  <2>. QED
    BY <1>1, <1>3, <1>4, <2>2
<1>. QED
  BY <1>2, <1>4, DesertedLeavesLaws DEF Calm

LEMMA CalmSame ==
  ASSUME NEW r \in Run, NEW adapter, Calm(r, adapter), NEW new, new.queue = adapter.queue,
         new.txn = adapter.txn, adapter.cursors \ {r} \subseteq new.cursors
  PROVE  Calm(r, new)
BY DEF Calm

\* Whoever a run interrupts while its lease lasts, nobody awaits that.
LEMMA CalmInterrupted ==
  ASSUME IInv, JInv, NEW r \in Run, run[r].pc \notin {"new", "released"},
         NEW adapter, Ready(r, adapter), Calm(r, adapter),
         NEW query, NEW cursors, Laws(adapter.queue, r, query, cursors)
  PROVE  Calm(r, [adapter EXCEPT !.queue = Interrupted(@)])
<1>. DEFINE queue == adapter.queue
            new == Interrupted(queue)
<1>1. adapter \in ConnState /\ queue \in Seq(Job)
  BY DEF Ready, ConnState
<1>2. LeavesLaws(conn.queue, new, r)
  BY <1>1, InterruptedLeavesLaws DEF Calm, LeavesLaws
<1>3. ASSUME new # <<>>, new[1].hit
      PROVE  new[1].by = "nobody" \/ (conn.queue # <<>> /\ conn.queue[1].hit)
  <2>1. Len(new) = Len(queue) /\ new \in Seq(Job)
    BY <1>1, InterruptedJobs, InterruptedFades
  <2>2. 1 \in 1..Len(queue)
    BY <1>1, <1>3, <2>1
  <2>. DEFINE job == queue[1]
  <2>3. job \in Job /\ new[1].by = job.by /\ (job.hit \/ job.kind \in {"execute", "fetch"})
    BY <1>1, <1>3, <2>2, InterruptedJobs
  <2>4. CASE job.hit
    BY <1>1, <2>2, <2>3, <2>4 DEF Calm
  <2>5. CASE job.kind \in {"execute", "fetch"} /\ job.of = r
    <3>1. Lawful(queue, 1, r, query, cursors)
      BY <2>2, <2>5 DEF Laws
    <3>2. ~Own(job, r)
      BY <2>2 DEF Ready, Silent
    <3>. QED
      BY <2>3, <2>5, <3>1, <3>2 DEF Lawful, Own
  <2>6. CASE job.kind \in {"execute", "fetch"} /\ job.of # r
    <3>. DEFINE s == job.of
    <3>1. s \in Run \ {r}
      BY <2>3, <2>6 DEF Job
    <3>2. Laws(queue, s, run[s], conn.cursors)
      BY <3>1 DEF Calm, LeavesLaws, JInv
    <3>3. Lawful(queue, 1, s, run[s], conn.cursors)
      BY <2>2, <3>2 DEF Laws
    <3>4. Orderly(queue, s, run[s])
      BY <3>1 DEF Ready, Leaves, IInv, Orders
    <3>5. job.by = "consumer" => run[s].pc \in {"executing", "fetching"}
      BY <2>2, <2>6, <3>4 DEF Orderly, Own, Awaits
    <3>6. job.by # "consumer"
      BY <3>1, <3>5, OneLease
    <3>. QED
      BY <2>3, <2>6, <3>3, <3>6 DEF Lawful
  <2>. QED
    BY <2>3, <2>4, <2>5, <2>6
<1>4. /\ [adapter EXCEPT !.queue = new].queue = new
      /\ [adapter EXCEPT !.queue = new].cursors = adapter.cursors
      /\ [adapter EXCEPT !.queue = new].txn = adapter.txn
  BY <1>1 DEF ConnState
<1>. HIDE DEF new
<1>5. Calm(r, [adapter EXCEPT !.queue = new])
  BY <1>2, <1>3, <1>4 DEF Calm
<1>. QED
  BY <1>5 DEF new

\* A record of a run that is iterated, or is about to be.
Steady(query) ==
  query \in RunState /\ query.why # "aborted" /\ (query.canceller # "idle" => query.cancel)

LEMMA UnwindQuiet ==
  ASSUME IInv, JInv, NEW r \in Run, NEW query, Steady(query), NEW adapter \in ConnState,
         Calm(r, adapter), Laws(adapter.queue, r, query, adapter.cursors),
         ~query.cancel /\ ~query.expired => r \in adapter.cursors,
         NEW why \in {"done", "cancelled", "error", "timeout", "task"},
         Unwind(r, why, query, adapter)
  PROVE  Quiet
<1>. DEFINE new == [query EXCEPT !.pc = "unwinding", !.why = why, !.source = "over"]
<1>1. /\ new.pc = "unwinding" /\ new.why = why /\ new.cancel = query.cancel
      /\ new.expired = query.expired /\ new.canceller = query.canceller
  BY DEF Steady, RunState
<1>2. Becomes(r, new, Queue(adapter, r, "close", "consumer"))
  BY DEF Unwind
<1>. HIDE DEF new
<1>3. Laws(adapter.queue, r, new, adapter.cursors)
  BY <1>1, LawsGrow DEF Steady
<1>4. Standing(r, new, adapter)
  BY <1>1 DEF Standing, Steady
<1>5. NewJob(r, "close", "consumer") \in Job /\ Allowed(NewJob(r, "close", "consumer"), new)
  BY DEF NewJob, Job, Allowed
<1>. QED
  BY <1>2, <1>3, <1>4, <1>5, CalmWaits

LEMMA EndWithQuiet ==
  ASSUME IInv, JInv, NEW r \in Run, NEW query, Steady(query), NEW adapter \in ConnState,
         Calm(r, adapter), Laws(adapter.queue, r, query, adapter.cursors),
         NEW event, EndWith(r, event, query, adapter)
  PROVE  Quiet
<1>. DEFINE told == [query EXCEPT !.events = Append(@, event)]
            closing == [told EXCEPT !.pc = "closing", !.source = "over"]
            ended == [told EXCEPT !.pc = "ended"]
<1>1. /\ closing.pc = "closing" /\ closing.why = query.why /\ closing.cancel = query.cancel
      /\ closing.expired = query.expired /\ closing.canceller = query.canceller
  BY DEF Steady, RunState
<1>2. /\ ended.pc = "ended" /\ ended.why = query.why /\ ended.cancel = query.cancel
      /\ ended.expired = query.expired /\ ended.canceller = query.canceller
  BY DEF Steady, RunState
<1>3. \/ Becomes(r, closing, Queue(adapter, r, "close", "consumer"))
      \/ Becomes(r, ended, adapter)
  BY DEF EndWith
<1>. HIDE DEF closing, ended
<1>4. CASE Becomes(r, closing, Queue(adapter, r, "close", "consumer"))
  <2>1. Laws(adapter.queue, r, closing, adapter.cursors)
    BY <1>1, LawsGrow
  <2>2. Standing(r, closing, adapter)
    BY <1>1 DEF Standing, Steady
  <2>3. NewJob(r, "close", "consumer") \in Job /\ Allowed(NewJob(r, "close", "consumer"), closing)
    BY DEF NewJob, Job, Allowed
  <2>. QED
    BY <1>4, <2>1, <2>2, <2>3, CalmWaits
<1>5. CASE Becomes(r, ended, adapter)
  <2>1. Laws(adapter.queue, r, ended, adapter.cursors)
    BY <1>2, LawsGrow
  <2>2. Standing(r, ended, adapter)
    BY <1>2 DEF Standing, Steady
  <2>. QED
    BY <1>5, <2>1, <2>2, CalmGoesOn
<1>. QED
  BY <1>3, <1>4, <1>5

LEMMA TimedOutQuiet ==
  ASSUME IInv, JInv, NEW r \in Run, run[r].pc \notin {"new", "released"},
         NEW query, Steady(query), NEW adapter, Ready(r, adapter),
         Calm(r, adapter), Laws(adapter.queue, r, query, {}), TimedOut(r, query, adapter)
  PROVE  Quiet
<1>. DEFINE asked == [adapter EXCEPT !.flags[r] = "set"]
            rest == [asked EXCEPT !.cursors = @ \ {r}]
            told == [asked EXCEPT !.queue = Interrupted(@)]
            new == [query EXCEPT !.pc = "cancelling", !.status = "cancelled"]
            failed == [query EXCEPT !.status = "failed"]
<1>1. adapter \in ConnState /\ adapter.queue \in Seq(Job)
  BY DEF Ready, ConnState
<1>2. Ready(r, asked) /\ Ready(r, rest)
  BY ReadyCleared
<1>3. /\ asked.queue = adapter.queue /\ asked.cursors = adapter.cursors /\ asked.txn = adapter.txn
      /\ rest.queue = adapter.queue /\ rest.cursors = adapter.cursors \ {r} /\ rest.txn = adapter.txn
  BY <1>1 DEF ConnState
<1>4. Calm(r, asked) /\ Calm(r, rest)
  BY <1>3, CalmSame
<1>5. /\ Laws(adapter.queue, r, query, asked.cursors) /\ Laws(adapter.queue, r, query, rest.cursors)
  BY LawsGrow
<1>6. CASE Becomes(r, new, Queue(rest, r, "close", "consumer"))
  <2>1. /\ new.pc = "cancelling" /\ new.why = query.why /\ new.cancel = query.cancel
        /\ new.expired = query.expired /\ new.canceller = query.canceller
    BY DEF Steady, RunState
  <2>. HIDE DEF new, rest
  <2>2. Laws(rest.queue, r, new, rest.cursors)
    BY <1>3, <1>5, <2>1, LawsGrow
  <2>3. Standing(r, new, rest)
    BY <2>1 DEF Standing, Steady
  <2>4. NewJob(r, "close", "consumer") \in Job /\ Allowed(NewJob(r, "close", "consumer"), new)
    BY DEF NewJob, Job, Allowed
  <2>5. rest \in ConnState
    BY <1>2 DEF Ready
  <2>. QED
    BY <1>4, <1>6, <2>2, <2>3, <2>4, <2>5, CalmWaits
<1>7. CASE EndWith(r, "failed", failed, told)
  <2>1. /\ failed.pc = query.pc /\ failed.why = query.why /\ failed.cancel = query.cancel
        /\ failed.expired = query.expired /\ failed.canceller = query.canceller
    BY DEF Steady, RunState
  <2>2. failed \in RunState
    BY ZenonT(60) DEF Steady, RunState
  <2>. HIDE DEF failed, asked
  <2>3. Calm(r, told)
    BY <1>2, <1>3, <1>4, <1>5, CalmInterrupted
  <2>4. Ready(r, told)
    BY <1>2, ReadyInterrupted
  <2>5. told.queue = Interrupted(adapter.queue) /\ told.cursors = adapter.cursors
    BY <1>2, <1>3 DEF Ready, ConnState
  <2>. HIDE DEF told
  <2>6. Laws(told.queue, r, query, {})
    BY <1>1, <2>5, InterruptedLaws
  <2>7. Laws(told.queue, r, failed, told.cursors)
    BY <2>1, <2>6, LawsGrow
  <2>8. Steady(failed) /\ told \in ConnState
    BY <2>1, <2>2, <2>4 DEF Steady, Ready
  <2>. QED
    BY <1>7, <2>3, <2>7, <2>8, EndWithQuiet
<1>. QED
  BY <1>6, <1>7 DEF TimedOut

LEMMA DeliverQuiet ==
  ASSUME IInv, JInv, NEW r \in Run, NEW query, Steady(query), NEW adapter \in ConnState,
         Calm(r, adapter), Laws(adapter.queue, r, query, adapter.cursors),
         ~query.cancel /\ ~query.expired => r \in adapter.cursors,
         NEW rows, Deliver(r, rows, query, adapter)
  PROVE  Quiet
<1>. DEFINE new == [query EXCEPT !.pc = "holding", !.got = @ + rows]
<1>1. CASE Becomes(r, new, adapter)
  <2>1. /\ new.pc = "holding" /\ new.why = query.why /\ new.cancel = query.cancel
        /\ new.expired = query.expired /\ new.canceller = query.canceller
    BY DEF Steady, RunState
  <2>. HIDE DEF new
  <2>2. Laws(adapter.queue, r, new, adapter.cursors)
    BY <2>1, LawsGrow
  <2>3. Standing(r, new, adapter)
    BY <2>1 DEF Standing, Steady
  <2>. QED
    BY <1>1, <2>2, <2>3, CalmGoesOn
<1>2. CASE EndWith(r, "cancelled", query, adapter)
  BY <1>2, EndWithQuiet
<1>. QED
  BY <1>1, <1>2 DEF Deliver

-----------------------------------------------------------------------------
(* Every action keeps the second invariant *)

LEMMA SteadyHere == ASSUME IInv, JInv, NEW r \in Run, run[r].pc \notin Ending PROVE Steady(run[r])
BY RunHere DEF JInv, Standing, Steady

LEMMA LawsHere ==
  ASSUME IInv, JInv, NEW r \in Run
  PROVE  /\ Standing(r, run[r], conn) /\ Laws(conn.queue, r, run[r], conn.cursors)
         /\ conn \in ConnState /\ conn.queue \in Seq(Job) /\ NoRun \notin Run
BY EndlessAssumption DEF JInv, IInv, Types, ConnState

LEMMA PoppedQuiet ==
  ASSUME IInv, JInv, NEW r \in Run, NEW kind, NEW by \in {"consumer", "reset"}, Does(r, kind, by)
  PROVE  /\ Calm(r, Popped) /\ Popped \in ConnState /\ Popped.cursors = conn.cursors
         /\ Popped.txn = conn.txn /\ \A cursors : Laws(Popped.queue, r, run[r], cursors)
<1>1. conn.queue # <<>> /\ Own(conn.queue[1], r)
  BY DEF Does, Own
<1>2. Laws(Tail(conn.queue), r, run[r], {})
  BY <1>1, LawsHere, TailLaws
<1>3. \A cursors : Laws(Tail(conn.queue), r, run[r], cursors)
  BY <1>2, LawsGrow
<1>. QED
  BY <1>1, <1>3, CalmPopped, PoppedProperties

LEMMA StartQuiet == ASSUME IInv, JInv, NEW r \in Run, Start(r) PROVE Quiet
<1>. DEFINE new == [run[r] EXCEPT !.pc = "executing", !.status = "running"]
<1>1. run[r].pc = "new" /\ Becomes(r, new, Queue(conn, r, "execute", "consumer"))
  BY DEF Start
<1>2. run[r] \in RunState
  BY RunHere
<1>3. /\ new.pc = "executing" /\ new.why = run[r].why /\ new.cancel = run[r].cancel
      /\ new.expired = run[r].expired /\ new.canceller = run[r].canceller
  BY <1>2 DEF RunState
<1>. HIDE DEF new
<1>4. Laws(conn.queue, r, new, conn.cursors)
  BY <1>3, LawsHere, LawsGrow
<1>5. Standing(r, new, conn)
  BY <1>1, <1>3, LawsHere DEF Standing, Ending
<1>6. NewJob(r, "execute", "consumer") \in Job /\ Allowed(NewJob(r, "execute", "consumer"), new)
  BY DEF NewJob, Job, Allowed
<1>. QED
  BY <1>1, <1>4, <1>5, <1>6, LawsHere, CalmHere, CalmWaits

LEMMA ExecutedQuiet == ASSUME IInv, JInv, NEW r \in Run, Executed(r) PROVE Quiet
<1>. DEFINE new == [run[r] EXCEPT !.pc = "returned", !.status = "streaming", !.source = "fresh"]
            adapter == [Popped EXCEPT !.cursors = @ \cup {r}, !.flags[r] = "clear", !.txn = NextTxn(r)]
<1>1. Becomes(r, new, adapter) /\ Does(r, "execute", "consumer")
  BY DEF Executed
<1>2. Calm(r, Popped) /\ Popped \in ConnState /\ \A cursors : Laws(Popped.queue, r, run[r], cursors)
  BY <1>1, PoppedQuiet
<1>3. run[r] \in RunState /\ run[r].pc = "executing" /\ Standing(r, run[r], conn)
  BY <1>1, RunHere, AwaitedJob, LawsHere
<1>4. /\ new.pc = "returned" /\ new.why = run[r].why /\ new.cancel = run[r].cancel
      /\ new.expired = run[r].expired /\ new.canceller = run[r].canceller
  BY <1>3 DEF RunState
<1>5. /\ adapter.queue = Popped.queue /\ adapter.cursors = Popped.cursors \cup {r}
      /\ adapter.txn = NextTxn(r)
  BY <1>2 DEF ConnState
<1>. HIDE DEF new, adapter
<1>6. Laws(Popped.queue, r, new, adapter.cursors)
  BY <1>2, <1>4, LawsGrow
<1>7. Standing(r, new, adapter)
  BY <1>3, <1>4, <1>5 DEF Standing, Ending
<1>8. Careful(r, new, adapter)
  BY <1>2, <1>5, <1>6, <1>7 DEF Careful, Calm, NextTxn, Excused
<1>. QED
  BY <1>1, <1>8, CarefulStep

LEMMA ExecuteFailsQuiet == ASSUME IInv, JInv, NEW r \in Run, ExecuteFails(r) PROVE Quiet
<1>. DEFINE new == [run[r] EXCEPT !.pc = "ended", !.status = "failed", !.events = Append(@, "failed")]
            adapter == [Popped EXCEPT !.flags[r] = "clear"]
<1>1. Becomes(r, new, adapter) /\ Does(r, "execute", "consumer")
  BY DEF ExecuteFails
<1>2. Calm(r, Popped) /\ Popped \in ConnState /\ \A cursors : Laws(Popped.queue, r, run[r], cursors)
  BY <1>1, PoppedQuiet
<1>3. run[r] \in RunState /\ run[r].pc = "executing" /\ Standing(r, run[r], conn)
  BY <1>1, RunHere, AwaitedJob, LawsHere
<1>4. /\ new.pc = "ended" /\ new.why = run[r].why /\ new.cancel = run[r].cancel
      /\ new.expired = run[r].expired /\ new.canceller = run[r].canceller
  BY <1>3 DEF RunState
<1>5. /\ adapter.queue = Popped.queue /\ adapter.cursors = Popped.cursors /\ adapter.txn = Popped.txn
  BY <1>2 DEF ConnState
<1>. HIDE DEF new, adapter
<1>6. Laws(Popped.queue, r, new, adapter.cursors)
  BY <1>2, <1>4, LawsGrow
<1>7. Standing(r, new, adapter)
  BY <1>3, <1>4 DEF Standing, Ending
<1>. QED
  BY <1>1, <1>2, <1>5, <1>6, <1>7, CalmSame, CalmGoesOn

\* What nobody awaits opens a transaction only if it is an aborted execute().
LEMMA NobodyQuiet ==
  ASSUME IInv, JInv, NEW r \in Run,
         ExecutedForNobody(r) \/ FetchedForNobody(r) \/ ClosedForNobody(r)
  PROVE  Quiet
<1>1. PICK adapter \in {Popped, [Popped EXCEPT !.txn = NextTxn(r)]} : Becomes(r, run[r], adapter)
  BY DEF ExecutedForNobody, FetchedForNobody, ClosedForNobody
<1>2. conn.queue # <<>> /\ conn.queue[1].of = r /\ conn.queue[1].by = "nobody"
      /\ (adapter # Popped => conn.queue[1].kind = "execute")
  BY <1>1 DEF ExecutedForNobody, FetchedForNobody, ClosedForNobody, Does, Becomes
<1>3. Standing(r, run[r], conn) /\ Laws(conn.queue, r, run[r], conn.cursors) /\ conn.queue \in Seq(Job)
  BY LawsHere
<1>4. conn.queue[1].kind = "execute" => run[r].why = "aborted"
  BY <1>2, <1>3 DEF Laws, Lawful
<1>5. Popped \in ConnState /\ Popped.queue = Tail(conn.queue) /\ Popped.cursors = conn.cursors
      /\ Popped.txn = conn.txn
  BY <1>2, PoppedProperties
<1>6. Calm(r, Popped) /\ Laws(Popped.queue, r, run[r], conn.cursors)
  BY <1>2, <1>3, <1>5, CalmPopped, TailLaws
<1>7. /\ adapter.queue = Popped.queue /\ adapter.cursors = conn.cursors
      /\ adapter.txn = conn.txn \/ (adapter.txn \in {conn.txn, r} /\ run[r].why = "aborted")
  BY <1>1, <1>2, <1>4, <1>5 DEF NextTxn, ConnState
<1>8. Standing(r, run[r], adapter)
  BY <1>3, <1>7 DEF Standing
<1>9. Careful(r, run[r], adapter)
  BY <1>6, <1>7, <1>8 DEF Careful, Calm, Excused
<1>. QED
  BY <1>1, <1>9, CarefulStep

LEMMA FetchQuiet ==
  ASSUME IInv, JInv, NEW r \in Run, FetchRows(r) \/ FetchEmpty(r) \/ FetchFails(r)
  PROVE  Quiet
<1>1. Does(r, "fetch", "consumer")
  BY DEF FetchRows, FetchEmpty, FetchFails, Fetched
<1>2. /\ Calm(r, Popped) /\ Popped \in ConnState /\ Popped.cursors = conn.cursors
      /\ \A cursors : Laws(Popped.queue, r, run[r], cursors)
  BY <1>1, PoppedQuiet
<1>3. run[r] \in RunState /\ run[r].pc = "fetching" /\ Standing(r, run[r], conn) /\ Steady(run[r])
  BY <1>1, RunHere, AwaitedJob, LawsHere, SteadyHere DEF Ending
<1>4. ~run[r].cancel /\ ~run[r].expired => r \in Popped.cursors
  BY <1>2, <1>3 DEF Standing
<1>5. CASE Deliver(r, 1, run[r], Popped) \/ Unwind(r, "error", run[r], Popped)
  BY <1>2, <1>3, <1>4, <1>5, DeliverQuiet, UnwindQuiet
<1>6. CASE Deliver(r, 0, [run[r] EXCEPT !.status = "succeeded", !.source = "last"], Popped)
  <2>. DEFINE new == [run[r] EXCEPT !.status = "succeeded", !.source = "last"]
  <2>1. new \in RunState
    BY ZenonT(60), <1>3 DEF RunState
  <2>2. /\ new.why = run[r].why /\ new.cancel = run[r].cancel
        /\ new.expired = run[r].expired /\ new.canceller = run[r].canceller
    BY <1>3 DEF RunState
  <2>3. Deliver(r, 0, new, Popped)
    BY <1>6
  <2>. HIDE DEF new
  <2>4. Steady(new) /\ Laws(Popped.queue, r, new, Popped.cursors)
    BY <1>2, <1>3, <2>1, <2>2, LawsGrow DEF Steady
  <2>. QED
    BY <1>2, <1>4, <2>2, <2>3, <2>4, DeliverQuiet
<1>7. CASE Unwind(r, "cancelled", [run[r] EXCEPT !.status = "cancelled"], Popped)
  <2>. DEFINE new == [run[r] EXCEPT !.status = "cancelled"]
  <2>1. new \in RunState
    BY ZenonT(60), <1>3 DEF RunState
  <2>2. /\ new.why = run[r].why /\ new.cancel = run[r].cancel
        /\ new.expired = run[r].expired /\ new.canceller = run[r].canceller
    BY <1>3 DEF RunState
  <2>3. Unwind(r, "cancelled", new, Popped)
    BY <1>7
  <2>. HIDE DEF new
  <2>4. Steady(new) /\ Laws(Popped.queue, r, new, Popped.cursors)
    BY <1>2, <1>3, <2>1, <2>2, LawsGrow DEF Steady
  <2>. QED
    BY <1>2, <1>4, <2>2, <2>3, <2>4, UnwindQuiet
<1>. QED
  BY <1>5, <1>6, <1>7 DEF FetchRows, FetchEmpty, FetchFails

LEMMA ForgottenQuiet ==
  ASSUME NEW r \in Run, NEW adapter \in ConnState, Calm(r, adapter)
  PROVE  /\ Calm(r, Forgotten(adapter, r)) /\ Forgotten(adapter, r) \in ConnState
         /\ Forgotten(adapter, r).queue = adapter.queue
         /\ Forgotten(adapter, r).txn = adapter.txn
<1>1. /\ Forgotten(adapter, r) \in ConnState /\ Forgotten(adapter, r).queue = adapter.queue
      /\ Forgotten(adapter, r).txn = adapter.txn
      /\ Forgotten(adapter, r).cursors = adapter.cursors \ {r}
  BY DEF Forgotten, ConnState
<1>. QED
  BY <1>1, CalmSame

LEMMA UnwoundQuiet ==
  ASSUME IInv, JInv, NEW r \in Run, Unwound(r) \/ TimeoutReported(r)
  PROVE  Quiet
<1>1. Does(r, "close", "consumer") /\ run[r].pc \in {"unwinding", "cancelling"}
  BY DEF Unwound, TimeoutReported
<1>2. /\ Calm(r, Popped) /\ Popped \in ConnState /\ Ready(r, Popped)
      /\ \A cursors : Laws(Popped.queue, r, run[r], cursors)
  BY <1>1, PoppedQuiet, ReadyPopped
<1>3. run[r] \in RunState /\ Steady(run[r])
  BY <1>1, RunHere, SteadyHere DEF Ending
<1>4. CASE Unwound(r)
  <2>. DEFINE adapter == Forgotten(Popped, r)
  <2>1. Calm(r, adapter) /\ adapter \in ConnState /\ adapter.queue = Popped.queue /\ Ready(r, adapter)
    BY <1>2, ForgottenQuiet, ReadyForgotten
  <2>2. TimedOut(r, run[r], adapter) \/ EndWith(r, EventOf(run[r].why), run[r], adapter)
    BY <1>4 DEF Unwound
  <2>. HIDE DEF adapter
  <2>. QED
    BY <1>1, <1>2, <1>3, <2>1, <2>2, TimedOutQuiet, EndWithQuiet
<1>5. CASE TimeoutReported(r)
  <2>. DEFINE new == [run[r] EXCEPT !.status = "failed"]
              told == [Popped EXCEPT !.queue = Interrupted(@)]
  <2>1. EndWith(r, "failed", new, told)
    BY <1>5 DEF TimeoutReported
  <2>2. Calm(r, told) /\ told \in ConnState
    BY <1>1, <1>2, CalmInterrupted, ReadyInterrupted DEF Ready
  <2>3. told.queue = Interrupted(Popped.queue) /\ Popped.queue \in Seq(Job)
    BY <1>2 DEF ConnState
  <2>4. new \in RunState
    BY ZenonT(60), <1>3 DEF RunState
  <2>5. /\ new.why = run[r].why /\ new.cancel = run[r].cancel
        /\ new.expired = run[r].expired /\ new.canceller = run[r].canceller
    BY <1>3 DEF RunState
  <2>. HIDE DEF new, told
  <2>6. Laws(told.queue, r, run[r], {})
    BY <1>2, <2>3, InterruptedLaws
  <2>7. Laws(told.queue, r, new, told.cursors)
    BY <2>5, <2>6, LawsGrow
  <2>8. Steady(new)
    BY <1>3, <2>4, <2>5 DEF Steady
  <2>. QED
    BY <2>1, <2>2, <2>7, <2>8, EndWithQuiet
<1>. QED
  BY <1>4, <1>5

\* Once its event is out, a run only moves on.
LEMMA OverQuiet ==
  ASSUME IInv, JInv, NEW r \in Run, run[r].pc \in {"closing", "ended", "resetting", "rollback"},
         NEW pc \in Ending, NEW adapter,
         Laws(adapter.queue, r, run[r], adapter.cursors), pc = "released" => adapter.txn # r
  PROVE  /\ Standing(r, [run[r] EXCEPT !.pc = pc], adapter)
         /\ Laws(adapter.queue, r, [run[r] EXCEPT !.pc = pc], adapter.cursors)
<1>. DEFINE new == [run[r] EXCEPT !.pc = pc]
<1>1. run[r] \in RunState /\ Standing(r, run[r], conn)
  BY RunHere, LawsHere
<1>2. /\ new.pc = pc /\ new.why = run[r].why /\ new.cancel = run[r].cancel
      /\ new.expired = run[r].expired /\ new.canceller = run[r].canceller
  BY <1>1 DEF RunState
<1>. HIDE DEF new
<1>3. Laws(adapter.queue, r, new, adapter.cursors)
  BY <1>2, LawsGrow
<1>4. Standing(r, new, adapter)
  BY <1>1, <1>2 DEF Standing, Ending
<1>. QED
  BY <1>3, <1>4 DEF new

LEMMA ClosedQuiet == ASSUME IInv, JInv, NEW r \in Run, Closed(r) PROVE Quiet
<1>. DEFINE adapter == Forgotten(Popped, r)
<1>1. /\ Does(r, "close", "consumer") /\ run[r].pc = "closing"
      /\ Becomes(r, [run[r] EXCEPT !.pc = "ended"], adapter)
  BY DEF Closed
<1>2. /\ Calm(r, Popped) /\ Popped \in ConnState
      /\ \A cursors : Laws(Popped.queue, r, run[r], cursors)
  BY <1>1, PoppedQuiet
<1>3. Calm(r, adapter) /\ adapter.queue = Popped.queue
  BY <1>2, ForgottenQuiet
<1>. HIDE DEF adapter
<1>. QED
  BY <1>1, <1>2, <1>3, OverQuiet, CalmGoesOn DEF Ending

LEMMA RollBackOrReleaseQuiet ==
  ASSUME IInv, JInv, NEW r \in Run, run[r].pc \in {"ended", "resetting"},
         NEW adapter \in ConnState, Calm(r, adapter),
         Laws(adapter.queue, r, run[r], adapter.cursors), RollBackOrRelease(r, adapter)
  PROVE  Quiet
<1>1. CASE adapter.txn = NoRun /\ Becomes(r, [run[r] EXCEPT !.pc = "released"], adapter)
  <2>1. adapter.txn # r
    BY <1>1, LawsHere
  <2>. QED
    BY <1>1, <2>1, OverQuiet, CalmGoesOn DEF Ending
<1>2. CASE Becomes(r, [run[r] EXCEPT !.pc = "rollback"], Queue(adapter, r, "rollback", "reset"))
  <2>. DEFINE new == [run[r] EXCEPT !.pc = "rollback"]
  <2>1. Standing(r, new, adapter) /\ Laws(adapter.queue, r, new, adapter.cursors)
    BY OverQuiet DEF Ending
  <2>2. NewJob(r, "rollback", "reset") \in Job /\ Allowed(NewJob(r, "rollback", "reset"), new)
    BY DEF NewJob, Job, Allowed
  <2>. HIDE DEF new
  <2>. QED
    BY <1>2, <2>1, <2>2, CalmWaits DEF new
<1>. QED
  BY <1>1, <1>2 DEF RollBackOrRelease

LEMMA ResetQuiet == ASSUME IInv, JInv, NEW r \in Run, Reset(r) PROVE Quiet
<1>. DEFINE cleared == [conn EXCEPT !.flags = [s \in Run |-> "none"]]
            new == [run[r] EXCEPT !.pc = "resetting"]
<1>1. /\ run[r].pc = "ended"
      /\ \/ RollBackOrRelease(r, cleared)
         \/ Becomes(r, new, Queue(cleared, r, "close", "reset"))
  BY DEF Reset
<1>2. /\ cleared \in ConnState /\ cleared.queue = conn.queue /\ cleared.cursors = conn.cursors
      /\ cleared.txn = conn.txn
  BY LawsHere DEF ConnState
<1>. HIDE DEF cleared
<1>3. Calm(r, cleared) /\ Laws(cleared.queue, r, run[r], cleared.cursors)
  BY <1>2, LawsHere, CalmHere, CalmSame
<1>4. Standing(r, new, cleared) /\ Laws(cleared.queue, r, new, cleared.cursors)
  BY <1>1, <1>3, OverQuiet DEF Ending
<1>. HIDE DEF new
<1>5. NewJob(r, "close", "reset") \in Job /\ Allowed(NewJob(r, "close", "reset"), new)
  BY DEF NewJob, Job, Allowed
<1>. QED
  BY <1>1, <1>2, <1>3, <1>4, <1>5, RollBackOrReleaseQuiet, CalmWaits

LEMMA CursorsResetQuiet == ASSUME IInv, JInv, NEW r \in Run, CursorsReset(r) PROVE Quiet
<1>. DEFINE adapter == [Popped EXCEPT !.cursors = {}]
<1>1. Does(r, "close", "reset") /\ RollBackOrRelease(r, adapter)
  BY DEF CursorsReset
<1>2. /\ Calm(r, Popped) /\ Popped \in ConnState /\ Popped.cursors = conn.cursors
      /\ \A cursors : Laws(Popped.queue, r, run[r], cursors)
  BY <1>1, PoppedQuiet
<1>3. run[r].pc = "resetting"
  BY <1>1, AwaitedJob
<1>4. Popped.cursors \ {r} \subseteq {}
  BY <1>2, <1>3, OneLease DEF IInv, CursorsHeld, Types, ConnState
<1>5. /\ adapter \in ConnState /\ adapter.queue = Popped.queue /\ adapter.cursors = {}
      /\ adapter.txn = Popped.txn
  BY <1>2 DEF ConnState
<1>. HIDE DEF adapter
<1>6. Calm(r, adapter)
  BY <1>2, <1>4, <1>5, CalmSame
<1>. QED
  BY <1>1, <1>2, <1>3, <1>5, <1>6, RollBackOrReleaseQuiet

LEMMA RolledBackQuiet == ASSUME IInv, JInv, NEW r \in Run, RolledBack(r) PROVE Quiet
<1>. DEFINE adapter == [Popped EXCEPT !.txn = NoRun]
            new == [run[r] EXCEPT !.pc = "released"]
<1>1. Does(r, "rollback", "reset") /\ Becomes(r, new, adapter)
  BY DEF RolledBack
<1>2. /\ Calm(r, Popped) /\ Popped \in ConnState
      /\ \A cursors : Laws(Popped.queue, r, run[r], cursors)
  BY <1>1, PoppedQuiet
<1>3. run[r].pc = "rollback" /\ NoRun # r
  BY <1>1, AwaitedJob, LawsHere
<1>4. adapter.queue = Popped.queue /\ adapter.cursors = Popped.cursors /\ adapter.txn = NoRun
  BY <1>2 DEF ConnState
<1>. HIDE DEF adapter
<1>5. Standing(r, new, adapter) /\ Laws(adapter.queue, r, new, adapter.cursors)
  BY <1>2, <1>3, <1>4, OverQuiet DEF Ending
<1>. HIDE DEF new
<1>6. Careful(r, new, adapter)
  BY <1>2, <1>4, <1>5 DEF Careful, Calm, Excused
<1>. QED
  BY <1>1, <1>6, CarefulStep

\* An interrupt on account of r while its lease lasts hits r, or nobody's job.
LEMMA InterruptExcused ==
  ASSUME IInv, JInv, NEW r \in Run, run[r].pc \notin {"new", "released"},
         NEW query, query.cancel, NEW queue, queue = Interrupted(conn.queue),
         queue # <<>>, queue[1].hit
  PROVE  Excused(r, query, queue[1])
<1>1. conn.queue \in Seq(Job) /\ Len(queue) = Len(conn.queue) /\ queue \in Seq(Job)
  BY LawsHere, InterruptedJobs, InterruptedFades
<1>2. 1 \in 1..Len(conn.queue) /\ conn.queue # <<>>
  BY <1>1
<1>. DEFINE job == conn.queue[1]
<1>3. /\ job \in Job /\ queue[1].by = job.by /\ queue[1].of = job.of
      /\ job.hit \/ job.kind \in {"execute", "fetch"}
  BY <1>1, <1>2, InterruptedJobs
<1>4. CASE job.hit \/ job.of = r
  BY <1>2, <1>3, <1>4 DEF Excused
<1>5. CASE job.kind \in {"execute", "fetch"} /\ job.of # r
  <2>1. job.of \in Run
    BY <1>3 DEF Job
  <2>2. Lawful(conn.queue, 1, job.of, run[job.of], conn.cursors)
    BY <1>2, <2>1 DEF JInv, Laws
  <2>3. job.by = "consumer" => run[job.of].pc \in {"executing", "fetching"}
    BY <1>2, <1>5, <2>1 DEF IInv, Orders, Orderly, Own, Awaits
  <2>4. job.by # "consumer"
    BY <1>5, <2>1, <2>3, OneLease
  <2>. QED
    BY <1>3, <1>5, <2>2, <2>4 DEF Lawful, Excused
<1>. QED
  BY <1>3, <1>4, <1>5

LEMMA CursorClosedQuiet == ASSUME IInv, JInv, NEW r \in Run, CursorClosed(r) PROVE Quiet
<1>. DEFINE new == [run[r] EXCEPT !.canceller = "closed"]
<1>1. /\ conn.queue # <<>> /\ conn.queue[1].of = r /\ conn.queue[1].by = "canceller"
      /\ Becomes(r, new, Popped)
  BY DEF CursorClosed, Does
<1>2. /\ Standing(r, run[r], conn) /\ Laws(conn.queue, r, run[r], conn.cursors)
      /\ conn.queue \in Seq(Job) /\ run[r] \in RunState
  BY LawsHere, RunHere
<1>3. run[r].cancel
  BY <1>1, <1>2 DEF Laws, Lawful
<1>4. /\ new.pc = run[r].pc /\ new.why = run[r].why /\ new.cancel = run[r].cancel
      /\ new.expired = run[r].expired
  BY <1>2 DEF RunState
<1>. HIDE DEF new
<1>5. Popped.queue = Tail(conn.queue) /\ Popped.cursors = conn.cursors /\ Popped.txn = conn.txn
  BY <1>1, PoppedProperties
<1>6. Laws(Popped.queue, r, run[r], conn.cursors)
  BY <1>1, <1>2, <1>5, TailLaws
<1>7. Laws(Popped.queue, r, new, Popped.cursors)
  BY <1>4, <1>5, <1>6, LawsGrow
<1>8. Standing(r, new, Popped)
  BY <1>2, <1>3, <1>4, <1>5 DEF Standing
<1>. QED
  BY <1>1, <1>7, <1>8, CalmPopped, CalmGoesOn

LEMMA InterruptQuiet == ASSUME IInv, JInv, NEW r \in Run, Interrupt(r) PROVE Quiet
<1>. DEFINE new == [run[r] EXCEPT !.canceller = "idle"]
            adapter == [conn EXCEPT !.queue = Interrupted(@)]
<1>1. run[r].canceller = "closed" /\ Becomes(r, new, adapter)
  BY DEF Interrupt
<1>2. /\ Standing(r, run[r], conn) /\ Laws(conn.queue, r, run[r], conn.cursors)
      /\ conn.queue \in Seq(Job) /\ run[r] \in RunState /\ Stage(run[r], stmt[r])
  BY LawsHere, RunHere
<1>3. run[r].cancel /\ run[r].pc # "new"
  BY <1>1, <1>2 DEF Standing, Stage
<1>4. /\ new.pc = run[r].pc /\ new.why = run[r].why /\ new.cancel = run[r].cancel
      /\ new.expired = run[r].expired /\ new.canceller = "idle"
  BY <1>2 DEF RunState
<1>5. /\ adapter.queue = Interrupted(conn.queue) /\ adapter.cursors = conn.cursors
      /\ adapter.txn = conn.txn
  BY LawsHere DEF ConnState
<1>. HIDE DEF new, adapter
<1>6. Laws(adapter.queue, r, run[r], conn.cursors) /\ LeavesLaws(conn.queue, adapter.queue, r)
  BY <1>2, <1>5, InterruptedLaws, InterruptedLeavesLaws
<1>7. Laws(adapter.queue, r, new, adapter.cursors)
  BY <1>4, <1>5, <1>6, LawsGrow
<1>8. Standing(r, new, adapter)
  BY <1>2, <1>4, <1>5 DEF Standing
<1>9. ASSUME adapter.queue # <<>>, adapter.queue[1].hit PROVE Excused(r, new, adapter.queue[1])
  <2>1. CASE run[r].pc = "released"
    BY <1>1, <2>1 DEF Excused
  <2>2. CASE run[r].pc # "released"
    BY <1>3, <1>4, <1>5, <1>9, <2>2, InterruptExcused
  <2>. QED
    BY <2>1, <2>2
<1>10. Careful(r, new, adapter)
  BY <1>5, <1>6, <1>7, <1>8, <1>9 DEF Careful
<1>. QED
  BY <1>1, <1>10, CarefulStep

LEMMA CancelQuiet == ASSUME IInv, JInv, NEW r \in Run, Cancel(r) PROVE Quiet
<1>. DEFINE asked == [run[r] EXCEPT !.cancel = TRUE, !.status = "cancelled"]
            new == [asked EXCEPT !.canceller = "closing"]
            told == [conn EXCEPT !.flags[r] = "set"]
            rest == [told EXCEPT !.cursors = @ \ {r}]
            adapter == [told EXCEPT !.queue = Interrupted(@)]
<1>1. /\ Standing(r, run[r], conn) /\ Laws(conn.queue, r, run[r], conn.cursors)
      /\ conn.queue \in Seq(Job) /\ conn \in ConnState
      /\ run[r] \in RunState /\ Stage(run[r], stmt[r])
  BY LawsHere, RunHere
<1>2. run[r].source # "none" /\ run[r].canceller = "idle" /\ run[r].pc \notin {"new", "released"}
  BY <1>1 DEF Cancel, Cancellable, Stage
<1>3. /\ asked.pc = run[r].pc /\ asked.why = run[r].why /\ asked.cancel
      /\ asked.expired = run[r].expired /\ asked.canceller = "idle"
      /\ new.pc = run[r].pc /\ new.why = run[r].why /\ new.cancel
      /\ new.expired = run[r].expired
  BY <1>1, <1>2 DEF RunState
<1>4. /\ rest \in ConnState /\ rest.queue = conn.queue /\ rest.cursors = conn.cursors \ {r}
      /\ rest.txn = conn.txn
      /\ adapter.queue = Interrupted(conn.queue) /\ adapter.cursors = conn.cursors
      /\ adapter.txn = conn.txn
  BY <1>1 DEF ConnState
<1>5. \/ Becomes(r, new, Queue(rest, r, "close", "canceller"))
      \/ Becomes(r, asked, adapter)
  BY DEF Cancel
<1>. HIDE DEF asked, new, rest, adapter
<1>6. CASE Becomes(r, new, Queue(rest, r, "close", "canceller"))
  <2>1. Calm(r, rest)
    BY <1>4, CalmHere, CalmSame
  <2>2. Laws(rest.queue, r, new, rest.cursors)
    BY <1>1, <1>3, <1>4, LawsGrow
  <2>3. Standing(r, new, rest)
    BY <1>1, <1>3, <1>4 DEF Standing
  <2>4. NewJob(r, "close", "canceller") \in Job /\ Allowed(NewJob(r, "close", "canceller"), new)
    BY <1>3 DEF NewJob, Job, Allowed
  <2>. QED
    BY <1>4, <1>6, <2>1, <2>2, <2>3, <2>4, CalmWaits
<1>7. CASE Becomes(r, asked, adapter)
  <2>1. Laws(adapter.queue, r, run[r], conn.cursors) /\ LeavesLaws(conn.queue, adapter.queue, r)
    BY <1>1, <1>4, InterruptedLaws, InterruptedLeavesLaws
  <2>2. Laws(adapter.queue, r, asked, adapter.cursors)
    BY <1>3, <2>1, LawsGrow
  <2>3. Standing(r, asked, adapter)
    BY <1>1, <1>3, <1>4 DEF Standing
  <2>4. ASSUME adapter.queue # <<>>, adapter.queue[1].hit PROVE Excused(r, asked, adapter.queue[1])
    BY <1>2, <1>3, <1>4, <2>4, InterruptExcused
  <2>5. Careful(r, asked, adapter)
    BY <1>4, <2>1, <2>2, <2>3, <2>4 DEF Careful
  <2>. QED
    BY <1>7, <2>5, CarefulStep
<1>. QED
  BY <1>5, <1>6, <1>7

LEMMA PullQuiet == ASSUME IInv, JInv, NEW r \in Run, Pull(r) \/ PullTooLate(r) PROVE Quiet
<1>1. run[r].pc \in {"returned", "holding"} /\ run[r].pc \notin Ending
  BY DEF Pull, PullTooLate, Asks, Ending
<1>2. /\ Standing(r, run[r], conn) /\ Laws(conn.queue, r, run[r], conn.cursors)
      /\ conn \in ConnState /\ Calm(r, conn) /\ run[r] \in RunState /\ Steady(run[r])
  BY <1>1, LawsHere, CalmHere, RunHere, SteadyHere
<1>3. ~run[r].cancel /\ ~run[r].expired => r \in conn.cursors
  BY <1>1, <1>2 DEF Standing
<1>. DEFINE last == [run[r] EXCEPT !.status = "succeeded", !.source = "last"]
            cancelled == [run[r] EXCEPT !.status = "cancelled"]
            fetching == [run[r] EXCEPT !.pc = "fetching", !.source = "suspended"]
<1>4. \/ run[r].expired /\ TimedOut(r, run[r], conn)
      \/ Unwind(r, "done", run[r], conn)
      \/ Deliver(r, 0, last, conn)
      \/ Unwind(r, "cancelled", cancelled, conn)
      \/ Becomes(r, fetching, Queue(conn, r, "fetch", "consumer"))
  BY DEF Pull, PullTooLate
<1>5. last \in RunState /\ cancelled \in RunState
  BY ZenonT(60), <1>2 DEF RunState
<1>6. /\ last.why = run[r].why /\ last.cancel = run[r].cancel
      /\ last.expired = run[r].expired /\ last.canceller = run[r].canceller
  BY <1>2 DEF RunState
<1>7. /\ cancelled.why = run[r].why /\ cancelled.cancel = run[r].cancel
      /\ cancelled.expired = run[r].expired /\ cancelled.canceller = run[r].canceller
  BY <1>2 DEF RunState
<1>8. /\ fetching.why = run[r].why /\ fetching.cancel = run[r].cancel /\ fetching.pc = "fetching"
      /\ fetching.expired = run[r].expired /\ fetching.canceller = run[r].canceller
  BY <1>2 DEF RunState
<1>. HIDE DEF last, cancelled, fetching
<1>9. CASE run[r].expired /\ TimedOut(r, run[r], conn)
  <2>1. Laws(conn.queue, r, run[r], {})
    BY <1>2, <1>9, LawsGrow
  <2>. QED
    BY <1>1, <1>2, <1>9, <2>1, ReadyHere, TimedOutQuiet
<1>10. CASE Unwind(r, "done", run[r], conn)
  BY <1>2, <1>3, <1>10, UnwindQuiet
<1>11. CASE Deliver(r, 0, last, conn)
  <2>1. Steady(last) /\ Laws(conn.queue, r, last, conn.cursors)
    BY <1>2, <1>5, <1>6, LawsGrow DEF Steady
  <2>. QED
    BY <1>2, <1>3, <1>6, <1>11, <2>1, DeliverQuiet
<1>12. CASE Unwind(r, "cancelled", cancelled, conn)
  <2>1. Steady(cancelled) /\ Laws(conn.queue, r, cancelled, conn.cursors)
    BY <1>2, <1>5, <1>7, LawsGrow DEF Steady
  <2>. QED
    BY <1>2, <1>3, <1>7, <1>12, <2>1, UnwindQuiet
<1>13. CASE Becomes(r, fetching, Queue(conn, r, "fetch", "consumer"))
  <2>1. Laws(conn.queue, r, fetching, conn.cursors)
    BY <1>2, <1>8, LawsGrow
  <2>2. Standing(r, fetching, conn)
    BY <1>2, <1>3, <1>8 DEF Standing, Steady
  <2>3. NewJob(r, "fetch", "consumer") \in Job /\ Allowed(NewJob(r, "fetch", "consumer"), fetching)
    BY DEF NewJob, Job, Allowed
  <2>. QED
    BY <1>2, <1>13, <2>1, <2>2, <2>3, CalmWaits
<1>. QED
  BY <1>4, <1>9, <1>10, <1>11, <1>12, <1>13

LEMMA AbandonQuiet == ASSUME IInv, JInv, NEW r \in Run, Abandon(r) PROVE Quiet
<1>1. run[r].pc \in {"returned", "holding"} /\ run[r].pc \notin Ending
  BY DEF Abandon, Ending
<1>2. /\ Standing(r, run[r], conn) /\ Laws(conn.queue, r, run[r], conn.cursors)
      /\ conn \in ConnState /\ Calm(r, conn) /\ run[r] \in RunState /\ Steady(run[r])
  BY <1>1, LawsHere, CalmHere, RunHere, SteadyHere
<1>. DEFINE told == [run[r] EXCEPT !.status = IF Finished(@) THEN @ ELSE "cancelled"]
            ended == [run[r] EXCEPT !.pc = "ended"]
<1>3. EndWith(r, "cancelled", told, conn) \/ Becomes(r, ended, conn)
  BY DEF Abandon
<1>4. told \in RunState
  BY ZenonT(60), <1>2 DEF RunState
<1>5. /\ told.why = run[r].why /\ told.cancel = run[r].cancel
      /\ told.expired = run[r].expired /\ told.canceller = run[r].canceller
  BY <1>2 DEF RunState
<1>6. /\ ended.why = run[r].why /\ ended.cancel = run[r].cancel /\ ended.pc = "ended"
      /\ ended.expired = run[r].expired /\ ended.canceller = run[r].canceller
  BY <1>2 DEF RunState
<1>. HIDE DEF told, ended
<1>7. Laws(conn.queue, r, told, conn.cursors) /\ Laws(conn.queue, r, ended, conn.cursors)
  BY <1>2, <1>5, <1>6, LawsGrow
<1>8. Steady(told) /\ Standing(r, ended, conn)
  BY <1>2, <1>4, <1>5, <1>6 DEF Steady, Standing
<1>. QED
  BY <1>2, <1>3, <1>7, <1>8, EndWithQuiet, CalmGoesOn

LEMMA ExpireQuiet == ASSUME IInv, JInv, NEW r \in Run, Expire(r) PROVE Quiet
<1>. DEFINE late == [run[r] EXCEPT !.expired = TRUE]
<1>1. /\ run[r].pc \in {"executing", "returned", "fetching", "holding", "unwinding"}
      /\ \/ Becomes(r, late, conn)
         \/ run[r].pc = "fetching" /\ Unwind(r, "timeout", late, Deserted(r))
         \/ run[r].pc = "unwinding" /\ TimedOut(r, late, Deserted(r))
         \/ run[r].pc = "unwinding" /\ EndWith(r, "cancelled", late, Deserted(r))
  BY DEF Expire
<1>2. /\ Standing(r, run[r], conn) /\ Laws(conn.queue, r, run[r], conn.cursors)
      /\ conn \in ConnState /\ Calm(r, conn) /\ run[r] \in RunState /\ Steady(run[r])
  BY <1>1, LawsHere, CalmHere, RunHere, SteadyHere DEF Ending
<1>3. late \in RunState
  BY ZenonT(60), <1>2 DEF RunState
<1>4. /\ late.pc = run[r].pc /\ late.why = run[r].why /\ late.cancel = run[r].cancel
      /\ late.expired /\ late.canceller = run[r].canceller
  BY <1>2 DEF RunState
<1>. HIDE DEF late
<1>5. Steady(late)
  BY <1>2, <1>3, <1>4 DEF Steady
<1>6. CASE Becomes(r, late, conn)
  <2>1. Laws(conn.queue, r, late, conn.cursors)
    BY <1>2, <1>4, LawsGrow
  <2>2. Standing(r, late, conn)
    BY <1>2, <1>4 DEF Standing
  <2>. QED
    BY <1>2, <1>6, <2>1, <2>2, CalmGoesOn
<1>7. CASE run[r].pc \in {"fetching", "unwinding"}
  <2>1. Calm(r, Deserted(r)) /\ Ready(r, Deserted(r)) /\ Deserted(r) \in ConnState
    BY <1>7, CalmDeserted, ReadyDeserted DEF Ready
  <2>2. Laws(Deserted(r).queue, r, late, conn.cursors)
    BY <1>4, <1>7, DesertedLaws
  <2>3. Laws(Deserted(r).queue, r, late, {}) /\ Laws(Deserted(r).queue, r, late, Deserted(r).cursors)
    BY <1>4, <2>2, LawsGrow
  <2>4. CASE Unwind(r, "timeout", late, Deserted(r))
    BY <1>4, <1>5, <2>1, <2>3, <2>4, UnwindQuiet
  <2>5. CASE TimedOut(r, late, Deserted(r))
    BY <1>5, <1>7, <2>1, <2>3, <2>5, TimedOutQuiet
  <2>6. CASE EndWith(r, "cancelled", late, Deserted(r))
    BY <1>5, <2>1, <2>3, <2>6, EndWithQuiet
  <2>. QED
    BY <1>1, <1>6, <2>4, <2>5, <2>6
<1>. QED
  BY <1>1, <1>6, <1>7

LEMMA CancelTaskQuiet == ASSUME IInv, JInv, NEW r \in Run, CancelTask(r) PROVE Quiet
<1>1. run[r].pc \in {"executing", "fetching", "unwinding", "cancelling", "closing"}
  BY DEF CancelTask, CancelExecuting, CancelFetching, CancelUnwinding, CancelCancelling, CancelClosing
<1>2. /\ Standing(r, run[r], conn) /\ conn \in ConnState
      /\ run[r] \in RunState /\ Steady(run[r])
  BY <1>1, LawsHere, RunHere, SteadyHere DEF Ending
<1>3. /\ Calm(r, Deserted(r)) /\ Deserted(r) \in ConnState
      /\ Deserted(r).cursors = conn.cursors /\ Deserted(r).txn = conn.txn
  BY <1>1, CalmDeserted, DesertedFades DEF IInv, Types, Orders
<1>4. CASE CancelExecuting(r)
  <2>. DEFINE new == [run[r] EXCEPT !.pc = "ended", !.why = "aborted"]
  <2>1. Becomes(r, new, Deserted(r))
    BY <1>4 DEF CancelExecuting
  <2>2. /\ new.pc = "ended" /\ new.why = "aborted" /\ new.cancel = run[r].cancel
        /\ new.expired = run[r].expired /\ new.canceller = run[r].canceller
    BY <1>2 DEF RunState
  <2>. HIDE DEF new
  <2>3. Laws(Deserted(r).queue, r, new, Deserted(r).cursors)
    BY <1>1, <1>3, <2>2, DesertedLaws
  <2>4. Standing(r, new, Deserted(r))
    BY <1>2, <2>2 DEF Standing, Ending
  <2>. QED
    BY <1>3, <2>1, <2>3, <2>4, CalmGoesOn
<1>5. CASE run[r].pc # "executing"
  <2>1. Laws(Deserted(r).queue, r, run[r], Deserted(r).cursors)
    BY <1>1, <1>3, <1>5, DesertedLaws
  <2>2. CASE CancelFetching(r)
    <3>1. ~run[r].cancel /\ ~run[r].expired => r \in Deserted(r).cursors
      BY <1>2, <1>3, <2>2 DEF CancelFetching, Standing
    <3>. QED
      BY <1>2, <1>3, <2>1, <2>2, <3>1, UnwindQuiet DEF CancelFetching
  <2>3. CASE CancelUnwinding(r) \/ CancelCancelling(r)
    BY <1>2, <1>3, <2>1, <2>3, EndWithQuiet DEF CancelUnwinding, CancelCancelling
  <2>4. CASE CancelClosing(r)
    <3>1. run[r].pc = "closing" /\ Becomes(r, [run[r] EXCEPT !.pc = "ended"], Deserted(r))
      BY <2>4 DEF CancelClosing
    <3>. QED
      BY <1>3, <2>1, <3>1, OverQuiet, CalmGoesOn DEF Ending
  <2>. QED
    BY <1>5, <2>2, <2>3, <2>4 DEF CancelTask, CancelExecuting
<1>6. CancelExecuting(r) \/ run[r].pc # "executing"
  BY DEF CancelTask, CancelFetching, CancelUnwinding, CancelCancelling, CancelClosing
<1>. QED
  BY <1>4, <1>5, <1>6

LEMMA StepQuiet == IInv /\ JInv /\ Next => Quiet
<1>. SUFFICES ASSUME IInv, JInv, Next PROVE Quiet
  OBVIOUS
<1>1. PICK r \in Run : Start(r) \/ Worker(r) \/ Consumer(r) \/ Interrupt(r)
                       \/ Cancel(r) \/ CancelTask(r) \/ Expire(r)
  BY DEF Next
<1>2. CASE Worker(r)
  BY <1>2, ExecutedQuiet, ExecuteFailsQuiet, NobodyQuiet, FetchQuiet, UnwoundQuiet, ClosedQuiet,
     CursorClosedQuiet, CursorsResetQuiet, RolledBackQuiet DEF Worker
<1>3. CASE Consumer(r)
  BY <1>3, PullQuiet, AbandonQuiet, ResetQuiet DEF Consumer
<1>. QED
  BY <1>1, <1>2, <1>3, StartQuiet, InterruptQuiet, CancelQuiet, CancelTaskQuiet, ExpireQuiet

\* Every reachable state is one in which a lease left at most what the laws allow.
THEOREM Leftovers == Spec => []JInv
<1>1. Init => JInv
  <2>. SUFFICES ASSUME Init, NEW r \in Run
                PROVE  Standing(r, run[r], conn) /\ Laws(conn.queue, r, run[r], conn.cursors)
    BY DEF JInv
  <2>1. run[r].why = "none" /\ run[r].canceller = "idle" /\ run[r].pc = "new"
    BY DEF Init
  <2>2. conn.queue = <<>> /\ conn.txn = NoRun
    BY DEF Init
  <2>. QED
    BY <2>1, <2>2, EndlessAssumption DEF Standing, Laws
<1>2. IInv /\ JInv /\ [Next]_vars => JInv'
  <2>1. CASE Next
    BY <2>1, StepQuiet DEF Quiet
  <2>2. CASE UNCHANGED vars
    BY <2>2 DEF vars, JInv
  <2>. QED
    BY <2>1, <2>2
<1>. QED
  BY Invariant, <1>1, <1>2, PTL DEF Spec

\* A statement that begins finds its own transaction, none, or that of a task that
\* was cancelled inside execute(): reset() has rolled back every other one.
THEOREM TransactionsOwn == Spec => OwnTransaction
<1>1. IInv /\ JInv => \A r \in Run : Executed(r) => conn.txn \in {NoRun, r} \/ run[conn.txn].why = "aborted"
  <2>. SUFFICES ASSUME IInv, JInv, NEW r \in Run, Executed(r), conn.txn \notin {NoRun, r}
                PROVE  run[conn.txn].why = "aborted"
    OBVIOUS
  <2>1. conn.txn \in Run /\ conn.txn # r
    BY DEF IInv, Types, ConnState
  <2>2. run[r].pc = "executing"
    BY AwaitedJob DEF Executed
  <2>3. run[conn.txn].pc \in {"new", "released"}
    BY <2>1, <2>2, OneLease
  <2>. QED
    BY <2>1, <2>3 DEF JInv, Standing
<1>. QED
  BY Invariant, Leftovers, <1>1, PTL DEF Spec, OwnTransaction

\* What the next lease finds in the queue of the thread is at most what the second
\* invariant allows of runs whose leases are over.
THEOREM HandoverQuiet == Spec => QuietHandover
<1>1. IInv /\ JInv => \A r \in Run : Start(r) => \A i \in 1..Len(conn.queue) :
        LET left == conn.queue[i] IN
        \/ left.kind = "close"
        \/ left.kind = "execute" /\ run[left.of].why = "aborted"
        \/ left.kind = "fetch" /\ (run[left.of].cancel \/ run[left.of].expired)
  <2>. SUFFICES ASSUME IInv, JInv, NEW r \in Run, Start(r), NEW i \in 1..Len(conn.queue)
                PROVE  \/ conn.queue[i].kind = "close"
                       \/ conn.queue[i].kind = "execute" /\ run[conn.queue[i].of].why = "aborted"
                       \/ /\ conn.queue[i].kind = "fetch"
                          /\ run[conn.queue[i].of].cancel \/ run[conn.queue[i].of].expired
    OBVIOUS
  <2>. DEFINE left == conn.queue[i]
              s == left.of
  <2>1. left \in Job /\ s \in Run
    <3>1. conn.queue \in Seq(Job)
      BY LawsHere
    <3>2. left \in Job
      BY <3>1
    <3>. QED
      BY <3>2 DEF Job
  <2>2. run[s].pc \in {"new", "released"}
    <3>1. r \in Nat /\ s \in Nat
      BY <2>1, RunAssumption
    <3>2. run[r].pc = "new" /\ \A u \in Run : u < r => run[u].pc = "released"
      BY DEF Start
    <3>3. r < s => run[s].pc = "new"
      BY <2>1, <3>2 DEF IInv, Serial
    <3>. QED
      BY <2>1, <3>1, <3>2, <3>3
  <2>3. Lawful(conn.queue, i, s, run[s], conn.cursors)
    BY <2>1 DEF JInv, Laws
  <2>4. ~Own(left, s)
    BY <2>1, <2>2 DEF IInv, Orders, Orderly, Awaits
  <2>5. s \notin conn.cursors
    BY <2>2 DEF IInv, CursorsHeld
  <2>6. left.kind \in {"execute", "fetch", "close", "rollback"}
    BY <2>1 DEF Job
  <2>. HIDE DEF left
  <2>. QED
    BY <2>3, <2>4, <2>5, <2>6 DEF Lawful, Own, left
<1>. QED
  BY Invariant, Leftovers, <1>1, PTL DEF Spec, QuietHandover

\* interrupt() reaches the statement of its own run, or one nobody awaits, unless
\* the lease of its run was over by then.
THEOREM InterruptsReachOwn == Spec => InterruptsOwn
<1>1. IInv /\ JInv /\ [Next]_vars => [HitsOwn]_vars
  BY StepQuiet DEF Quiet
<1>. QED
  BY Invariant, Leftovers, <1>1, PTL DEF Spec, InterruptsOwn, HitsOwn

=============================================================================
