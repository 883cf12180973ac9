--------------------------- MODULE ConnectionPool ---------------------------
(***************************************************************************)
(* registro_engine/pool.py: a bounded asyncio pool of connected adapters.  *)
(*                                                                         *)
(* A Request is one task that runs "async with pool.acquire()" once.  An   *)
(* action is the code one task runs between two suspensions.  The adapter  *)
(* a request's connection task builds has the request's name; Preloaded is *)
(* the adapter handed over before the pool is shared.                      *)
(*                                                                         *)
(* The semaphore, the queue, the lock and shield() belong to asyncio.  A   *)
(* permit handed to a waiter that has not resumed yet is still counted in  *)
(* permits, and the waiter stays at the head of semQ: nobody can overtake  *)
(* it, and if it is cancelled the permit goes to the next in line.  The    *)
(* LIFO order of idle adapters and the order of lock waiters are left out. *)
(***************************************************************************)
EXTENDS Naturals, Sequences, FiniteSets

CONSTANTS Request,    \* the tasks that acquire a connection, once each
          Size,       \* pool size: the number of permits
          Preloaded,  \* the adapter adopted by preload()
          Fragile,    \* the adapters whose driver may raise from close()
          NoAdapter   \* a request that holds no adapter

ASSUME SizeAssumption == Size \in Nat \ {0}
ASSUME RequestAssumption == IsFiniteSet(Request)
ASSUME PreloadedAssumption == Preloaded \notin Request
ASSUME NoAdapterAssumption == NoAdapter \notin Request \cup {Preloaded}

Adapter == Request \cup {Preloaded}

VARIABLES
  pool,  \* the pool object: _sem (free permits, queue), _idle, _all,
         \* _connection_tasks, the adapters that are connected, and those of
         \* them whose close() did not come through
  req,   \* per request: where its task is, its connection task, the adapter it
         \* answers for, its background half (_cleanup, _do_release) and the
         \* task that awaits that half
  shut   \* close(): how far it has come, its snapshots of _all and of
         \* _cleanup_tasks, the adapters it never came to because it was
         \* cancelled, and whether it gave up on a cleanup task
vars == <<pool, req, shut>>

Terminal == {"done", "refused", "failed", "cancelled"}

PoolState == [permits : Nat, semQ : Seq(Request), idle : SUBSET Adapter, all : SUBSET Adapter,
              connTasks : SUBSET Request, live : SUBSET Adapter,
              broken : SUBSET Adapter]
RequestState ==
  [pc : {"new", "semWait", "lockWait", "connecting", "waiting", "unwaiting", "served",
         "using", "releasing"} \cup Terminal,
   conn : {"none", "running", "cancelling", "ok", "failed", "cancelled"},
   lease : Adapter \cup {NoAdapter},
   job : {"none", "cleanup", "reset", "closing", "done"},
   outer : {"none", "client", "cleanup", "release", "cancelled"}]
CloseState == [at : {"open", "closing", "waiting", "done"}, toClose : SUBSET Adapter,
               pending : SUBSET Request, skipped : SUBSET Adapter, timedOut : BOOLEAN]

TypeOK == pool \in PoolState /\ req \in [Request -> RequestState] /\ shut \in CloseState

\* _lock is held across a suspension only while a release closes its adapter,
\* so it is contended only once close() has run.
closed == shut.at # "open"
LockFree == \A r \in Request : req[r].job # "closing"

Init ==
  /\ \E preloaded \in SUBSET {Preloaded} :
       pool = [permits |-> Size, semQ |-> <<>>, idle |-> preloaded, all |-> preloaded,
               connTasks |-> {}, live |-> preloaded, broken |-> {}]
  /\ req = [r \in Request |-> [pc |-> "new", conn |-> "none", lease |-> NoAdapter,
                               job |-> "none", outer |-> "none"]]
  /\ shut = [at |-> "open", toClose |-> {}, pending |-> {}, skipped |-> {},
             timedOut |-> FALSE]

-----------------------------------------------------------------------------
(* _acquire *)

\* With the lock: build an adapter, or wait for somebody else's.
Decide(r, queue) ==
  IF Cardinality(pool.all) + Cardinality(pool.connTasks) < Size
  THEN /\ req' = [req EXCEPT ![r].pc = "connecting", ![r].conn = "running"]
       /\ pool' = [pool EXCEPT !.permits = @ - 1, !.semQ = queue, !.connTasks = @ \cup {r}]
  ELSE /\ req' = [req EXCEPT ![r].pc = "waiting"]
       /\ pool' = [pool EXCEPT !.permits = @ - 1, !.semQ = queue]

\* A permit is there: everything up to the next suspension.
WithPermit(r, queue) ==
  \/ \E a \in pool.idle :
       /\ req' = [req EXCEPT ![r].pc = "using", ![r].lease = a]
       /\ pool' = [pool EXCEPT !.permits = @ - 1, !.semQ = queue, !.idle = @ \ {a}]
  \/ pool.idle = {} /\ LockFree /\ ~closed /\ Decide(r, queue)
  \/ /\ pool.idle = {} /\ LockFree /\ closed
     /\ req' = [req EXCEPT ![r].pc = "refused"]
     /\ pool' = [pool EXCEPT !.semQ = queue]
  \/ /\ pool.idle = {} /\ ~LockFree
     /\ req' = [req EXCEPT ![r].pc = "lockWait"]
     /\ pool' = [pool EXCEPT !.permits = @ - 1, !.semQ = queue]

Refuse(r) ==
  /\ req[r].pc = "new" /\ closed
  /\ req' = [req EXCEPT ![r].pc = "refused"]
  /\ UNCHANGED <<pool, shut>>

\* Mutant: a newcomer does not look at the free permits.
AcquirePermitUnchecked(r) ==
  /\ req[r].pc = "new" /\ ~closed /\ pool.semQ = <<>>
  /\ WithPermit(r, <<>>)
  /\ UNCHANGED shut

AcquirePermit(r) ==
  /\ req[r].pc = "new" /\ ~closed
  /\ pool.permits > 0 /\ pool.semQ = <<>>
  /\ WithPermit(r, <<>>)
  /\ UNCHANGED shut

QueueForPermit(r) ==
  /\ req[r].pc = "new" /\ ~closed
  /\ pool.permits = 0 \/ pool.semQ # <<>>
  /\ req' = [req EXCEPT ![r].pc = "semWait"]
  /\ pool' = [pool EXCEPT !.semQ = Append(@, r)]
  /\ UNCHANGED shut

ResumeWithPermit(r) ==
  /\ req[r].pc = "semWait"
  /\ pool.permits > 0 /\ pool.semQ # <<>> /\ Head(pool.semQ) = r
  /\ WithPermit(r, Tail(pool.semQ))
  /\ UNCHANGED shut

\* _acquire's outer except: the permit goes back and the request ends.
GiveUp(r, end) ==
  /\ req' = [req EXCEPT ![r].pc = end]
  /\ pool' = [pool EXCEPT !.permits = @ + 1]
  /\ UNCHANGED shut

\* The lock was contended, so the pool is closed.
ResumeWithLock(r) == req[r].pc = "lockWait" /\ LockFree /\ GiveUp(r, "refused")

(* _make: the connection task, shielded from the request that started it *)

Connected(r) ==
  /\ req[r].conn = "running"
  /\ req' = [req EXCEPT ![r].conn = "ok"]
  /\ pool' = [pool EXCEPT !.live = @ \cup {r}]
  /\ UNCHANGED shut

ConnectFails(r) ==
  /\ req[r].conn \in {"running", "cancelling"}
  /\ req' = [req EXCEPT ![r].conn = "failed"]
  /\ UNCHANGED <<pool, shut>>

ConnectCancelled(r) ==
  /\ req[r].conn = "cancelling"
  /\ req' = [req EXCEPT ![r].conn = "cancelled"]
  /\ UNCHANGED <<pool, shut>>

\* add_done_callback(discard): after the task ended, before its request resumes.
ForgetConnTask(r) ==
  /\ r \in pool.connTasks /\ req[r].conn # "running"
  /\ pool' = [pool EXCEPT !.connTasks = @ \ {r}]
  /\ UNCHANGED <<req, shut>>

(* _acquire, once its connection task has ended *)

AfterConnect(r, outcome) ==
  req[r].pc = "connecting" /\ req[r].conn = outcome /\ r \notin pool.connTasks

Register(r) ==
  /\ AfterConnect(r, "ok") /\ LockFree
  /\ req' = [req EXCEPT ![r].pc = "using", ![r].lease = r]
  /\ pool' = [pool EXCEPT !.all = @ \cup {r}]
  /\ UNCHANGED shut

SeeConnectFailed(r) == AfterConnect(r, "failed") /\ GiveUp(r, "failed")

\* The except branch that leaves the permit to a _cleanup task.
StartCleanup(r) ==
  /\ req' = [req EXCEPT ![r].pc = "cancelled", ![r].job = "cleanup", ![r].outer = "cleanup"]
  /\ UNCHANGED <<pool, shut>>

\* close() cancelled the connection task: the request sees a cancellation too.
SeeConnectCancelled(r) == AfterConnect(r, "cancelled") /\ StartCleanup(r)

(* _acquire, waiting on the queue *)

\* The getter task takes an adapter; its request has not resumed yet.
GetterServed(r) ==
  /\ req[r].pc = "waiting"
  /\ \E a \in pool.idle :
       /\ req' = [req EXCEPT ![r].pc = "served", ![r].lease = a]
       /\ pool' = [pool EXCEPT !.idle = @ \ {a}]
  /\ UNCHANGED shut

TakeServed(r) ==
  /\ req[r].pc = "served"
  /\ req' = [req EXCEPT ![r].pc = "using"]
  /\ UNCHANGED <<pool, shut>>

SeeGetterCancelled(r) == req[r].pc = "unwaiting" /\ GiveUp(r, "cancelled")

-----------------------------------------------------------------------------
(* Cancellation of a request's task, at each of its suspensions *)

CancelInQueue(r) ==
  /\ req[r].pc = "semWait"
  /\ \E i \in 1..Len(pool.semQ) :
       /\ pool.semQ[i] = r
       /\ pool' = [pool EXCEPT !.semQ = SubSeq(@, 1, i - 1) \o SubSeq(@, i + 1, Len(@))]
  /\ req' = [req EXCEPT ![r].pc = "cancelled"]
  /\ UNCHANGED shut

CancelLockWait(r) == req[r].pc = "lockWait" /\ GiveUp(r, "cancelled")

\* Mutant: the permit is given back although a cleanup task answers for it.
CancelConnectingReleases(r) ==
  /\ req[r].pc = "connecting"
  /\ req' = [req EXCEPT ![r].pc = "cancelled", ![r].job = "cleanup", ![r].outer = "cleanup"]
  /\ pool' = [pool EXCEPT !.permits = @ + 1]
  /\ UNCHANGED shut

CancelConnecting(r) == req[r].pc = "connecting" /\ StartCleanup(r)

\* Cancelling the request cancels the getter it awaits.
CancelWaiting(r) ==
  /\ req[r].pc = "waiting"
  /\ req' = [req EXCEPT ![r].pc = "unwaiting"]
  /\ UNCHANGED <<pool, shut>>

\* The getter has an adapter already: it goes back through a release task.
CancelServed(r) ==
  /\ req[r].pc = "served"
  /\ req' = [req EXCEPT ![r].pc = "cancelled", ![r].job = "reset", ![r].outer = "release"]
  /\ UNCHANGED <<pool, shut>>

\* shield(): the release goes on without the request.
CancelReleasing(r) ==
  /\ req[r].pc = "releasing"
  /\ req' = [req EXCEPT ![r].pc = "cancelled", ![r].outer = "none"]
  /\ UNCHANGED <<pool, shut>>

-----------------------------------------------------------------------------
(* _release *)

\* Mutant: the adapter is queued before it is reset, not after.
EndUseQueued(r) ==
  /\ req[r].pc = "using"
  /\ req' = [req EXCEPT ![r].pc = "releasing", ![r].job = "reset", ![r].outer = "client"]
  /\ pool' = [pool EXCEPT !.idle = @ \cup {req[r].lease}]
  /\ UNCHANGED shut

\* The body of "async with" ends: normally, by an error or by a cancellation.
EndUse(r) ==
  /\ req[r].pc = "using"
  /\ req' = [req EXCEPT ![r].pc = "releasing", ![r].job = "reset", ![r].outer = "client"]
  /\ UNCHANGED <<pool, shut>>

AfterReset(r) == req[r].job = "reset" /\ r \notin pool.connTasks /\ LockFree

\* Mutant: a connection whose reset failed is closed, and still put back.
PutBackClosed(r) ==
  /\ AfterReset(r) /\ ~closed
  /\ req' = [req EXCEPT ![r].lease = NoAdapter, ![r].job = "done"]
  /\ \E failed \in SUBSET {req[r].lease} :
       pool' = [pool EXCEPT !.idle = @ \cup {req[r].lease}, !.permits = @ + 1, !.live = @ \ failed]
  /\ UNCHANGED shut

\* The adapter was reset, or failed to be: it goes back to the queue ...
PutBack(r) ==
  /\ AfterReset(r) /\ ~closed
  /\ req' = [req EXCEPT ![r].lease = NoAdapter, ![r].job = "done"]
  /\ pool' = [pool EXCEPT !.idle = @ \cup {req[r].lease}, !.permits = @ + 1]
  /\ UNCHANGED shut

\* ... unless the pool is closed: then it is closed, under the lock.
StartClosing(r) ==
  /\ AfterReset(r) /\ closed
  /\ req' = [req EXCEPT ![r].job = "closing"]
  /\ pool' = [pool EXCEPT !.all = @ \ {req[r].lease}]
  /\ UNCHANGED shut

\* What may be left of an adapter by a call of its close(): nothing, or the open
\* connection if the call does not come through.  Later calls then return at
\* once, because base.close() unsets _connected either way.
LeftOpen(a, mayFail) ==
  IF a \in pool.broken THEN {{a}} ELSE IF mayFail THEN {{}, {a} \cap pool.live} ELSE {{}}

ReleaseClosed(r) ==
  /\ req[r].job = "closing"
  /\ req' = [req EXCEPT ![r].lease = NoAdapter, ![r].job = "done"]
  /\ \E open \in LeftOpen(req[r].lease, req[r].lease \in Fragile) :
       pool' = [pool EXCEPT !.live = @ \ ({req[r].lease} \ open), !.broken = @ \cup open,
                            !.permits = @ + 1]
  /\ UNCHANGED shut

FinishRelease(r) ==
  /\ req[r].pc = "releasing" /\ req[r].job = "done"
  /\ req' = [req EXCEPT ![r].pc = "done", ![r].outer = "none"]
  /\ UNCHANGED <<pool, shut>>

(* _cleanup *)

InCleanup(r) == req[r].job = "cleanup" /\ req[r].outer = "cleanup"

\* Mutant: the finished connection is registered and never released.
CleanupRegistersOnly(r) ==
  /\ InCleanup(r) /\ req[r].conn = "ok" /\ LockFree
  /\ req' = [req EXCEPT ![r].job = "done"]
  /\ pool' = [pool EXCEPT !.all = @ \cup {r}, !.permits = @ + 1]
  /\ UNCHANGED shut

\* Mutant: once the pool is closed the connection is left to close().
CleanupRegistersUnlessClosed(r) ==
  /\ InCleanup(r) /\ req[r].conn = "ok" /\ LockFree
  /\ req' = IF closed THEN [req EXCEPT ![r].job = "done"]
            ELSE [req EXCEPT ![r].lease = r, ![r].job = "reset"]
  /\ pool' = IF closed THEN [pool EXCEPT !.permits = @ + 1] ELSE [pool EXCEPT !.all = @ \cup {r}]
  /\ UNCHANGED shut

CleanupRegisters(r) ==
  /\ InCleanup(r) /\ req[r].conn = "ok" /\ LockFree
  /\ req' = [req EXCEPT ![r].lease = r, ![r].job = "reset"]
  /\ pool' = [pool EXCEPT !.all = @ \cup {r}]
  /\ UNCHANGED shut

\* Mutant: "except Exception", which a cancellation by close() escapes.
CleanupFailsNarrow(r) ==
  /\ InCleanup(r) /\ req[r].conn \in {"failed", "cancelled"}
  /\ req' = [req EXCEPT ![r].job = "done", ![r].outer = "none"]
  /\ pool' = [pool EXCEPT !.permits = IF req[r].conn = "failed" THEN @ + 1 ELSE @]
  /\ UNCHANGED shut

CleanupFails(r) ==
  /\ InCleanup(r) /\ req[r].conn \in {"failed", "cancelled"}
  /\ req' = [req EXCEPT ![r].job = "done", ![r].outer = "none"]
  /\ pool' = [pool EXCEPT !.permits = @ + 1]
  /\ UNCHANGED shut

\* The shielded release is over: the task that awaited it ends.
CleanupEnds(r) ==
  /\ req[r].job = "done" /\ req[r].outer \in {"cleanup", "release"}
  /\ req' = [req EXCEPT ![r].outer = "none"]
  /\ UNCHANGED <<pool, shut>>

\* close() cancelled this cleanup: its except branch releases the permit,
\* whether or not a shielded release is under way and will do so too.
CleanupCancelled(r) ==
  /\ req[r].outer = "cancelled"
  /\ req[r].job = "cleanup" => req[r].conn # "cancelling"
  /\ req' = [req EXCEPT ![r].outer = "none", ![r].job = IF @ = "cleanup" THEN "done" ELSE @]
  /\ pool' = [pool EXCEPT !.permits = @ + 1]
  /\ UNCHANGED shut

-----------------------------------------------------------------------------
(* close *)

\* Mutant: close() leaves the getters waiting.
AfterCloseForgotten(at) == at

\* close() cancels the getters.
AfterClose(at) == IF at = "waiting" THEN "unwaiting" ELSE at

Close ==
  /\ ~closed /\ LockFree
  /\ shut' = [shut EXCEPT !.at = "closing", !.toClose = pool.all,
                          !.pending = {r \in Request : req[r].outer \in {"cleanup", "release"}}]
  /\ req' = [r \in Request |->
       [req[r] EXCEPT !.pc = AfterClose(@),
                      !.conn = IF r \in pool.connTasks /\ @ = "running" THEN "cancelling" ELSE @]]
  /\ pool' = [pool EXCEPT !.connTasks = {}, !.all = {}]

CloseAdapter(a, mayFail) ==
  \E open \in LeftOpen(a, mayFail) :
    pool' = [pool EXCEPT !.live = @ \ ({a} \ open), !.broken = @ \cup open]

\* An adapter that raises is logged, and the next one has its turn.
CloseOne(a) ==
  /\ shut.at = "closing" /\ a \in shut.toClose
  /\ shut' = [shut EXCEPT !.toClose = @ \ {a}]
  /\ CloseAdapter(a, a \in Fragile)
  /\ UNCHANGED req

\* The task that awaits close() is cancelled while an adapter is being closed:
\* the others stay as they are, and _all has forgotten them ...
CancelCloseOne(a) ==
  /\ shut.at = "closing" /\ a \in shut.toClose
  /\ shut' = [shut EXCEPT !.at = "done", !.toClose = {}, !.pending = {},
                          !.skipped = @ \cup (shut.toClose \ {a})]
  /\ CloseAdapter(a, TRUE)
  /\ UNCHANGED req

\* ... or while it waits for the cleanups, which go on without it.
CancelAwaitCleanup ==
  /\ shut.at = "waiting"
  /\ shut' = [shut EXCEPT !.at = "done", !.pending = {}]
  /\ UNCHANGED <<pool, req>>

AwaitCleanup ==
  /\ shut.at = "closing" /\ shut.toClose = {}
  /\ shut' = [shut EXCEPT !.at = "waiting"]
  /\ UNCHANGED <<pool, req>>

StillPending == {r \in shut.pending : req[r].outer \in {"cleanup", "release"}}

CleanupDone ==
  /\ shut.at = "waiting" /\ StillPending = {}
  /\ shut' = [shut EXCEPT !.at = "done", !.pending = {}]
  /\ UNCHANGED <<pool, req>>

\* Five seconds pass: what is still pending waits for a driver or for the lock,
\* everything else had its turn.
Wedged(r) ==
  \/ req[r].job \in {"reset", "closing"}
  \/ req[r].job = "cleanup" /\ (req[r].conn = "cancelling" \/ (req[r].conn = "ok" /\ ~LockFree))

\* A release task is cancelled harmlessly; a cleanup task has an except branch.
CleanupTimeout ==
  /\ shut.at = "waiting"
  /\ StillPending # {} /\ \A r \in StillPending : Wedged(r)
  /\ shut' = [shut EXCEPT !.at = "done", !.pending = {}, !.timedOut = TRUE]
  /\ req' = [r \in Request |-> [req[r] EXCEPT !.outer =
       IF r \notin StillPending THEN @ ELSE IF @ = "cleanup" THEN "cancelled" ELSE "none"]]
  /\ UNCHANGED pool

-----------------------------------------------------------------------------

Arrive(r) == Refuse(r) \/ AcquirePermit(r) \/ QueueForPermit(r)

Cancel(r) ==
  \/ CancelInQueue(r) \/ CancelLockWait(r) \/ CancelConnecting(r)
  \/ CancelWaiting(r) \/ CancelServed(r) \/ CancelReleasing(r)

\* What the event loop runs by itself once it can.
Progress(r) ==
  \/ ResumeWithPermit(r) \/ ResumeWithLock(r)
  \/ Connected(r) \/ ConnectFails(r) \/ ConnectCancelled(r) \/ ForgetConnTask(r)
  \/ Register(r) \/ SeeConnectFailed(r) \/ SeeConnectCancelled(r)
  \/ GetterServed(r) \/ TakeServed(r) \/ SeeGetterCancelled(r)
  \/ PutBack(r) \/ StartClosing(r) \/ ReleaseClosed(r) \/ FinishRelease(r)
  \/ CleanupRegisters(r) \/ CleanupFails(r) \/ CleanupEnds(r) \/ CleanupCancelled(r)

CloseProgress == (\E a \in Adapter : CloseOne(a)) \/ AwaitCleanup \/ CleanupDone

\* close() is awaited by the connect worker and by Session.close(), whose tasks
\* may be cancelled like any other.
CancelClose == (\E a \in Adapter : CancelCloseOne(a)) \/ CancelAwaitCleanup

Next ==
  \/ \E r \in Request : Arrive(r) \/ Progress(r) \/ EndUse(r) \/ Cancel(r)
  \/ Close \/ CloseProgress \/ CancelClose \/ CleanupTimeout

(***************************************************************************)
(* Fairness: the event loop runs every task that can run, a factory and a  *)
(* close() of an adapter end (the driver succeeds or fails) and a caller   *)
(* leaves its "async with" block; no other part of its request can move    *)
(* before that, so one condition serves both.  Nothing makes a task        *)
(* arrive, be cancelled or call the pool's close(), and nothing keeps that *)
(* close() from being cancelled.                                           *)
(***************************************************************************)
Fairness ==
  /\ \A r \in Request : WF_vars(Progress(r) \/ EndUse(r))
  /\ WF_vars(CloseProgress)

Spec == Init /\ [][Next]_vars
FairSpec == Spec /\ Fairness

-----------------------------------------------------------------------------
(* Properties *)

\* The requests that still owe the semaphore the release of a permit.
OwesPermit(q) ==
  \/ q.pc \in {"lockWait", "connecting", "waiting", "unwaiting", "served", "using"}
  \/ q.job \in {"cleanup", "reset", "closing"}
Holders == {r \in Request : OwesPermit(req[r])}

\* A permit is neither lost nor given back twice, whatever fails, is cancelled
\* or times out (_acquire's except branches, _release, _cleanup): free permits
\* and requests that owe one add up to the pool's size.  Once close() has given
\* up on a cleanup there may be more permits, never fewer.
PermitsAccounted ==
  /\ pool.permits + Cardinality(Holders) >= Size
  /\ ~shut.timedOut => pool.permits + Cardinality(Holders) = Size

\* An adapter is single-owner (adapters/base.py: no two coroutines share one):
\* it is idle or leased to one request, through reset and close, never both.
LeaseExclusive ==
  \A r \in Request :
    req[r].lease # NoAdapter =>
      /\ req[r].lease \notin pool.idle
      /\ \A s \in Request \ {r} : req[s].lease # req[r].lease

\* Connections being built and connections open never exceed the pool's size,
\* although the test in _acquire reads two sets that tasks update separately.
Connecting == {r \in Request : req[r].conn \in {"running", "cancelling"}}
BoundedConnections == Cardinality(pool.live) + Cardinality(Connecting) <= Size

\* An open connection is never forgotten: something will put it back, lend it
\* or close it, whichever steps close(), cancellations and cleanups interleave
\* in.  The exceptions: close() gave up on a cleanup, the adapter's own close()
\* failed, or the pool's close() was cancelled before it came to the adapter.
Accounted(a) ==
  \/ a \in pool.all \cup shut.toClose
  \/ \E r \in Request : req[r].lease = a
  \/ a \in Request /\ (req[a].pc = "connecting" \/ req[a].job = "cleanup")
Abandoned == pool.broken \cup shut.skipped
NoOrphan == ~shut.timedOut => \A a \in pool.live : Accounted(a) \/ a \in Abandoned

\* What the pool promises: leases of open connections, one client each.
Promise == INSTANCE PoolLease
  WITH Client <- Request, Connection <- Adapter, Nothing <- NoAdapter,
       shutDown <- closed, open <- pool.live, held <- [r \in Request |-> req[r].lease]
KeepsPromise == Promise!Spec

\* Every acquire ends: with an adapter, a refusal or an error, never in a queue
\* nobody will serve (the semaphore, the lock, the connection task, the getter).
\* test_pool.py says so of failed factories: the slot they held is released, so
\* no later acquire hangs.
Blocked == {"semWait", "lockWait", "connecting", "waiting", "unwaiting", "served", "releasing"}
EveryAcquireEnds == \A r \in Request : req[r].pc \in Blocked ~> req[r].pc \notin Blocked

\* It holds whenever no connection fails behind the back of a cancelled request.
FailureSeen == \A r \in Request : req[r].conn = "failed" /\ req[r].pc = "cancelled" => closed
AcquireEnds == []FailureSeen => EveryAcquireEnds

\* Once close() has run, every connection ends up closed, the ones that were
\* busy, being built or being cleaned up included, also when close() is cancelled
\* meanwhile: only the adapters that it then had not come to stay open, those
\* whose own close() failed, and what a cleanup had when close() gave up on it.
CloseClosesAll == closed ~> [](pool.live \subseteq Abandoned \/ shut.timedOut)

\* After close() (its comment, and _acquire's): an acquire under way is either
\* refused or woken by a cancellation, so none is handed an adapter.
NoLeaseAfterClose ==
  [][closed => \A r \in Request : req[r].pc \in {"semWait", "served"} => req'[r].pc # "using"]_vars
=============================================================================
