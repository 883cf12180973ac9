------------------------ MODULE ConnectionPool_proofs ------------------------
(***************************************************************************)
(* Proofs about ConnectionPool for every set of requests and every size:   *)
(* type correctness, exclusive leases and the conservation of permits,     *)
(* then the bound on connections, that none is forgotten, and that the     *)
(* pool implements PoolLease.                                              *)
(*                                                                         *)
(* None is inductive alone.  Phases ties the fields of a request together  *)
(* (who holds an adapter, whose background half runs); NotOut says that an *)
(* adapter its request has not registered is nowhere else; CancelledLate   *)
(* that a cleanup is cancelled only by close() giving up.  On top of them  *)
(* ConnInv ties connection tasks to connections (Made), close() to both    *)
(* (Shutting), and while the pool is open every connection to the queue,   *)
(* to a lease or to a request that is building it (Housed).                *)
(***************************************************************************)
EXTENDS ConnectionPool, FiniteSetTheorems, TLAPS

Phase(q) ==
  /\ q.pc \in {"new", "semWait"} => q.conn = "none"
  /\ q.pc \in {"new", "semWait", "lockWait", "connecting", "waiting", "unwaiting"} =>
       q.job = "none" /\ q.lease = NoAdapter
  /\ q.pc \in {"served", "using"} => q.job = "none" /\ q.lease # NoAdapter
  /\ q.pc = "releasing" => q.job \in {"reset", "closing", "done"}
  /\ q.job = "cleanup" => q.pc = "cancelled" /\ q.lease = NoAdapter
  /\ q.job \in {"reset", "closing"} => q.pc \in {"releasing", "cancelled"} /\ q.lease # NoAdapter
  /\ q.job \in {"none", "done"} /\ q.pc \in Terminal \cup {"releasing"} => q.lease = NoAdapter
Phases == \A r \in Request : Phase(req[r])

Unborn(q) == q.conn # "ok" \/ q.pc = "connecting" \/ q.job = "cleanup"
NotOut ==
  \A r \in Request :
    Unborn(req[r]) => r \notin pool.idle /\ \A s \in Request : req[s].lease # r

CancelledLate == \A r \in Request : req[r].outer = "cancelled" => shut.timedOut

IInv == TypeOK /\ Phases /\ NotOut /\ LeaseExclusive /\ CancelledLate /\ PermitsAccounted

-----------------------------------------------------------------------------
(* Steps of one request: what the update q of its record must respect *)

\* Its adapter stays, is dropped, is put in the queue, comes from the queue, or
\* is the one its own connection task built.
LeaseMove(r, q) ==
  /\ Unborn(q) => Unborn(req[r])
  /\ \/ q.lease = req[r].lease /\ pool'.idle = pool.idle
     \/ q.lease = NoAdapter /\ pool'.idle = pool.idle
     \/ /\ q.lease = NoAdapter /\ req[r].lease # NoAdapter
        /\ pool'.idle = pool.idle \cup {req[r].lease}
     \/ req[r].lease = NoAdapter /\ q.lease \in pool.idle /\ pool'.idle = pool.idle \ {q.lease}
     \/ /\ req[r].lease = NoAdapter /\ q.lease = r /\ pool'.idle = pool.idle
        /\ Unborn(req[r]) /\ ~Unborn(q)

\* A permit it owes is one it took; a permit it gives back is one it owed.
PermitMove(r, q) ==
  \/ pool'.permits = pool.permits /\ (OwesPermit(q) <=> OwesPermit(req[r]))
  \/ pool'.permits = pool.permits - 1 /\ OwesPermit(q) /\ ~OwesPermit(req[r])
  \/ pool'.permits = pool.permits + 1 /\ ~OwesPermit(q) /\ OwesPermit(req[r])

\* The requests that owe a permit can be counted.
LEMMA HoldersFinite == IsFiniteSet(Holders) /\ Cardinality(Holders) \in Nat
<1>1. Holders \subseteq Request
  BY DEF Holders
<1>. QED
  BY <1>1, RequestAssumption, FS_Subset, FS_CardinalityType

\* A step in which one request takes, keeps or gives back a permit as PermitMove
\* allows keeps the permits accounted for.
LEMMA PermitStep ==
  ASSUME TypeOK, PermitsAccounted, NEW r \in Request, NEW q,
         req' = [req EXCEPT ![r] = q], shut' = shut, PermitMove(r, q)
  PROVE  PermitsAccounted'
<1>. req \in [Request -> RequestState] /\ pool.permits \in Nat
  BY DEF TypeOK, PoolState
<1>. Size \in Nat
  BY SizeAssumption
<1>1. CASE pool'.permits = pool.permits /\ (OwesPermit(q) <=> OwesPermit(req[r]))
  <2>1. Holders' = Holders
    BY <1>1 DEF Holders
  <2>. QED
    BY <1>1, <2>1 DEF PermitsAccounted
<1>2. CASE pool'.permits = pool.permits - 1 /\ OwesPermit(q) /\ ~OwesPermit(req[r])
  <2>1. r \notin Holders /\ Holders' = Holders \cup {r}
    BY <1>2 DEF Holders
  <2>2. Cardinality(Holders') = Cardinality(Holders) + 1
    BY <2>1, HoldersFinite, FS_AddElement
  <2>. QED
    BY <1>2, <2>2, HoldersFinite DEF PermitsAccounted
<1>3. CASE pool'.permits = pool.permits + 1 /\ ~OwesPermit(q) /\ OwesPermit(req[r])
  <2>1. r \in Holders /\ Holders' = Holders \ {r}
    BY <1>3 DEF Holders
  <2>2. Cardinality(Holders') = Cardinality(Holders) - 1
    BY <2>1, HoldersFinite, FS_RemoveElement
  <2>. QED
    BY <1>3, <2>2, HoldersFinite DEF PermitsAccounted
<1>. QED
  BY <1>1, <1>2, <1>3 DEF PermitMove

\* A step in which one adapter moves as LeaseMove allows keeps leases exclusive.
LEMMA LeaseStep ==
  ASSUME TypeOK, NotOut, LeaseExclusive, NEW r \in Request, NEW q \in RequestState,
         req' = [req EXCEPT ![r] = q], LeaseMove(r, q)
  PROVE  NotOut' /\ LeaseExclusive'
<1>. req \in [Request -> RequestState]
  BY DEF TypeOK
<1>. /\ req'[r] = q
     /\ \A s \in Request \ {r} : req'[s] = req[s]
  OBVIOUS
<1>1. LeaseExclusive'
  BY NoAdapterAssumption DEF LeaseExclusive, NotOut, LeaseMove
<1>2. NotOut'
  BY NoAdapterAssumption DEF LeaseExclusive, NotOut, LeaseMove
<1>. QED
  BY <1>1, <1>2

\* A step of one request preserves the invariant if its new record is well formed
\* and its adapter and its permit move as they may.
LEMMA RequestStep ==
  ASSUME IInv, NEW r \in Request, NEW q \in RequestState,
         req' = [req EXCEPT ![r] = q], shut' = shut, pool' \in PoolState,
         Phase(q), q.outer = "cancelled" => req[r].outer = "cancelled",
         LeaseMove(r, q), PermitMove(r, q)
  PROVE  IInv'
<1>. req \in [Request -> RequestState]
  BY DEF IInv, TypeOK
<1>1. TypeOK'
  BY DEF IInv, TypeOK
<1>2. Phases'
  BY DEF IInv, Phases
<1>3. CancelledLate'
  BY DEF IInv, CancelledLate
<1>. QED
  BY <1>1, <1>2, <1>3, PermitStep, LeaseStep DEF IInv

-----------------------------------------------------------------------------
(* The actions *)

\* A permit may always be given back.
LEMMA PermitBack == pool \in PoolState => [pool EXCEPT !.permits = @ + 1] \in PoolState
BY DEF PoolState

LEMMA RefuseStep == ASSUME IInv, NEW r \in Request, Refuse(r) PROVE IInv'
<1>. DEFINE q == [req[r] EXCEPT !.pc = "refused"]
<1>. req[r] \in RequestState /\ pool \in PoolState /\ r \in Adapter \cup {NoAdapter}
  BY DEF IInv, TypeOK, Adapter
<1>1. q \in RequestState
  BY Zenon DEF RequestState, Terminal
<1>2. req' = [req EXCEPT ![r] = q] /\ shut' = shut
  BY DEF IInv, TypeOK, Refuse
<1>3. pool' \in PoolState
  BY DEF PoolState, Adapter, Refuse
<1>4. Phase(q) /\ (q.outer = "cancelled" => req[r].outer = "cancelled")
  BY NoAdapterAssumption DEF IInv, Phases, Phase, RequestState, Terminal, Adapter, Refuse
<1>5. LeaseMove(r, q) /\ PermitMove(r, q)
  BY DEF IInv, Phases, Phase, RequestState, PoolState, LeaseMove, PermitMove, OwesPermit, Unborn, Terminal, Refuse
<1>. QED
  BY <1>1, <1>2, <1>3, <1>4, <1>5, RequestStep

LEMMA ConnectedStep == ASSUME IInv, NEW r \in Request, Connected(r) PROVE IInv'
<1>. DEFINE q == [req[r] EXCEPT !.conn = "ok"]
<1>. req[r] \in RequestState /\ pool \in PoolState /\ r \in Adapter \cup {NoAdapter}
  BY DEF IInv, TypeOK, Adapter
<1>1. q \in RequestState
  BY Zenon DEF RequestState, Terminal
<1>2. req' = [req EXCEPT ![r] = q] /\ shut' = shut
  BY DEF IInv, TypeOK, Connected
<1>3. pool' \in PoolState
  BY DEF PoolState, Adapter, Connected
<1>4. Phase(q) /\ (q.outer = "cancelled" => req[r].outer = "cancelled")
  BY NoAdapterAssumption DEF IInv, Phases, Phase, RequestState, Terminal, Adapter, Connected
<1>5. LeaseMove(r, q) /\ PermitMove(r, q)
  BY DEF IInv, Phases, Phase, RequestState, PoolState, LeaseMove, PermitMove, OwesPermit, Unborn, Terminal, Connected
<1>. QED
  BY <1>1, <1>2, <1>3, <1>4, <1>5, RequestStep

LEMMA ConnectFailsStep == ASSUME IInv, NEW r \in Request, ConnectFails(r) PROVE IInv'
<1>. DEFINE q == [req[r] EXCEPT !.conn = "failed"]
<1>. req[r] \in RequestState /\ pool \in PoolState /\ r \in Adapter \cup {NoAdapter}
  BY DEF IInv, TypeOK, Adapter
<1>1. q \in RequestState
  BY Zenon DEF RequestState, Terminal
<1>2. req' = [req EXCEPT ![r] = q] /\ shut' = shut
  BY DEF IInv, TypeOK, ConnectFails
<1>3. pool' \in PoolState
  BY DEF PoolState, Adapter, ConnectFails
<1>4. Phase(q) /\ (q.outer = "cancelled" => req[r].outer = "cancelled")
  BY NoAdapterAssumption DEF IInv, Phases, Phase, RequestState, Terminal, Adapter, ConnectFails
<1>5. LeaseMove(r, q) /\ PermitMove(r, q)
  BY DEF IInv, Phases, Phase, RequestState, PoolState, LeaseMove, PermitMove, OwesPermit, Unborn, Terminal, ConnectFails
<1>. QED
  BY <1>1, <1>2, <1>3, <1>4, <1>5, RequestStep

LEMMA ConnectCancelledStep == ASSUME IInv, NEW r \in Request, ConnectCancelled(r) PROVE IInv'
<1>. DEFINE q == [req[r] EXCEPT !.conn = "cancelled"]
<1>. req[r] \in RequestState /\ pool \in PoolState /\ r \in Adapter \cup {NoAdapter}
  BY DEF IInv, TypeOK, Adapter
<1>1. q \in RequestState
  BY Zenon DEF RequestState, Terminal
<1>2. req' = [req EXCEPT ![r] = q] /\ shut' = shut
  BY DEF IInv, TypeOK, ConnectCancelled
<1>3. pool' \in PoolState
  BY DEF PoolState, Adapter, ConnectCancelled
<1>4. Phase(q) /\ (q.outer = "cancelled" => req[r].outer = "cancelled")
  BY NoAdapterAssumption DEF IInv, Phases, Phase, RequestState, Terminal, Adapter, ConnectCancelled
<1>5. LeaseMove(r, q) /\ PermitMove(r, q)
  BY DEF IInv, Phases, Phase, RequestState, PoolState, LeaseMove, PermitMove, OwesPermit, Unborn, Terminal, ConnectCancelled
<1>. QED
  BY <1>1, <1>2, <1>3, <1>4, <1>5, RequestStep

LEMMA RegisterStep == ASSUME IInv, NEW r \in Request, Register(r) PROVE IInv'
<1>. DEFINE q == [req[r] EXCEPT !.pc = "using", !.lease = r]
<1>. req[r] \in RequestState /\ pool \in PoolState /\ r \in Adapter \cup {NoAdapter}
  BY DEF IInv, TypeOK, Adapter
<1>1. q \in RequestState
  BY Zenon DEF RequestState, Terminal
<1>2. req' = [req EXCEPT ![r] = q] /\ shut' = shut
  BY DEF IInv, TypeOK, Register, AfterConnect
<1>3. pool' \in PoolState
  BY DEF PoolState, Adapter, Register, AfterConnect
<1>4. Phase(q) /\ (q.outer = "cancelled" => req[r].outer = "cancelled")
  BY NoAdapterAssumption DEF IInv, Phases, Phase, RequestState, Terminal, Adapter, Register, AfterConnect
<1>5. LeaseMove(r, q) /\ PermitMove(r, q)
  BY DEF IInv, Phases, Phase, RequestState, PoolState, LeaseMove, PermitMove, OwesPermit, Unborn, Terminal, Register, AfterConnect
<1>. QED
  BY <1>1, <1>2, <1>3, <1>4, <1>5, RequestStep

LEMMA TakeServedStep == ASSUME IInv, NEW r \in Request, TakeServed(r) PROVE IInv'
<1>. DEFINE q == [req[r] EXCEPT !.pc = "using"]
<1>. req[r] \in RequestState /\ pool \in PoolState /\ r \in Adapter \cup {NoAdapter}
  BY DEF IInv, TypeOK, Adapter
<1>1. q \in RequestState
  BY Zenon DEF RequestState, Terminal
<1>2. req' = [req EXCEPT ![r] = q] /\ shut' = shut
  BY DEF IInv, TypeOK, TakeServed
<1>3. pool' \in PoolState
  BY DEF PoolState, Adapter, TakeServed
<1>4. Phase(q) /\ (q.outer = "cancelled" => req[r].outer = "cancelled")
  BY NoAdapterAssumption DEF IInv, Phases, Phase, RequestState, Terminal, Adapter, TakeServed
<1>5. LeaseMove(r, q) /\ PermitMove(r, q)
  BY DEF IInv, Phases, Phase, RequestState, PoolState, LeaseMove, PermitMove, OwesPermit, Unborn, Terminal, TakeServed
<1>. QED
  BY <1>1, <1>2, <1>3, <1>4, <1>5, RequestStep

LEMMA ResumeWithLockStep == ASSUME IInv, NEW r \in Request, ResumeWithLock(r) PROVE IInv'
<1>. DEFINE q == [req[r] EXCEPT !.pc = "refused"]
<1>. req[r] \in RequestState /\ pool \in PoolState /\ r \in Adapter \cup {NoAdapter}
  BY DEF IInv, TypeOK, Adapter
<1>1. q \in RequestState
  BY Zenon DEF RequestState, Terminal
<1>2. req' = [req EXCEPT ![r] = q] /\ shut' = shut
  BY DEF IInv, TypeOK, ResumeWithLock, GiveUp
<1>3. pool' \in PoolState
  BY PermitBack DEF ResumeWithLock, GiveUp
<1>4. Phase(q) /\ (q.outer = "cancelled" => req[r].outer = "cancelled")
  BY NoAdapterAssumption DEF IInv, Phases, Phase, RequestState, Terminal, Adapter, ResumeWithLock, GiveUp
<1>5. LeaseMove(r, q) /\ PermitMove(r, q)
  BY DEF IInv, Phases, Phase, RequestState, PoolState, LeaseMove, PermitMove, OwesPermit, Unborn, Terminal, ResumeWithLock, GiveUp
<1>. QED
  BY <1>1, <1>2, <1>3, <1>4, <1>5, RequestStep

LEMMA SeeConnectFailedStep == ASSUME IInv, NEW r \in Request, SeeConnectFailed(r) PROVE IInv'
<1>. DEFINE q == [req[r] EXCEPT !.pc = "failed"]
<1>. req[r] \in RequestState /\ pool \in PoolState /\ r \in Adapter \cup {NoAdapter}
  BY DEF IInv, TypeOK, Adapter
<1>1. q \in RequestState
  BY Zenon DEF RequestState, Terminal
<1>2. req' = [req EXCEPT ![r] = q] /\ shut' = shut
  BY DEF IInv, TypeOK, SeeConnectFailed, AfterConnect, GiveUp
<1>3. pool' \in PoolState
  BY PermitBack DEF SeeConnectFailed, GiveUp
<1>4. Phase(q) /\ (q.outer = "cancelled" => req[r].outer = "cancelled")
  BY NoAdapterAssumption DEF IInv, Phases, Phase, RequestState, Terminal, Adapter, SeeConnectFailed, AfterConnect, GiveUp
<1>5. LeaseMove(r, q) /\ PermitMove(r, q)
  BY DEF IInv, Phases, Phase, RequestState, PoolState, LeaseMove, PermitMove, OwesPermit, Unborn, Terminal, SeeConnectFailed, AfterConnect, GiveUp
<1>. QED
  BY <1>1, <1>2, <1>3, <1>4, <1>5, RequestStep

LEMMA SeeGetterCancelledStep == ASSUME IInv, NEW r \in Request, SeeGetterCancelled(r) PROVE IInv'
<1>. DEFINE q == [req[r] EXCEPT !.pc = "cancelled"]
<1>. req[r] \in RequestState /\ pool \in PoolState /\ r \in Adapter \cup {NoAdapter}
  BY DEF IInv, TypeOK, Adapter
<1>1. q \in RequestState
  BY Zenon DEF RequestState, Terminal
<1>2. req' = [req EXCEPT ![r] = q] /\ shut' = shut
  BY DEF IInv, TypeOK, SeeGetterCancelled, GiveUp
<1>3. pool' \in PoolState
  BY PermitBack DEF SeeGetterCancelled, GiveUp
<1>4. Phase(q) /\ (q.outer = "cancelled" => req[r].outer = "cancelled")
  BY NoAdapterAssumption DEF IInv, Phases, Phase, RequestState, Terminal, Adapter, SeeGetterCancelled, GiveUp
<1>5. LeaseMove(r, q) /\ PermitMove(r, q)
  BY DEF IInv, Phases, Phase, RequestState, PoolState, LeaseMove, PermitMove, OwesPermit, Unborn, Terminal, SeeGetterCancelled, GiveUp
<1>. QED
  BY <1>1, <1>2, <1>3, <1>4, <1>5, RequestStep

LEMMA CancelLockWaitStep == ASSUME IInv, NEW r \in Request, CancelLockWait(r) PROVE IInv'
<1>. DEFINE q == [req[r] EXCEPT !.pc = "cancelled"]
<1>. req[r] \in RequestState /\ pool \in PoolState /\ r \in Adapter \cup {NoAdapter}
  BY DEF IInv, TypeOK, Adapter
<1>1. q \in RequestState
  BY Zenon DEF RequestState, Terminal
<1>2. req' = [req EXCEPT ![r] = q] /\ shut' = shut
  BY DEF IInv, TypeOK, CancelLockWait, GiveUp
<1>3. pool' \in PoolState
  BY PermitBack DEF CancelLockWait, GiveUp
<1>4. Phase(q) /\ (q.outer = "cancelled" => req[r].outer = "cancelled")
  BY NoAdapterAssumption DEF IInv, Phases, Phase, RequestState, Terminal, Adapter, CancelLockWait, GiveUp
<1>5. LeaseMove(r, q) /\ PermitMove(r, q)
  BY DEF IInv, Phases, Phase, RequestState, PoolState, LeaseMove, PermitMove, OwesPermit, Unborn, Terminal, CancelLockWait, GiveUp
<1>. QED
  BY <1>1, <1>2, <1>3, <1>4, <1>5, RequestStep

LEMMA SeeConnectCancelledStep == ASSUME IInv, NEW r \in Request, SeeConnectCancelled(r) PROVE IInv'
<1>. DEFINE q == [req[r] EXCEPT !.pc = "cancelled", !.job = "cleanup", !.outer = "cleanup"]
<1>. req[r] \in RequestState /\ pool \in PoolState /\ r \in Adapter \cup {NoAdapter}
  BY DEF IInv, TypeOK, Adapter
<1>1. q \in RequestState
  BY Zenon DEF RequestState, Terminal
<1>2. req' = [req EXCEPT ![r] = q] /\ shut' = shut
  BY DEF IInv, TypeOK, SeeConnectCancelled, AfterConnect, StartCleanup
<1>3. pool' \in PoolState
  BY DEF PoolState, Adapter, SeeConnectCancelled, AfterConnect, StartCleanup
<1>4. Phase(q) /\ (q.outer = "cancelled" => req[r].outer = "cancelled")
  BY NoAdapterAssumption DEF IInv, Phases, Phase, RequestState, Terminal, Adapter, SeeConnectCancelled, AfterConnect, StartCleanup
<1>5. LeaseMove(r, q) /\ PermitMove(r, q)
  BY DEF IInv, Phases, Phase, RequestState, PoolState, LeaseMove, PermitMove, OwesPermit, Unborn, Terminal, SeeConnectCancelled, AfterConnect, StartCleanup
<1>. QED
  BY <1>1, <1>2, <1>3, <1>4, <1>5, RequestStep

LEMMA CancelConnectingStep == ASSUME IInv, NEW r \in Request, CancelConnecting(r) PROVE IInv'
<1>. DEFINE q == [req[r] EXCEPT !.pc = "cancelled", !.job = "cleanup", !.outer = "cleanup"]
<1>. req[r] \in RequestState /\ pool \in PoolState /\ r \in Adapter \cup {NoAdapter}
  BY DEF IInv, TypeOK, Adapter
<1>1. q \in RequestState
  BY Zenon DEF RequestState, Terminal
<1>2. req' = [req EXCEPT ![r] = q] /\ shut' = shut
  BY DEF IInv, TypeOK, CancelConnecting, StartCleanup
<1>3. pool' \in PoolState
  BY DEF PoolState, Adapter, CancelConnecting, StartCleanup
<1>4. Phase(q) /\ (q.outer = "cancelled" => req[r].outer = "cancelled")
  BY NoAdapterAssumption DEF IInv, Phases, Phase, RequestState, Terminal, Adapter, CancelConnecting, StartCleanup
<1>5. LeaseMove(r, q) /\ PermitMove(r, q)
  BY DEF IInv, Phases, Phase, RequestState, PoolState, LeaseMove, PermitMove, OwesPermit, Unborn, Terminal, CancelConnecting, StartCleanup
<1>. QED
  BY <1>1, <1>2, <1>3, <1>4, <1>5, RequestStep

LEMMA CancelWaitingStep == ASSUME IInv, NEW r \in Request, CancelWaiting(r) PROVE IInv'
<1>. DEFINE q == [req[r] EXCEPT !.pc = "unwaiting"]
<1>. req[r] \in RequestState /\ pool \in PoolState /\ r \in Adapter \cup {NoAdapter}
  BY DEF IInv, TypeOK, Adapter
<1>1. q \in RequestState
  BY Zenon DEF RequestState, Terminal
<1>2. req' = [req EXCEPT ![r] = q] /\ shut' = shut
  BY DEF IInv, TypeOK, CancelWaiting
<1>3. pool' \in PoolState
  BY DEF PoolState, Adapter, CancelWaiting
<1>4. Phase(q) /\ (q.outer = "cancelled" => req[r].outer = "cancelled")
  BY NoAdapterAssumption DEF IInv, Phases, Phase, RequestState, Terminal, Adapter, CancelWaiting
<1>5. LeaseMove(r, q) /\ PermitMove(r, q)
  BY DEF IInv, Phases, Phase, RequestState, PoolState, LeaseMove, PermitMove, OwesPermit, Unborn, Terminal, CancelWaiting
<1>. QED
  BY <1>1, <1>2, <1>3, <1>4, <1>5, RequestStep

LEMMA CancelServedStep == ASSUME IInv, NEW r \in Request, CancelServed(r) PROVE IInv'
<1>. DEFINE q == [req[r] EXCEPT !.pc = "cancelled", !.job = "reset", !.outer = "release"]
<1>. req[r] \in RequestState /\ pool \in PoolState /\ r \in Adapter \cup {NoAdapter}
  BY DEF IInv, TypeOK, Adapter
<1>1. q \in RequestState
  BY Zenon DEF RequestState, Terminal
<1>2. req' = [req EXCEPT ![r] = q] /\ shut' = shut
  BY DEF IInv, TypeOK, CancelServed
<1>3. pool' \in PoolState
  BY DEF PoolState, Adapter, CancelServed
<1>4. Phase(q) /\ (q.outer = "cancelled" => req[r].outer = "cancelled")
  BY NoAdapterAssumption DEF IInv, Phases, Phase, RequestState, Terminal, Adapter, CancelServed
<1>5. LeaseMove(r, q) /\ PermitMove(r, q)
  BY DEF IInv, Phases, Phase, RequestState, PoolState, LeaseMove, PermitMove, OwesPermit, Unborn, Terminal, CancelServed
<1>. QED
  BY <1>1, <1>2, <1>3, <1>4, <1>5, RequestStep

LEMMA CancelReleasingStep == ASSUME IInv, NEW r \in Request, CancelReleasing(r) PROVE IInv'
<1>. DEFINE q == [req[r] EXCEPT !.pc = "cancelled", !.outer = "none"]
<1>. req[r] \in RequestState /\ pool \in PoolState /\ r \in Adapter \cup {NoAdapter}
  BY DEF IInv, TypeOK, Adapter
<1>1. q \in RequestState
  BY Zenon DEF RequestState, Terminal
<1>2. req' = [req EXCEPT ![r] = q] /\ shut' = shut
  BY DEF IInv, TypeOK, CancelReleasing
<1>3. pool' \in PoolState
  BY DEF PoolState, Adapter, CancelReleasing
<1>4. Phase(q) /\ (q.outer = "cancelled" => req[r].outer = "cancelled")
  BY NoAdapterAssumption DEF IInv, Phases, Phase, RequestState, Terminal, Adapter, CancelReleasing
<1>5. LeaseMove(r, q) /\ PermitMove(r, q)
  BY DEF IInv, Phases, Phase, RequestState, PoolState, LeaseMove, PermitMove, OwesPermit, Unborn, Terminal, CancelReleasing
<1>. QED
  BY <1>1, <1>2, <1>3, <1>4, <1>5, RequestStep

LEMMA EndUseStep == ASSUME IInv, NEW r \in Request, EndUse(r) PROVE IInv'
<1>. DEFINE q == [req[r] EXCEPT !.pc = "releasing", !.job = "reset", !.outer = "client"]
<1>. req[r] \in RequestState /\ pool \in PoolState /\ r \in Adapter \cup {NoAdapter}
  BY DEF IInv, TypeOK, Adapter
<1>1. q \in RequestState
  BY Zenon DEF RequestState, Terminal
<1>2. req' = [req EXCEPT ![r] = q] /\ shut' = shut
  BY DEF IInv, TypeOK, EndUse
<1>3. pool' \in PoolState
  BY DEF PoolState, Adapter, EndUse
<1>4. Phase(q) /\ (q.outer = "cancelled" => req[r].outer = "cancelled")
  BY NoAdapterAssumption DEF IInv, Phases, Phase, RequestState, Terminal, Adapter, EndUse
<1>5. LeaseMove(r, q) /\ PermitMove(r, q)
  BY DEF IInv, Phases, Phase, RequestState, PoolState, LeaseMove, PermitMove, OwesPermit, Unborn, Terminal, EndUse
<1>. QED
  BY <1>1, <1>2, <1>3, <1>4, <1>5, RequestStep

LEMMA PutBackStep == ASSUME IInv, NEW r \in Request, PutBack(r) PROVE IInv'
<1>. DEFINE q == [req[r] EXCEPT !.lease = NoAdapter, !.job = "done"]
<1>. req[r] \in RequestState /\ pool \in PoolState /\ r \in Adapter \cup {NoAdapter}
  BY DEF IInv, TypeOK, Adapter
<1>1. q \in RequestState
  BY Zenon DEF RequestState, Terminal
<1>2. req' = [req EXCEPT ![r] = q] /\ shut' = shut
  BY DEF IInv, TypeOK, PutBack, AfterReset
<1>3. pool' \in PoolState
  <2>1. pool.idle \cup {req[r].lease} \in SUBSET Adapter /\ pool.permits + 1 \in Nat
    BY DEF IInv, Phases, Phase, RequestState, PoolState, PutBack, AfterReset
  <2>2. pool' = [pool EXCEPT !.idle = pool.idle \cup {req[r].lease}, !.permits = pool.permits + 1]
    BY DEF PutBack
  <2>. QED
    BY Zenon, <2>1, <2>2 DEF PoolState
<1>4. Phase(q) /\ (q.outer = "cancelled" => req[r].outer = "cancelled")
  BY NoAdapterAssumption DEF IInv, Phases, Phase, RequestState, Terminal, Adapter, PutBack, AfterReset
<1>5. LeaseMove(r, q) /\ PermitMove(r, q)
  BY DEF IInv, Phases, Phase, RequestState, PoolState, LeaseMove, PermitMove, OwesPermit, Unborn, Terminal, PutBack, AfterReset
<1>. QED
  BY <1>1, <1>2, <1>3, <1>4, <1>5, RequestStep

LEMMA StartClosingStep == ASSUME IInv, NEW r \in Request, StartClosing(r) PROVE IInv'
<1>. DEFINE q == [req[r] EXCEPT !.job = "closing"]
<1>. req[r] \in RequestState /\ pool \in PoolState /\ r \in Adapter \cup {NoAdapter}
  BY DEF IInv, TypeOK, Adapter
<1>1. q \in RequestState
  BY Zenon DEF RequestState, Terminal
<1>2. req' = [req EXCEPT ![r] = q] /\ shut' = shut
  BY DEF IInv, TypeOK, StartClosing, AfterReset
<1>3. pool' \in PoolState
  BY DEF PoolState, Adapter, StartClosing, AfterReset
<1>4. Phase(q) /\ (q.outer = "cancelled" => req[r].outer = "cancelled")
  BY NoAdapterAssumption DEF IInv, Phases, Phase, RequestState, Terminal, Adapter, StartClosing, AfterReset
<1>5. LeaseMove(r, q) /\ PermitMove(r, q)
  BY DEF IInv, Phases, Phase, RequestState, PoolState, LeaseMove, PermitMove, OwesPermit, Unborn, Terminal, StartClosing, AfterReset
<1>. QED
  BY <1>1, <1>2, <1>3, <1>4, <1>5, RequestStep

\* What a close() may leave open is an adapter that was open, and broken if before.
LEMMA LeftOpenTyped ==
  ASSUME pool \in PoolState, NEW a, NEW mayFail, NEW open \in LeftOpen(a, mayFail)
  PROVE  open \in SUBSET Adapter /\ open \subseteq {a}
BY DEF LeftOpen, PoolState

LEMMA ReleaseClosedStep == ASSUME IInv, NEW r \in Request, ReleaseClosed(r) PROVE IInv'
<1>. DEFINE q == [req[r] EXCEPT !.lease = NoAdapter, !.job = "done"]
<1>. req[r] \in RequestState /\ pool \in PoolState /\ r \in Adapter \cup {NoAdapter}
  BY DEF IInv, TypeOK, Adapter
<1>1. q \in RequestState
  BY Zenon DEF RequestState, Terminal
<1>2. req' = [req EXCEPT ![r] = q] /\ shut' = shut
  BY DEF IInv, TypeOK, ReleaseClosed
<1>3. pool' \in PoolState
  <2>1. PICK open \in LeftOpen(req[r].lease, req[r].lease \in Fragile) :
          pool' = [pool EXCEPT !.live = @ \ ({req[r].lease} \ open), !.broken = @ \cup open,
                               !.permits = @ + 1]
    BY DEF ReleaseClosed
  <2>2. open \in SUBSET Adapter
    BY LeftOpenTyped
  <2>3. /\ pool.live \ ({req[r].lease} \ open) \in SUBSET Adapter
        /\ pool.broken \cup open \in SUBSET Adapter
        /\ pool.permits + 1 \in Nat
    BY <2>2 DEF PoolState
  <2>. QED
    BY Zenon, <2>1, <2>3 DEF PoolState
<1>4. Phase(q) /\ (q.outer = "cancelled" => req[r].outer = "cancelled")
  BY NoAdapterAssumption DEF IInv, Phases, Phase, RequestState, Terminal, Adapter, ReleaseClosed
<1>5. LeaseMove(r, q) /\ PermitMove(r, q)
  BY DEF IInv, Phases, Phase, RequestState, PoolState, LeaseMove, PermitMove, OwesPermit, Unborn, Terminal, ReleaseClosed
<1>. QED
  BY <1>1, <1>2, <1>3, <1>4, <1>5, RequestStep

LEMMA FinishReleaseStep == ASSUME IInv, NEW r \in Request, FinishRelease(r) PROVE IInv'
<1>. DEFINE q == [req[r] EXCEPT !.pc = "done", !.outer = "none"]
<1>. req[r] \in RequestState /\ pool \in PoolState /\ r \in Adapter \cup {NoAdapter}
  BY DEF IInv, TypeOK, Adapter
<1>1. q \in RequestState
  BY Zenon DEF RequestState, Terminal
<1>2. req' = [req EXCEPT ![r] = q] /\ shut' = shut
  BY DEF IInv, TypeOK, FinishRelease
<1>3. pool' \in PoolState
  BY DEF PoolState, Adapter, FinishRelease
<1>4. Phase(q) /\ (q.outer = "cancelled" => req[r].outer = "cancelled")
  BY NoAdapterAssumption DEF IInv, Phases, Phase, RequestState, Terminal, Adapter, FinishRelease
<1>5. LeaseMove(r, q) /\ PermitMove(r, q)
  BY DEF IInv, Phases, Phase, RequestState, PoolState, LeaseMove, PermitMove, OwesPermit, Unborn, Terminal, FinishRelease
<1>. QED
  BY <1>1, <1>2, <1>3, <1>4, <1>5, RequestStep

LEMMA CleanupRegistersStep == ASSUME IInv, NEW r \in Request, CleanupRegisters(r) PROVE IInv'
<1>. DEFINE q == [req[r] EXCEPT !.lease = r, !.job = "reset"]
<1>. req[r] \in RequestState /\ pool \in PoolState /\ r \in Adapter \cup {NoAdapter}
  BY DEF IInv, TypeOK, Adapter
<1>1. q \in RequestState
  BY Zenon DEF RequestState, Terminal
<1>2. req' = [req EXCEPT ![r] = q] /\ shut' = shut
  BY DEF IInv, TypeOK, CleanupRegisters, InCleanup
<1>3. pool' \in PoolState
  BY DEF PoolState, Adapter, CleanupRegisters, InCleanup
<1>4. Phase(q) /\ (q.outer = "cancelled" => req[r].outer = "cancelled")
  BY NoAdapterAssumption DEF IInv, Phases, Phase, RequestState, Terminal, Adapter, CleanupRegisters, InCleanup
<1>5. LeaseMove(r, q) /\ PermitMove(r, q)
  BY DEF IInv, Phases, Phase, RequestState, PoolState, LeaseMove, PermitMove, OwesPermit, Unborn, Terminal, CleanupRegisters, InCleanup
<1>. QED
  BY <1>1, <1>2, <1>3, <1>4, <1>5, RequestStep

LEMMA CleanupFailsStep == ASSUME IInv, NEW r \in Request, CleanupFails(r) PROVE IInv'
<1>. DEFINE q == [req[r] EXCEPT !.job = "done", !.outer = "none"]
<1>. req[r] \in RequestState /\ pool \in PoolState /\ r \in Adapter \cup {NoAdapter}
  BY DEF IInv, TypeOK, Adapter
<1>1. q \in RequestState
  BY Zenon DEF RequestState, Terminal
<1>2. req' = [req EXCEPT ![r] = q] /\ shut' = shut
  BY DEF IInv, TypeOK, CleanupFails, InCleanup
<1>3. pool' \in PoolState
  BY DEF PoolState, Adapter, CleanupFails, InCleanup
<1>4. Phase(q) /\ (q.outer = "cancelled" => req[r].outer = "cancelled")
  BY NoAdapterAssumption DEF IInv, Phases, Phase, RequestState, Terminal, Adapter, CleanupFails, InCleanup
<1>5. LeaseMove(r, q) /\ PermitMove(r, q)
  BY DEF IInv, Phases, Phase, RequestState, PoolState, LeaseMove, PermitMove, OwesPermit, Unborn, Terminal, CleanupFails, InCleanup
<1>. QED
  BY <1>1, <1>2, <1>3, <1>4, <1>5, RequestStep

LEMMA CleanupEndsStep == ASSUME IInv, NEW r \in Request, CleanupEnds(r) PROVE IInv'
<1>. DEFINE q == [req[r] EXCEPT !.outer = "none"]
<1>. req[r] \in RequestState /\ pool \in PoolState /\ r \in Adapter \cup {NoAdapter}
  BY DEF IInv, TypeOK, Adapter
<1>1. q \in RequestState
  BY Zenon DEF RequestState, Terminal
<1>2. req' = [req EXCEPT ![r] = q] /\ shut' = shut
  BY DEF IInv, TypeOK, CleanupEnds
<1>3. pool' \in PoolState
  BY DEF PoolState, Adapter, CleanupEnds
<1>4. Phase(q) /\ (q.outer = "cancelled" => req[r].outer = "cancelled")
  BY NoAdapterAssumption DEF IInv, Phases, Phase, RequestState, Terminal, Adapter, CleanupEnds
<1>5. LeaseMove(r, q) /\ PermitMove(r, q)
  BY DEF IInv, Phases, Phase, RequestState, PoolState, LeaseMove, PermitMove, OwesPermit, Unborn, Terminal, CleanupEnds
<1>. QED
  BY <1>1, <1>2, <1>3, <1>4, <1>5, RequestStep

LEMMA GetterServedStep == ASSUME IInv, NEW r \in Request, GetterServed(r) PROVE IInv'
<1>1. PICK a \in pool.idle :
        /\ req' = [req EXCEPT ![r].pc = "served", ![r].lease = a]
        /\ pool' = [pool EXCEPT !.idle = @ \ {a}]
  BY DEF GetterServed
<1>. DEFINE q == [req[r] EXCEPT !.pc = "served", !.lease = a]
<1>. req[r] \in RequestState /\ pool \in PoolState /\ a \in Adapter
  BY DEF IInv, TypeOK, PoolState
<1>2. q \in RequestState
  BY Zenon DEF RequestState, Terminal
<1>3. req' = [req EXCEPT ![r] = q] /\ shut' = shut /\ pool' \in PoolState
  BY <1>1 DEF GetterServed, IInv, TypeOK, PoolState
<1>4. Phase(q) /\ (q.outer = "cancelled" => req[r].outer = "cancelled")
  BY NoAdapterAssumption DEF IInv, Phases, Phase, RequestState, Terminal, Adapter, GetterServed
<1>5. LeaseMove(r, q) /\ PermitMove(r, q)
  BY <1>1 DEF IInv, Phases, Phase, RequestState, PoolState, LeaseMove, PermitMove, OwesPermit,
              Unborn, Terminal, GetterServed
<1>. QED
  BY <1>2, <1>3, <1>4, <1>5, RequestStep

\* What a request does with its permit, whether it queued for it or not.
LEMMA WithPermitStep ==
  ASSUME IInv, NEW r \in Request, req[r].pc \in {"new", "semWait"}, pool.permits > 0,
         NEW queue \in Seq(Request), WithPermit(r, queue), shut' = shut
  PROVE  IInv'
<1>. req[r] \in RequestState /\ pool \in PoolState /\ pool.permits - 1 \in Nat
  BY DEF IInv, TypeOK, PoolState
<1>1. ASSUME NEW a \in pool.idle,
             req' = [req EXCEPT ![r].pc = "using", ![r].lease = a],
             pool' = [pool EXCEPT !.permits = @ - 1, !.semQ = queue, !.idle = @ \ {a}]
      PROVE  IInv'
  <2>. DEFINE q == [req[r] EXCEPT !.pc = "using", !.lease = a]
  <2>. a \in Adapter /\ pool.idle \ {a} \in SUBSET Adapter
    BY DEF PoolState
  <2>1. q \in RequestState /\ pool' \in PoolState
    BY Zenon, <1>1 DEF RequestState, PoolState, Terminal
  <2>2. req' = [req EXCEPT ![r] = q]
    BY <1>1 DEF IInv, TypeOK
  <2>3. Phase(q) /\ (q.outer = "cancelled" => req[r].outer = "cancelled")
    BY NoAdapterAssumption DEF IInv, Phases, Phase, RequestState, Terminal, Adapter
  <2>4. LeaseMove(r, q) /\ PermitMove(r, q)
    BY <1>1 DEF IInv, Phases, Phase, RequestState, PoolState, LeaseMove, PermitMove, OwesPermit,
                Unborn, Terminal
  <2>. QED
    BY <2>1, <2>2, <2>3, <2>4, RequestStep
<1>2. ASSUME NEW pc \in {"waiting", "lockWait"},
             req' = [req EXCEPT ![r].pc = pc],
             pool' = [pool EXCEPT !.permits = @ - 1, !.semQ = queue]
      PROVE  IInv'
  <2>. DEFINE q == [req[r] EXCEPT !.pc = pc]
  <2>1. q \in RequestState /\ pool' \in PoolState
    BY Zenon, <1>2 DEF RequestState, PoolState, Terminal
  <2>2. req' = [req EXCEPT ![r] = q]
    BY <1>2 DEF IInv, TypeOK
  <2>3. Phase(q) /\ (q.outer = "cancelled" => req[r].outer = "cancelled")
    BY DEF IInv, Phases, Phase, RequestState, Terminal
  <2>4. LeaseMove(r, q) /\ PermitMove(r, q)
    BY <1>2 DEF IInv, Phases, Phase, RequestState, PoolState, LeaseMove, PermitMove, OwesPermit,
                Unborn, Terminal
  <2>. QED
    BY <2>1, <2>2, <2>3, <2>4, RequestStep
<1>3. ASSUME req' = [req EXCEPT ![r].pc = "connecting", ![r].conn = "running"],
             pool' = [pool EXCEPT !.permits = @ - 1, !.semQ = queue, !.connTasks = @ \cup {r}]
      PROVE  IInv'
  <2>. DEFINE q == [req[r] EXCEPT !.pc = "connecting", !.conn = "running"]
  <2>. pool.connTasks \cup {r} \in SUBSET Request
    BY DEF PoolState
  <2>1. q \in RequestState /\ pool' \in PoolState
    BY Zenon, <1>3 DEF RequestState, PoolState, Terminal
  <2>2. req' = [req EXCEPT ![r] = q]
    BY <1>3 DEF IInv, TypeOK
  <2>3. Phase(q) /\ (q.outer = "cancelled" => req[r].outer = "cancelled")
    BY DEF IInv, Phases, Phase, RequestState, Terminal
  <2>4. LeaseMove(r, q) /\ PermitMove(r, q)
    BY <1>3 DEF IInv, Phases, Phase, RequestState, PoolState, LeaseMove, PermitMove, OwesPermit,
                Unborn, Terminal
  <2>. QED
    BY <2>1, <2>2, <2>3, <2>4, RequestStep
<1>4. ASSUME req' = [req EXCEPT ![r].pc = "refused"], pool' = [pool EXCEPT !.semQ = queue]
      PROVE  IInv'
  <2>. DEFINE q == [req[r] EXCEPT !.pc = "refused"]
  <2>1. q \in RequestState /\ pool' \in PoolState
    BY Zenon, <1>4 DEF RequestState, PoolState, Terminal
  <2>2. req' = [req EXCEPT ![r] = q]
    BY <1>4 DEF IInv, TypeOK
  <2>3. Phase(q) /\ (q.outer = "cancelled" => req[r].outer = "cancelled")
    BY DEF IInv, Phases, Phase, RequestState, Terminal
  <2>4. LeaseMove(r, q) /\ PermitMove(r, q)
    BY <1>4 DEF IInv, Phases, Phase, RequestState, PoolState, LeaseMove, PermitMove, OwesPermit,
                Unborn, Terminal
  <2>. QED
    BY <2>1, <2>2, <2>3, <2>4, RequestStep
<1>. QED
  BY <1>1, <1>2, <1>3, <1>4 DEF WithPermit, Decide

LEMMA AcquirePermitStep == ASSUME IInv, NEW r \in Request, AcquirePermit(r) PROVE IInv'
<1>1. <<>> \in Seq(Request)
  OBVIOUS
<1>. QED
  BY <1>1, WithPermitStep DEF AcquirePermit

LEMMA ResumeWithPermitStep == ASSUME IInv, NEW r \in Request, ResumeWithPermit(r) PROVE IInv'
<1>1. Tail(pool.semQ) \in Seq(Request)
  BY DEF IInv, TypeOK, PoolState, ResumeWithPermit
<1>. QED
  BY <1>1, WithPermitStep DEF ResumeWithPermit

\* A request that joins or leaves the queue holds nothing.
LEMMA QueueStep ==
  ASSUME IInv, NEW r \in Request, req[r].pc \in {"new", "semWait"}, NEW pc \in {"semWait", "cancelled"},
         NEW queue \in Seq(Request), req' = [req EXCEPT ![r].pc = pc],
         pool' = [pool EXCEPT !.semQ = queue], shut' = shut
  PROVE  IInv'
<1>. DEFINE q == [req[r] EXCEPT !.pc = pc]
<1>. req[r] \in RequestState /\ pool \in PoolState
  BY DEF IInv, TypeOK
<1>1. q \in RequestState /\ pool' \in PoolState
  BY Zenon DEF RequestState, PoolState, Terminal
<1>2. req' = [req EXCEPT ![r] = q]
  BY DEF IInv, TypeOK
<1>3. Phase(q) /\ (q.outer = "cancelled" => req[r].outer = "cancelled")
  BY DEF IInv, Phases, Phase, RequestState, Terminal
<1>4. LeaseMove(r, q) /\ PermitMove(r, q)
  BY DEF IInv, Phases, Phase, RequestState, PoolState, LeaseMove, PermitMove, OwesPermit, Unborn,
         Terminal
<1>. QED
  BY <1>1, <1>2, <1>3, <1>4, RequestStep

LEMMA QueueForPermitStep == ASSUME IInv, NEW r \in Request, QueueForPermit(r) PROVE IInv'
<1>1. Append(pool.semQ, r) \in Seq(Request)
  BY DEF IInv, TypeOK, PoolState
<1>. QED
  BY <1>1, QueueStep DEF QueueForPermit

LEMMA CancelInQueueStep == ASSUME IInv, NEW r \in Request, CancelInQueue(r) PROVE IInv'
<1>1. PICK i \in 1..Len(pool.semQ) :
        pool' = [pool EXCEPT !.semQ = SubSeq(@, 1, i - 1) \o SubSeq(@, i + 1, Len(@))]
  BY DEF CancelInQueue
<1>2. SubSeq(pool.semQ, 1, i - 1) \o SubSeq(pool.semQ, i + 1, Len(pool.semQ)) \in Seq(Request)
  BY DEF IInv, TypeOK, PoolState
<1>. QED
  BY <1>1, <1>2, QueueStep DEF CancelInQueue

-----------------------------------------------------------------------------
(* Steps that move no adapter: close(), and what it cancels *)

\* A step that moves no adapter and changes nobody's debt preserves the invariant.
LEMMA FrameStep ==
  ASSUME IInv, TypeOK', pool'.idle = pool.idle,
         \A s \in Request :
           /\ Phase(req'[s]) /\ req'[s].lease = req[s].lease
           /\ Unborn(req'[s]) => Unborn(req[s])
           /\ OwesPermit(req'[s]) <=> OwesPermit(req[s])
           /\ req'[s].outer = "cancelled" => shut'.timedOut,
         shut.timedOut => shut'.timedOut,
         \/ pool'.permits = pool.permits
         \/ pool'.permits = pool.permits + 1 /\ shut'.timedOut
  PROVE  IInv'
<1>1. Phases' /\ CancelledLate'
  BY DEF Phases, CancelledLate
<1>2. NotOut' /\ LeaseExclusive'
  BY DEF IInv, NotOut, LeaseExclusive
<1>3. Holders' = Holders
  BY DEF Holders
<1>4. PermitsAccounted'
  BY <1>3, HoldersFinite, SizeAssumption DEF IInv, TypeOK, PoolState, PermitsAccounted
<1>. QED
  BY <1>1, <1>2, <1>4 DEF IInv

LEMMA CleanupCancelledStep == ASSUME IInv, NEW r \in Request, CleanupCancelled(r) PROVE IInv'
<1>. req[r] \in RequestState /\ pool \in PoolState /\ req \in [Request -> RequestState]
  BY DEF IInv, TypeOK
<1>1. pool' \in PoolState
  BY PermitBack DEF CleanupCancelled
<1>2. CASE req[r].job = "cleanup"
  <2>. DEFINE q == [req[r] EXCEPT !.outer = "none", !.job = "done"]
  <2>1. q \in RequestState
    BY Zenon DEF RequestState
  <2>2. req' = [req EXCEPT ![r] = q] /\ shut' = shut
    BY <1>2 DEF CleanupCancelled
  <2>3. Phase(q) /\ (q.outer = "cancelled" => req[r].outer = "cancelled")
    BY <1>2 DEF IInv, Phases, Phase, RequestState, Terminal
  <2>4. LeaseMove(r, q) /\ PermitMove(r, q)
    BY <1>2 DEF IInv, Phases, Phase, RequestState, PoolState, LeaseMove, PermitMove, OwesPermit,
                Unborn, CleanupCancelled
  <2>. QED
    BY <1>1, <2>1, <2>2, <2>3, <2>4, RequestStep
<1>3. CASE req[r].job # "cleanup"
  <2>. DEFINE q == [req[r] EXCEPT !.outer = "none"]
  <2>1. q \in RequestState
    BY Zenon DEF RequestState
  <2>2. req' = [req EXCEPT ![r] = q] /\ shut' = shut
    BY <1>3 DEF CleanupCancelled, RequestState
  <2>3. TypeOK'
    BY <1>1, <2>1, <2>2 DEF IInv, TypeOK
  <2>4. shut'.timedOut
    BY <2>2 DEF IInv, CancelledLate, CleanupCancelled
  <2>5. \A s \in Request :
          /\ req'[s].lease = req[s].lease
          /\ Unborn(req'[s]) => Unborn(req[s])
          /\ OwesPermit(req'[s]) <=> OwesPermit(req[s])
    BY <2>2 DEF RequestState, Unborn, OwesPermit
  <2>6. \A s \in Request : Phase(req'[s])
    BY <2>2 DEF IInv, Phases, Phase, RequestState
  <2>7. pool'.idle = pool.idle /\ pool'.permits = pool.permits + 1
    BY DEF PoolState, CleanupCancelled
  <2>. QED
    BY <2>3, <2>4, <2>5, <2>6, <2>7, FrameStep
<1>. QED
  BY <1>2, <1>3

\* The requests stay as they are.
LEMMA RequestsKept ==
  ASSUME IInv, TypeOK', req' = req, pool'.idle = pool.idle, pool'.permits = pool.permits,
         shut'.timedOut = shut.timedOut
  PROVE  IInv'
<1>1. \A s \in Request : Phase(req[s]) /\ (req[s].outer = "cancelled" => shut.timedOut)
  BY DEF IInv, Phases, CancelledLate
<1>. QED
  BY <1>1, FrameStep

LEMMA ForgetConnTaskStep == ASSUME IInv, NEW r \in Request, ForgetConnTask(r) PROVE IInv'
<1>1. TypeOK' /\ pool'.idle = pool.idle /\ pool'.permits = pool.permits
  BY DEF IInv, TypeOK, PoolState, ForgetConnTask
<1>. QED
  BY <1>1, RequestsKept DEF ForgetConnTask

\* Closing an adapter touches no lease, no permit and not the queue.
LEMMA CloseAdapterKeeps ==
  ASSUME IInv, NEW a \in Adapter, NEW mayFail, CloseAdapter(a, mayFail)
  PROVE  /\ pool' \in PoolState /\ pool'.idle = pool.idle /\ pool'.permits = pool.permits
         /\ pool'.all = pool.all /\ pool'.connTasks = pool.connTasks
         /\ pool.broken \subseteq pool'.broken
         /\ \/ pool'.live = pool.live \ {a}
            \/ pool'.live = pool.live /\ a \in pool'.broken
<1>. pool \in PoolState
  BY DEF IInv, TypeOK
<1>1. PICK open \in LeftOpen(a, mayFail) :
        pool' = [pool EXCEPT !.live = @ \ ({a} \ open), !.broken = @ \cup open]
  BY DEF CloseAdapter
<1>2. open \in SUBSET Adapter /\ open \subseteq {a}
  BY LeftOpenTyped
<1>3. open = {} \/ open = {a}
  BY <1>2
<1>. QED
  BY <1>1, <1>2, <1>3 DEF PoolState

LEMMA CloseOneStep ==
  ASSUME IInv, NEW a \in Adapter, CloseOne(a) \/ CancelCloseOne(a)
  PROVE  IInv'
<1>1. pool' \in PoolState /\ pool'.idle = pool.idle /\ pool'.permits = pool.permits
  BY CloseAdapterKeeps DEF CloseOne, CancelCloseOne
<1>2. shut' \in CloseState /\ shut'.timedOut = shut.timedOut
  <2>. shut \in CloseState
    BY DEF IInv, TypeOK
  <2>1. CASE CloseOne(a)
    BY <2>1 DEF CloseState, CloseOne
  <2>2. CASE CancelCloseOne(a)
    BY <2>2 DEF CloseState, CancelCloseOne
  <2>. QED
    BY <2>1, <2>2
<1>3. req' = req
  BY DEF CloseOne, CancelCloseOne
<1>. QED
  BY <1>1, <1>2, <1>3, RequestsKept DEF IInv, TypeOK

LEMMA AwaitCleanupStep == ASSUME IInv, AwaitCleanup \/ CancelAwaitCleanup PROVE IInv'
<1>1. TypeOK' /\ shut'.timedOut = shut.timedOut
  BY DEF IInv, TypeOK, CloseState, AwaitCleanup, CancelAwaitCleanup
<1>. QED
  BY <1>1, RequestsKept DEF AwaitCleanup, CancelAwaitCleanup

LEMMA CleanupDoneStep == ASSUME IInv, CleanupDone PROVE IInv'
<1>1. TypeOK' /\ shut'.timedOut = shut.timedOut
  BY DEF IInv, TypeOK, CloseState, CleanupDone
<1>. QED
  BY <1>1, RequestsKept DEF CleanupDone

LEMMA CloseStep == ASSUME IInv, Close PROVE IInv'
<1>. req \in [Request -> RequestState] /\ pool \in PoolState /\ shut \in CloseState
  BY DEF IInv, TypeOK
<1>. DEFINE at(s) == AfterClose(req[s].pc)
            conn(s) == IF s \in pool.connTasks /\ req[s].conn = "running"
                       THEN "cancelling" ELSE req[s].conn
            q(s) == [req[s] EXCEPT !.pc = at(s), !.conn = conn(s)]
<1>1. req' = [s \in Request |-> q(s)]
  BY DEF Close
<1>2. ASSUME NEW s \in Request PROVE q(s) \in RequestState
  <2>1. /\ at(s) \in {"new", "semWait", "lockWait", "connecting", "waiting", "unwaiting", "served",
                      "using", "releasing"} \cup Terminal
        /\ conn(s) \in {"none", "running", "cancelling", "ok", "failed", "cancelled"}
    BY DEF AfterClose, RequestState, Terminal
  <2>2. req[s] \in RequestState
    OBVIOUS
  <2>. HIDE DEF at, conn
  <2>. QED
    BY Zenon, <2>1, <2>2 DEF RequestState
<1>3. pool' \in PoolState /\ pool'.idle = pool.idle /\ pool'.permits = pool.permits
  BY DEF PoolState, Close
<1>4. shut' \in CloseState /\ shut'.timedOut = shut.timedOut
  <2>. DEFINE late == {r \in Request : req[r].outer \in {"cleanup", "release"}}
  <2>1. late \in SUBSET Request /\ pool.all \in SUBSET Adapter
    BY DEF PoolState
  <2>2. shut' = [shut EXCEPT !.at = "closing", !.toClose = pool.all, !.pending = late]
    BY DEF Close
  <2>. HIDE DEF late
  <2>. QED
    BY <2>1, <2>2 DEF CloseState
<1>5. \A s \in Request :
        /\ req'[s].lease = req[s].lease
        /\ Unborn(req'[s]) => Unborn(req[s])
        /\ OwesPermit(req'[s]) <=> OwesPermit(req[s])
        /\ req'[s].outer = req[s].outer
  BY <1>1 DEF RequestState, Unborn, OwesPermit, AfterClose
<1>6. ASSUME NEW s \in Request PROVE Phase(req'[s])
  <2>1. Phase(req[s]) /\ req[s] \in RequestState
    BY DEF IInv, Phases
  <2>2. req'[s] = q(s)
    BY <1>1
  <2>3. req'[s] = [req[s] EXCEPT !.pc = at(s), !.conn = conn(s)]
    BY <2>2
  <2>4. /\ req'[s].job = req[s].job /\ req'[s].outer = req[s].outer
        /\ req'[s].lease = req[s].lease
        /\ req'[s].pc = at(s) /\ req'[s].conn = conn(s)
    BY <2>1, <2>3 DEF RequestState
  <2>5. conn(s) \in {req[s].conn, "cancelling"} /\ (conn(s) # req[s].conn => req[s].conn = "running")
    OBVIOUS
  <2>6. at(s) = req[s].pc \/ (req[s].pc = "waiting" /\ at(s) = "unwaiting")
    BY DEF AfterClose
  <2>. HIDE DEF at, conn, q
  <2>. QED
    BY <2>1, <2>4, <2>5, <2>6 DEF Phase, Terminal
<1>7. TypeOK'
  BY <1>1, <1>2, <1>3, <1>4 DEF TypeOK
<1>8. \A s \in Request : req'[s].outer = "cancelled" => shut'.timedOut
  BY <1>4, <1>5 DEF IInv, CancelledLate
<1>. QED
  BY <1>3, <1>4, <1>5, <1>6, <1>7, <1>8, FrameStep

LEMMA CleanupTimeoutStep == ASSUME IInv, CleanupTimeout PROVE IInv'
<1>. req \in [Request -> RequestState] /\ shut \in CloseState
  BY DEF IInv, TypeOK
<1>. DEFINE outer(s) == IF s \notin StillPending THEN req[s].outer
                        ELSE IF req[s].outer = "cleanup" THEN "cancelled" ELSE "none"
            q(s) == [req[s] EXCEPT !.outer = outer(s)]
<1>1. req' = [s \in Request |-> q(s)]
  BY DEF CleanupTimeout
<1>2. ASSUME NEW s \in Request PROVE q(s) \in RequestState
  <2>1. outer(s) \in {"none", "client", "cleanup", "release", "cancelled"}
    BY DEF RequestState
  <2>. HIDE DEF outer
  <2>. QED
    BY Zenon, <2>1 DEF RequestState
<1>3. shut' \in CloseState /\ shut'.timedOut
  BY DEF CloseState, CleanupTimeout
<1>4. TypeOK'
  BY <1>1, <1>2, <1>3 DEF IInv, TypeOK, CleanupTimeout
<1>5. \A s \in Request :
        /\ req'[s].lease = req[s].lease
        /\ Unborn(req'[s]) => Unborn(req[s])
        /\ OwesPermit(req'[s]) <=> OwesPermit(req[s])
  BY <1>1 DEF RequestState, Unborn, OwesPermit
<1>6. \A s \in Request : Phase(req'[s])
  BY <1>1 DEF IInv, Phases, Phase, RequestState
<1>. QED
  BY <1>3, <1>4, <1>5, <1>6, FrameStep DEF CleanupTimeout

-----------------------------------------------------------------------------
(* The theorems *)

\* The pool as __init__ and preload leave it satisfies the invariant.
LEMMA InitInv == Init => IInv
<1>. SUFFICES ASSUME Init PROVE IInv
  OBVIOUS
<1>1. PICK preloaded \in SUBSET {Preloaded} :
        pool = [permits |-> Size, semQ |-> <<>>, idle |-> preloaded, all |-> preloaded,
                connTasks |-> {}, live |-> preloaded, broken |-> {}]
  BY DEF Init
<1>2. TypeOK
  BY <1>1, SizeAssumption DEF Init, TypeOK, PoolState, RequestState, CloseState, Adapter
<1>3. Phases /\ CancelledLate
  BY DEF Init, Phases, Phase, CancelledLate, Terminal
<1>4. NotOut /\ LeaseExclusive
  BY <1>1, PreloadedAssumption, NoAdapterAssumption DEF Init, NotOut, LeaseExclusive
<1>5. PermitsAccounted
  <2>1. Holders = {}
    BY DEF Init, Holders, OwesPermit
  <2>. QED
    BY <1>1, <2>1, FS_EmptySet, SizeAssumption DEF PermitsAccounted
<1>. QED
  BY <1>2, <1>3, <1>4, <1>5 DEF IInv

\* Every action, and stuttering, preserves it.
LEMMA NextInv == IInv /\ [Next]_vars => IInv'
<1>. SUFFICES ASSUME IInv, [Next]_vars PROVE IInv'
  OBVIOUS
<1>1. ASSUME NEW r \in Request, Arrive(r) PROVE IInv'
  BY <1>1, RefuseStep, AcquirePermitStep, QueueForPermitStep DEF Arrive
<1>2. ASSUME NEW r \in Request, Progress(r) PROVE IInv'
  BY <1>2, ResumeWithPermitStep, ResumeWithLockStep, ConnectedStep, ConnectFailsStep,
     ConnectCancelledStep, ForgetConnTaskStep, RegisterStep, SeeConnectFailedStep,
     SeeConnectCancelledStep, GetterServedStep, TakeServedStep, SeeGetterCancelledStep, PutBackStep,
     StartClosingStep, ReleaseClosedStep, FinishReleaseStep, CleanupRegistersStep, CleanupFailsStep,
     CleanupEndsStep, CleanupCancelledStep DEF Progress
<1>3. ASSUME NEW r \in Request, Cancel(r) PROVE IInv'
  BY <1>3, CancelInQueueStep, CancelLockWaitStep, CancelConnectingStep, CancelWaitingStep,
     CancelServedStep, CancelReleasingStep DEF Cancel
<1>4. ASSUME CloseProgress PROVE IInv'
  BY <1>4, CloseOneStep, AwaitCleanupStep, CleanupDoneStep DEF CloseProgress
<1>5. CASE UNCHANGED vars
  BY <1>5, RequestsKept DEF vars, IInv, TypeOK
<1>6. ASSUME CancelClose PROVE IInv'
  BY <1>6, CloseOneStep, AwaitCleanupStep DEF CancelClose
<1>. QED
  BY <1>1, <1>2, <1>3, <1>4, <1>5, <1>6, EndUseStep, CloseStep, CleanupTimeoutStep DEF Next

\* So it holds in every reachable state.
LEMMA Invariance == Spec => []IInv
BY InitInv, NextInv, PTL DEF Spec

\* The variables keep their types: no free permit is taken that is not there,
\* no request reaches a state _acquire does not have.
THEOREM TypeCorrect == Spec => []TypeOK
<1>1. IInv => TypeOK
  BY DEF IInv
<1>. QED
  BY <1>1, Invariance, PTL

\* No adapter is ever in the hands of two requests, or of one and of the queue
\* (the single-owner contract of adapters/base.py), whatever is cancelled or
\* closed in between.
THEOREM ExclusiveLeases == Spec => []LeaseExclusive
<1>1. IInv => LeaseExclusive
  BY DEF IInv
<1>. QED
  BY <1>1, Invariance, PTL

\* No path through _acquire, _release, _cleanup and close() loses a permit, and
\* none returns one twice unless close() gave up on a cleanup task.
THEOREM PermitsConserved == Spec => []PermitsAccounted
<1>1. IInv => PermitsAccounted
  BY DEF IInv
<1>. QED
  BY <1>1, Invariance, PTL

-----------------------------------------------------------------------------
(* Connections: how many there are, and who answers for each *)

Growing(q) == q.pc = "connecting" \/ q.job = "cleanup"

\* What a connection task has to do with its connection and its request.
Made ==
  \A r \in Request :
    /\ r \in pool.live => req[r].conn = "ok"
    /\ req[r].conn = "running" => r \in pool.connTasks
    /\ ~shut.timedOut /\ req[r].conn \in {"running", "cancelling"} => Growing(req[r])
Shutting == (closed => pool.connTasks = {}) /\ (shut.timedOut => closed)

\* Until it is closed the pool registers every adapter that is idle or lent, all
\* of them are connected, and there are no other connections but new ones.
Housed ==
  ~closed =>
    /\ pool.idle \subseteq pool.all \cap pool.live
    /\ \A r \in Request :
         /\ req[r].lease # NoAdapter => req[r].lease \in pool.all \cap pool.live
         /\ req[r].job # "closing"
         /\ req[r].conn = "ok" => r \in pool.live
    /\ \A a \in pool.live :
         \/ a \in pool.idle
         \/ \E r \in Request : req[r].lease = a
         \/ a \in Request /\ Growing(req[a])

ConnInv == Made /\ Shutting /\ Housed /\ NoOrphan /\ BoundedConnections

\* A step of the pool as its clients see it.
PromiseKept == Promise!Next \/ UNCHANGED Promise!vars

\* The requests whose connection is under way, and the open connections, can be counted.
LEMMA ConnectionsFinite ==
  ASSUME TypeOK
  PROVE  /\ IsFiniteSet(Connecting) /\ Cardinality(Connecting) \in Nat
         /\ IsFiniteSet(pool.live) /\ Cardinality(pool.live) \in Nat
<1>1. IsFiniteSet(Request \cup {Preloaded})
  BY RequestAssumption, FS_AddElement
<1>2. Connecting \in SUBSET (Request \cup {Preloaded}) /\ pool.live \in SUBSET (Request \cup {Preloaded})
  BY DEF Connecting, TypeOK, PoolState, Adapter
<1>. QED
  BY <1>1, <1>2, FS_Subset, FS_CardinalityType

\* Fewer of each is fewer in all.
LEMMA FewerConnections ==
  ASSUME TypeOK, BoundedConnections, pool'.live \subseteq pool.live, Connecting' \subseteq Connecting
  PROVE  BoundedConnections'
<1>1. Cardinality(pool'.live) <= Cardinality(pool.live) /\ Cardinality(pool'.live) \in Nat
  BY ConnectionsFinite, FS_Subset, FS_CardinalityType
<1>2. Cardinality(Connecting') <= Cardinality(Connecting) /\ Cardinality(Connecting') \in Nat
  BY ConnectionsFinite, FS_Subset, FS_CardinalityType
<1>. QED
  BY <1>1, <1>2, ConnectionsFinite, SizeAssumption DEF BoundedConnections

\* What a step may do to the record of a request without making, lending,
\* returning or closing a connection.
Quiet(r) ==
  /\ req'[r].lease = req[r].lease
  /\ \/ req'[r].conn = req[r].conn
     \/ req[r].conn # "ok" /\ req'[r].conn \in {"failed", "cancelled"}
  /\ req'[r].job = "closing" => closed \/ req[r].job = "closing"
  /\ ~shut'.timedOut /\ Growing(req[r]) =>
       Growing(req'[r]) \/ req'[r].conn \in {"failed", "cancelled"}

LEMMA QuietStep ==
  ASSUME IInv, IInv', ConnInv, \A r \in Request : Quiet(r),
         pool'.idle = pool.idle, pool'.live = pool.live,
         pool'.broken = pool.broken, shut.skipped \subseteq shut'.skipped,
         \/ pool'.all = pool.all
         \/ closed /\ \E r \in Request : pool'.all = pool.all \ {req[r].lease},
         pool'.connTasks \subseteq pool.connTasks,
         \A r \in pool.connTasks \ pool'.connTasks : req'[r].conn # "running",
         closed' = closed, shut'.toClose = shut.toClose,
         shut.timedOut => shut'.timedOut, shut'.timedOut => closed
  PROVE  ConnInv' /\ PromiseKept
<1>. Abandoned \subseteq Abandoned'
  BY DEF Abandoned
<1>1. Made'
  BY DEF ConnInv, Made, Quiet
<1>2. Shutting'
  BY DEF ConnInv, Shutting
<1>3. Housed'
  <2>. SUFFICES ASSUME ~closed PROVE Housed'
    BY DEF Housed
  <2>1. ~shut'.timedOut
    OBVIOUS
  <2>2. \A a \in pool.live : a \in Request => req'[a].conn \notin {"failed", "cancelled"}
    BY DEF ConnInv, Made, Quiet
  <2>. QED
    BY <2>1, <2>2 DEF ConnInv, Housed, Quiet
<1>4. NoOrphan'
  <2>. SUFFICES ASSUME ~shut'.timedOut, NEW a \in pool.live, a \notin Abandoned
                PROVE  Accounted(a)'
    BY DEF NoOrphan
  <2>1. Accounted(a)
    BY DEF ConnInv, NoOrphan
  <2>2. a \in Request => req'[a].conn \notin {"failed", "cancelled"}
    BY DEF ConnInv, Made, Quiet
  <2>. QED
    BY <2>1, <2>2 DEF Accounted, Quiet, Growing
<1>5. BoundedConnections'
  <2>1. Connecting' \subseteq Connecting
    BY DEF Connecting, Quiet
  <2>. QED
    BY <2>1, FewerConnections DEF IInv, ConnInv
<1>6. UNCHANGED Promise!vars
  BY DEF Promise!vars, Quiet
<1>. QED
  BY <1>1, <1>2, <1>3, <1>4, <1>5, <1>6 DEF ConnInv, PromiseKept

\* The close state does not change.
LEMMA ShutKept ==
  shut' = shut => /\ closed' = closed /\ shut'.toClose = shut.toClose
                  /\ shut'.timedOut = shut.timedOut /\ shut'.skipped = shut.skipped
BY DEF closed

\* A request is lent an adapter that was idle.
LEMMA LendStep ==
  ASSUME IInv, IInv', ConnInv, NEW r \in Request, NEW a \in pool.idle,
         req[r].lease = NoAdapter, req'[r].lease = a,
         req'[r].conn = req[r].conn, req'[r].job = req[r].job, ~Growing(req[r]), ~Growing(req'[r]),
         \A s \in Request \ {r} : req'[s] = req[s],
         pool'.idle = pool.idle \ {a}, pool'.all = pool.all, pool'.live = pool.live,
         pool'.connTasks = pool.connTasks, pool'.broken = pool.broken, shut' = shut
  PROVE  ConnInv' /\ PromiseKept
<1>. a \in Adapter /\ a # NoAdapter
  BY NoAdapterAssumption DEF IInv, TypeOK, PoolState, Adapter
<1>. closed' = closed /\ shut'.toClose = shut.toClose /\ shut'.timedOut = shut.timedOut
  BY ShutKept
<1>. Abandoned \subseteq Abandoned'
  BY ShutKept DEF Abandoned
<1>1. \A s \in Request :
        /\ req'[s].conn = req[s].conn /\ req'[s].job = req[s].job
        /\ Growing(req'[s]) <=> Growing(req[s])
        /\ req'[s].lease # req[s].lease => s = r
  <2>. SUFFICES ASSUME NEW s \in Request
                PROVE  /\ req'[s].conn = req[s].conn /\ req'[s].job = req[s].job
                       /\ Growing(req'[s]) <=> Growing(req[s])
                       /\ req'[s].lease # req[s].lease => s = r
    OBVIOUS
  <2>1. CASE s = r
    BY <2>1
  <2>2. CASE s # r
    BY <2>2 DEF Growing
  <2>. QED
    BY <2>1, <2>2
<1>2. Made' /\ Shutting'
  BY <1>1 DEF ConnInv, Made, Shutting
<1>3. Housed'
  <2>. SUFFICES ASSUME ~closed PROVE Housed'
    BY DEF Housed
  <2>1. pool.idle \subseteq pool.all \cap pool.live
    BY DEF ConnInv, Housed
  <2>2. \A s \in Request : req'[s].lease # NoAdapter => req'[s].lease \in pool.all \cap pool.live
    BY <2>1 DEF ConnInv, Housed
  <2>3. \A s \in Request : req'[s].job # "closing" /\ (req'[s].conn = "ok" => s \in pool.live)
    BY <1>1 DEF ConnInv, Housed
  <2>4. ASSUME NEW b \in pool.live
        PROVE  \/ b \in pool'.idle
               \/ \E s \in Request : req'[s].lease = b
               \/ b \in Request /\ Growing(req'[b])
    <3>1. b # NoAdapter
      BY NoAdapterAssumption DEF IInv, TypeOK, PoolState, Adapter
    <3>2. \/ b \in pool.idle
          \/ \E s \in Request : req[s].lease = b
          \/ b \in Request /\ Growing(req[b])
      BY DEF ConnInv, Housed
    <3>. QED
      BY <1>1, <3>1, <3>2
  <2>. QED
    BY <2>1, <2>2, <2>3, <2>4 DEF Housed
<1>4. NoOrphan'
  <2>. SUFFICES ASSUME ~shut.timedOut, NEW b \in pool.live, b \notin Abandoned
                PROVE  Accounted(b)'
    BY DEF NoOrphan
  <2>1. Accounted(b) /\ b # NoAdapter
    BY NoAdapterAssumption DEF ConnInv, NoOrphan, IInv, TypeOK, PoolState, Adapter
  <2>. QED
    BY <1>1, <2>1 DEF Accounted, Growing
<1>5. BoundedConnections'
  <2>1. Connecting' = Connecting
    BY <1>1 DEF Connecting
  <2>. QED
    BY <2>1, FewerConnections DEF IInv, ConnInv
<1>6. Promise!Lend(r, a)
  <2>1. [s \in Request |-> req'[s].lease] = [[s \in Request |-> req[s].lease] EXCEPT ![r] = a]
    OBVIOUS
  <2>2. \A s \in Request : req[s].lease # a
    BY DEF IInv, LeaseExclusive
  <2>3. closed \/ a \in pool.live
    BY DEF ConnInv, Housed
  <2>. QED
    BY <2>1, <2>2, <2>3 DEF Promise!Lend, Promise!Free
<1>. QED
  BY <1>2, <1>3, <1>4, <1>5, <1>6 DEF ConnInv, PromiseKept, Promise!Next

\* A request, or its cleanup, registers the connection that its task made.
LEMMA RegisteredStep ==
  ASSUME IInv, IInv', ConnInv, NEW r \in Request, Growing(req[r]), req[r].conn = "ok",
         req'[r].lease = r, req'[r].conn = "ok", req'[r].job # "closing",
         \A s \in Request \ {r} : req'[s] = req[s],
         pool'.all = pool.all \cup {r}, pool'.idle = pool.idle, pool'.live = pool.live,
         pool'.connTasks = pool.connTasks, pool'.broken = pool.broken, shut' = shut
  PROVE  ConnInv' /\ PromiseKept
<1>. r # NoAdapter /\ r \in Adapter
  BY NoAdapterAssumption DEF Adapter
<1>. closed' = closed /\ shut'.toClose = shut.toClose /\ shut'.timedOut = shut.timedOut
  BY ShutKept
<1>. Abandoned \subseteq Abandoned'
  BY ShutKept DEF Abandoned
<1>1. req[r].lease = NoAdapter /\ \A s \in Request : req[s].lease # r
  BY DEF IInv, NotOut, Unborn, Growing, Phases, Phase
<1>2. \A s \in Request : /\ req'[s].conn = req[s].conn
                          /\ s # r => req'[s] = req[s]
  OBVIOUS
<1>3. Made' /\ Shutting'
  BY <1>2 DEF ConnInv, Made, Shutting
<1>4. Housed'
  <2>. SUFFICES ASSUME ~closed PROVE Housed'
    BY DEF Housed
  <2>1. pool.idle \subseteq pool'.all \cap pool.live /\ r \in pool.live
    BY DEF ConnInv, Housed
  <2>2. \A s \in Request : req'[s].lease # NoAdapter => req'[s].lease \in pool'.all \cap pool.live
    BY <2>1 DEF ConnInv, Housed
  <2>3. \A s \in Request : req'[s].job # "closing" /\ (req'[s].conn = "ok" => s \in pool.live)
    BY <1>2 DEF ConnInv, Housed
  <2>4. ASSUME NEW b \in pool.live
        PROVE  \/ b \in pool'.idle
               \/ \E s \in Request : req'[s].lease = b
               \/ b \in Request /\ Growing(req'[b])
    <3>1. b # NoAdapter
      BY NoAdapterAssumption DEF IInv, TypeOK, PoolState, Adapter
    <3>2. \/ b \in pool.idle
          \/ \E s \in Request : req[s].lease = b
          \/ b \in Request /\ Growing(req[b])
      BY DEF ConnInv, Housed
    <3>. QED
      BY <1>1, <3>1, <3>2
  <2>. QED
    BY <2>1, <2>2, <2>3, <2>4 DEF Housed
<1>5. NoOrphan'
  <2>. SUFFICES ASSUME ~shut.timedOut, NEW b \in pool.live, b \notin Abandoned
                PROVE  Accounted(b)'
    BY DEF NoOrphan
  <2>1. Accounted(b) /\ b # NoAdapter
    BY NoAdapterAssumption DEF ConnInv, NoOrphan, IInv, TypeOK, PoolState, Adapter
  <2>. QED
    BY <1>1, <2>1 DEF Accounted
<1>6. BoundedConnections'
  <2>1. Connecting' = Connecting
    BY <1>2 DEF Connecting
  <2>. QED
    BY <2>1, FewerConnections DEF IInv, ConnInv
<1>7. Promise!Lend(r, r)
  <2>1. [s \in Request |-> req'[s].lease] = [[s \in Request |-> req[s].lease] EXCEPT ![r] = r]
    OBVIOUS
  <2>2. closed \/ r \in pool.live
    BY DEF ConnInv, Housed
  <2>. QED
    BY <1>1, <2>1, <2>2 DEF Promise!Lend, Promise!Free
<1>. QED
  BY <1>3, <1>4, <1>5, <1>6, <1>7 DEF ConnInv, PromiseKept, Promise!Next

\* An adapter comes back: to the queue while the pool is open, to be closed after.
LEMMA ReturnStep ==
  ASSUME IInv, IInv', ConnInv, NEW r \in Request,
         req[r].lease # NoAdapter, req'[r].lease = NoAdapter,
         req'[r].conn = req[r].conn, req'[r].job # "closing", ~Growing(req[r]), ~Growing(req'[r]),
         \A s \in Request \ {r} : req'[s] = req[s],
         \/ ~closed /\ pool'.idle = pool.idle \cup {req[r].lease} /\ pool'.live = pool.live
         \/ /\ closed /\ pool'.idle = pool.idle
            /\ \/ pool'.live = pool.live \ {req[r].lease}
               \/ pool'.live = pool.live /\ req[r].lease \in pool'.broken,
         pool'.all = pool.all, pool'.connTasks = pool.connTasks, shut' = shut,
         pool.broken \subseteq pool'.broken
  PROVE  ConnInv' /\ PromiseKept
<1>. DEFINE a == req[r].lease
<1>. closed' = closed /\ shut'.toClose = shut.toClose /\ shut'.timedOut = shut.timedOut
  BY ShutKept
<1>. Abandoned \subseteq Abandoned'
  BY ShutKept DEF Abandoned
<1>1. \A s \in Request : s # r => req'[s] = req[s]
  OBVIOUS
<1>2. \A s \in Request : req'[s].conn = req[s].conn
  BY <1>1
<1>3. \A s \in Request : Growing(req[s]) => Growing(req'[s])
  BY <1>1
<1>4. Made' /\ Shutting'
  BY <1>2, <1>3 DEF ConnInv, Made, Shutting
<1>5. Housed'
  <2>. SUFFICES ASSUME ~closed PROVE Housed'
    BY DEF Housed
  <2>1. pool'.idle = pool.idle \cup {a} /\ pool'.live = pool.live
    OBVIOUS
  <2>2. pool'.idle \subseteq pool.all \cap pool.live
    BY <2>1 DEF ConnInv, Housed
  <2>3. \A s \in Request : req'[s].lease # NoAdapter => req'[s].lease \in pool.all \cap pool.live
    BY <1>1 DEF ConnInv, Housed
  <2>4. \A s \in Request : req'[s].job # "closing" /\ (req'[s].conn = "ok" => s \in pool.live)
    BY <1>1, <1>2 DEF ConnInv, Housed
  <2>5. ASSUME NEW b \in pool.live
        PROVE  \/ b \in pool'.idle
               \/ \E s \in Request : req'[s].lease = b
               \/ b \in Request /\ Growing(req'[b])
    <3>1. \/ b \in pool.idle
          \/ \E s \in Request : req[s].lease = b
          \/ b \in Request /\ Growing(req[b])
      BY DEF ConnInv, Housed
    <3>. QED
      BY <1>1, <1>3, <2>1, <3>1
  <2>. QED
    BY <2>1, <2>2, <2>3, <2>4, <2>5 DEF Housed
<1>6. NoOrphan'
  <2>. SUFFICES ASSUME ~shut.timedOut, NEW b \in pool'.live, b \notin Abandoned'
                PROVE  Accounted(b)'
    BY DEF NoOrphan
  <2>1. Accounted(b)
    BY DEF ConnInv, NoOrphan
  <2>2. b # a \/ a \in pool.all
    BY DEF ConnInv, Housed, Abandoned
  <2>3. b \in Request /\ Growing(req[b]) => Growing(req'[b])
    BY <1>3
  <2>. QED
    BY <1>1, <2>1, <2>2, <2>3 DEF Accounted, Growing
<1>7. BoundedConnections'
  <2>1. Connecting' = Connecting
    BY <1>2 DEF Connecting
  <2>. QED
    BY <2>1, FewerConnections DEF IInv, ConnInv
<1>8. Promise!Return(r)
  <2>1. [s \in Request |-> req'[s].lease] = [[s \in Request |-> req[s].lease] EXCEPT ![r] = NoAdapter]
    BY <1>1
  <2>. QED
    BY <2>1 DEF Promise!Return
<1>. QED
  BY <1>4, <1>5, <1>6, <1>7, <1>8 DEF ConnInv, PromiseKept, Promise!Next

\* While the pool is open and no adapter is idle, every connection, open or
\* under way, belongs to a request that owes a permit, and no two to the same.
LEMMA OnePermitEach ==
  ASSUME IInv, ConnInv, ~closed, pool.idle = {}
  PROVE  Cardinality(pool.live) + Cardinality(Connecting) <= Cardinality(Holders)
<1>. DEFINE f == [r \in Holders |-> IF req[r].lease # NoAdapter THEN req[r].lease ELSE r]
            Image == {f[r] : r \in Holders}
<1>. req \in [Request -> RequestState] /\ ~shut.timedOut
  BY DEF IInv, TypeOK, ConnInv, Shutting
<1>1. \A r \in Request : req[r].lease # NoAdapter => r \in Holders
  <2>. SUFFICES ASSUME NEW r \in Request, req[r].lease # NoAdapter PROVE OwesPermit(req[r])
    BY DEF Holders
  <2>. req[r] \in RequestState /\ Phase(req[r])
    BY DEF IInv, Phases
  <2>. QED
    BY DEF Phase, OwesPermit, RequestState, Terminal
<1>2. \A r \in Request : Growing(req[r]) => r \in Holders /\ req[r].lease = NoAdapter
  BY DEF Holders, OwesPermit, Growing, IInv, Phases, Phase
<1>3. pool.live \subseteq Image
  <2>. SUFFICES ASSUME NEW a \in pool.live PROVE a \in Image
    OBVIOUS
  <2>1. \/ \E r \in Request : req[r].lease = a
        \/ a \in Request /\ Growing(req[a])
    BY DEF ConnInv, Housed
  <2>2. a # NoAdapter
    BY NoAdapterAssumption DEF IInv, TypeOK, PoolState, Adapter
  <2>. QED
    BY <1>1, <1>2, <2>1, <2>2
<1>4. Connecting \subseteq Image
  <2>. SUFFICES ASSUME NEW c \in Connecting PROVE c \in Image
    OBVIOUS
  <2>1. c \in Request /\ Growing(req[c])
    BY DEF Connecting, ConnInv, Made
  <2>2. c \in Holders /\ f[c] = c
    BY <1>2, <2>1
  <2>. QED
    BY <2>2
<1>5. IsFiniteSet(Image) /\ Cardinality(Image) <= Cardinality(Holders)
  <2>1. f \in Surjection(Holders, Image)
    BY DEF Surjection
  <2>. QED
    BY <2>1, HoldersFinite, FS_Surjection
<1>6. pool.live \cap Connecting = {}
  BY DEF Connecting, ConnInv, Made
<1>7. Cardinality(pool.live \cup Connecting) = Cardinality(pool.live) + Cardinality(Connecting)
  <2>1. Cardinality(pool.live \cap Connecting) = 0
    BY <1>6, FS_EmptySet
  <2>2. Cardinality(pool.live \cup Connecting)
          = Cardinality(pool.live) + Cardinality(Connecting) - Cardinality(pool.live \cap Connecting)
    BY ConnectionsFinite, FS_Union DEF IInv
  <2>. QED
    BY <2>1, <2>2, ConnectionsFinite DEF IInv
<1>8. Cardinality(pool.live \cup Connecting) <= Cardinality(Image)
  BY <1>3, <1>4, <1>5, FS_Subset
<1>9. Cardinality(Image) \in Nat /\ Cardinality(pool.live \cup Connecting) \in Nat
  BY <1>5, <1>3, <1>4, FS_Subset, FS_CardinalityType
<1>. QED
  BY <1>5, <1>7, <1>8, <1>9, HoldersFinite, ConnectionsFinite DEF IInv

\* A request starts to build a connection because no adapter is idle.
LEMMA BuildStep ==
  ASSUME IInv, IInv', ConnInv, NEW r \in Request,
         req[r].pc \in {"new", "semWait"}, pool.permits > 0, pool.idle = {}, ~closed,
         req'[r].pc = "connecting", req'[r].conn = "running", req'[r].lease = req[r].lease,
         req'[r].job = req[r].job, \A s \in Request \ {r} : req'[s] = req[s],
         pool'.idle = pool.idle, pool'.all = pool.all, pool'.live = pool.live,
         pool'.connTasks = pool.connTasks \cup {r}, pool'.broken = pool.broken, shut' = shut
  PROVE  ConnInv' /\ PromiseKept
<1>. closed' = closed /\ shut'.toClose = shut.toClose /\ shut'.timedOut = shut.timedOut
  BY ShutKept
<1>. Abandoned \subseteq Abandoned'
  BY ShutKept DEF Abandoned
<1>. ~shut.timedOut /\ pool.permits \in Nat
  BY DEF IInv, TypeOK, PoolState, ConnInv, Shutting
<1>1. req[r].conn = "none" /\ ~Growing(req[r]) /\ Growing(req'[r])
  BY DEF IInv, Phases, Phase, Growing
<1>2. \A s \in Request : s # r => req'[s] = req[s]
  OBVIOUS
<1>3. \A s \in Request : Growing(req[s]) => Growing(req'[s])
  BY <1>1, <1>2
<1>4. r \notin pool.live
  BY <1>1 DEF ConnInv, Made
<1>5. Made' /\ Shutting'
  BY <1>1, <1>2, <1>4 DEF ConnInv, Made, Shutting
<1>6. Housed'
  <2>1. pool.idle \subseteq pool.all \cap pool.live
    BY DEF ConnInv, Housed
  <2>2. \A s \in Request : req'[s].lease = req[s].lease
    BY <1>2
  <2>3. \A s \in Request : req'[s].lease # NoAdapter => req'[s].lease \in pool.all \cap pool.live
    BY <2>2 DEF ConnInv, Housed
  <2>4. \A s \in Request : req'[s].job # "closing" /\ (req'[s].conn = "ok" => s \in pool.live)
    BY <1>2 DEF ConnInv, Housed
  <2>5. ASSUME NEW b \in pool.live
        PROVE  \/ b \in pool'.idle
               \/ \E s \in Request : req'[s].lease = b
               \/ b \in Request /\ Growing(req'[b])
    <3>1. \/ b \in pool.idle
          \/ \E s \in Request : req[s].lease = b
          \/ b \in Request /\ Growing(req[b])
      BY DEF ConnInv, Housed
    <3>. QED
      BY <1>3, <2>2, <3>1
  <2>. QED
    BY <2>1, <2>3, <2>4, <2>5 DEF Housed
<1>7. NoOrphan'
  <2>. SUFFICES ASSUME NEW b \in pool.live, b \notin Abandoned PROVE Accounted(b)'
    BY DEF NoOrphan
  <2>1. Accounted(b)
    BY DEF ConnInv, NoOrphan
  <2>2. b \in Request /\ Growing(req[b]) => Growing(req'[b])
    BY <1>3
  <2>3. \A s \in Request : req'[s].lease = req[s].lease
    BY <1>2
  <2>. QED
    BY <2>1, <2>2, <2>3 DEF Accounted, Growing
<1>8. BoundedConnections'
  <2>1. Cardinality(pool.live) + Cardinality(Connecting) < Size
    BY OnePermitEach, ConnectionsFinite, HoldersFinite, SizeAssumption DEF IInv, PermitsAccounted
  <2>2. r \notin Connecting /\ Connecting' = Connecting \cup {r}
    BY <1>1, <1>2 DEF Connecting
  <2>3. Cardinality(Connecting') = Cardinality(Connecting) + 1
    BY <2>2, ConnectionsFinite, FS_AddElement DEF IInv
  <2>. QED
    BY <2>1, <2>3, ConnectionsFinite, SizeAssumption DEF IInv, BoundedConnections
<1>9. UNCHANGED Promise!vars
  <2>1. \A s \in Request : req'[s].lease = req[s].lease
    BY <1>2
  <2>. QED
    BY <2>1 DEF Promise!vars
<1>. QED
  BY <1>5, <1>6, <1>7, <1>8, <1>9 DEF ConnInv, PromiseKept

\* The library's cardinality is the abstract specification's.
LEMMA PromiseCardinality == \A S : Promise!Cardinality(S) = Cardinality(S)
BY DEF Promise!Cardinality, Cardinality

\* A connection task succeeds: its pool is open, for close() would have cancelled it.
LEMMA MadeStep == ASSUME IInv, IInv', ConnInv, NEW r \in Request, Connected(r)
                  PROVE  ConnInv' /\ PromiseKept
<1>. req[r] \in RequestState /\ pool \in PoolState /\ req \in [Request -> RequestState]
  BY DEF IInv, TypeOK
<1>. /\ pool'.live = pool.live \cup {r} /\ pool'.idle = pool.idle /\ pool'.all = pool.all
     /\ pool'.connTasks = pool.connTasks /\ shut' = shut /\ req[r].conn = "running"
     /\ pool'.broken = pool.broken
  BY DEF PoolState, Connected
<1>. closed' = closed /\ shut'.toClose = shut.toClose /\ shut'.timedOut = shut.timedOut
  BY ShutKept
<1>. Abandoned \subseteq Abandoned'
  BY ShutKept DEF Abandoned
<1>1. /\ req'[r].conn = "ok" /\ req'[r].pc = req[r].pc /\ req'[r].job = req[r].job
      /\ req'[r].lease = req[r].lease
      /\ \A s \in Request : s # r => req'[s] = req[s]
  BY DEF RequestState, Connected
<1>2. ~closed /\ ~shut.timedOut /\ Growing(req[r])
  BY DEF ConnInv, Made, Shutting
<1>3. \A s \in Request : Growing(req[s]) => Growing(req'[s])
  BY <1>1 DEF Growing
<1>4. \A s \in Request : req'[s].lease = req[s].lease /\ req'[s].job = req[s].job
  BY <1>1
<1>5. Made' /\ Shutting'
  BY <1>1, <1>3 DEF ConnInv, Made, Shutting
<1>6. Housed'
  <2>1. pool.idle \subseteq pool.all \cap pool'.live
    BY <1>2 DEF ConnInv, Housed
  <2>2. \A s \in Request : req'[s].lease # NoAdapter => req'[s].lease \in pool.all \cap pool'.live
    BY <1>4, <1>2 DEF ConnInv, Housed
  <2>3. \A s \in Request : req'[s].job # "closing" /\ (req'[s].conn = "ok" => s \in pool'.live)
    <3>1. \A s \in Request : req[s].job # "closing" /\ (req[s].conn = "ok" => s \in pool.live)
      BY <1>2 DEF ConnInv, Housed
    <3>. QED
      BY <1>1, <1>4, <3>1
  <2>4. ASSUME NEW b \in pool'.live
        PROVE  \/ b \in pool'.idle
               \/ \E s \in Request : req'[s].lease = b
               \/ b \in Request /\ Growing(req'[b])
    <3>1. CASE b = r
      BY <1>2, <1>3, <3>1
    <3>2. CASE b # r
      <4>1. \/ b \in pool.idle
            \/ \E s \in Request : req[s].lease = b
            \/ b \in Request /\ Growing(req[b])
        BY <1>2, <3>2 DEF ConnInv, Housed
      <4>. QED
        BY <1>3, <1>4, <4>1
    <3>. QED
      BY <3>1, <3>2
  <2>. QED
    BY <2>1, <2>2, <2>3, <2>4 DEF Housed
<1>7. NoOrphan'
  <2>. SUFFICES ASSUME NEW b \in pool'.live, b \notin Abandoned PROVE Accounted(b)'
    BY DEF NoOrphan
  <2>1. CASE b = r
    BY <1>2, <1>3, <2>1 DEF Accounted, Growing
  <2>2. CASE b # r
    <3>1. Accounted(b)
      BY <1>2, <2>2 DEF ConnInv, NoOrphan
    <3>2. b \in Request /\ Growing(req[b]) => Growing(req'[b])
      BY <1>3
    <3>. QED
      BY <1>4, <3>1, <3>2 DEF Accounted, Growing
  <2>. QED
    BY <2>1, <2>2
<1>8. r \notin pool.live /\ r \in Connecting /\ Connecting' = Connecting \ {r}
  BY <1>1 DEF Connecting, ConnInv, Made
<1>9. /\ Cardinality(pool'.live) = Cardinality(pool.live) + 1
      /\ Cardinality(Connecting') = Cardinality(Connecting) - 1
  <2>1. IsFiniteSet(pool.live) /\ IsFiniteSet(Connecting)
    BY ConnectionsFinite DEF IInv
  <2>2. Cardinality(pool.live \cup {r}) = Cardinality(pool.live) + 1
    BY <1>8, <2>1, FS_AddElement
  <2>3. Cardinality(Connecting \ {r}) = Cardinality(Connecting) - 1
    BY <1>8, <2>1, FS_RemoveElement
  <2>. QED
    BY <1>8, <2>2, <2>3
<1>10. BoundedConnections' /\ Cardinality(pool.live) < Size
  <2>1. Cardinality(Connecting') \in Nat
    BY ConnectionsFinite, <1>8, FS_RemoveElement, FS_CardinalityType DEF IInv
  <2>. QED
    BY <1>9, <2>1, ConnectionsFinite, SizeAssumption DEF IInv, ConnInv, BoundedConnections
<1>11. Promise!Connect(r)
  <2>1. [s \in Request |-> req'[s].lease] = [s \in Request |-> req[s].lease]
    BY <1>4
  <2>. QED
    BY <1>2, <1>8, <1>10, <2>1, PromiseCardinality DEF Promise!Connect
<1>. QED
  BY <1>5, <1>6, <1>7, <1>10, <1>11 DEF ConnInv, PromiseKept, Promise!Next, Adapter

\* What the steps of one request that concern no connection have in common.
QuietAlone(r) ==
  /\ Quiet(r)
  /\ \A s \in Request \ {r} : req'[s] = req[s]
  /\ pool'.idle = pool.idle /\ pool'.all = pool.all /\ pool'.live = pool.live
  /\ pool'.connTasks = pool.connTasks /\ pool'.broken = pool.broken /\ shut' = shut

LEMMA QuietAloneStep ==
  ASSUME IInv, IInv', ConnInv, NEW r \in Request, QuietAlone(r)
  PROVE  ConnInv' /\ PromiseKept
<1>1. \A s \in Request : Quiet(s)
  BY DEF QuietAlone, Quiet
<1>. QED
  BY <1>1, ShutKept, QuietStep DEF QuietAlone, ConnInv, Shutting

\* How a request waits, gives up or is refused: no connection is made, lent, returned or closed.
LEMMA QuietWaiting ==
  ASSUME IInv, IInv', ConnInv, NEW r \in Request,
         \/ Refuse(r) \/ QueueForPermit(r) \/ CancelInQueue(r) \/ ResumeWithLock(r)
         \/ CancelLockWait(r) \/ CancelWaiting(r) \/ SeeGetterCancelled(r)
  PROVE  ConnInv' /\ PromiseKept
<1>. req[r] \in RequestState /\ pool \in PoolState /\ req \in [Request -> RequestState] /\ Phase(req[r])
  BY DEF IInv, TypeOK, Phases
<1>1. CASE Refuse(r)
  <2>1. QuietAlone(r)
    BY <1>1 DEF Refuse, QuietAlone, Quiet, Growing, Phase, RequestState, PoolState
  <2>. QED
    BY <2>1, QuietAloneStep
<1>2. CASE QueueForPermit(r)
  <2>1. QuietAlone(r)
    BY <1>2 DEF QueueForPermit, QuietAlone, Quiet, Growing, Phase, RequestState, PoolState
  <2>. QED
    BY <2>1, QuietAloneStep
<1>3. CASE CancelInQueue(r)
  <2>1. QuietAlone(r)
    BY <1>3 DEF CancelInQueue, QuietAlone, Quiet, Growing, Phase, RequestState, PoolState
  <2>. QED
    BY <2>1, QuietAloneStep
<1>4. CASE ResumeWithLock(r)
  <2>1. QuietAlone(r)
    BY <1>4 DEF ResumeWithLock, GiveUp, QuietAlone, Quiet, Growing, Phase, RequestState, PoolState
  <2>. QED
    BY <2>1, QuietAloneStep
<1>5. CASE CancelLockWait(r)
  <2>1. QuietAlone(r)
    BY <1>5 DEF CancelLockWait, GiveUp, QuietAlone, Quiet, Growing, Phase, RequestState, PoolState
  <2>. QED
    BY <2>1, QuietAloneStep
<1>6. CASE CancelWaiting(r)
  <2>1. QuietAlone(r)
    BY <1>6 DEF CancelWaiting, QuietAlone, Quiet, Growing, Phase, RequestState, PoolState
  <2>. QED
    BY <2>1, QuietAloneStep
<1>7. CASE SeeGetterCancelled(r)
  <2>1. QuietAlone(r)
    BY <1>7 DEF SeeGetterCancelled, GiveUp, QuietAlone, Quiet, Growing, Phase, RequestState, PoolState
  <2>. QED
    BY <2>1, QuietAloneStep
<1>. QED
  BY <1>1, <1>2, <1>3, <1>4, <1>5, <1>6, <1>7

\* How a connection task fails, and what its request does about it: no connection is made, lent, returned or closed.
LEMMA QuietConnecting ==
  ASSUME IInv, IInv', ConnInv, NEW r \in Request,
         \/ ConnectFails(r) \/ ConnectCancelled(r) \/ SeeConnectFailed(r)
         \/ SeeConnectCancelled(r) \/ CancelConnecting(r)
  PROVE  ConnInv' /\ PromiseKept
<1>. req[r] \in RequestState /\ pool \in PoolState /\ req \in [Request -> RequestState] /\ Phase(req[r])
  BY DEF IInv, TypeOK, Phases
<1>1. CASE ConnectFails(r)
  <2>1. QuietAlone(r)
    BY <1>1 DEF ConnectFails, QuietAlone, Quiet, Growing, Phase, RequestState, PoolState
  <2>. QED
    BY <2>1, QuietAloneStep
<1>2. CASE ConnectCancelled(r)
  <2>1. QuietAlone(r)
    BY <1>2 DEF ConnectCancelled, QuietAlone, Quiet, Growing, Phase, RequestState, PoolState
  <2>. QED
    BY <2>1, QuietAloneStep
<1>3. CASE SeeConnectFailed(r)
  <2>1. QuietAlone(r)
    BY <1>3 DEF SeeConnectFailed, GiveUp, AfterConnect, QuietAlone, Quiet, Growing, Phase, RequestState, PoolState
  <2>. QED
    BY <2>1, QuietAloneStep
<1>4. CASE SeeConnectCancelled(r)
  <2>1. QuietAlone(r)
    BY <1>4 DEF SeeConnectCancelled, StartCleanup, AfterConnect, QuietAlone, Quiet, Growing, Phase, RequestState, PoolState
  <2>. QED
    BY <2>1, QuietAloneStep
<1>5. CASE CancelConnecting(r)
  <2>1. QuietAlone(r)
    BY <1>5 DEF CancelConnecting, StartCleanup, QuietAlone, Quiet, Growing, Phase, RequestState, PoolState
  <2>. QED
    BY <2>1, QuietAloneStep
<1>. QED
  BY <1>1, <1>2, <1>3, <1>4, <1>5

\* How an adapter in hand is handed on, and a background half ends: no connection is made, lent, returned or closed.
LEMMA QuietRelease ==
  ASSUME IInv, IInv', ConnInv, NEW r \in Request,
         \/ TakeServed(r) \/ CancelServed(r) \/ EndUse(r) \/ CancelReleasing(r)
         \/ FinishRelease(r) \/ CleanupFails(r) \/ CleanupEnds(r)
  PROVE  ConnInv' /\ PromiseKept
<1>. req[r] \in RequestState /\ pool \in PoolState /\ req \in [Request -> RequestState] /\ Phase(req[r])
  BY DEF IInv, TypeOK, Phases
<1>1. CASE TakeServed(r)
  <2>1. QuietAlone(r)
    BY <1>1 DEF TakeServed, QuietAlone, Quiet, Growing, Phase, RequestState, PoolState
  <2>. QED
    BY <2>1, QuietAloneStep
<1>2. CASE CancelServed(r)
  <2>1. QuietAlone(r)
    BY <1>2 DEF CancelServed, QuietAlone, Quiet, Growing, Phase, RequestState, PoolState
  <2>. QED
    BY <2>1, QuietAloneStep
<1>3. CASE EndUse(r)
  <2>1. QuietAlone(r)
    BY <1>3 DEF EndUse, QuietAlone, Quiet, Growing, Phase, RequestState, PoolState
  <2>. QED
    BY <2>1, QuietAloneStep
<1>4. CASE CancelReleasing(r)
  <2>1. QuietAlone(r)
    BY <1>4 DEF CancelReleasing, QuietAlone, Quiet, Growing, Phase, RequestState, PoolState
  <2>. QED
    BY <2>1, QuietAloneStep
<1>5. CASE FinishRelease(r)
  <2>1. QuietAlone(r)
    BY <1>5 DEF FinishRelease, QuietAlone, Quiet, Growing, Phase, RequestState, PoolState
  <2>. QED
    BY <2>1, QuietAloneStep
<1>6. CASE CleanupFails(r)
  <2>1. QuietAlone(r)
    BY <1>6 DEF CleanupFails, InCleanup, QuietAlone, Quiet, Growing, Phase, RequestState, PoolState
  <2>. QED
    BY <2>1, QuietAloneStep
<1>7. CASE CleanupEnds(r)
  <2>1. QuietAlone(r)
    BY <1>7 DEF CleanupEnds, QuietAlone, Quiet, Growing, Phase, RequestState, PoolState
  <2>. QED
    BY <2>1, QuietAloneStep
<1>. QED
  BY <1>1, <1>2, <1>3, <1>4, <1>5, <1>6, <1>7

\* close() cancelled this cleanup and has given up on it.
LEMMA CleanupCancelledConn ==
  ASSUME IInv, IInv', ConnInv, NEW r \in Request, CleanupCancelled(r)
  PROVE  ConnInv' /\ PromiseKept
<1>. req[r] \in RequestState /\ pool \in PoolState /\ req \in [Request -> RequestState]
  BY DEF IInv, TypeOK
<1>1. shut.timedOut
  BY DEF CleanupCancelled, IInv, CancelledLate
<1>2. QuietAlone(r)
  BY <1>1 DEF CleanupCancelled, QuietAlone, Quiet, RequestState, PoolState
<1>. QED
  BY <1>2, QuietAloneStep

\* A closed pool takes the adapter of a release off its register first.
LEMMA StartClosingConn ==
  ASSUME IInv, IInv', ConnInv, NEW r \in Request, StartClosing(r)
  PROVE  ConnInv' /\ PromiseKept
<1>. req[r] \in RequestState /\ pool \in PoolState /\ req \in [Request -> RequestState] /\ Phase(req[r])
  BY DEF IInv, TypeOK, Phases
<1>1. /\ pool'.idle = pool.idle /\ pool'.live = pool.live /\ pool'.connTasks = pool.connTasks
      /\ pool'.all = pool.all \ {req[r].lease} /\ closed /\ shut' = shut
      /\ pool'.broken = pool.broken
      /\ \A s \in Request \ {r} : req'[s] = req[s]
  BY DEF StartClosing, PoolState
<1>2. Quiet(r)
  BY DEF StartClosing, AfterReset, Quiet, Growing, Phase, RequestState
<1>3. \A s \in Request : Quiet(s)
  BY <1>1, <1>2 DEF Quiet
<1>. QED
  BY <1>1, <1>3, ShutKept, QuietStep DEF ConnInv, Shutting

\* The pool forgets a connection task that has ended.
LEMMA ForgetConnTaskConn ==
  ASSUME IInv, IInv', ConnInv, NEW r \in Request, ForgetConnTask(r)
  PROVE  ConnInv' /\ PromiseKept
<1>1. /\ pool'.idle = pool.idle /\ pool'.live = pool.live /\ pool'.all = pool.all
      /\ pool'.connTasks = pool.connTasks \ {r} /\ req[r].conn # "running"
      /\ shut' = shut /\ req' = req /\ pool'.broken = pool.broken
  BY DEF ForgetConnTask, IInv, TypeOK, PoolState
<1>2. \A s \in Request : Quiet(s)
  BY <1>1 DEF Quiet
<1>. QED
  BY <1>1, <1>2, ShutKept, QuietStep DEF ConnInv, Shutting

\* What a request does with its permit.
LEMMA WithPermitConn ==
  ASSUME IInv, IInv', ConnInv, NEW r \in Request, req[r].pc \in {"new", "semWait"},
         pool.permits > 0, NEW queue, WithPermit(r, queue), shut' = shut
  PROVE  ConnInv' /\ PromiseKept
<1>. req[r] \in RequestState /\ pool \in PoolState /\ req \in [Request -> RequestState] /\ Phase(req[r])
  BY DEF IInv, TypeOK, Phases
<1>1. ASSUME NEW a \in pool.idle,
             req' = [req EXCEPT ![r].pc = "using", ![r].lease = a],
             pool' = [pool EXCEPT !.permits = @ - 1, !.semQ = queue, !.idle = @ \ {a}]
      PROVE  ConnInv' /\ PromiseKept
  <2>1. /\ req[r].lease = NoAdapter /\ req'[r].lease = a
        /\ req'[r].conn = req[r].conn /\ req'[r].job = req[r].job
        /\ ~Growing(req[r]) /\ ~Growing(req'[r])
        /\ \A s \in Request \ {r} : req'[s] = req[s]
    BY <1>1 DEF Phase, Growing, RequestState
  <2>2. /\ pool'.idle = pool.idle \ {a} /\ pool'.all = pool.all /\ pool'.live = pool.live
        /\ pool'.connTasks = pool.connTasks /\ pool'.broken = pool.broken
    BY <1>1 DEF PoolState
  <2>. QED
    BY <2>1, <2>2, LendStep
<1>2. ASSUME NEW pc \in {"waiting", "lockWait", "refused"}, req' = [req EXCEPT ![r].pc = pc],
             \/ pool' = [pool EXCEPT !.permits = @ - 1, !.semQ = queue]
             \/ pool' = [pool EXCEPT !.semQ = queue]
      PROVE  ConnInv' /\ PromiseKept
  <2>1. QuietAlone(r)
    BY <1>2 DEF QuietAlone, Quiet, Growing, Phase, RequestState, PoolState
  <2>. QED
    BY <2>1, QuietAloneStep
<1>3. ASSUME pool.idle = {}, ~closed,
             req' = [req EXCEPT ![r].pc = "connecting", ![r].conn = "running"],
             pool' = [pool EXCEPT !.permits = @ - 1, !.semQ = queue, !.connTasks = @ \cup {r}]
      PROVE  ConnInv' /\ PromiseKept
  <2>1. /\ req'[r].pc = "connecting" /\ req'[r].conn = "running"
        /\ req'[r].lease = req[r].lease /\ req'[r].job = req[r].job
        /\ \A s \in Request \ {r} : req'[s] = req[s]
    BY <1>3 DEF RequestState
  <2>2. /\ pool'.idle = pool.idle /\ pool'.all = pool.all /\ pool'.live = pool.live
        /\ pool'.connTasks = pool.connTasks \cup {r} /\ pool'.broken = pool.broken
    BY <1>3 DEF PoolState
  <2>. QED
    BY <1>3, <2>1, <2>2, BuildStep
<1>. QED
  BY <1>1, <1>2, <1>3 DEF WithPermit, Decide

\* A getter is served, a connection is registered, an adapter comes back.
LEMMA HandOverConn ==
  ASSUME IInv, IInv', ConnInv, NEW r \in Request,
         \/ GetterServed(r) \/ Register(r) \/ CleanupRegisters(r) \/ PutBack(r) \/ ReleaseClosed(r)
  PROVE  ConnInv' /\ PromiseKept
<1>. req[r] \in RequestState /\ pool \in PoolState /\ req \in [Request -> RequestState] /\ Phase(req[r])
  BY DEF IInv, TypeOK, Phases
<1>1. CASE GetterServed(r)
  <2>1. PICK a \in pool.idle :
          /\ req' = [req EXCEPT ![r].pc = "served", ![r].lease = a]
          /\ pool' = [pool EXCEPT !.idle = @ \ {a}]
    BY <1>1 DEF GetterServed
  <2>2. /\ req[r].lease = NoAdapter /\ req'[r].lease = a
        /\ req'[r].conn = req[r].conn /\ req'[r].job = req[r].job
        /\ ~Growing(req[r]) /\ ~Growing(req'[r])
        /\ \A s \in Request \ {r} : req'[s] = req[s]
    BY <1>1, <2>1 DEF GetterServed, Phase, Growing, RequestState
  <2>3. /\ pool'.idle = pool.idle \ {a} /\ pool'.all = pool.all /\ pool'.live = pool.live
        /\ pool'.connTasks = pool.connTasks /\ pool'.broken = pool.broken /\ shut' = shut
    BY <1>1, <2>1 DEF GetterServed, PoolState
  <2>. QED
    BY <2>2, <2>3, LendStep
<1>2. CASE Register(r)
  <2>1. /\ Growing(req[r]) /\ req[r].conn = "ok" /\ req'[r].lease = r /\ req'[r].conn = "ok"
        /\ req'[r].job # "closing" /\ \A s \in Request \ {r} : req'[s] = req[s]
    BY <1>2 DEF Register, AfterConnect, Growing, Phase, RequestState
  <2>2. /\ pool'.all = pool.all \cup {r} /\ pool'.idle = pool.idle /\ pool'.live = pool.live
        /\ pool'.connTasks = pool.connTasks /\ pool'.broken = pool.broken /\ shut' = shut
    BY <1>2 DEF Register, PoolState
  <2>. QED
    BY <2>1, <2>2, RegisteredStep
<1>3. CASE CleanupRegisters(r)
  <2>1. /\ Growing(req[r]) /\ req[r].conn = "ok" /\ req'[r].lease = r /\ req'[r].conn = "ok"
        /\ req'[r].job # "closing" /\ \A s \in Request \ {r} : req'[s] = req[s]
    BY <1>3 DEF CleanupRegisters, InCleanup, Growing, RequestState
  <2>2. /\ pool'.all = pool.all \cup {r} /\ pool'.idle = pool.idle /\ pool'.live = pool.live
        /\ pool'.connTasks = pool.connTasks /\ pool'.broken = pool.broken /\ shut' = shut
    BY <1>3 DEF CleanupRegisters, PoolState
  <2>. QED
    BY <2>1, <2>2, RegisteredStep
<1>4. CASE PutBack(r)
  <2>1. /\ req[r].lease # NoAdapter /\ req'[r].lease = NoAdapter /\ req'[r].conn = req[r].conn
        /\ req'[r].job # "closing" /\ ~Growing(req[r]) /\ ~Growing(req'[r])
        /\ \A s \in Request \ {r} : req'[s] = req[s]
    BY <1>4 DEF PutBack, AfterReset, Growing, Phase, RequestState
  <2>2. /\ ~closed /\ pool'.idle = pool.idle \cup {req[r].lease} /\ pool'.live = pool.live
        /\ pool'.all = pool.all /\ pool'.connTasks = pool.connTasks /\ shut' = shut
        /\ pool'.broken = pool.broken
    BY <1>4 DEF PutBack, PoolState
  <2>. QED
    BY <2>1, <2>2, ReturnStep
<1>5. CASE ReleaseClosed(r)
  <2>. PICK open \in LeftOpen(req[r].lease, req[r].lease \in Fragile) :
         pool' = [pool EXCEPT !.live = @ \ ({req[r].lease} \ open), !.broken = @ \cup open,
                              !.permits = @ + 1]
    BY <1>5 DEF ReleaseClosed
  <2>. open = {} \/ open = {req[r].lease}
    BY LeftOpenTyped
  <2>1. /\ req[r].lease # NoAdapter /\ req'[r].lease = NoAdapter /\ req'[r].conn = req[r].conn
        /\ req'[r].job # "closing" /\ ~Growing(req[r]) /\ ~Growing(req'[r])
        /\ \A s \in Request \ {r} : req'[s] = req[s]
    BY <1>5 DEF ReleaseClosed, Growing, Phase, RequestState
  <2>2. /\ closed /\ pool'.idle = pool.idle /\ pool'.all = pool.all
        /\ pool'.connTasks = pool.connTasks /\ shut' = shut
        /\ pool.broken \subseteq pool'.broken
        /\ \/ pool'.live = pool.live \ {req[r].lease}
           \/ pool'.live = pool.live /\ req[r].lease \in pool'.broken
    BY <1>5 DEF ReleaseClosed, PoolState, ConnInv, Housed
  <2>. QED
    BY <2>1, <2>2, ReturnStep
<1>. QED
  BY <1>1, <1>2, <1>3, <1>4, <1>5

\* close() empties the register into its snapshot and cancels what is under way.
LEMMA CloseConn == ASSUME IInv, IInv', ConnInv, Close PROVE ConnInv' /\ PromiseKept
<1>. pool \in PoolState /\ req \in [Request -> RequestState] /\ ~closed /\ ~shut.timedOut
  BY DEF IInv, TypeOK, Close, ConnInv, Shutting
<1>1. /\ pool'.idle = pool.idle /\ pool'.live = pool.live /\ pool'.connTasks = {}
      /\ closed' /\ closed' = TRUE /\ shut'.toClose = pool.all /\ shut'.timedOut = shut.timedOut
  BY DEF Close, PoolState, IInv, TypeOK, CloseState, closed
<1>2. \A r \in Request :
        /\ req'[r].lease = req[r].lease
        /\ req'[r].job = req[r].job
        /\ req'[r].pc = AfterClose(req[r].pc)
        /\ req'[r].conn = IF r \in pool.connTasks /\ req[r].conn = "running"
                          THEN "cancelling" ELSE req[r].conn
  BY DEF Close, RequestState
<1>3. \A r \in Request : Growing(req'[r]) <=> Growing(req[r])
  BY <1>2 DEF Growing, AfterClose
<1>4. Made'
  <2>. SUFFICES ASSUME NEW r \in Request
                PROVE  /\ r \in pool.live => req'[r].conn = "ok"
                       /\ req'[r].conn # "running"
                       /\ req'[r].conn \in {"running", "cancelling"} => Growing(req'[r])
    BY <1>1 DEF Made
  <2>1. req[r].conn = "running" => r \in pool.connTasks
    BY DEF ConnInv, Made
  <2>. QED
    BY <1>2, <1>3, <2>1 DEF ConnInv, Made
<1>5. Shutting' /\ Housed'
  BY <1>1 DEF Shutting, Housed
<1>6. NoOrphan'
  <2>. SUFFICES ASSUME NEW a \in pool.live PROVE Accounted(a)'
    BY <1>1 DEF NoOrphan
  <2>1. \/ a \in pool.idle
        \/ \E r \in Request : req[r].lease = a
        \/ a \in Request /\ Growing(req[a])
    BY DEF ConnInv, Housed
  <2>2. a \in pool.idle => a \in shut'.toClose
    BY <1>1 DEF ConnInv, Housed
  <2>. QED
    BY <1>2, <1>3, <2>1, <2>2 DEF Accounted, Growing
<1>7. BoundedConnections'
  <2>1. Connecting' = Connecting
    BY <1>2 DEF Connecting
  <2>. QED
    BY <1>1, <2>1, FewerConnections DEF IInv, ConnInv
<1>8. Promise!Shut
  <2>1. [r \in Request |-> req'[r].lease] = [r \in Request |-> req[r].lease]
    BY <1>2
  <2>. QED
    BY <1>1, <2>1 DEF Promise!Shut
<1>. QED
  BY <1>4, <1>5, <1>6, <1>7, <1>8 DEF ConnInv, PromiseKept, Promise!Next

\* close() closes an adapter of its snapshot, whoever holds it, or is cancelled there.
LEMMA CloseOneConn ==
  ASSUME IInv, IInv', ConnInv, NEW a \in Adapter, CloseOne(a) \/ CancelCloseOne(a)
  PROVE  ConnInv' /\ PromiseKept
<1>1. /\ pool'.idle = pool.idle /\ pool'.all = pool.all /\ pool'.connTasks = pool.connTasks
      /\ pool.broken \subseteq pool'.broken
      /\ \/ pool'.live = pool.live \ {a}
         \/ pool'.live = pool.live /\ a \in pool'.broken
  BY CloseAdapterKeeps DEF CloseOne, CancelCloseOne
<1>2. /\ req' = req /\ closed /\ closed' = closed /\ shut'.timedOut = shut.timedOut
      /\ shut.toClose \subseteq shut'.toClose \cup shut'.skipped \cup {a}
      /\ shut.skipped \subseteq shut'.skipped
  BY DEF CloseOne, CancelCloseOne, IInv, TypeOK, CloseState, closed
<1>3. Made' /\ Shutting' /\ Housed'
  BY <1>1, <1>2 DEF ConnInv, Made, Shutting, Housed
<1>4. NoOrphan'
  <2>. SUFFICES ASSUME ~shut.timedOut, NEW b \in pool'.live, b \notin Abandoned'
                PROVE  Accounted(b)'
    BY <1>2 DEF NoOrphan
  <2>1. b \in pool.live /\ b # a
    BY <1>1 DEF Abandoned
  <2>2. Accounted(b)
    BY <1>1, <1>2, <2>1 DEF ConnInv, NoOrphan, Abandoned
  <2>. QED
    BY <1>1, <1>2, <2>1, <2>2 DEF Accounted, Abandoned
<1>5. BoundedConnections'
  <2>1. Connecting' = Connecting
    BY <1>2 DEF Connecting
  <2>. QED
    BY <1>1, <2>1, FewerConnections DEF IInv, ConnInv
<1>6. Promise!Disconnect(a) \/ UNCHANGED Promise!vars
  BY <1>1, <1>2 DEF Promise!Disconnect, Promise!vars
<1>. QED
  BY <1>3, <1>4, <1>5, <1>6 DEF ConnInv, PromiseKept, Promise!Next

\* The rest of close(), and its giving up, only wait.
LEMMA CloseEndsConn ==
  ASSUME IInv, IInv', ConnInv,
         AwaitCleanup \/ CancelAwaitCleanup \/ CleanupDone \/ CleanupTimeout
  PROVE  ConnInv' /\ PromiseKept
<1>. req \in [Request -> RequestState] /\ shut \in CloseState
  BY DEF IInv, TypeOK
<1>1. /\ pool' = pool /\ closed /\ closed' = closed /\ shut'.toClose = shut.toClose
      /\ shut.timedOut => shut'.timedOut
      /\ shut'.skipped = shut.skipped
  BY DEF AwaitCleanup, CancelAwaitCleanup, CleanupDone, CleanupTimeout, CloseState, closed
<1>2. \A r \in Request : /\ req'[r].lease = req[r].lease
                          /\ req'[r].job = req[r].job
                          /\ req'[r].pc = req[r].pc
                          /\ req'[r].conn = req[r].conn
  BY DEF AwaitCleanup, CancelAwaitCleanup, CleanupDone, CleanupTimeout, RequestState
<1>3. \A r \in Request : Quiet(r)
  BY <1>2 DEF Quiet, Growing
<1>. QED
  BY <1>1, <1>3, QuietStep

\* The pool starts empty, or with the one adapter that was handed over.
LEMMA InitConn == Init => ConnInv /\ Promise!Init
<1>. SUFFICES ASSUME Init PROVE ConnInv /\ Promise!Init
  OBVIOUS
<1>1. PICK preloaded \in SUBSET {Preloaded} :
        pool = [permits |-> Size, semQ |-> <<>>, idle |-> preloaded, all |-> preloaded,
                connTasks |-> {}, live |-> preloaded, broken |-> {}]
  BY DEF Init
<1>2. ~closed /\ closed = FALSE /\ ~shut.timedOut
  BY DEF Init, closed
<1>3. Made
  BY <1>1, PreloadedAssumption DEF Init, Made
<1>4. Shutting /\ Housed
  BY <1>1, <1>2 DEF Init, Shutting, Housed
<1>5. NoOrphan
  BY <1>1 DEF NoOrphan, Accounted
<1>6. Cardinality(pool.live) <= Size /\ Cardinality(pool.live) \in Nat
  <2>1. preloaded = {} \/ preloaded = {Preloaded}
    OBVIOUS
  <2>2. Cardinality(preloaded) \in {0, 1}
    BY <2>1, FS_EmptySet, FS_Singleton
  <2>. QED
    BY <1>1, <2>2, SizeAssumption
<1>7. BoundedConnections
  <2>1. Connecting = {}
    BY DEF Init, Connecting
  <2>. QED
    BY <1>6, <2>1, FS_EmptySet, SizeAssumption DEF BoundedConnections
<1>8. Promise!Init
  <2>1. [r \in Request |-> req[r].lease] = [r \in Request |-> NoAdapter]
    BY DEF Init
  <2>2. pool.live \in SUBSET Adapter
    BY <1>1 DEF Adapter
  <2>. QED
    BY <1>2, <1>6, <2>1, <2>2, PromiseCardinality DEF Promise!Init
<1>. QED
  BY <1>3, <1>4, <1>5, <1>7, <1>8 DEF ConnInv

\* Every action, and stuttering, keeps the connections and the promise.
LEMMA NextConn == IInv /\ IInv' /\ ConnInv /\ [Next]_vars => ConnInv' /\ PromiseKept
<1>. SUFFICES ASSUME IInv, IInv', ConnInv, [Next]_vars PROVE ConnInv' /\ PromiseKept
  OBVIOUS
<1>1. ASSUME NEW r \in Request, Arrive(r) PROVE ConnInv' /\ PromiseKept
  BY <1>1, QuietWaiting, WithPermitConn DEF Arrive, AcquirePermit
<1>2. ASSUME NEW r \in Request, Progress(r) PROVE ConnInv' /\ PromiseKept
  BY <1>2, QuietWaiting, QuietConnecting, QuietRelease, WithPermitConn, MadeStep, ForgetConnTaskConn,
     HandOverConn, StartClosingConn, CleanupCancelledConn DEF Progress, ResumeWithPermit
<1>3. ASSUME NEW r \in Request, Cancel(r) PROVE ConnInv' /\ PromiseKept
  BY <1>3, QuietWaiting, QuietConnecting, QuietRelease DEF Cancel
<1>4. ASSUME CloseProgress PROVE ConnInv' /\ PromiseKept
  BY <1>4, CloseOneConn, CloseEndsConn DEF CloseProgress
<1>5. CASE UNCHANGED vars
  <2>1. \A r \in Request : Quiet(r)
    BY <1>5 DEF vars, Quiet
  <2>. QED
    BY <1>5, <2>1, ShutKept, QuietStep DEF vars, ConnInv, Shutting
<1>6. ASSUME CancelClose PROVE ConnInv' /\ PromiseKept
  BY <1>6, CloseOneConn, CloseEndsConn DEF CancelClose
<1>. QED
  BY <1>1, <1>2, <1>3, <1>4, <1>5, <1>6, QuietRelease, CloseConn, CloseEndsConn DEF Next

\* So the connections are accounted for in every reachable state.
LEMMA ConnInvariance == Spec => []ConnInv
<1>1. Init => ConnInv
  BY InitConn
<1>2. IInv /\ IInv' /\ ConnInv /\ [Next]_vars => ConnInv'
  BY NextConn
<1>. QED
  BY <1>1, <1>2, Invariance, PTL DEF Spec

\* Connections being built and connections open never exceed the pool's size,
\* whatever the interleaving of _acquire, its connection tasks, cancellations
\* and close(): each belongs to a request that owes one of the Size permits.
THEOREM ConnectionsBounded == Spec => []BoundedConnections
<1>1. ConnInv => BoundedConnections
  BY DEF ConnInv
<1>. QED
  BY <1>1, ConnInvariance, PTL

\* No open connection is forgotten by the pool, short of close() giving up on a
\* cleanup task: somebody has it, registers it or will close it.
THEOREM NothingOrphaned == Spec => []NoOrphan
<1>1. ConnInv => NoOrphan
  BY DEF ConnInv
<1>. QED
  BY <1>1, ConnInvariance, PTL

\* The pool implements PoolLease: what _acquire, _release, _cleanup and close()
\* do to the open connections and to who holds them are steps of a bounded set of
\* single-owner leases, for every number of requests and every size.
THEOREM PromiseHeld == Spec => KeepsPromise
<1>1. Init => Promise!Init
  BY InitConn
<1>2. IInv /\ IInv' /\ ConnInv /\ [Next]_vars => [Promise!Next]_(Promise!vars)
  BY NextConn DEF PromiseKept
<1>. QED
  BY <1>1, <1>2, Invariance, ConnInvariance, PTL DEF Spec, KeepsPromise, Promise!Spec

=============================================================================
