------------------------------ MODULE PoolLease ------------------------------
(***************************************************************************)
(* What a connection pool promises its clients (registro_engine/pool.py,   *)
(* and the single-owner contract of registro_adapters/base.py): at most    *)
(* Size connections are open, each is lent to one client at a time, and    *)
(* until the pool is shut nobody closes one and only open ones are lent.   *)
(***************************************************************************)
EXTENDS Naturals, FiniteSets

CONSTANTS Client, Connection, Size, Nothing

VARIABLES shutDown,  \* the pool has been closed
          open,      \* the connections that are open
          held       \* what each client was lent
vars == <<shutDown, open, held>>

Init ==
  /\ shutDown = FALSE
  /\ open \in SUBSET Connection /\ Cardinality(open) <= Size
  /\ held = [c \in Client |-> Nothing]

Free(x) == \A c \in Client : held[c] # x

Connect(x) ==
  /\ ~shutDown /\ x \notin open
  /\ Cardinality(open) < Size
  /\ open' = open \cup {x}
  /\ UNCHANGED <<shutDown, held>>

Lend(c, x) ==
  /\ held[c] = Nothing /\ Free(x)
  /\ shutDown \/ x \in open
  /\ held' = [held EXCEPT ![c] = x]
  /\ UNCHANGED <<shutDown, open>>

\* A connection that comes back to a pool that is shut may be closed at once.
Return(c) ==
  /\ held[c] # Nothing
  /\ held' = [held EXCEPT ![c] = Nothing]
  /\ open' = open \/ (shutDown /\ open' = open \ {held[c]})
  /\ UNCHANGED shutDown

Shut == ~shutDown /\ shutDown' = TRUE /\ UNCHANGED <<open, held>>

Disconnect(x) == shutDown /\ open' = open \ {x} /\ UNCHANGED <<shutDown, held>>

Next ==
  \/ \E x \in Connection : Connect(x) \/ Disconnect(x) \/ \E c \in Client : Lend(c, x)
  \/ \E c \in Client : Return(c)
  \/ Shut

Spec == Init /\ [][Next]_vars
=============================================================================
