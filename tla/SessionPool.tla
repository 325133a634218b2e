----------------------------- MODULE SessionPool -----------------------------
(***************************************************************************)
(* api/db/database.py: requests that share the engine's pool through       *)
(* get_db().  SQLAlchemy and asyncpg are external and modelled by what     *)
(* database.py asks of them: a session takes a connection with its first   *)
(* statement and gives it back on commit and on close, the pool keeps      *)
(* pool_size connections and opens max_overflow more, checks one before it *)
(* hands it out, and makes others wait at most pool_timeout.  Leaving the  *)
(* "async with" closes the session in a task of its own, shielded from a   *)
(* cancellation of the request.                                            *)
(***************************************************************************)
EXTENDS Integers, FiniteSets

CONSTANTS
  Requests,
  Connections,
  PoolSize,       \* 0: any number of connections
  MaxOverflow,    \* negative: any number more
  None,
  MaxKills        \* bound: connections the server closes

ASSUME PoolAssumption ==
  /\ PoolSize \in Nat /\ MaxOverflow \in Int
  /\ IsFiniteSet(Connections)
  /\ None \notin Connections

VARIABLES
  pc,             \* each request: "out" of get_db, "in" it, "waiting" in it for a
                  \* connection, "closing" the session, or gone with the session
                  \* still closing ("abandoned")
  held,           \* the connection of its session
  idle,           \* the connections in the pool
  dead,           \* the open ones that cannot be used any more
  kills

vars == <<pc, held, idle, dead, kills>>

Out == {held[r] : r \in Requests} \ {None}
Open == idle \cup Out

Init ==
  /\ pc = [r \in Requests |-> "out"]
  /\ held = [r \in Requests |-> None]
  /\ idle = {} /\ dead = {}
  /\ kills = 0

\* get_db() enters the session, which holds nothing yet.
Enter(r) ==
  /\ pc[r] = "out"
  /\ pc' = [pc EXCEPT ![r] = "in"]
  /\ UNCHANGED <<held, idle, dead, kills>>

Gets(r, c) ==
  /\ held' = [held EXCEPT ![r] = c]
  /\ pc' = [pc EXCEPT ![r] = "in"]

\* A pooled connection: one that does not answer the ping, or is older than
\* pool_recycle, is replaced in its place by a new one.
TakeIdle(r) ==
  \E c \in idle :
    /\ Gets(r, c)
    /\ idle' = idle \ {c}
    /\ dead' = dead \ {c}

\* The pool may open one more connection.
Room == PoolSize = 0 \/ MaxOverflow < 0 \/ Cardinality(Open) < PoolSize + MaxOverflow

OpenNew(r) ==
  /\ idle = {} /\ Room
  /\ \E c \in Connections \ Open : Gets(r, c)
  /\ UNCHANGED <<idle, dead>>

\* The first statement of a session, or of its next transaction.
Checkout(r) ==
  /\ pc[r] \in {"in", "waiting"} /\ held[r] = None
  /\ TakeIdle(r) \/ OpenNew(r)
  /\ UNCHANGED kills

Wait(r) ==
  /\ pc[r] = "in" /\ held[r] = None
  /\ idle = {} /\ ~Room
  /\ pc' = [pc EXCEPT ![r] = "waiting"]
  /\ UNCHANGED <<held, idle, dead, kills>>

\* pool_timeout: the statement raises TimeoutError in the handler.
TimesOut(r) ==
  /\ pc[r] = "waiting"
  /\ pc' = [pc EXCEPT ![r] = "in"]
  /\ UNCHANGED <<held, idle, dead, kills>>

\* The connection goes back; it is closed instead if it is dead, or if the pool is
\* full.
Return(r) ==
  /\ idle' = IF \/ held[r] = None \/ held[r] \in dead
                \/ PoolSize > 0 /\ Cardinality(idle) >= PoolSize
             THEN idle ELSE idle \cup {held[r]}
  /\ dead' = dead \ {held[r]}
  /\ held' = [held EXCEPT ![r] = None]

Commit(r) ==
  /\ pc[r] = "in" /\ held[r] # None /\ held[r] \notin dead
  /\ Return(r)
  /\ UNCHANGED <<pc, kills>>

\* Mutant: get_db() yields a session that nobody closes.
NeverClosed(r) ==
  /\ pc[r] \in {"in", "waiting"}
  /\ pc' = [pc EXCEPT ![r] = "out"]
  /\ UNCHANGED <<held, idle, dead, kills>>

\* The "async with" of get_db() is left: the handler returned, a statement raised,
\* or the request was cancelled, perhaps within a statement, whose connection is
\* then of no more use.  The session starts to close.
Leave(r) ==
  /\ pc[r] \in {"in", "waiting"}
  /\ pc' = [pc EXCEPT ![r] = "closing"]
  /\ dead' \in {dead, dead \cup ({held[r]} \ {None})}
  /\ UNCHANGED <<held, idle, kills>>

\* The request is cancelled while it waits for the close, which goes on.
Abandon(r) ==
  /\ pc[r] = "closing"
  /\ pc' = [pc EXCEPT ![r] = "abandoned"]
  /\ UNCHANGED <<held, idle, dead, kills>>

\* The session has rolled back and given its connection back.
Closed(r) ==
  /\ pc[r] \in {"closing", "abandoned"}
  /\ Return(r)
  /\ pc' = [pc EXCEPT ![r] = "out"]
  /\ UNCHANGED kills

\* The server closes a connection: a restart, or idle for too long.
Kill(c) ==
  /\ c \in Open \ dead
  /\ kills < MaxKills /\ kills' = kills + 1
  /\ dead' = dead \cup {c}
  /\ UNCHANGED <<pc, held, idle>>

RequestStep(r) ==
  \/ Enter(r) \/ Checkout(r) \/ Wait(r) \/ TimesOut(r) \/ Commit(r)
  \/ Leave(r) \/ Abandon(r) \/ Closed(r)

Next == (\E r \in Requests : RequestStep(r)) \/ \E c \in Connections : Kill(c)

Spec == Init /\ [][Next]_vars

-----------------------------------------------------------------------------
\* Once every request has left get_db() and every close has ended, however they
\* left, no connection is out and the pool is at its size or below: none of the
\* limit is used up for the requests to come.
NothingLeaked ==
  (\A r \in Requests : pc[r] = "out") =>
    Out = {} /\ (PoolSize > 0 => Cardinality(Open) <= PoolSize)
=============================================================================
