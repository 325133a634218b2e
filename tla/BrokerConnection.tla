-------------------------- MODULE BrokerConnection ---------------------------
(***************************************************************************)
(* api/core/mq.py: the process-wide RabbitMQ connection, and the tasks     *)
(* that connect, publish and close.  An action is what the event loop runs *)
(* between two awaits; an await may end in an exception, of aio-pika or a  *)
(* cancellation of the task.                                               *)
(*                                                                         *)
(* aio-pika is external: a robust connection stays open while it           *)
(* reconnects, and is_closed may answer either way while close() is under  *)
(* way.  A confirmed message is in its queue if the queue exists; a failed *)
(* publish may have reached the queue all the same.                        *)
(***************************************************************************)
EXTENDS Integers, FiniteSets

CONSTANTS
  Tasks,           \* the tasks that use the module
  None,
  MaxConnections,  \* bound: connections opened
  MaxCalls         \* bound: calls of connect, close and _publish

ASSUME BrokerAssumption ==
  /\ None \notin Nat
  /\ MaxConnections \in Nat
  /\ MaxCalls \in Nat

VARIABLES
  connection,      \* _connection: an id, or None
  state,           \* the state of every connection ever opened
  pc,              \* the await each task is suspended in
  call,            \* the function each task is in, or was in last
  handle,          \* the connection connect() returned to the task, or close() awaits
  channels,        \* task -> connection the channel of its last call is open on, or None
  declared,        \* the durable queue exists
  queued,          \* the task's message is in the queue
  outcome,         \* how the last call of the task ended: the await that raised, or "ok"
  calls

vars ==
  <<connection, state, pc, call, handle, channels, declared, queued, outcome, calls>>

Connections == 1 .. MaxConnections

Awaits == {"connecting", "channel", "declare", "publish", "channel.close", "closing"}

TypeOK ==
  /\ connection \in Connections \cup {None}
  /\ state \in [Connections -> {"unused", "open", "closing", "closed"}]
  /\ pc \in [Tasks -> Awaits \cup {"idle"}]
  /\ call \in [Tasks -> {"connect", "close", "_publish"}]
  /\ handle \in [Tasks -> Connections \cup {None}]
  /\ channels \in [Tasks -> Connections \cup {None}]
  /\ declared \in BOOLEAN
  /\ queued \in [Tasks -> BOOLEAN]
  /\ outcome \in [Tasks -> Awaits \cup {"none", "ok"}]
  /\ calls \in 0 .. MaxCalls

Init ==
  /\ connection = None
  /\ state = [n \in Connections |-> "unused"]
  /\ pc = [t \in Tasks |-> "idle"]
  /\ call = [t \in Tasks |-> "connect"]
  /\ handle = [t \in Tasks |-> None]
  /\ channels = [t \in Tasks |-> None]
  /\ declared = FALSE
  /\ queued = [t \in Tasks |-> FALSE]
  /\ outcome = [t \in Tasks |-> "none"]
  /\ calls = 0

-----------------------------------------------------------------------------
\* A call begins: f is the function, at the await it suspends in first.
Begins(t, f, at) ==
  /\ pc[t] = "idle"
  /\ calls < MaxCalls
  /\ calls' = calls + 1
  /\ call' = [call EXCEPT ![t] = f]
  /\ pc' = [pc EXCEPT ![t] = at]
  /\ queued' = [queued EXCEPT ![t] = FALSE]
  /\ channels' = [channels EXCEPT ![t] = None]

Returns(t, result) ==
  /\ pc' = [pc EXCEPT ![t] = "idle"]
  /\ outcome' = [outcome EXCEPT ![t] = result]

\* What is_closed may answer of the current connection.
MayBeOpen   == connection # None /\ state[connection] \in {"open", "closing"}
MayBeClosed == connection # None => state[connection] \in {"closing", "closed"}

(***************************************************************************)
(* connect(), by itself or as the first line of _publish().                *)
(***************************************************************************)
\* The connection is reused: nothing is awaited.
Reuse(t, f) ==
  /\ MayBeOpen
  /\ handle' = [handle EXCEPT ![t] = connection]
  /\ Begins(t, f, IF f = "connect" THEN "idle" ELSE "channel")
  /\ outcome' = [outcome EXCEPT ![t] = IF f = "connect" THEN "ok" ELSE "none"]
  /\ UNCHANGED <<connection, state, declared>>

\* There is none, or it is closed: await connect_robust().
Connect(t, f) ==
  /\ MayBeClosed
  /\ Begins(t, f, "connecting")
  /\ outcome' = [outcome EXCEPT ![t] = "none"]
  /\ UNCHANGED <<connection, state, handle, declared>>

Connected(t) ==
  /\ pc[t] = "connecting"
  /\ \E n \in Connections :
       /\ state[n] = "unused" /\ \A m \in 1 .. n - 1 : state[m] # "unused"
       /\ state' = [state EXCEPT ![n] = "open"]
       /\ connection' = n
       /\ handle' = [handle EXCEPT ![t] = n]
  /\ IF call[t] = "connect"
     THEN Returns(t, "ok")
     ELSE pc' = [pc EXCEPT ![t] = "channel"] /\ UNCHANGED outcome
  /\ UNCHANGED <<call, channels, declared, queued, calls>>

ConnectFails(t) ==
  /\ pc[t] = "connecting"
  /\ Returns(t, pc[t])
  /\ UNCHANGED <<connection, state, call, handle, channels, declared, queued, calls>>

(***************************************************************************)
(* close().                                                                *)
(***************************************************************************)
Close(t) ==
  \/ /\ MayBeOpen
     /\ Begins(t, "close", "closing")
     /\ handle' = [handle EXCEPT ![t] = connection]
     /\ state' = [state EXCEPT ![connection] = "closing"]
     /\ outcome' = [outcome EXCEPT ![t] = "none"]
     /\ UNCHANGED <<connection, declared>>
  \/ /\ MayBeClosed
     /\ Begins(t, "close", "idle")
     /\ connection' = None
     /\ outcome' = [outcome EXCEPT ![t] = "ok"]
     /\ UNCHANGED <<state, handle, declared>>

\* await _connection.close() ends; _connection is reset unless it raised.
Closed(t) ==
  /\ pc[t] = "closing"
  /\ \/ /\ state' = [state EXCEPT ![handle[t]] = "closed"]
        /\ connection' = None
        /\ Returns(t, "ok")
     \/ /\ state' \in {state, [state EXCEPT ![handle[t]] = "closed"]}
        /\ UNCHANGED connection
        /\ Returns(t, pc[t])
  /\ UNCHANGED <<call, handle, channels, declared, queued, calls>>

(***************************************************************************)
(* The rest of _publish().  Steps on a closed connection can only raise.   *)
(***************************************************************************)
Usable(t) == state[handle[t]] # "closed"

\* await connection.channel(): outside the try, so nothing is closed if it fails,
\* although the broker may have opened the channel by then.
OpenChannel(t) ==
  /\ pc[t] = "channel"
  /\ \/ /\ Usable(t)
        /\ channels' = [channels EXCEPT ![t] = handle[t]]
        /\ pc' = [pc EXCEPT ![t] = "declare"]
        /\ UNCHANGED outcome
     \/ /\ \/ UNCHANGED channels
           \/ Usable(t) /\ channels' = [channels EXCEPT ![t] = handle[t]]
        /\ Returns(t, pc[t])
  /\ UNCHANGED <<connection, state, call, handle, declared, queued, calls>>

\* On to the finally clause with the result so far.
Finally(t, result) ==
  /\ pc' = [pc EXCEPT ![t] = "channel.close"]
  /\ outcome' = [outcome EXCEPT ![t] = result]

\* Mutant: the queue is taken to exist.
SkipDeclare(t) ==
  /\ pc[t] = "declare"
  /\ pc' = [pc EXCEPT ![t] = "publish"]
  /\ UNCHANGED <<connection, state, call, handle, channels, declared, queued, outcome, calls>>

\* await channel.declare_queue(durable=True)
DeclareQueue(t) ==
  /\ pc[t] = "declare"
  /\ \/ /\ Usable(t)
        /\ declared' = TRUE
        /\ pc' = [pc EXCEPT ![t] = "publish"]
        /\ UNCHANGED outcome
     \/ /\ declared' \in {declared, TRUE}
        /\ Finally(t, pc[t])
  /\ UNCHANGED <<connection, state, call, handle, channels, queued, calls>>

\* Mutant: the channel is closed only after a success.
NoFinally(t) ==
  /\ pc[t] = "publish"
  /\ \/ Usable(t) /\ Finally(t, "ok")
     \/ Returns(t, pc[t])
  /\ UNCHANGED <<connection, state, call, handle, channels, declared, queued, calls>>

\* await default_exchange.publish(): a confirm, or an exception with the message
\* in the queue or not.
Publish(t) ==
  /\ pc[t] = "publish"
  /\ \/ /\ Usable(t)
        /\ queued' = [queued EXCEPT ![t] = declared]
        /\ Finally(t, "ok")
     \/ /\ \E reached \in {FALSE, declared} : queued' = [queued EXCEPT ![t] = reached]
        /\ Finally(t, pc[t])
  /\ UNCHANGED <<connection, state, call, handle, channels, declared, calls>>

\* await channel.close() in the finally clause: its exception, which may leave
\* the channel as it was, replaces the result.
CloseChannel(t) ==
  /\ pc[t] = "channel.close"
  /\ \/ /\ channels' = [channels EXCEPT ![t] = None]
        /\ Returns(t, outcome[t])
     \/ /\ channels' \in {channels, [channels EXCEPT ![t] = None]}
        /\ Returns(t, pc[t])
  /\ UNCHANGED <<connection, state, call, handle, declared, queued, calls>>

-----------------------------------------------------------------------------
TaskStep(t) ==
  \/ \E f \in {"connect", "_publish"} : Reuse(t, f) \/ Connect(t, f)
  \/ Connected(t) \/ ConnectFails(t)
  \/ Close(t) \/ Closed(t)
  \/ OpenChannel(t) \/ DeclareQueue(t) \/ Publish(t) \/ CloseChannel(t)

Next == \E t \in Tasks : TaskStep(t)

Spec == Init /\ [][Next]_vars

-----------------------------------------------------------------------------
(***************************************************************************)
(* Properties.                                                             *)
(***************************************************************************)
OpenConnections == {n \in Connections : state[n] = "open"}

\* A publish that returned normally has its message in the durable queue, even
\* when connects and closes of other tasks come between its awaits.
PublishedIsQueued ==
  \A t \in Tasks :
    pc[t] = "idle" /\ call[t] = "_publish" /\ outcome[t] = "ok" => queued[t]

\* However _publish() ends, its channel does not stay open on the shared
\* connection, unless opening or closing the channel is itself what raised: a
\* failure, or a cancellation, at any other await goes through the close.
NoChannelLeak ==
  \A t \in Tasks :
    pc[t] = "idle" /\ channels[t] # None => outcome[t] \in {"channel", "channel.close"}
=============================================================================
