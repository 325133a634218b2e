------------------------ MODULE BrokerConnectionProofs ------------------------
(***************************************************************************)
(* The broker module for any set of tasks, and any number of calls and of  *)
(* connections.                                                            *)
(***************************************************************************)
EXTENDS BrokerConnection, TLAPS

(***************************************************************************)
(* The inductive invariant: what is known at each await of _publish().  A  *)
(* channel is open inside the try, or left by an exception of one of the   *)
(* two awaits that open and close it; the queue exists once the publish is *)
(* awaited, and a success on its way through the finally clause is that of *)
(* a message in the queue.                                                 *)
(***************************************************************************)
ChannelInTry(t) ==
  channels[t] # None =>
    \/ pc[t] \in {"declare", "publish", "channel.close"}
    \/ pc[t] = "idle" /\ outcome[t] \in {"channel", "channel.close"}

DeclaredFirst(t) == pc[t] = "publish" => declared = TRUE

QueuedAtFinally(t) == pc[t] = "channel.close" /\ outcome[t] = "ok" => queued[t] = TRUE

ClosingIsClose(t) == pc[t] = "closing" => call[t] = "close"

QueuedAtReturn(t) ==
  pc[t] = "idle" /\ call[t] = "_publish" /\ outcome[t] = "ok" => queued[t] = TRUE

AtAwait(t) ==
  /\ ChannelInTry(t)
  /\ DeclaredFirst(t)
  /\ QueuedAtFinally(t)
  /\ ClosingIsClose(t)
  /\ QueuedAtReturn(t)

IInv == TypeOK /\ \A t \in Tasks : AtAwait(t)

-----------------------------------------------------------------------------
LEMMA TypeInit == Init => TypeOK
  <1> SUFFICES ASSUME Init PROVE TypeOK
    OBVIOUS
  <1>1. declared \in BOOLEAN
    BY DEF Init
  <1>2. queued \in [Tasks -> BOOLEAN]
    BY DEF Init
  <1>3. calls \in 0 .. MaxCalls
    BY BrokerAssumption DEF Init
  <1>4. QED
    BY <1>1, <1>2, <1>3 DEF Init, TypeOK

LEMMA BeginsType ==
  ASSUME TypeOK, NEW t \in Tasks, NEW f \in {"connect", "close", "_publish"},
         NEW at \in {"idle", "connecting", "channel", "closing"}, Begins(t, f, at)
  PROVE  /\ pc' \in [Tasks -> Awaits \cup {"idle"}]
         /\ channels' \in [Tasks -> Connections \cup {None}]
         /\ call' \in [Tasks -> {"connect", "close", "_publish"}]
         /\ queued' \in [Tasks -> BOOLEAN]
         /\ calls' \in 0 .. MaxCalls
  BY BrokerAssumption DEF TypeOK, Begins, Awaits

LEMMA TypeNext == TypeOK /\ [Next]_vars => TypeOK'
  <1> SUFFICES ASSUME TypeOK, [Next]_vars PROVE TypeOK'
    OBVIOUS
  <1> USE DEF Awaits
  <1>1. ASSUME NEW t \in Tasks, NEW f \in {"connect", "_publish"}, Reuse(t, f) PROVE TypeOK'
    BY <1>1, BeginsType DEF TypeOK, Reuse
  <1>2. ASSUME NEW t \in Tasks, NEW f \in {"connect", "_publish"}, Connect(t, f) PROVE TypeOK'
    BY <1>2, BeginsType DEF TypeOK, Connect
  <1>3. ASSUME NEW t \in Tasks, Connected(t) PROVE TypeOK'
    BY <1>3 DEF TypeOK, Connected, Returns
  <1>4. ASSUME NEW t \in Tasks, ConnectFails(t) PROVE TypeOK'
    BY <1>4 DEF TypeOK, ConnectFails, Returns
  <1>5. ASSUME NEW t \in Tasks, Close(t) PROVE TypeOK'
    BY <1>5, BeginsType DEF TypeOK, Close
  <1>6. ASSUME NEW t \in Tasks, Closed(t) PROVE TypeOK'
    BY <1>6 DEF TypeOK, Closed, Returns
  <1>7. ASSUME NEW t \in Tasks, OpenChannel(t) PROVE TypeOK'
    BY <1>7 DEF TypeOK, OpenChannel, Returns
  <1>8. ASSUME NEW t \in Tasks, DeclareQueue(t) PROVE TypeOK'
    <2>1. declared' = declared \/ declared' = TRUE
      BY <1>8 DEF DeclareQueue
    <2>2. declared' \in BOOLEAN
      BY <2>1, Zenon DEF TypeOK
    <2>3. QED
      BY <1>8, <2>2 DEF TypeOK, DeclareQueue, Finally
  <1>9. ASSUME NEW t \in Tasks, Publish(t) PROVE TypeOK'
    <2>1. PICK reached \in BOOLEAN : queued' = [queued EXCEPT ![t] = reached]
      <3>1. declared \in BOOLEAN /\ FALSE \in BOOLEAN
        BY DEF TypeOK
      <3>2. QED
        BY <1>9, <3>1, Zenon DEF Publish
    <2>2. queued' \in [Tasks -> BOOLEAN]
      BY <2>1 DEF TypeOK
    <2>3. QED
      BY <1>9, <2>2 DEF TypeOK, Publish, Finally
  <1>10. ASSUME NEW t \in Tasks, CloseChannel(t) PROVE TypeOK'
    BY <1>10 DEF TypeOK, CloseChannel, Returns
  <1>11. CASE UNCHANGED vars
    BY <1>11 DEF TypeOK, vars
  <1>12. QED
    BY <1>1, <1>2, <1>3, <1>4, <1>5, <1>6, <1>7, <1>8, <1>9, <1>10, <1>11
       DEF Next, TaskStep

\* The state of the module keeps its types, at every await of every task.
THEOREM TypeCorrect == Spec => []TypeOK
  BY TypeInit, TypeNext, PTL DEF Spec

-----------------------------------------------------------------------------
(***************************************************************************)
(* A step of one task leaves what the others know alone: it changes only   *)
(* its own entries, and a declared queue stays declared.                   *)
(***************************************************************************)
LEMMA OthersKeep ==
  ASSUME IInv, NEW t \in Tasks,
         \A s \in Tasks \ {t} : /\ pc'[s] = pc[s] /\ call'[s] = call[s]
                                /\ channels'[s] = channels[s] /\ queued'[s] = queued[s]
                                /\ outcome'[s] = outcome[s],
         declared = TRUE => declared' = TRUE,
         AtAwait(t)'
  PROVE  \A s \in Tasks : AtAwait(s)'
  <1>1. SUFFICES ASSUME NEW s \in Tasks \ {t} PROVE AtAwait(s)'
    OBVIOUS
  <1>2. AtAwait(s)
    BY DEF IInv
  <1>3. QED
    BY <1>2 DEF AtAwait, ChannelInTry, DeclaredFirst, QueuedAtFinally, ClosingIsClose,
                QueuedAtReturn

LEMMA IInvNext == IInv /\ [Next]_vars => IInv'
  <1> SUFFICES ASSUME IInv, [Next]_vars PROVE IInv'
    OBVIOUS
  <1>0. TypeOK /\ TypeOK'
    BY TypeNext DEF IInv
  <1>1. ASSUME NEW t \in Tasks, TaskStep(t) PROVE \A s \in Tasks : AtAwait(s)'
    <2>1. \A s \in Tasks \ {t} :
            /\ pc'[s] = pc[s] /\ call'[s] = call[s]
            /\ channels'[s] = channels[s] /\ queued'[s] = queued[s]
            /\ outcome'[s] = outcome[s]
      <3> USE <1>0 DEF TypeOK
      <3>1. CASE \E f \in {"connect", "_publish"} : Reuse(t, f) \/ Connect(t, f)
        BY <3>1 DEF Reuse, Connect, Begins
      <3>2. CASE Connected(t) \/ ConnectFails(t)
        BY <3>2 DEF Connected, ConnectFails, Returns
      <3>3. CASE Close(t) \/ Closed(t)
        BY <3>3 DEF Close, Begins, Closed, Returns
      <3>4. CASE OpenChannel(t)
        BY <3>4 DEF OpenChannel, Returns
      <3>5. CASE DeclareQueue(t)
        <4>1. /\ \E at : pc' = [pc EXCEPT ![t] = at]
              /\ outcome' = outcome \/ outcome' = [outcome EXCEPT ![t] = pc[t]]
              /\ call' = call /\ channels' = channels /\ queued' = queued
          BY <3>5, Zenon DEF DeclareQueue, Finally
        <4>2. QED
          BY <4>1
      <3>6. CASE Publish(t)
        <4>1. PICK reached : queued' = [queued EXCEPT ![t] = reached]
          BY <3>6, Zenon DEF Publish
        <4>2. \A s \in Tasks \ {t} : queued'[s] = queued[s]
          BY <4>1
        <4>3. QED
          BY <3>6, <4>2 DEF Publish, Finally
      <3>7. CASE CloseChannel(t)
        BY <3>7 DEF CloseChannel, Returns
      <3>8. QED
        BY <1>1, <3>1, <3>2, <3>3, <3>4, <3>5, <3>6, <3>7 DEF TaskStep
    <2>2. declared = TRUE => declared' = TRUE
      BY <1>1
         DEF TaskStep, Reuse, Connect, Connected, ConnectFails, Close, Closed, OpenChannel,
             DeclareQueue, Publish, CloseChannel
    <2>3. AtAwait(t)
      BY DEF IInv
    <2>4. AtAwait(t)'
      <3> USE <1>0, <2>3 DEF TypeOK, AtAwait, ChannelInTry, DeclaredFirst, QueuedAtFinally,
                             ClosingIsClose, QueuedAtReturn
      <3>1. CASE \E f \in {"connect", "_publish"} : Reuse(t, f) \/ Connect(t, f)
        BY <3>1 DEF Reuse, Connect, Begins
      <3>2. CASE Connected(t)
        BY <3>2 DEF Connected, Returns
      <3>3. CASE ConnectFails(t)
        BY <3>3 DEF ConnectFails, Returns
      <3>4. CASE Close(t)
        BY <3>4 DEF Close, Begins
      <3>5. CASE Closed(t)
        BY <3>5 DEF Closed, Returns
      <3>6. CASE OpenChannel(t)
        BY <3>6 DEF OpenChannel, Returns
      <3>7. CASE DeclareQueue(t)
        BY <3>7 DEF DeclareQueue, Finally
      <3>8. CASE Publish(t)
        <4>1. /\ pc[t] = "publish" /\ declared = TRUE /\ channels' = channels
              /\ pc' = [pc EXCEPT ![t] = "channel.close"]
          BY <3>8 DEF Publish, Finally
        <4>2. \/ /\ outcome' = [outcome EXCEPT ![t] = "ok"]
                 /\ queued' = [queued EXCEPT ![t] = TRUE]
              \/ outcome' = [outcome EXCEPT ![t] = pc[t]]
          BY <3>8, <4>1 DEF Publish, Finally
        <4>3. pc'[t] = "channel.close" /\ (outcome'[t] = "ok" => queued'[t] = TRUE)
          BY <4>1, <4>2
        <4>4. QED
          BY <4>1, <4>3
      <3>9. CASE CloseChannel(t)
        BY <3>9 DEF CloseChannel, Returns
      <3>10. QED
        BY <1>1, <3>1, <3>2, <3>3, <3>4, <3>5, <3>6, <3>7, <3>8, <3>9 DEF TaskStep
    <2>5. QED
      BY <2>1, <2>2, <2>4, OthersKeep
  <1>2. CASE UNCHANGED vars
    BY <1>2 DEF vars, IInv, AtAwait, ChannelInTry, DeclaredFirst, QueuedAtFinally,
                ClosingIsClose, QueuedAtReturn, TypeOK
  <1>3. QED
    BY <1>0, <1>1, <1>2 DEF Next, IInv

LEMMA Invariant == Spec => []IInv
  <1>1. Init => IInv
    BY TypeInit DEF Init, IInv, AtAwait, ChannelInTry, DeclaredFirst, QueuedAtFinally,
                    ClosingIsClose, QueuedAtReturn
  <1>2. QED
    BY <1>1, IInvNext, PTL DEF Spec

\* A _publish() that returned normally has its message in the durable queue,
\* whatever the other tasks connect and close between its awaits.
THEOREM PublishIsDurable == Spec => []PublishedIsQueued
  <1>1. IInv => PublishedIsQueued
    BY DEF IInv, AtAwait, QueuedAtReturn, PublishedIsQueued
  <1>2. QED
    BY <1>1, Invariant, PTL

\* A task that is out of _publish() has no channel open, whichever await raised,
\* unless it was the one that opens or the one that closes the channel.
THEOREM ChannelsAreClosed == Spec => []NoChannelLeak
  <1>1. IInv => NoChannelLeak
    BY DEF IInv, AtAwait, ChannelInTry, NoChannelLeak
  <1>2. QED
    BY <1>1, Invariant, PTL
=============================================================================
