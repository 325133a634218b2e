---------------------------- MODULE LifespanProofs ----------------------------
(***************************************************************************)
(* lifespan() for any set of workers and requests, any number of publishes *)
(* and every combination of steps that fail.                               *)
(***************************************************************************)
EXTENDS Lifespan, FiniteSetTheorems, TLAPS

(***************************************************************************)
(* The inductive invariant: what holds at each point of lifespan().        *)
(***************************************************************************)
Startup == {"postgres", "redis", "mq.connect", "connecting", "workers"}
Release == {"mq.close", "closing", "aclose", "dispose", "exited"}

\* The runtime is up between StartWorkers and WorkersStopped, and app.state says so.
Down == phase = "stopped" /\ active = {} /\ app_state = FALSE

RuntimeAt ==
  /\ at \in Startup => worker_runtime = FALSE /\ Down
  /\ at \in {"serving", "finally"} /\ worker_runtime = TRUE =>
       phase = "serving" /\ app_state = TRUE
  /\ at \in {"serving", "finally"} /\ worker_runtime = FALSE => Down
  /\ at = "draining" => phase = "draining" /\ app_state = TRUE
  /\ at \in Release => Down

\* What has been released is what lifespan() has come past.
ReleasedAt ==
  /\ at \in {"closing", "aclose"} => released = {"broker"}
  /\ at = "dispose" => released = {"broker", "redis"}
  /\ at = "exited" => released = {"broker", "redis", "engine"}
  /\ at \notin {"closing", "aclose", "dispose", "exited"} => released = {}

\* A worker is inside mq.py only under a supervisor, a request only while serving.
QuietAt ==
  /\ \A w \in Workers : w \notin active => pc[w] = "idle"
  /\ at # "serving" => \A r \in Requests : pc[r] = "idle"

(***************************************************************************)
(* The connection of the startup is the only one: while it is open nobody  *)
(* is on the way to another.                                               *)
(***************************************************************************)
Untouched ==
  /\ broker_up = FALSE
  /\ \A n \in Broker!Connections : state[n] # "open"

Shared ==
  /\ connection \in Broker!Connections /\ state[connection] = "open"
  /\ \A n \in Broker!Connections : state[n] = "open" => n = connection
  /\ \A t \in Tasks : pc[t] # "connecting"

BrokerAt ==
  /\ at \in {"postgres", "redis", "mq.connect", "connecting"} => Untouched
  /\ broker_up = TRUE /\ at \in {"workers", "serving", "finally", "draining", "mq.close"} =>
       Shared
  /\ broker_up = TRUE /\ at \in Release \ {"mq.close"} =>
       \A n \in Broker!Connections : state[n] # "open"

IInv ==
  /\ TypeOK
  /\ RuntimeAt
  /\ ReleasedAt
  /\ QuietAt
  /\ BrokerAt

-----------------------------------------------------------------------------
(***************************************************************************)
(* Steps of one task inside mq.py.                                         *)
(***************************************************************************)
LEMMA BrokerTypes ==
  ASSUME Broker!TypeOK, NEW t \in Tasks, Broker!TaskStep(t)
  PROVE  Broker!TypeOK'
  <1> USE LifespanAssumption DEF Broker!TypeOK, Broker!Awaits
  <1>1. ASSUME NEW f \in {"connect", "close", "_publish"},
               NEW to \in {"idle", "connecting", "channel", "closing"}, Broker!Begins(t, f, to)
        PROVE  /\ pc' \in [Tasks -> Broker!Awaits \cup {"idle"}]
               /\ channels' \in [Tasks -> Broker!Connections \cup {None}]
               /\ call' \in [Tasks -> {"connect", "close", "_publish"}]
               /\ queued' \in [Tasks -> BOOLEAN]
               /\ calls' \in 0 .. MaxCalls
    BY <1>1 DEF Broker!Begins
  <1>2. CASE \E f \in {"connect", "_publish"} : Broker!Reuse(t, f) \/ Broker!Connect(t, f)
    <2>1. ASSUME NEW f \in {"connect", "_publish"}, Broker!Reuse(t, f) PROVE Broker!TypeOK'
      BY <1>1, <2>1 DEF Broker!Reuse
    <2>2. ASSUME NEW f \in {"connect", "_publish"}, Broker!Connect(t, f) PROVE Broker!TypeOK'
      BY <1>1, <2>2 DEF Broker!Connect
    <2>3. QED
      BY <1>2, <2>1, <2>2
  <1>3. CASE Broker!Connected(t) \/ Broker!ConnectFails(t)
    BY <1>3 DEF Broker!Connected, Broker!ConnectFails, Broker!Returns
  <1>4. CASE Broker!Close(t)
    BY <1>1, <1>4 DEF Broker!Close
  <1>5. CASE Broker!Closed(t)
    BY <1>5 DEF Broker!Closed, Broker!Returns
  <1>6. CASE Broker!OpenChannel(t)
    BY <1>6 DEF Broker!OpenChannel, Broker!Returns
  <1>7. CASE Broker!DeclareQueue(t)
    <2>1. declared' = declared \/ declared' = TRUE
      BY <1>7 DEF Broker!DeclareQueue
    <2>2. declared' \in BOOLEAN
      BY <2>1, Zenon
    <2>3. QED
      BY <1>7, <2>2 DEF Broker!DeclareQueue, Broker!Finally
  <1>8. CASE Broker!Publish(t)
    <2>1. PICK reached \in BOOLEAN : queued' = [queued EXCEPT ![t] = reached]
      <3>1. declared \in BOOLEAN /\ FALSE \in BOOLEAN
        OBVIOUS
      <3>2. QED
        BY <1>8, <3>1, Zenon DEF Broker!Publish
    <2>2. queued' \in [Tasks -> BOOLEAN]
      BY <2>1
    <2>3. QED
      BY <1>8, <2>2 DEF Broker!Publish, Broker!Finally
  <1>9. CASE Broker!CloseChannel(t)
    BY <1>9 DEF Broker!CloseChannel, Broker!Returns
  <1>10. QED
    BY <1>2, <1>3, <1>4, <1>5, <1>6, <1>7, <1>8, <1>9 DEF Broker!TaskStep

LEMMA OthersStay ==
  ASSUME Broker!TypeOK, NEW t \in Tasks, Broker!TaskStep(t)
  PROVE  \E to : pc' = [pc EXCEPT ![t] = to]
  BY Zenon DEF Broker!TaskStep, Broker!Reuse, Broker!Connect, Broker!Begins, Broker!Connected,
       Broker!ConnectFails, Broker!Returns, Broker!Close, Broker!Closed, Broker!OpenChannel,
       Broker!DeclareQueue, Broker!Publish, Broker!CloseChannel, Broker!Finally

\* What a publishing task does to a connection that is open: nothing.
LEMMA PublishKeepsShared ==
  ASSUME Broker!TypeOK, Shared, NEW t \in Tasks, PublishStep(t)
  PROVE  Shared'
  <1>1. ~Broker!MayBeClosed
    BY LifespanAssumption DEF Shared, Broker!MayBeClosed, Broker!Connections
  <1>2. pc[t] # "connecting"
    BY DEF Shared
  <1>3. connection' = connection /\ state' = state
    BY <1>1, <1>2
       DEF PublishStep, Broker!Reuse, Broker!Connect, Broker!Connected, Broker!ConnectFails,
           Broker!OpenChannel, Broker!DeclareQueue, Broker!Publish, Broker!CloseChannel
  <1>4. PICK to : pc' = [pc EXCEPT ![t] = to] /\ to # "connecting"
    BY <1>1, <1>2, Zenon
       DEF PublishStep, Broker!Reuse, Broker!Begins, Broker!Connect, Broker!Connected,
           Broker!ConnectFails, Broker!Returns, Broker!OpenChannel, Broker!DeclareQueue,
           Broker!Publish, Broker!CloseChannel, Broker!Finally
  <1>5. QED
    BY <1>3, <1>4 DEF Shared, Broker!TypeOK

-----------------------------------------------------------------------------
LEMMA InitIInv == Init => IInv
  <1> SUFFICES ASSUME Init PROVE IInv
    OBVIOUS
  <1> USE LifespanAssumption DEF Init, Runtime!Init, Broker!Init
  <1>1. Broker!TypeOK
    <2>1. declared \in BOOLEAN
      OBVIOUS
    <2>2. queued \in [Tasks -> BOOLEAN]
      OBVIOUS
    <2>3. calls \in 0 .. MaxCalls
      OBVIOUS
    <2>4. QED
      BY <2>1, <2>2, <2>3 DEF Broker!TypeOK
  <1>2. worker_runtime \in BOOLEAN /\ app_state \in BOOLEAN /\ broker_up \in BOOLEAN
    OBVIOUS
  <1>3. TypeOK
    BY <1>1, <1>2 DEF TypeOK, Runtime!TypeOK
  <1>4. RuntimeAt /\ ReleasedAt
    BY DEF RuntimeAt, Startup, Release, Down, ReleasedAt
  <1>5. QuietAt /\ BrokerAt
    BY DEF QuietAt, BrokerAt, Release, Untouched, Tasks
  <1>6. QED
    BY <1>3, <1>4, <1>5 DEF IInv

Points ==
  {"postgres", "redis", "mq.connect", "connecting", "workers", "serving",
   "finally", "draining", "mq.close", "closing", "aclose", "dispose", "exited"}

\* A step of lifespan() that leaves mq.py alone.
LEMMA OutsideBroker ==
  ASSUME IInv, UNCHANGED brokerVars, UNCHANGED broker_up, at' \in Points,
         worker_runtime' \in BOOLEAN, app_state' \in BOOLEAN,
         released' \subseteq {"broker", "redis", "engine"},
         Runtime!TypeOK', RuntimeAt', ReleasedAt', QuietAt', BrokerAt'
  PROVE  IInv'
  <1>1. Broker!TypeOK'
    BY DEF IInv, TypeOK, Broker!TypeOK, brokerVars
  <1>2. QED
    BY <1>1 DEF IInv, TypeOK, Points

LEMMA OutsideIInv ==
  ASSUME IInv,
         \/ ProbePostgres \/ PingRedis \/ StartWorkers \/ Shutdown \/ StopWorkers
         \/ WorkersStopped \/ CloseRedis \/ DisposeEngine
  PROVE  IInv'
  <1>0. TypeOK /\ RuntimeAt /\ ReleasedAt /\ QuietAt /\ BrokerAt
    BY DEF IInv
  <1>1. CASE ProbePostgres \/ PingRedis
    <2> USE <1>0, <1>1 DEF ProbePostgres, PingRedis, Goes
    <2>1. /\ UNCHANGED <<runtimeVars, brokerVars, worker_runtime, app_state, broker_up, released>>
          /\ at \in {"postgres", "redis"} /\ at' \in {"redis", "mq.connect", "finally"}
      OBVIOUS
    <2>2. RuntimeAt' /\ ReleasedAt'
      BY <2>1 DEF RuntimeAt, ReleasedAt, Startup, Release, Down, runtimeVars
    <2>3. QuietAt' /\ BrokerAt'
      BY <2>1 DEF QuietAt, BrokerAt, Untouched, Release, runtimeVars, brokerVars
    <2>4. QED
      BY <2>1, <2>2, <2>3, OutsideBroker DEF TypeOK, Points, Runtime!TypeOK, runtimeVars
  <1>2. CASE StartWorkers
    <2>1. at = "workers" /\ at' \in {"serving", "finally"}
          /\ UNCHANGED <<brokerVars, broker_up, released>>
      BY <1>2 DEF StartWorkers, Goes
    <2>2. worker_runtime = FALSE /\ Down
      BY <1>0, <2>1 DEF RuntimeAt, Startup
    <2>3. \/ /\ phase' = phase /\ active' = active
             /\ worker_runtime' = worker_runtime /\ app_state' = app_state
          \/ /\ phase' = "serving" /\ active' = Workers
             /\ worker_runtime' = TRUE /\ app_state' = TRUE
      BY <1>2 DEF StartWorkers, Runtime!Start, runtimeVars
    <2>4. worker_runtime' \in BOOLEAN /\ app_state' \in BOOLEAN
      BY <1>0, <2>3, Zenon DEF TypeOK
    <2>5. Runtime!TypeOK'
      BY <1>0, <2>3 DEF TypeOK, Runtime!TypeOK
    <2>6. RuntimeAt'
      BY <2>1, <2>2, <2>3 DEF RuntimeAt, Startup, Release, Down
    <2>7. QuietAt'
      BY <1>0, <2>1, <2>2, <2>3 DEF QuietAt, Down, brokerVars
    <2>8. ReleasedAt' /\ BrokerAt'
      BY <1>0, <2>1 DEF ReleasedAt, BrokerAt, Shared, Release, brokerVars
    <2>9. QED
      BY <1>0, <2>1, <2>4, <2>5, <2>6, <2>7, <2>8, OutsideBroker DEF TypeOK, Points
  <1>3. CASE Shutdown
    <2>1. /\ UNCHANGED <<runtimeVars, brokerVars, worker_runtime, app_state, broker_up, released>>
          /\ at = "serving" /\ at' = "finally" /\ \A r \in Requests : pc[r] = "idle"
      BY <1>3 DEF Shutdown, Goes
    <2>2. RuntimeAt' /\ ReleasedAt'
      BY <1>0, <2>1 DEF RuntimeAt, ReleasedAt, Startup, Release, Down, runtimeVars
    <2>3. QuietAt' /\ BrokerAt'
      BY <1>0, <2>1 DEF QuietAt, BrokerAt, Shared, Release, runtimeVars, brokerVars
    <2>4. QED
      BY <1>0, <2>1, <2>2, <2>3, OutsideBroker DEF TypeOK, Points, Runtime!TypeOK, runtimeVars
  <1>4. CASE StopWorkers
    <2>1. /\ UNCHANGED <<brokerVars, worker_runtime, broker_up, released, active>>
          /\ at = "finally"
          /\ \/ /\ worker_runtime = TRUE /\ phase' = "draining" /\ at' = "draining"
                /\ app_state' = app_state
             \/ /\ worker_runtime = FALSE /\ app_state' = FALSE /\ at' = "mq.close"
                /\ phase' = phase
      BY <1>0, <1>4 DEF StopWorkers, Goes, Runtime!Stop, runtimeVars, TypeOK
    <2>2. app_state' \in BOOLEAN
      BY <1>0, <2>1, Zenon DEF TypeOK
    <2>3. RuntimeAt' /\ ReleasedAt'
      BY <1>0, <2>1 DEF RuntimeAt, ReleasedAt, Startup, Release, Down
    <2>4. QuietAt' /\ BrokerAt'
      BY <1>0, <2>1 DEF QuietAt, BrokerAt, Shared, Release, brokerVars
    <2>5. QED
      BY <1>0, <2>1, <2>2, <2>3, <2>4, OutsideBroker DEF TypeOK, Points, Runtime!TypeOK
  <1>5. CASE WorkersStopped
    <2>1. /\ UNCHANGED <<brokerVars, worker_runtime, broker_up, released, active>>
          /\ at = "draining" /\ at' = "mq.close" /\ active = {} /\ phase' = "stopped"
          /\ app_state' = FALSE
      BY <1>5 DEF WorkersStopped, Goes, Runtime!Stopped
    <2>2. app_state' \in BOOLEAN
      BY <2>1, Zenon
    <2>3. RuntimeAt' /\ ReleasedAt'
      BY <1>0, <2>1 DEF RuntimeAt, ReleasedAt, Startup, Release, Down
    <2>4. QuietAt' /\ BrokerAt'
      BY <1>0, <2>1 DEF QuietAt, BrokerAt, Shared, Release, brokerVars
    <2>5. QED
      BY <1>0, <2>1, <2>2, <2>3, <2>4, OutsideBroker DEF TypeOK, Points, Runtime!TypeOK
  <1>6. CASE CloseRedis \/ DisposeEngine
    <2>1. /\ UNCHANGED <<runtimeVars, brokerVars, worker_runtime, app_state, broker_up>>
          /\ \/ /\ at = "aclose" /\ at' = "dispose" /\ released' = released \cup {"redis"}
             \/ /\ at = "dispose" /\ at' = "exited" /\ released' = released \cup {"engine"}
      BY <1>6 DEF CloseRedis, DisposeEngine, Goes
    <2>2. RuntimeAt' /\ ReleasedAt'
      BY <1>0, <2>1 DEF RuntimeAt, ReleasedAt, Startup, Release, Down, runtimeVars
    <2>3. QuietAt' /\ BrokerAt'
      BY <1>0, <2>1 DEF QuietAt, BrokerAt, Release, runtimeVars, brokerVars
    <2>4. QED
      BY <1>0, <2>1, <2>2, <2>3, OutsideBroker DEF TypeOK, Points, Runtime!TypeOK, runtimeVars
  <1>7. QED
    BY <1>1, <1>2, <1>3, <1>4, <1>5, <1>6

\* A step inside mq.py: what is left to show is about lifespan() and the broker.
LEMMA InsideBroker ==
  ASSUME IInv, NEW t \in Tasks, Broker!TaskStep(t), UNCHANGED runtimeVars,
         UNCHANGED <<worker_runtime, app_state>>,
         at' \in Points, broker_up' \in BOOLEAN,
         released' \subseteq {"broker", "redis", "engine"},
         RuntimeAt', ReleasedAt', BrokerAt',
         \/ t = Main
         \/ t \in active
         \/ t \in Requests /\ at = "serving",
         at = "serving" <=> at' = "serving"
  PROVE  IInv'
  <1>0. TypeOK /\ QuietAt
    BY DEF IInv
  <1>1. Broker!TypeOK'
    BY <1>0, BrokerTypes DEF TypeOK
  <1>2. Runtime!TypeOK'
    BY <1>0 DEF TypeOK, Runtime!TypeOK, runtimeVars
  <1>3. PICK to : pc' = [pc EXCEPT ![t] = to]
    BY <1>0, OthersStay DEF TypeOK
  <1>4. pc \in [Tasks -> {"idle", "connecting", "channel", "declare", "publish",
                          "channel.close", "closing"}]
    BY <1>0 DEF TypeOK, Broker!TypeOK, Broker!Awaits
  <1>5. \A w \in Workers : w \notin active' => pc'[w] = "idle"
    <2> SUFFICES ASSUME NEW w \in Workers, w \notin active PROVE pc'[w] = "idle"
      BY DEF runtimeVars
    <2>1. w # t
      BY LifespanAssumption
    <2>2. QED
      BY <1>0, <1>3, <1>4, <2>1 DEF QuietAt, Tasks
  <1>6. at' # "serving" => \A r \in Requests : pc'[r] = "idle"
    <2> SUFFICES ASSUME at' # "serving", NEW r \in Requests PROVE pc'[r] = "idle"
      OBVIOUS
    <2>1. CASE at # "serving"
      <3>1. r # t
        BY <1>0, <2>1, LifespanAssumption DEF TypeOK, Runtime!TypeOK
      <3>2. QED
        BY <1>0, <1>3, <1>4, <2>1, <3>1 DEF QuietAt, Tasks
    <2>2. CASE at = "serving"
      BY <2>2
    <2>3. QED
      BY <2>1, <2>2
  <1>7. worker_runtime' \in BOOLEAN /\ app_state' \in BOOLEAN
    BY <1>0, Zenon DEF TypeOK
  <1>8. QED
    BY <1>1, <1>2, <1>5, <1>6, <1>7 DEF IInv, TypeOK, QuietAt, Points

LEMMA MainBrokerIInv ==
  ASSUME IInv, ConnectBroker \/ BrokerAnswers \/ CloseBroker \/ BrokerClosed
  PROVE  IInv'
  <1>0. TypeOK /\ RuntimeAt /\ ReleasedAt /\ QuietAt /\ BrokerAt
    BY DEF IInv
  <1>a. Main \in Tasks /\ state \in [Broker!Connections -> {"unused", "open", "closing", "closed"}]
        /\ connection \in Broker!Connections \cup {None}
        /\ pc \in [Tasks -> {"idle", "connecting", "channel", "declare", "publish",
                             "channel.close", "closing"}]
    BY <1>0 DEF Tasks, TypeOK, Broker!TypeOK, Broker!Awaits
  <1>1. CASE ConnectBroker
    <2>1. /\ UNCHANGED <<runtimeVars, worker_runtime, app_state, broker_up, released, state>>
          /\ at = "mq.connect" /\ at' = "connecting"
          /\ Broker!TaskStep(Main)
      BY <1>1 DEF ConnectBroker, Goes, Broker!Connect, Broker!TaskStep
    <2>2. RuntimeAt' /\ ReleasedAt'
      BY <1>0, <2>1 DEF RuntimeAt, ReleasedAt, Startup, Release, Down, runtimeVars
    <2>3. BrokerAt'
      BY <1>0, <2>1 DEF BrokerAt, Untouched, Release
    <2>4. QED
      BY <1>0, <1>a, <2>1, <2>2, <2>3, InsideBroker DEF TypeOK, Points
  <1>2. CASE BrokerAnswers
    <2>1. /\ UNCHANGED <<runtimeVars, worker_runtime, app_state, released>>
          /\ at = "connecting" /\ at' \in {"workers", "finally"}
          /\ Broker!TaskStep(Main)
          /\ \/ Broker!Connected(Main) /\ broker_up' = TRUE /\ at' = "workers"
             \/ broker_up' = broker_up
      BY <1>2 DEF BrokerAnswers, Goes, Broker!TaskStep
    <2>2. RuntimeAt' /\ ReleasedAt'
      BY <1>0, <2>1 DEF RuntimeAt, ReleasedAt, Startup, Release, Down, runtimeVars
    <2>3. Untouched /\ Down
      BY <1>0, <2>1 DEF BrokerAt, RuntimeAt, Startup
    <2>4. BrokerAt'
      <3>1. CASE broker_up' = broker_up
        BY <2>1, <2>3, <3>1 DEF BrokerAt, Untouched, Release
      <3>2. CASE Broker!Connected(Main) /\ broker_up' = TRUE /\ at' = "workers"
        <4>1. PICK n \in Broker!Connections :
                state' = [state EXCEPT ![n] = "open"] /\ connection' = n
          BY <3>2 DEF Broker!Connected
        <4>2. PICK to \in {"idle", "channel"} : pc' = [pc EXCEPT ![Main] = to]
          BY <3>2 DEF Broker!Connected, Broker!Returns
        <4>3. \A t \in Tasks \ {Main} : pc[t] = "idle"
          BY <1>0, <2>1, <2>3 DEF QuietAt, Down, Tasks
        <4>4. Shared'
          BY <1>a, <2>3, <4>1, <4>2, <4>3 DEF Shared, Untouched
        <4>5. QED
          BY <3>2, <4>4 DEF BrokerAt, Release
      <3>3. QED
        BY <2>1, <3>1, <3>2
    <2>5. broker_up' \in BOOLEAN
      BY <1>0, <2>1, Zenon DEF TypeOK
    <2>6. QED
      BY <1>0, <1>a, <2>1, <2>2, <2>4, <2>5, InsideBroker DEF TypeOK, Points
  <1>3. CASE CloseBroker
    <2>1. /\ UNCHANGED <<runtimeVars, worker_runtime, app_state, broker_up>>
          /\ at = "mq.close" /\ at' \in {"aclose", "closing"}
          /\ released' = released \cup {"broker"}
          /\ Broker!Close(Main) /\ Broker!TaskStep(Main)
      BY <1>3 DEF CloseBroker, Goes, Broker!TaskStep
    <2>2. RuntimeAt' /\ ReleasedAt'
      BY <1>0, <2>1 DEF RuntimeAt, ReleasedAt, Startup, Release, Down, runtimeVars
    <2>3. ASSUME broker_up = TRUE PROVE \A n \in Broker!Connections : state'[n] # "open"
      <3>1. Shared
        BY <1>0, <2>1, <2>3 DEF BrokerAt
      <3>2. state' = [state EXCEPT ![connection] = "closing"]
        BY <2>1, <3>1, LifespanAssumption
           DEF Shared, Broker!Close, Broker!MayBeClosed, Broker!Connections
      <3>3. QED
        BY <1>a, <3>1, <3>2 DEF Shared
    <2>4. BrokerAt'
      BY <2>1, <2>3 DEF BrokerAt
    <2>5. QED
      BY <1>0, <1>a, <2>1, <2>2, <2>4, InsideBroker DEF TypeOK, Points
  <1>4. CASE BrokerClosed
    <2>1. /\ UNCHANGED <<runtimeVars, worker_runtime, app_state, broker_up, released>>
          /\ at = "closing" /\ at' = "aclose"
          /\ Broker!Closed(Main) /\ Broker!TaskStep(Main)
      BY <1>4 DEF BrokerClosed, Goes, Broker!TaskStep
    <2>2. RuntimeAt' /\ ReleasedAt'
      BY <1>0, <2>1 DEF RuntimeAt, ReleasedAt, Startup, Release, Down, runtimeVars
    <2>3. state' = state \/ state' = [state EXCEPT ![handle[Main]] = "closed"]
      BY <2>1 DEF Broker!Closed
    <2>4. BrokerAt'
      BY <1>0, <1>a, <2>1, <2>3 DEF BrokerAt, Release
    <2>5. QED
      BY <1>0, <1>a, <2>1, <2>2, <2>4, InsideBroker DEF TypeOK, Points
  <1>5. QED
    BY <1>1, <1>2, <1>3, <1>4

LEMMA UseBrokerIInv ==
  ASSUME IInv, NEW t \in Workers \cup Requests, UseBroker(t)
  PROVE  IInv'
  <1>0. TypeOK /\ RuntimeAt /\ ReleasedAt /\ QuietAt /\ BrokerAt
    BY DEF IInv
  <1>1. /\ UNCHANGED <<runtimeVars, mainVars>> /\ PublishStep(t)
        /\ t \in active \/ (t \in Requests /\ at = "serving")
    BY DEF UseBroker
  <1>2. t \in Tasks /\ Broker!TaskStep(t)
    BY <1>1 DEF Tasks, PublishStep, Broker!TaskStep
  <1>3. RuntimeAt' /\ ReleasedAt'
    BY <1>0, <1>1 DEF RuntimeAt, ReleasedAt, Down, runtimeVars, mainVars
  <1>4. at \in {"serving", "finally", "draining"}
    BY <1>0, <1>1 DEF TypeOK, RuntimeAt, Startup, Release, Down
  <1>5. Broker!TypeOK
    BY <1>0 DEF TypeOK
  <1>6. BrokerAt'
    <2>1. CASE broker_up = TRUE
      <3>1. Shared'
        BY <1>0, <1>1, <1>2, <1>4, <1>5, <2>1, PublishKeepsShared DEF BrokerAt
      <3>2. QED
        BY <1>1, <1>4, <3>1 DEF BrokerAt, Release, mainVars
    <2>2. CASE broker_up # TRUE
      BY <1>1, <1>4, <2>2 DEF BrokerAt, Release, mainVars
    <2>3. QED
      BY <2>1, <2>2
  <1>7. QED
    BY <1>0, <1>1, <1>2, <1>3, <1>6, InsideBroker DEF TypeOK, Points, mainVars

LEMMA WorkerEndsIInv ==
  ASSUME IInv, NEW w \in Workers, WorkerEnds(w)
  PROVE  IInv'
  <1>0. TypeOK /\ RuntimeAt /\ ReleasedAt /\ QuietAt /\ BrokerAt
    BY DEF IInv
  <1>1. /\ UNCHANGED <<brokerVars, mainVars, phase>> /\ active' = active \ {w}
        /\ phase = "draining" /\ pc[w] = "idle"
    BY DEF WorkerEnds, Runtime!Drain
  <1>2. RuntimeAt' /\ ReleasedAt'
    BY <1>0, <1>1 DEF RuntimeAt, ReleasedAt, Down, mainVars
  <1>3. QuietAt' /\ BrokerAt'
    BY <1>0, <1>1 DEF QuietAt, BrokerAt, Untouched, Shared, mainVars, brokerVars
  <1>4. QED
    BY <1>0, <1>1, <1>2, <1>3, OutsideBroker DEF TypeOK, Points, Runtime!TypeOK, mainVars

LEMMA NextIInv == IInv /\ [Next]_vars => IInv'
  <1> SUFFICES ASSUME IInv, [Next]_vars PROVE IInv'
    OBVIOUS
  <1>1. CASE UNCHANGED vars
    <2>1. UNCHANGED <<brokerVars, mainVars, phase, active>>
      BY <1>1 DEF vars, runtimeVars
    <2>2. RuntimeAt' /\ ReleasedAt'
      BY <2>1 DEF IInv, RuntimeAt, ReleasedAt, Down, mainVars
    <2>3. QuietAt' /\ BrokerAt'
      BY <2>1 DEF IInv, QuietAt, BrokerAt, Untouched, Shared, mainVars, brokerVars
    <2>4. QED
      BY <2>1, <2>2, <2>3, OutsideBroker DEF IInv, TypeOK, Points, Runtime!TypeOK, mainVars
  <1>2. QED
    BY <1>1, OutsideIInv, MainBrokerIInv, UseBrokerIInv, WorkerEndsIInv DEF Next, MainStep

LEMMA Invariant == Spec => []IInv
  BY InitIInv, NextIInv, PTL DEF Spec

-----------------------------------------------------------------------------
\* The lifespan, the runtime and the broker keep their types together.
THEOREM TypeCorrect == Spec => []TypeOK
  <1>1. IInv => TypeOK
    BY DEF IInv
  <1>2. QED
    BY <1>1, Invariant, PTL

\* No client is released while a worker has a supervisor or any task is inside
\* mq.py, for any number of workers and requests and whatever failed before.
THEOREM ReleasedUnused == Spec => []NoReleaseUnderUse
  <1>1. IInv => NoReleaseUnderUse
    BY DEF IInv, RuntimeAt, ReleasedAt, QuietAt, Release, Down, NoReleaseUnderUse
  <1>2. QED
    BY <1>1, Invariant, PTL

\* lifespan() ends only after it has tried to release all three clients.
THEOREM AllReleased == Spec => []NothingSkipped
  <1>1. IInv => NothingSkipped
    BY DEF IInv, ReleasedAt, NothingSkipped
  <1>2. QED
    BY <1>1, Invariant, PTL

\* If the startup reached the broker, no second connection is ever open, and none
\* is left open by the shutdown.
THEOREM OneBrokerConnection == Spec => []BrokerReleased
  <1>1. IInv => BrokerReleased
    <2> SUFFICES ASSUME IInv, broker_up
                 PROVE  /\ Cardinality(Broker!OpenConnections) <= 1
                        /\ at \in {"aclose", "dispose", "exited"} => Broker!OpenConnections = {}
      BY DEF BrokerReleased
    <2>0. broker_up = TRUE
      BY DEF IInv, TypeOK
    <2>1. CASE at \in {"workers", "serving", "finally", "draining", "mq.close"}
      <3>1. Broker!OpenConnections = {connection}
        BY <2>0, <2>1 DEF IInv, BrokerAt, Shared, Broker!OpenConnections
      <3>2. Cardinality({connection}) = 1
        BY FS_Singleton
      <3>3. QED
        BY <2>1, <3>1, <3>2
    <2>2. CASE at \in Release \ {"mq.close"}
      <3>1. Broker!OpenConnections = {}
        BY <2>0, <2>2 DEF IInv, BrokerAt, Broker!OpenConnections
      <3>2. QED
        BY <3>1, FS_EmptySet
    <2>3. QED
      BY <2>0, <2>1, <2>2 DEF IInv, TypeOK, BrokerAt, Untouched, Release
  <1>2. QED
    BY <1>1, Invariant, PTL
=============================================================================
