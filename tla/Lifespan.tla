------------------------------ MODULE Lifespan -------------------------------
(***************************************************************************)
(* main.py: the lifespan of the FastAPI application.  It composes the      *)
(* broker connection (BrokerConnection), the worker runtime by what it     *)
(* promises (WorkerSupervision), and the two clients that are opened and   *)
(* closed here, redis_client and the SQLAlchemy engine.                    *)
(*                                                                         *)
(* While serving, workers and requests publish through the same broker     *)
(* connection.  uvicorn, external, lets requests end before it asks for    *)
(* the shutdown, and asks once; a worker that was cancelled has left mq.py *)
(* once its supervisor is done.                                            *)
(***************************************************************************)
EXTENDS Integers, FiniteSets

CONSTANTS
  Workers,             \* the runners build_default_worker_runtime() registers
  Requests,            \* tasks of HTTP requests that publish
  Main,                \* the task that runs lifespan()
  None, MaxConnections, MaxCalls

ASSUME LifespanAssumption ==
  /\ Workers \cap Requests = {}
  /\ Main \notin Workers \cup Requests
  /\ None \notin Nat
  /\ MaxConnections \in Nat
  /\ MaxCalls \in Nat /\ MaxCalls >= 2

VARIABLES
  phase, active,       \* the worker runtime
  connection, state, pc, call, handle, channels, declared, queued, outcome, calls,
  at,                  \* where lifespan() is
  worker_runtime,      \* its local variable is not None
  app_state,           \* app.state.worker_runtime is not None
  broker_up,           \* mq.connect() succeeded at startup
  released             \* what the finally clauses tried to release

Tasks == Workers \cup Requests \cup {Main}

Runtime == INSTANCE WorkerSupervision
Broker == INSTANCE BrokerConnection

runtimeVars == <<phase, active>>
brokerVars ==
  <<connection, state, pc, call, handle, channels, declared, queued, outcome, calls>>
mainVars == <<at, worker_runtime, app_state, broker_up, released>>
vars == <<runtimeVars, brokerVars, mainVars>>

TypeOK ==
  /\ Runtime!TypeOK
  /\ Broker!TypeOK
  /\ at \in {"postgres", "redis", "mq.connect", "connecting", "workers", "serving",
             "finally", "draining", "mq.close", "closing", "aclose", "dispose", "exited"}
  /\ worker_runtime \in BOOLEAN
  /\ app_state \in BOOLEAN
  /\ broker_up \in BOOLEAN
  /\ released \subseteq {"broker", "redis", "engine"}

Init ==
  /\ Runtime!Init
  /\ Broker!Init
  /\ at = "postgres"
  /\ worker_runtime = FALSE
  /\ app_state = FALSE
  /\ broker_up = FALSE
  /\ released = {}

Goes(next) == at' = next

-----------------------------------------------------------------------------
(***************************************************************************)
(* Startup.  An exception, or a cancellation, leads to the finally clause. *)
(***************************************************************************)
ProbePostgres ==
  /\ at = "postgres"
  /\ Goes("redis") \/ Goes("finally")
  /\ UNCHANGED <<runtimeVars, brokerVars, worker_runtime, app_state, broker_up, released>>

PingRedis ==
  /\ at = "redis"
  /\ Goes("mq.connect") \/ Goes("finally")
  /\ UNCHANGED <<runtimeVars, brokerVars, worker_runtime, app_state, broker_up, released>>

\* Nobody has connected before: there is no connection to reuse.
ConnectBroker ==
  /\ at = "mq.connect"
  /\ Broker!Connect(Main, "connect")
  /\ Goes("connecting")
  /\ UNCHANGED <<runtimeVars, worker_runtime, app_state, broker_up, released>>

\* Mutant: the startup insists on the broker.
InsistOnBroker ==
  /\ at = "connecting"
  /\ \/ Broker!Connected(Main) /\ broker_up' = TRUE /\ Goes("workers")
     \/ Broker!ConnectFails(Main) /\ UNCHANGED broker_up /\ Goes("mq.connect")
  /\ UNCHANGED <<runtimeVars, worker_runtime, app_state, released>>

\* Only an Exception is caught: a cancellation still ends the startup.
BrokerAnswers ==
  /\ at = "connecting"
  /\ \/ Broker!Connected(Main) /\ broker_up' = TRUE /\ Goes("workers")
     \/ /\ Broker!ConnectFails(Main)
        /\ Goes("workers") \/ Goes("finally")
        /\ UNCHANGED broker_up
  /\ UNCHANGED <<runtimeVars, worker_runtime, app_state, released>>

\* Embedded workers are disabled or none is registered; or they are built and
\* started, and start() does not suspend; or the constructor raises, as it does
\* when the configured base delay exceeds the maximum.
StartWorkers ==
  /\ at = "workers"
  /\ \/ /\ Goes("serving")
        /\ UNCHANGED <<runtimeVars, worker_runtime, app_state>>
     \/ /\ Workers # {}
        /\ Runtime!Start
        /\ worker_runtime' = TRUE
        /\ app_state' = TRUE
        /\ Goes("serving")
     \/ /\ Workers # {}
        /\ Goes("finally")
        /\ UNCHANGED <<runtimeVars, worker_runtime, app_state>>
  /\ UNCHANGED <<brokerVars, broker_up, released>>

-----------------------------------------------------------------------------
(***************************************************************************)
(* Serving: the other tasks use the broker.                                *)
(***************************************************************************)
PublishStep(t) ==
  \/ Broker!Reuse(t, "_publish") \/ Broker!Connect(t, "_publish")
  \/ Broker!Connected(t) \/ Broker!ConnectFails(t)
  \/ Broker!OpenChannel(t) \/ Broker!DeclareQueue(t)
  \/ Broker!Publish(t) \/ Broker!CloseChannel(t)

\* The last call within the bound is kept for the close() of the shutdown.
UseBroker(t) ==
  /\ \/ t \in active
     \/ t \in Requests /\ at = "serving"
  /\ pc[t] = "idle" => calls < MaxCalls - 1
  /\ PublishStep(t)
  /\ UNCHANGED <<runtimeVars, mainVars>>

Shutdown ==
  /\ at = "serving"
  /\ \A t \in Requests : pc[t] = "idle"
  /\ Goes("finally")
  /\ UNCHANGED <<runtimeVars, brokerVars, worker_runtime, app_state, broker_up, released>>

-----------------------------------------------------------------------------
(***************************************************************************)
(* The finally clauses: each step is followed by the next one whether it   *)
(* returned, raised or was cancelled.                                      *)
(***************************************************************************)
\* Mutant: the shutdown does not wait for the workers.
StopInBackground ==
  /\ at = "finally"
  /\ IF worker_runtime THEN Runtime!Stop ELSE UNCHANGED runtimeVars
  /\ app_state' = FALSE
  /\ Goes("mq.close")
  /\ UNCHANGED <<brokerVars, worker_runtime, broker_up, released>>

StopWorkers ==
  /\ at = "finally"
  /\ \/ /\ worker_runtime
        /\ Runtime!Stop
        /\ Goes("draining")
        /\ UNCHANGED app_state
     \/ /\ ~worker_runtime
        /\ app_state' = FALSE
        /\ Goes("mq.close")
        /\ UNCHANGED runtimeVars
  /\ UNCHANGED <<brokerVars, worker_runtime, broker_up, released>>

WorkerEnds(w) ==
  /\ pc[w] = "idle"
  /\ Runtime!Drain(w)
  /\ UNCHANGED <<brokerVars, mainVars>>

WorkersStopped ==
  /\ at = "draining"
  /\ Runtime!Stopped
  /\ app_state' = FALSE
  /\ Goes("mq.close")
  /\ UNCHANGED <<brokerVars, worker_runtime, broker_up, released>>

\* Mutant: the connection is dropped, not closed.
DropBroker ==
  /\ at = "mq.close"
  /\ Goes("aclose")
  /\ released' = released \cup {"broker"}
  /\ connection' = None
  /\ UNCHANGED <<runtimeVars, state, pc, call, handle, channels, declared, queued,
                 outcome, calls, worker_runtime, app_state, broker_up>>

CloseBroker ==
  /\ at = "mq.close"
  /\ Broker!Close(Main)
  /\ Goes(IF pc'[Main] = "idle" THEN "aclose" ELSE "closing")
  /\ released' = released \cup {"broker"}
  /\ UNCHANGED <<runtimeVars, worker_runtime, app_state, broker_up>>

\* Mutant: no finally clause around the close.
NoNestedFinally ==
  /\ at = "closing"
  /\ Broker!Closed(Main)
  /\ Goes(IF outcome'[Main] = "ok" THEN "aclose" ELSE "exited")
  /\ UNCHANGED <<runtimeVars, worker_runtime, app_state, broker_up, released>>

BrokerClosed ==
  /\ at = "closing"
  /\ Broker!Closed(Main)
  /\ Goes("aclose")
  /\ UNCHANGED <<runtimeVars, worker_runtime, app_state, broker_up, released>>

CloseRedis ==
  /\ at = "aclose"
  /\ released' = released \cup {"redis"}
  /\ Goes("dispose")
  /\ UNCHANGED <<runtimeVars, brokerVars, worker_runtime, app_state, broker_up>>

DisposeEngine ==
  /\ at = "dispose"
  /\ released' = released \cup {"engine"}
  /\ Goes("exited")
  /\ UNCHANGED <<runtimeVars, brokerVars, worker_runtime, app_state, broker_up>>

-----------------------------------------------------------------------------
MainStep ==
  \/ ProbePostgres \/ PingRedis \/ ConnectBroker \/ BrokerAnswers \/ StartWorkers
  \/ StopWorkers \/ WorkersStopped \/ CloseBroker \/ BrokerClosed \/ CloseRedis
  \/ DisposeEngine

Next ==
  \/ MainStep
  \/ Shutdown
  \/ \E t \in Workers \cup Requests : UseBroker(t)
  \/ \E w \in Workers : WorkerEnds(w)

Spec == Init /\ [][Next]_vars

(***************************************************************************)
(* Every await of lifespan() ends, in a result or an exception; so does    *)
(* every await of a publish; and a cancelled worker ends once it is out of *)
(* mq.py, as WorkerSupervision promises.  Nobody has to shut down.         *)
(***************************************************************************)
FairSpec ==
  /\ Spec
  /\ WF_vars(MainStep)
  /\ \A w \in Workers : /\ WF_vars(UseBroker(w) /\ pc[w] # "idle")
                        /\ WF_vars(WorkerEnds(w))

-----------------------------------------------------------------------------
(***************************************************************************)
(* Properties.                                                             *)
(***************************************************************************)
\* Shutdown cannot race a task still using a shared client: nothing is released
\* while a worker has a supervisor or anyone is inside mq.py.
NoReleaseUnderUse ==
  released # {} => active = {} /\ \A t \in Workers \cup Requests : pc[t] = "idle"

\* Whichever step of the startup or of the shutdown failed, lifespan() has tried
\* to release every client before it ends.
NothingSkipped == at = "exited" => released = {"broker", "redis", "engine"}

\* If the broker could be reached at startup, tasks that publish at the same time
\* share that connection, and the shutdown leaves none open that it did not try
\* to close.
BrokerReleased ==
  broker_up =>
    /\ Cardinality(Broker!OpenConnections) <= 1
    /\ at \in {"aclose", "dispose", "exited"} => Broker!OpenConnections = {}

\* A startup ends in serving or in an exit, and a shutdown in an exit, whichever
\* awaits fail on the way and whatever the workers are publishing meanwhile.
LifespanSettles == at # "serving" ~> at \in {"serving", "exited"}

=============================================================================
