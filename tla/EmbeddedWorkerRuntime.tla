------------------------ MODULE EmbeddedWorkerRuntime ------------------------
(***************************************************************************)
(* workers/runtime.py: one supervisor task per worker, started and stopped *)
(* together under an asyncio lock.                                         *)
(*                                                                         *)
(* An action is what the event loop runs between two suspension points, so *)
(* every action is atomic exactly where the code is.  Runners are outside  *)
(* the module: RunnerExits says how one may end by itself, CancelExits how *)
(* one may end once a CancelledError was thrown into it ("cancelled" is a  *)
(* CancelledError, or another BaseException, leaving the runner).          *)
(***************************************************************************)
EXTENDS Backoff

CONSTANTS
  Workers,        \* the names in the runners mapping
  Callers,        \* tasks that call start() and stop()
  RunnerExits,
  CancelExits,
  None,           \* Python's None
  MaxRequests,    \* bound: calls of start and stop, and cancellations of them
  MaxRestarts     \* bound: restart_count of one worker

Exits == {"exception", "returned", "cancelled"}

ASSUME RuntimeAssumption ==
  /\ Workers # {}
  /\ None \notin Nat
  /\ None \notin Callers
  /\ None \notin Exits
  /\ RunnerExits \subseteq Exits
  /\ CancelExits \subseteq Exits
  /\ MaxRequests \in Nat
  /\ MaxRestarts \in Nat

VARIABLES
  started,        \* _started
  statuses,       \* _statuses
  tasks,          \* _tasks: worker -> id of its task, 0 where there is none
  live,           \* the supervisor tasks that are not done
  spawned,        \* how often start() created tasks; names the next ones
  lock,           \* who holds _lifecycle_lock across a suspension, or None
  ticket,         \* arrival order at the lock
  pc,             \* where each caller is suspended
  requests

taskVars == <<started, statuses, tasks, live, spawned>>
callVars == <<lock, ticket, pc, requests>>
vars == <<started, statuses, tasks, live, spawned, lock, ticket, pc, requests>>

States == {"starting", "running", "backoff", "stopping", "stopped"}

WorkerStatus ==
  [state : States, restart_count : Nat,
   last_exit : {"exception", "returned", None}, next_retry : Nat \cup {None}]

(***************************************************************************)
(* A supervisor: created and never run, inside the runner, inside a runner *)
(* that is handling its cancellation, or in the backoff sleep.  cancel is  *)
(* a task.cancel() that the loop has not delivered yet.                    *)
(***************************************************************************)
Supervisor ==
  [worker : Workers, id : Nat,
   at : {"created", "running", "cleanup", "sleeping"}, cancel : BOOLEAN]

TypeOK ==
  /\ started \in BOOLEAN
  /\ statuses \in [Workers -> WorkerStatus]
  /\ tasks \in [Workers -> Nat]
  /\ live \subseteq Supervisor
  /\ spawned \in Nat
  /\ lock \in Callers \cup {None}
  /\ ticket \in [Callers -> Nat]
  /\ pc \in [Callers -> {"idle", "start", "stop", "gathering", "abandoned"}]
  /\ requests \in Nat

FreshStatus(state) ==
  [state |-> state, restart_count |-> 0, last_exit |-> None, next_retry |-> None]

Init ==
  /\ started = FALSE
  /\ statuses = [w \in Workers |-> FreshStatus("stopped")]
  /\ tasks = [w \in Workers |-> 0]
  /\ live = {}
  /\ spawned = 0
  /\ lock = None
  /\ ticket = [c \in Callers |-> 0]
  /\ pc = [c \in Callers |-> "idle"]
  /\ requests = 0

-----------------------------------------------------------------------------
(***************************************************************************)
(* The lifecycle lock.  asyncio.Lock is fair: whoever finds it held, or    *)
(* finds others waiting, queues behind them.                               *)
(***************************************************************************)
Queued(c) == pc[c] \in {"start", "stop"}

First(c) == \A d \in Callers : Queued(d) => ticket[c] <= ticket[d]

\* c enters the critical section of op, straight away or from the queue.
Acquires(c, op) ==
  /\ lock = None
  /\ \/ /\ pc[c] = "idle"
        /\ \A d \in Callers : ~Queued(d)
        /\ requests < MaxRequests
        /\ requests' = requests + 1
     \/ /\ pc[c] = op
        /\ First(c)
        /\ UNCHANGED requests
  /\ ticket' = [ticket EXCEPT ![c] = 0]

\* start() or stop() finds the lock taken and waits for it.
Queue(c, op) ==
  /\ pc[c] = "idle"
  /\ lock # None \/ \E d \in Callers : Queued(d)
  /\ requests < MaxRequests
  /\ requests' = requests + 1
  /\ ticket' = [ticket EXCEPT ![c] = requests + 1]
  /\ pc' = [pc EXCEPT ![c] = op]
  /\ UNCHANGED <<lock, taskVars>>

-----------------------------------------------------------------------------
(***************************************************************************)
(* start().  Nothing in it suspends, so the lock is released in the step   *)
(* that takes it.                                                          *)
(***************************************************************************)
NewSupervisors(id) ==
  {[worker |-> w, id |-> id, at |-> "created", cancel |-> FALSE] : w \in Workers}

Start(c) ==
  /\ Acquires(c, "start")
  /\ pc' = [pc EXCEPT ![c] = "idle"]
  /\ UNCHANGED lock
  /\ \/ started /\ UNCHANGED taskVars
     \/ /\ ~started
        /\ started' = TRUE
        /\ spawned' = spawned + 1
        /\ statuses' = [w \in Workers |-> FreshStatus("starting")]
        /\ tasks' = [w \in Workers |-> spawned']
        /\ live' = live \cup NewSupervisors(spawned')

(***************************************************************************)
(* stop(), up to the gather: it keeps the lock while it waits.             *)
(***************************************************************************)
Registered(t) == t.id = tasks[t.worker]

\* Mutant: only the workers that are running are cancelled.
CancelRunning ==
  {[t EXCEPT !.cancel = t.cancel \/ (Registered(t) /\ t.at = "running")] : t \in live}

\* task.cancel() on every task in _tasks; a no-op for the ones that are done.
CancelTasks == {[t EXCEPT !.cancel = t.cancel \/ Registered(t)] : t \in live}

Stop(c) ==
  /\ Acquires(c, "stop")
  /\ \/ /\ ~started
        /\ pc' = [pc EXCEPT ![c] = "idle"]
        /\ UNCHANGED <<lock, taskVars>>
     \/ /\ started
        /\ started' = FALSE
        /\ statuses' = [w \in Workers |->
             IF tasks[w] = 0 THEN statuses[w]
                             ELSE [statuses[w] EXCEPT !.state = "stopping"]]
        /\ live' = CancelTasks
        /\ lock' = c
        /\ pc' = [pc EXCEPT ![c] = "gathering"]
        /\ UNCHANGED <<tasks, spawned>>

\* Mutants: no gather at all, and a gather that ends with the first task.
NoGather == TRUE
FirstCompleted == \E w \in Workers : \A t \in live : t.worker = w => ~Registered(t)

\* gather() waits until every task it was given is done.
Gathered == \A t \in live : ~Registered(t)

\* Mutant: stop() leaves it to the supervisors to report that they stopped.
TrustSupervisors(c) ==
  /\ pc[c] = "gathering"
  /\ Gathered
  /\ tasks' = [w \in Workers |-> 0]
  /\ lock' = None
  /\ pc' = [pc EXCEPT ![c] = "idle"]
  /\ UNCHANGED <<started, statuses, live, spawned, ticket, requests>>

\* The rest of stop(), after the gather.
FinishStop(c) ==
  /\ pc[c] = "gathering"
  /\ Gathered
  /\ tasks' = [w \in Workers |-> 0]
  /\ statuses' = [w \in Workers |->
       [statuses[w] EXCEPT !.state = "stopped", !.next_retry = None]]
  /\ lock' = None
  /\ pc' = [pc EXCEPT ![c] = "idle"]
  /\ UNCHANGED <<started, live, spawned, ticket, requests>>

(***************************************************************************)
(* The task inside start() or stop() is itself cancelled while suspended.  *)
(* In the queue it just leaves.  In the gather the children are cancelled  *)
(* once more, and the CancelledError comes out once all of them are done:  *)
(* past the clean-up at the end of stop(), through the release of the lock.*)
(***************************************************************************)
CancelCaller(c) ==
  /\ requests < MaxRequests
  /\ requests' = requests + 1
  /\ \/ /\ Queued(c)
        /\ pc' = [pc EXCEPT ![c] = "idle"]
        /\ ticket' = [ticket EXCEPT ![c] = 0]
        /\ UNCHANGED live
     \/ /\ pc[c] \in {"gathering", "abandoned"}
        /\ pc' = [pc EXCEPT ![c] = "abandoned"]
        /\ live' = CancelTasks
        /\ UNCHANGED ticket
  /\ UNCHANGED <<started, statuses, tasks, spawned, lock>>

AbandonStop(c) ==
  /\ pc[c] = "abandoned"
  /\ Gathered
  /\ lock' = None
  /\ pc' = [pc EXCEPT ![c] = "idle"]
  /\ UNCHANGED <<taskVars, ticket, requests>>

-----------------------------------------------------------------------------
(***************************************************************************)
(* _supervise().  Moves is the supervisor t at its next suspension point.  *)
(***************************************************************************)
Moves(t, at) ==
  live' = (live \ {t}) \cup {[t EXCEPT !.at = at, !.cancel = FALSE]}

\* Mutant: a finally clause with a state of its own.
CancelledFinally(t) ==
  /\ live' = live \ {t}
  /\ statuses' = [statuses EXCEPT ![t.worker].state = "cancelled"]

\* The finally clause: the task is done and its worker is reported stopped.
Finally(t) ==
  /\ live' = live \ {t}
  /\ statuses' = [statuses EXCEPT ![t.worker].state = "stopped",
                                  ![t.worker].next_retry = None]

\* Mutant: a supervisor runs its runner once.
RunOnce(t) ==
  /\ t.at = "created" /\ ~t.cancel
  /\ Moves(t, "running")
  /\ statuses' = [statuses EXCEPT ![t.worker].state = "running"]
  /\ UNCHANGED <<started, tasks, spawned, callVars>>

\* The head of the loop: first run of the task, or end of the sleep.
RunRunner(t) ==
  /\ t.at \in {"created", "sleeping"}
  /\ ~t.cancel
  /\ Moves(t, "running")
  /\ statuses' = [statuses EXCEPT ![t.worker].state = "running",
                                  ![t.worker].next_retry = None]
  /\ UNCHANGED <<started, tasks, spawned, callVars>>

\* The runner raised, or returned although it should not: back off.  An
\* OverflowError of ldexp would leave the loop.
Fail(t, exit) ==
  LET status == statuses[t.worker] IN
  /\ status.restart_count < MaxRestarts
  /\ IF LdexpOverflows(BaseBackoff, Exponent(status.restart_count))
     THEN /\ live' = live \ {t}
          /\ statuses' = [statuses EXCEPT ![t.worker] =
               [@ EXCEPT !.state = "stopped", !.last_exit = exit, !.next_retry = None]]
     ELSE /\ Moves(t, "sleeping")
          /\ statuses' = [statuses EXCEPT ![t.worker] =
               [state |-> "backoff", restart_count |-> status.restart_count + 1,
                last_exit |-> exit, next_retry |-> RetrySeconds(status.restart_count)]]

\* await runner_factory() ends.  A CancelledError is always re-raised.
RunnerEnds(t, exit) ==
  /\ ~t.cancel
  /\ \/ t.at = "running" /\ exit \in RunnerExits
     \/ t.at = "cleanup" /\ exit \in CancelExits
  /\ IF exit = "cancelled" THEN Finally(t) ELSE Fail(t, exit)
  /\ UNCHANGED <<started, tasks, spawned, callVars>>

(***************************************************************************)
(* The loop delivers a cancellation: a task that never ran is done without *)
(* reaching its finally clause, a sleeping one goes through it, and a      *)
(* running one gets the CancelledError inside its runner.                  *)
(***************************************************************************)
DeliverCancel(t) ==
  /\ t.cancel
  /\ \/ /\ t.at = "created"
        /\ live' = live \ {t}
        /\ UNCHANGED statuses
     \/ /\ t.at = "sleeping"
        /\ Finally(t)
     \/ /\ t.at \in {"running", "cleanup"}
        /\ Moves(t, "cleanup")
        /\ UNCHANGED statuses
  /\ UNCHANGED <<started, tasks, spawned, callVars>>

-----------------------------------------------------------------------------
CallerStep(c) ==
  \/ Start(c)
  \/ Stop(c)
  \/ \E op \in {"start", "stop"} : Queue(c, op)
  \/ FinishStop(c)
  \/ CancelCaller(c)
  \/ AbandonStop(c)

SupervisorStep(t) ==
  \/ RunRunner(t)
  \/ \E exit \in Exits : RunnerEnds(t, exit)
  \/ DeliverCancel(t)

Next ==
  \/ \E c \in Callers : CallerStep(c)
  \/ \E t \in live : SupervisorStep(t)

(***************************************************************************)
(* The event loop runs every callback that is ready and every timer that   *)
(* has expired, and a runner that was cancelled finishes its clean-up.     *)
(* Nobody has to call start or stop, and a runner may run for ever.        *)
(***************************************************************************)
LoopStep(w) ==
  \E t \in live : t.worker = w /\ (RunRunner(t) \/ DeliverCancel(t))

CleanupEnds(w) ==
  \E t \in live, exit \in Exits :
    t.worker = w /\ t.at = "cleanup" /\ RunnerEnds(t, exit)

Granted(c) == Queued(c) /\ (Start(c) \/ Stop(c))

Fairness ==
  /\ \A w \in Workers : WF_vars(LoopStep(w)) /\ WF_vars(CleanupEnds(w))
  /\ \A c \in Callers : /\ WF_vars(Granted(c))
                        /\ WF_vars(FinishStop(c))
                        /\ WF_vars(AbandonStop(c))

Spec == Init /\ [][Next]_vars

FairSpec == Spec /\ Fairness
-----------------------------------------------------------------------------
(***************************************************************************)
(* Properties.                                                             *)
(***************************************************************************)
Of(w) == {t \in live : t.worker = w}

\* However start(), stop() and cancellations of them interleave, a worker
\* never has two supervisors: _tasks is refilled only once every earlier task
\* is done, so no queued message is consumed twice.
OneSupervisorPerWorker == \A s, t \in live : s.worker = t.worker => s = t

\* Once stop() has given the lock back, returned or cancelled, no supervisor
\* is left: what main.py closes next is not in use by a worker.
NoSupervisorOutlivesStop == ~started /\ lock = None => live = {}

\* While the runtime is started, every worker in _tasks has a supervisor that
\* nobody cancelled: a runner that raises or returns is never given up on.
SupervisedWhileStarted ==
  started => \A w \in Workers : \E t \in Of(w) : Registered(t) /\ ~t.cancel

\* The state in _statuses is that of the worker's supervisor, for every way
\* start(), stop(), the runner and its cancellation may interleave.  "stopping"
\* lasts no longer than the stop() that set it, although a task cancelled before
\* its first step, or ended long ago, never reports itself: _tasks is not cleared
\* yet.  Only a stop() that is itself cancelled in the gather leaves both behind,
\* and no supervisor by then (NoSupervisorOutlivesStop), until the next start().
HealthReportIsTrue ==
  \A w \in Workers :
    LET state == statuses[w].state IN
    /\ state = "stopped" => Of(w) = {}
    /\ state = "starting" => \E t \in Of(w) : t.at = "created"
    /\ state = "running" => \E t \in Of(w) : t.at \in {"running", "cleanup"}
    /\ state = "backoff" => \E t \in Of(w) : t.at = "sleeping"
    /\ state = "stopping" =>
         /\ ~started
         /\ tasks[w] # 0
         /\ \A t \in Of(w) : t.cancel \/ t.at = "cleanup"

\* The delay a worker waits for is that of plain doubling from the base,
\* clipped at the maximum: capping the exponent against overflow, and counting
\* the restart after computing the delay, change none of the delays, except for
\* what the rounding of the logarithms hides (nothing where Slack is 0).
BackoffSchedule ==
  \A w \in Workers :
    /\ statuses[w].state = "backoff" =>
         /\ statuses[w].restart_count > 0
         /\ LET delay == Doubling(statuses[w].restart_count - 1) IN
              statuses[w].next_retry \in delay - Slack .. delay
    /\ statuses[w].state \in {"starting", "running", "stopped"} =>
         statuses[w].next_retry = None

\* stop() ends: it gets the lock, and every supervisor it waits for is done
\* once the runners have cleaned up.
StopReturns == \A c \in Callers : pc[c] \in {"stop", "gathering"} ~> pc[c] = "idle"

\* A worker that failed runs again, unless it is stopped meanwhile.
WorkerRunsAgain ==
  \A w \in Workers :
    statuses[w].state = "backoff" ~> statuses[w].state \in {"running", "stopped"}

(***************************************************************************)
(* What main.py may rely on (WorkerSupervision).                           *)
(***************************************************************************)
Phase ==
  IF started THEN "serving" ELSE IF lock # None THEN "draining" ELSE "stopped"

Active == {t.worker : t \in live}

Supervision == INSTANCE WorkerSupervision WITH phase <- Phase, active <- Active

\* The runtime implements WorkerSupervision, steps and promises of progress.
ImplementsSupervision == Supervision!FairSpec
=============================================================================
