------------------------------- MODULE Health --------------------------------
(***************************************************************************)
(* main.py: GET /health.  health_check is a plain function, so it runs in  *)
(* a thread of its own and reads the runtime's statuses field by field     *)
(* while the event loop writes them field by field.                        *)
(*                                                                         *)
(* A loop step of EmbeddedWorkerRuntime puts its assignments, in the order *)
(* of the code, into todo; memory is what a thread sees, and the loop goes *)
(* on only once todo is empty.  The one caller of the runtime is           *)
(* lifespan(), which starts and stops it once and keeps app.state.         *)
(***************************************************************************)
EXTENDS EmbeddedWorkerRuntime, Sequences, FiniteSets, Functions

\* runners is a dict, and its keys are strings.
ASSUME HealthAssumption == IsFiniteSet(Workers) /\ None \notin Workers

VARIABLES
  memory,         \* [running, app_state, statuses] as another thread reads them
  todo,           \* the assignments of the current loop step still to be made
  thread,         \* where health_check is
  report          \* the rows of the answer

threadVars == <<thread, report>>
healthVars == <<vars, memory, todo, threadVars>>

\* The order of the dict.
Names == CHOOSE names \in Bijection(1 .. Cardinality(Workers), Workers) : TRUE

Fields == <<"state", "restart_count", "last_exit", "next_retry">>

\* Both sides go through the workers, and for each through its fields: the n-th
\* pair of a worker and a field, the fields in the given order.
WorkerAt(n) == Names[1 + ((n - 1) \div Len(Fields))]
FieldAt(order, n) == order[1 + ((n - 1) % Len(Fields))]

HealthInit ==
  /\ Init
  /\ memory = [running |-> FALSE, app_state |-> FALSE, statuses |-> statuses]
  /\ todo = <<>>
  /\ thread = 0
  /\ report = statuses

-----------------------------------------------------------------------------
(***************************************************************************)
(* The loop.                                                               *)
(***************************************************************************)
Assign(name, w, value) == [name |-> name, worker |-> w, value |-> value]

\* Mutant: the state is written first.
StateFirst(w) == Fields

\* A failure is counted before the state says "backoff"; everywhere else the
\* fields are assigned in their order.  (The path on which ldexp overflows is
\* never taken: NeverOverflows.)
WriteOrder(w) ==
  IF statuses'[w].state = "backoff"
  THEN <<"last_exit", "restart_count", "state", "next_retry">>
  ELSE Fields

\* The assignments of a step.  What the step leaves alone is assigned the value
\* it has, which no thread can tell.
StatusWrites ==
  [n \in 1 .. Len(Fields) * Len(Names) |->
     LET w == WorkerAt(n)
         field == FieldAt(WriteOrder(w), n)
     IN  Assign(field, w, statuses'[w][field])]

Writes == <<Assign("running", None, started')>> \o StatusWrites

\* Mutant: lifespan() resets app.state as soon as it asks the workers to stop.
ResetFirst(c) ==
  \/ spawned = 0 /\ Start(c) /\ todo' = Writes \o <<Assign("app_state", None, TRUE)>>
  \/ spawned = 1 /\ Stop(c) /\ todo' = <<Assign("app_state", None, FALSE)>> \o Writes
  \/ spawned = 1 /\ CancelCaller(c) /\ todo' = Writes
  \/ (FinishStop(c) \/ AbandonStop(c)) /\ todo' = Writes

\* lifespan() starts the runtime, sets app.state in the same step, and resets it
\* however stop() ends.
MainStep(c) ==
  \/ spawned = 0 /\ Start(c) /\ todo' = Writes \o <<Assign("app_state", None, TRUE)>>
  \/ spawned = 1 /\ (Stop(c) \/ CancelCaller(c)) /\ todo' = Writes
  \/ FinishStop(c) /\ todo' = Writes \o <<Assign("app_state", None, FALSE)>>
  \/ AbandonStop(c) /\ todo' = <<Assign("app_state", None, FALSE)>>

LoopRuns ==
  /\ todo = <<>>
  /\ \/ \E c \in Callers : MainStep(c)
     \/ \E t \in live : SupervisorStep(t) /\ todo' = Writes
  /\ UNCHANGED <<memory, threadVars>>

Write ==
  /\ todo # <<>>
  /\ LET a == Head(todo) IN
       memory' = IF a.worker = None
                 THEN [memory EXCEPT ![a.name] = a.value]
                 ELSE [memory EXCEPT !.statuses[a.worker][a.name] = a.value]
  /\ todo' = Tail(todo)
  /\ UNCHANGED <<vars, threadVars>>

-----------------------------------------------------------------------------
(***************************************************************************)
(* health_check().  thread is 0 outside a request, and n + 1 once n fields *)
(* were read.  The dict it iterates has the keys the constructor made.     *)
(***************************************************************************)
Complete == 1 + Len(Fields) * Len(Names)

\* app.state is read once; without a runtime the answer is "external", at once.
HealthCheck ==
  /\ thread \in {0, Complete}
  /\ thread' = IF memory.app_state THEN 1 ELSE 0
  /\ UNCHANGED <<vars, memory, todo, report>>

\* status_snapshot(): one field of one worker.
ReadField ==
  /\ thread \in 1 .. Complete - 1
  /\ LET w == WorkerAt(thread)
         field == FieldAt(Fields, thread)
     IN  report' = [report EXCEPT ![w][field] = memory.statuses[w][field]]
  /\ thread' = thread + 1
  /\ UNCHANGED <<vars, memory, todo>>

HealthNext == LoopRuns \/ Write \/ HealthCheck \/ ReadField

HealthSpec == HealthInit /\ [][HealthNext]_healthVars

-----------------------------------------------------------------------------
(***************************************************************************)
(* Properties.                                                             *)
(***************************************************************************)
\* A row that says "backoff" also says how the runner ended and counts that
\* failure, although state, count and exit are read one after the other while
\* the supervisor assigns them.
BackoffIsExplained ==
  thread = Complete =>
    \A w \in Workers :
      report[w].state = "backoff" =>
        report[w].restart_count > 0 /\ report[w].last_exit # None

\* What a request finds in app.state is how the workers are deployed: as long as
\* a supervisor is past its creation, also while stop() waits for it, /health
\* says "embedded"; and the runtime is taken out of app.state once stop() has
\* ended, however it ended, before the loop does anything else.
EmbeddedWhileWorking ==
  /\ (\E t \in live : t.at # "created") => memory.app_state
  /\ memory.app_state => started \/ lock # None \/ todo # <<>>
=============================================================================
