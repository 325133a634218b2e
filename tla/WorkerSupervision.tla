-------------------------- MODULE WorkerSupervision --------------------------
(***************************************************************************)
(* What the embedded worker runtime promises main.py, with the lock, the   *)
(* statuses, the retries and the cancellations left out: all workers are   *)
(* supervised while it serves, and it is stopped only once none is left.   *)
(***************************************************************************)
CONSTANT Workers

VARIABLES
  phase,          \* stopped, serving, or draining while stop() waits
  active          \* the workers that have a supervisor

vars == <<phase, active>>

TypeOK ==
  /\ phase \in {"stopped", "serving", "draining"}
  /\ active \subseteq Workers

Init == phase = "stopped" /\ active = {}

Start ==
  /\ phase = "stopped" /\ active = {}
  /\ phase' = "serving"
  /\ active' = Workers

Stop ==
  /\ phase = "serving" /\ active = Workers
  /\ phase' = "draining"
  /\ UNCHANGED active

Drain(w) ==
  /\ phase = "draining" /\ w \in active
  /\ active' = active \ {w}
  /\ UNCHANGED phase

Stopped ==
  /\ phase = "draining" /\ active = {}
  /\ phase' = "stopped"
  /\ UNCHANGED active

Next == Start \/ Stop \/ Stopped \/ \E w \in Workers : Drain(w)

\* The safety part, and the promise that a drain ends.
Spec == Init /\ [][Next]_vars

FairSpec ==
  /\ Spec
  /\ WF_vars(Stopped)
  /\ \A w \in Workers : WF_vars(Drain(w))
=============================================================================
