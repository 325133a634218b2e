------------------------------ MODULE MCHealth -------------------------------
(***************************************************************************)
(* A TLC instance of Health: lifespan() as the only caller, and one worker *)
(* that is restarted twice.  The rows of two workers are never compared.   *)
(***************************************************************************)
EXTENDS Health

CONSTANTS worker, main

MCWorkers == {worker}
MCCallers == {main}
AnyExit == Exits
=============================================================================
