------------------------- MODULE MCBrokerConnection --------------------------
(***************************************************************************)
(* TLC instances of BrokerConnection: enough connections for each task to  *)
(* open one, and one more after a close.                                   *)
(***************************************************************************)
EXTENDS BrokerConnection

CONSTANTS t1, t2, t3

MCTasks == {t1, t2, t3}
=============================================================================
