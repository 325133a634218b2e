---------------------------- MODULE MCSessionPool ----------------------------
(***************************************************************************)
(* A TLC instance of SessionPool: a pool of one with one overflow, and     *)
(* three requests, so that one of them has to wait.                        *)
(***************************************************************************)
EXTENDS SessionPool

CONSTANTS r1, r2, r3, n1, n2, n3

MCRequests == {r1, r2, r3}
MCConnections == {n1, n2, n3}
=============================================================================
