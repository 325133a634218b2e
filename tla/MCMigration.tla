----------------------------- MODULE MCMigration -----------------------------
(***************************************************************************)
(* TLC instances of Migration: replicas that start together, and a         *)
(* downgrade in between.                                                   *)
(***************************************************************************)
EXTENDS Migration

CONSTANTS api1, api2, op1, op2

MCContainers == {api1, api2}
MCOperators == {op1, op2}
=============================================================================
