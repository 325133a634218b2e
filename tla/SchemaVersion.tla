---------------------------- MODULE SchemaVersion ----------------------------
(***************************************************************************)
(* What a migration promises: other sessions see the database before the   *)
(* initial schema or with all of it, and never anything in between.        *)
(***************************************************************************)
VARIABLE schema

Init == schema = "base"

Upgrade == schema = "base" /\ schema' = "head"

Downgrade == schema = "head" /\ schema' = "base"

Next == Upgrade \/ Downgrade

Spec == Init /\ [][Next]_schema
=============================================================================
