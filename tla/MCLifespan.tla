----------------------------- MODULE MCLifespan ------------------------------
(***************************************************************************)
(* TLC instances of Lifespan.                                              *)
(***************************************************************************)
EXTENDS Lifespan

CONSTANTS w1, w2, r1

TwoWorkers == {w1, w2}
OneRequest == {r1}
=============================================================================
