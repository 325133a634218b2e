----------------------- MODULE MCEmbeddedWorkerRuntime -----------------------
(***************************************************************************)
(* TLC instances of EmbeddedWorkerRuntime.  Delays 3, 5, 5, 5: the maximum *)
(* is not a power-of-two multiple of the base, and restart counts beyond   *)
(* the capped exponent are reached.  With a maximum of 4, one tick above   *)
(* the base, the exponent may be rounded down to 0: delays 3, 3, 3, 3.     *)
(* Without the cap 3 * 2^3 overflows.                                      *)
(***************************************************************************)
EXTENDS EmbeddedWorkerRuntime, TLC

CONSTANTS w1, w2, c1, c2

MCWorkers == {w1, w2}
MCCallers == {c1, c2}
MCOneCaller == {c1}
MCBase == 3
MCMax == 5
MCFloat == 20
MCRoundedDown == -1

AllExits == Exits
Failures == {"exception", "returned"}
Obedient == {"cancelled"}
UncleanCleanup == {"cancelled", "exception"}

Symmetry == Permutations(MCWorkers) \cup Permutations(MCCallers)
=============================================================================
