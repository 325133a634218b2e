------------------------------- MODULE Backoff -------------------------------
(***************************************************************************)
(* The restart delay of workers/runtime.py: what __init__ validates and    *)
(* precomputes, and the delay _supervise sleeps for.                       *)
(*                                                                         *)
(* Seconds are floats in the code.  Here they are whole ticks of some unit *)
(* fine enough for the configured values, which math.ldexp scales exactly; *)
(* MaxFloat is the largest finite float in that unit.  The logarithms of   *)
(* __init__ are rounded: when the maximum is base * 2^n, as 4.8 is for 2.4,*)
(* their difference may come out above n, and ceil makes it n + 1; when it *)
(* is a few float roundings above base * 2^n, the difference may come out  *)
(* as n, one below the exponent that reaches the maximum.                  *)
(***************************************************************************)
EXTENDS Integers

CONSTANTS
  BaseBackoff,    \* base_backoff_seconds
  MaxBackoff,     \* max_backoff_seconds
  MaxFloat,       \* math.ldexp raises OverflowError above it
  LogRounding,    \* what rounding the logarithms adds to the exponent
  Slack           \* by how much a maximum may exceed base * 2^n unnoticed

(***************************************************************************)
(* The checks of __init__.  The bound on MaxFloat is far weaker than the   *)
(* settings, which keep max_backoff_seconds at 300 or below.               *)
(***************************************************************************)
ASSUME BackoffAssumption ==
  /\ BaseBackoff \in Nat \ {0}
  /\ MaxBackoff \in Nat
  /\ BaseBackoff <= MaxBackoff
  /\ MaxFloat \in Nat
  /\ 4 * MaxBackoff <= MaxFloat
  /\ LogRounding \in {-1, 0, 1}
  /\ Slack \in Nat

Pow2[n \in Nat] == IF n = 0 THEN 1 ELSE 2 * Pow2[n - 1]

Min2(a, b) == IF a <= b THEN a ELSE b

\* math.ldexp(m, e), as a value and as the OverflowError it may be instead.
Ldexp(m, e) == m * Pow2[e]
LdexpOverflows(m, e) == Ldexp(m, e) > MaxFloat

\* The first exponent that reaches the maximum.
FirstExponent ==
  CHOOSE e \in 0 .. MaxBackoff :
    /\ Ldexp(BaseBackoff, e) >= MaxBackoff
    /\ \A d \in 0 .. e - 1 : Ldexp(BaseBackoff, d) < MaxBackoff

\* The exponent is rounded down only for a maximum that close to a lower one.
ASSUME RoundingAssumption ==
  LogRounding = -1 =>
    FirstExponent # 0 /\ Ldexp(BaseBackoff, FirstExponent - 1) + Slack >= MaxBackoff

\* Mutant: floor instead of ceil, the last exponent below the maximum.
FloorExponent == FirstExponent - 1

\* ceil(log2(max) - log2(base)), as it is computed.
MaxBackoffExponent == FirstExponent + LogRounding

\* Mutant: the exponent is not capped.
UncappedExponent(restart_count) == restart_count

\* The exponent and the delay after restart_count earlier restarts.
Exponent(restart_count) == Min2(restart_count, MaxBackoffExponent)
RetrySeconds(restart_count) ==
  Min2(Ldexp(BaseBackoff, Exponent(restart_count)), MaxBackoff)

-----------------------------------------------------------------------------
(***************************************************************************)
(* The reference: plain doubling, clipped at the maximum.                  *)
(***************************************************************************)
Doubling(n) == Min2(BaseBackoff * Pow2[n], MaxBackoff)
=============================================================================
