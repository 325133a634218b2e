--------------------- MODULE EmbeddedWorkerRuntimeProofs ---------------------
(***************************************************************************)
(* The worker runtime for every set of workers and callers, any number of  *)
(* calls of start() and stop() and of cancellations of them, and runners   *)
(* that end in any way: its restart delay, its supervision, and what       *)
(* GET /health reads of it.                                                *)
(***************************************************************************)
EXTENDS Health, FiniteSetTheorems, TLAPS

(***************************************************************************)
(* The restart delay, for every base, maximum and restart count.  The      *)
(* lemmas on Pow2 use that a non-empty set of naturals has a least element *)
(* in place of an induction rule.                                          *)
(***************************************************************************)
LessThan == {ss \in Nat \X Nat : ss[1] < ss[2]}

\* A non-empty set of naturals has a least element.
LEMMA LeastNat ==
  ASSUME NEW T \in SUBSET Nat, T # {}
  PROVE  \E x \in T : \A y \in T : x <= y
  <1>1. IsWellFoundedOn(LessThan, Nat)
    BY NatLessThanWellFounded, Zenon DEF OpToRel, LessThan
  <1>2. PICK x \in T : \A y \in T : ~(<<y, x>> \in LessThan)
    BY <1>1, WFMin, Zenon
  <1>3. \A y \in T : ~(y < x)
    BY <1>2 DEF LessThan
  <1>4. QED
    BY <1>3

-----------------------------------------------------------------------------
\* The first powers of two, as a finite table.
IsTable(n, g) ==
  /\ g \in [0 .. n -> Nat]
  /\ g[0] = 1
  /\ \A i \in 1 .. n : g[i] = 2 * g[i - 1]

\* There is a table of every length.
LEMMA TableExists == \A n \in Nat : \E g : IsTable(n, g)
  <1> DEFINE T == {n \in Nat : ~ \E g : IsTable(n, g)}
  <1> SUFFICES ASSUME T # {} PROVE FALSE
    OBVIOUS
  <1>1. PICK n \in T : \A m \in T : n <= m
    BY LeastNat
  <1>2. CASE n = 0
    <2>1. IsTable(0, [i \in 0 .. 0 |-> 1])
      BY DEF IsTable
    <2>2. QED
      BY <1>2, <2>1
  <1>3. CASE n # 0
    <2>1. n - 1 \in Nat /\ n - 1 \notin T
      BY <1>1, <1>3
    <2>2. PICK g : IsTable(n - 1, g)
      BY <2>1
    <2> DEFINE h == [i \in 0 .. n |-> IF i = n THEN 2 * g[n - 1] ELSE g[i]]
    <2>3. h \in [0 .. n -> Nat] /\ h[0] = 1
      BY <1>3, <2>1, <2>2 DEF IsTable
    <2>4. ASSUME NEW i \in 1 .. n
          PROVE  h[i] = 2 * h[i - 1]
      <3>1. i \in 0 .. n /\ i - 1 \in 0 .. n /\ i - 1 # n
        BY <1>1
      <3>2. h[i - 1] = g[i - 1]
        BY <3>1
      <3>3. CASE i = n
        BY <3>1, <3>2, <3>3
      <3>4. CASE i # n
        <4>1. i \in 1 .. n - 1
          BY <3>4, <1>1
        <4>2. h[i] = g[i]
          BY <3>1, <3>4
        <4>3. g[i] = 2 * g[i - 1]
          BY <4>1, <2>2 DEF IsTable
        <4>4. QED
          BY <3>2, <4>2, <4>3
      <3>5. QED
        BY <3>3, <3>4
    <2>5. IsTable(n, h)
      BY <2>3, <2>4 DEF IsTable
    <2>6. QED
      BY <2>5
  <1>4. QED
    BY <1>2, <1>3

\* Two tables agree where both are defined.
LEMMA TableUnique ==
  ASSUME NEW n \in Nat, NEW m \in Nat, NEW g, NEW h, IsTable(n, g), IsTable(m, h),
         NEW k \in Nat, k <= n, k <= m
  PROVE  g[k] = h[k]
  <1> DEFINE T == {i \in Nat : i <= n /\ i <= m /\ g[i] # h[i]}
  <1> SUFFICES ASSUME T # {} PROVE FALSE
    OBVIOUS
  <1>1. PICK i \in T : \A j \in T : i <= j
    BY LeastNat
  <1>2. i # 0
    BY <1>1 DEF IsTable
  <1>3. i - 1 \in Nat /\ i - 1 \notin T
    BY <1>1, <1>2
  <1>4. g[i - 1] = h[i - 1]
    BY <1>1, <1>3
  <1>5. g[i] = 2 * g[i - 1] /\ h[i] = 2 * h[i - 1]
    BY <1>1, <1>2 DEF IsTable
  <1>6. QED
    BY <1>1, <1>4, <1>5

\* The equation that defines Pow2 has a solution, so Pow2 satisfies it.
LEMMA Pow2Def ==
  Pow2 = [n \in Nat |-> IF n = 0 THEN 1 ELSE 2 * Pow2[n - 1]]
  <1> DEFINE Table(n) == CHOOSE g : IsTable(n, g)
             F == [n \in Nat |-> Table(n)[n]]
  <1>1. \A n \in Nat : IsTable(n, Table(n))
    BY TableExists
  <1> HIDE DEF Table
  <1>2. ASSUME NEW n \in Nat
        PROVE  F[n] = IF n = 0 THEN 1 ELSE 2 * F[n - 1]
    <2>1. CASE n = 0
      BY <1>1, <2>1 DEF IsTable
    <2>2. CASE n # 0
      <3>1. n - 1 \in Nat
        BY <2>2
      <3>2. Table(n)[n - 1] = Table(n - 1)[n - 1]
        BY <1>1, <3>1, TableUnique
      <3>3. Table(n)[n] = 2 * Table(n)[n - 1]
        BY <1>1, <2>2 DEF IsTable
      <3>4. QED
        BY <2>2, <3>1, <3>2, <3>3
    <2>3. QED
      BY <2>1, <2>2
  <1>3. F = [n \in Nat |-> IF n = 0 THEN 1 ELSE 2 * F[n - 1]]
    <2> HIDE DEF F
    <2>1. F = [n \in Nat |-> F[n]]
      BY DEF F
    <2>2. QED
      BY <1>2, <2>1, Zenon
  <1>4. \E f : f = [n \in Nat |-> IF n = 0 THEN 1 ELSE 2 * f[n - 1]]
    BY <1>3, Zenon
  <1>5. QED
    BY <1>4, Zenon DEF Pow2

-----------------------------------------------------------------------------
LEMMA Pow2Zero == Pow2[0] = 1
  BY Pow2Def

LEMMA Pow2Succ == \A n \in Nat : n # 0 => Pow2[n] = 2 * Pow2[n - 1]
  BY Pow2Def

\* Powers of two are naturals and outgrow their exponent.
LEMMA Pow2Grows == \A n \in Nat : Pow2[n] \in Nat /\ Pow2[n] > n
  <1> DEFINE T == {n \in Nat : ~(Pow2[n] \in Nat /\ Pow2[n] > n)}
  <1> SUFFICES ASSUME T # {} PROVE FALSE
    OBVIOUS
  <1>1. PICK n \in T : \A m \in T : n <= m
    BY LeastNat
  <1>2. n # 0
    BY <1>1, Pow2Zero
  <1>3. n - 1 \in Nat /\ n - 1 \notin T
    BY <1>1, <1>2
  <1>4. Pow2[n] = 2 * Pow2[n - 1]
    BY <1>1, <1>2, Pow2Succ
  <1>5. QED
    BY <1>1, <1>2, <1>3, <1>4

\* Powers of two are ordered as their exponents are.
LEMMA Pow2Monotone ==
  ASSUME NEW m \in Nat, NEW n \in Nat, m <= n
  PROVE  Pow2[m] <= Pow2[n]
  <1> DEFINE T == {k \in Nat : m <= k /\ ~(Pow2[m] <= Pow2[k])}
  <1> SUFFICES ASSUME T # {} PROVE FALSE
    OBVIOUS
  <1>1. PICK k \in T : \A j \in T : k <= j
    BY LeastNat
  <1>2. k # m
    BY <1>1, Pow2Grows
  <1>3. k - 1 \in Nat /\ m <= k - 1 /\ k - 1 \notin T
    BY <1>1, <1>2
  <1>4. Pow2[k] = 2 * Pow2[k - 1]
    BY <1>1, <1>2, <1>3, Pow2Succ
  <1>5. QED
    BY <1>1, <1>3, <1>4, Pow2Grows

\* The base times a power of two is a positive natural, ordered as the exponents.
LEMMA LdexpMonotone ==
  ASSUME NEW m \in Nat, NEW n \in Nat, m <= n
  PROVE  /\ Ldexp(BaseBackoff, m) \in Nat /\ Ldexp(BaseBackoff, m) > m
         /\ Ldexp(BaseBackoff, m) >= BaseBackoff
         /\ Ldexp(BaseBackoff, m) <= Ldexp(BaseBackoff, n)
  <1> DEFINE p == Pow2[m]
             q == Pow2[n]
  <1>1. p \in Nat /\ q \in Nat /\ p > m /\ p <= q
    BY Pow2Grows, Pow2Monotone
  <1>2. BaseBackoff \in Nat /\ BaseBackoff >= 1
    BY BackoffAssumption
  <1> HIDE DEF p, q
  <1>3. \A b, x, y \in Nat : b >= 1 /\ x <= y =>
          /\ b * x \in Nat /\ b * x >= x
          /\ b * x <= b * y
    OBVIOUS
  <1>4. BaseBackoff * p >= BaseBackoff
    <2>1. \A b, x \in Nat : x >= 1 => b * x >= b
      OBVIOUS
    <2>2. p >= 1
      BY <1>1
    <2>3. QED
      BY <2>1, <2>2, <1>1, <1>2
  <1>5. BaseBackoff * p \in Nat /\ BaseBackoff * p >= p /\ BaseBackoff * p <= BaseBackoff * q
    BY <1>1, <1>2, <1>3
  <1>6. QED
    BY <1>1, <1>4, <1>5 DEF Ldexp, p, q

\* One more in the exponent doubles the value.
LEMMA LdexpDoubles ==
  ASSUME NEW n \in Nat
  PROVE  Ldexp(BaseBackoff, n + 1) = 2 * Ldexp(BaseBackoff, n)
  <1>1. n + 1 \in Nat /\ n + 1 # 0 /\ (n + 1) - 1 = n
    OBVIOUS
  <1>2. Pow2[n + 1] = 2 * Pow2[n] /\ Pow2[n] \in Nat
    BY <1>1, Pow2Succ, Pow2Grows
  <1>3. \A b, x \in Nat : b * (2 * x) = 2 * (b * x)
    OBVIOUS
  <1>4. QED
    BY <1>2, <1>3, BackoffAssumption DEF Ldexp

\* The exact exponent exists: it is the first one that reaches the maximum.
LEMMA FirstExponentReaches ==
  /\ FirstExponent \in Nat
  /\ Ldexp(BaseBackoff, FirstExponent) >= MaxBackoff
  /\ \A d \in 0 .. FirstExponent - 1 : Ldexp(BaseBackoff, d) < MaxBackoff
  <1> DEFINE T == {e \in Nat : Ldexp(BaseBackoff, e) >= MaxBackoff}
  <1>1. MaxBackoff \in Nat
    BY BackoffAssumption
  <1>2. MaxBackoff \in T
    BY <1>1, LdexpMonotone
  <1>3. PICK e \in T : \A d \in T : e <= d
    <2>1. T \in SUBSET Nat /\ T # {}
      BY <1>2
    <2>2. QED
      BY <2>1, LeastNat
  <1>4. e \in 0 .. MaxBackoff
    BY <1>1, <1>2, <1>3
  <1>5. ASSUME NEW d \in 0 .. e - 1 PROVE Ldexp(BaseBackoff, d) < MaxBackoff
    <2>1. d \in Nat /\ d \notin T
      BY <1>3
    <2>2. QED
      BY <1>1, <2>1, LdexpMonotone
  <1>6. Ldexp(BaseBackoff, e) >= MaxBackoff
    BY <1>3
  <1>7. \E x \in 0 .. MaxBackoff :
          /\ Ldexp(BaseBackoff, x) >= MaxBackoff
          /\ \A d \in 0 .. x - 1 : Ldexp(BaseBackoff, d) < MaxBackoff
    BY <1>4, <1>5, <1>6
  <1>8. FirstExponent \in 0 .. MaxBackoff
        /\ Ldexp(BaseBackoff, FirstExponent) >= MaxBackoff
        /\ \A d \in 0 .. FirstExponent - 1 : Ldexp(BaseBackoff, d) < MaxBackoff
    BY <1>7, Zenon DEF FirstExponent
  <1>9. QED
    BY <1>1, <1>8

\* The capped exponent reaches the maximum, or comes within Slack of it where it
\* is rounded down, and stays below four times the maximum.
LEMMA ExponentCap ==
  /\ MaxBackoffExponent \in Nat
  /\ LogRounding # -1 => Ldexp(BaseBackoff, MaxBackoffExponent) >= MaxBackoff
  /\ Ldexp(BaseBackoff, MaxBackoffExponent) + Slack >= MaxBackoff
  /\ Ldexp(BaseBackoff, MaxBackoffExponent) <= 4 * MaxBackoff
  <1> DEFINE f == FirstExponent
  <1>1. f \in Nat /\ Ldexp(BaseBackoff, f) \in Nat /\ Ldexp(BaseBackoff, f) >= MaxBackoff
    BY FirstExponentReaches, LdexpMonotone
  <1>2. Ldexp(BaseBackoff, f) <= 2 * MaxBackoff
    <2>1. CASE f = 0
      BY <2>1, Pow2Zero, BackoffAssumption DEF Ldexp
    <2>2. CASE f # 0
      <3>1. f - 1 \in Nat /\ f - 1 \in 0 .. f - 1 /\ (f - 1) + 1 = f
        BY <1>1, <2>2
      <3>2. Ldexp(BaseBackoff, f - 1) < MaxBackoff /\ Ldexp(BaseBackoff, f - 1) \in Nat
        BY <3>1, FirstExponentReaches, LdexpMonotone
      <3>3. Ldexp(BaseBackoff, f) = 2 * Ldexp(BaseBackoff, f - 1)
        BY <3>1, LdexpDoubles
      <3>4. QED
        BY <3>2, <3>3, BackoffAssumption
    <2>3. QED
      BY <2>1, <2>2
  <1>3. CASE LogRounding = 0
    BY <1>1, <1>2, <1>3, BackoffAssumption DEF MaxBackoffExponent
  <1>4. CASE LogRounding = 1
    <2>1. MaxBackoffExponent = f + 1 /\ f + 1 \in Nat
      BY <1>1, <1>4 DEF MaxBackoffExponent
    <2>2. Ldexp(BaseBackoff, f + 1) = 2 * Ldexp(BaseBackoff, f)
      BY <1>1, LdexpDoubles
    <2>3. QED
      BY <1>1, <1>2, <2>1, <2>2, BackoffAssumption
  <1>5. CASE LogRounding = -1
    <2>1. f # 0 /\ Ldexp(BaseBackoff, f - 1) + Slack >= MaxBackoff
      BY <1>5, RoundingAssumption
    <2>2. MaxBackoffExponent = f - 1 /\ f - 1 \in Nat /\ f - 1 <= f
      BY <1>1, <1>5, <2>1 DEF MaxBackoffExponent
    <2>3. /\ Ldexp(BaseBackoff, f - 1) \in Nat
          /\ Ldexp(BaseBackoff, f - 1) <= Ldexp(BaseBackoff, f)
      BY <1>1, <2>2, LdexpMonotone
    <2>4. QED
      BY <1>1, <1>2, <1>5, <2>1, <2>2, <2>3, BackoffAssumption
  <1>6. QED
    BY <1>3, <1>4, <1>5, BackoffAssumption

LEMMA ExponentType ==
  ASSUME NEW n \in Nat
  PROVE  Exponent(n) \in Nat /\ Exponent(n) <= n /\ Exponent(n) <= MaxBackoffExponent
  BY ExponentCap DEF Exponent, Min2

-----------------------------------------------------------------------------
\* However long a worker has been failing, math.ldexp in _supervise stays
\* within the floats: the OverflowError that would end the supervisor cannot
\* occur.
THEOREM NeverOverflows ==
  ASSUME NEW n \in Nat
  PROVE  ~LdexpOverflows(BaseBackoff, Exponent(n))
  <1> DEFINE e == Exponent(n)
  <1>1. e \in Nat /\ e <= MaxBackoffExponent
    BY ExponentType
  <1>2. Ldexp(BaseBackoff, e) \in Nat
        /\ Ldexp(BaseBackoff, MaxBackoffExponent) \in Nat
        /\ Ldexp(BaseBackoff, e) <= Ldexp(BaseBackoff, MaxBackoffExponent)
    BY <1>1, ExponentCap, LdexpMonotone
  <1>3. QED
    BY <1>2, ExponentCap, BackoffAssumption DEF LdexpOverflows

\* Capping the exponent of ldexp changes no delay: after any number of restarts
\* _supervise waits as long as plain doubling, clipped, would have it.  Only a
\* logarithm that comes out too low shortens a delay, and by no more than Slack.
THEOREM CapKeepsDelays ==
  ASSUME NEW n \in Nat
  PROVE  /\ LogRounding # -1 => RetrySeconds(n) = Doubling(n)
         /\ RetrySeconds(n) \in Doubling(n) - Slack .. Doubling(n)
  <1> DEFINE e == MaxBackoffExponent
  <1>1. e \in Nat /\ Slack \in Nat /\ MaxBackoff \in Nat /\ Ldexp(BaseBackoff, n) \in Nat
    BY ExponentCap, LdexpMonotone, BackoffAssumption
  <1>2. Doubling(n) = Min2(Ldexp(BaseBackoff, n), MaxBackoff) /\ Doubling(n) \in Nat
    BY <1>1 DEF Doubling, Ldexp, Min2
  <1>3. CASE n <= e
    <2>1. RetrySeconds(n) = Doubling(n)
      BY <1>1, <1>2, <1>3 DEF RetrySeconds, Exponent, Min2
    <2>2. QED
      BY <1>1, <1>2, <2>1
  <1>4. CASE ~(n <= e)
    <2>1. e <= n /\ Exponent(n) = e
      BY <1>1, <1>4 DEF Exponent, Min2
    <2>2. Ldexp(BaseBackoff, e) \in Nat /\ Ldexp(BaseBackoff, e) <= Ldexp(BaseBackoff, n)
      BY <1>1, <2>1, LdexpMonotone
    <2>3. RetrySeconds(n) = Min2(Ldexp(BaseBackoff, e), MaxBackoff)
      BY <2>1 DEF RetrySeconds
    <2>4. ASSUME LogRounding # -1 PROVE RetrySeconds(n) = Doubling(n)
      BY <1>1, <1>2, <2>2, <2>3, <2>4, ExponentCap DEF Min2
    <2>5. RetrySeconds(n) \in Nat /\ RetrySeconds(n) <= Doubling(n)
      BY <1>1, <1>2, <2>2, <2>3 DEF Min2
    <2>6. Doubling(n) - Slack <= RetrySeconds(n)
      BY <1>1, <1>2, <2>2, <2>3, ExponentCap DEF Min2
    <2>7. QED
      BY <1>1, <1>2, <2>4, <2>5, <2>6
  <1>5. QED
    BY <1>1, <1>3, <1>4

\* Every delay of _supervise lies between the configured base and maximum: a
\* failing worker is neither restarted in a busy loop nor forgotten.
THEOREM DelayBounds ==
  ASSUME NEW n \in Nat
  PROVE  /\ RetrySeconds(n) \in Nat
         /\ BaseBackoff <= RetrySeconds(n)
         /\ RetrySeconds(n) <= MaxBackoff
  <1>1. Exponent(n) \in Nat
    BY ExponentType
  <1>2. Ldexp(BaseBackoff, Exponent(n)) \in Nat
        /\ Ldexp(BaseBackoff, Exponent(n)) >= BaseBackoff
    BY <1>1, LdexpMonotone
  <1>3. QED
    BY <1>2, BackoffAssumption DEF RetrySeconds, Min2

-----------------------------------------------------------------------------
(***************************************************************************)
(* The inductive invariant.  The lock is held across a suspension only by  *)
(* a stop() that waits for its tasks, and every live task is in _tasks:    *)
(* whoever gets the lock with _started unset finds no task left.           *)
(***************************************************************************)
LockDiscipline ==
  /\ lock # None => ~started /\ pc[lock] \in {"gathering", "abandoned"}
  /\ \A c \in Callers : pc[c] \in {"gathering", "abandoned"} => lock = c

AllRegistered == \A t \in live : Registered(t)

IInv ==
  /\ TypeOK
  /\ LockDiscipline
  /\ AllRegistered
  /\ OneSupervisorPerWorker
  /\ NoSupervisorOutlivesStop

-----------------------------------------------------------------------------
LEMMA FreshStatusType ==
  ASSUME NEW state \in States
  PROVE  FreshStatus(state) \in WorkerStatus
  BY DEF FreshStatus, WorkerStatus

LEMMA TypeInit == Init => TypeOK
  <1>1. FreshStatus("stopped") \in WorkerStatus
    BY FreshStatusType DEF States
  <1>2. ASSUME Init PROVE started \in BOOLEAN
    BY <1>2 DEF Init
  <1>3. ASSUME Init
        PROVE  /\ statuses \in [Workers -> WorkerStatus]
               /\ tasks \in [Workers -> Nat] /\ ticket \in [Callers -> Nat]
               /\ live \subseteq Supervisor
               /\ spawned \in Nat /\ requests \in Nat
    BY <1>1, <1>3 DEF Init
  <1>4. ASSUME Init
        PROVE  /\ lock \in Callers \cup {None}
               /\ pc \in [Callers -> {"idle", "start", "stop", "gathering", "abandoned"}]
    BY <1>4 DEF Init
  <1>5. QED
    BY <1>2, <1>3, <1>4 DEF TypeOK

\* What _supervise stores in a status has the type of a status.
LEMMA FailType ==
  ASSUME TypeOK, NEW t \in live, NEW exit \in {"exception", "returned"}, Fail(t, exit)
  PROVE  /\ live' \subseteq Supervisor
         /\ statuses' \in [Workers -> WorkerStatus]
  <1> DEFINE status == statuses[t.worker]
  <1>1. t \in Supervisor /\ t.worker \in Workers /\ status \in WorkerStatus
    BY DEF TypeOK, Supervisor
  <1>2. status.restart_count \in Nat /\ status.restart_count + 1 \in Nat
    BY <1>1 DEF WorkerStatus
  <1>3. ~LdexpOverflows(BaseBackoff, Exponent(status.restart_count))
    BY <1>2, NeverOverflows
  <1>4. /\ Moves(t, "sleeping")
        /\ statuses' = [statuses EXCEPT ![t.worker] =
             [state |-> "backoff", restart_count |-> status.restart_count + 1,
              last_exit |-> exit, next_retry |-> RetrySeconds(status.restart_count)]]
    BY <1>3 DEF Fail
  <1>5. RetrySeconds(status.restart_count) \in Nat
    BY <1>2, DelayBounds
  <1>6. live' \subseteq Supervisor
    BY <1>1, <1>4 DEF TypeOK, Moves, Supervisor
  <1>7. statuses' \in [Workers -> WorkerStatus]
    BY <1>1, <1>2, <1>4, <1>5 DEF TypeOK, WorkerStatus, States
  <1>8. QED
    BY <1>6, <1>7

\* The finally clause too.
LEMMA FinallyType ==
  ASSUME TypeOK, NEW t \in live, Finally(t)
  PROVE  /\ live' \subseteq Supervisor
         /\ statuses' \in [Workers -> WorkerStatus]
  BY DEF TypeOK, Finally, Supervisor, WorkerStatus, States

LEMMA MovesType ==
  ASSUME TypeOK, NEW t \in live,
         NEW at \in {"created", "running", "cleanup", "sleeping"}, Moves(t, at)
  PROVE  live' \subseteq Supervisor
  BY DEF TypeOK, Moves, Supervisor

LEMMA CancelTasksType ==
  ASSUME TypeOK
  PROVE  CancelTasks \subseteq Supervisor
  BY DEF TypeOK, CancelTasks, Supervisor, Registered

LEMMA NewSupervisorsType ==
  ASSUME NEW id \in Nat
  PROVE  NewSupervisors(id) \subseteq Supervisor
  <1>1. SUFFICES ASSUME NEW w \in Workers
                 PROVE  [worker |-> w, id |-> id, at |-> "created", cancel |-> FALSE]
                          \in Supervisor
    BY DEF NewSupervisors
  <1>2. FALSE \in BOOLEAN
    OBVIOUS
  <1>3. QED
    BY <1>2, Zenon DEF Supervisor

LEMMA AcquiresType ==
  ASSUME TypeOK, NEW c \in Callers, NEW op \in {"start", "stop"}, Acquires(c, op)
  PROVE  /\ ticket' \in [Callers -> Nat]
         /\ requests' \in Nat
  BY DEF TypeOK, Acquires

LEMMA TypeNext == TypeOK /\ [Next]_vars => TypeOK'
  <1> SUFFICES ASSUME TypeOK, [Next]_vars PROVE TypeOK'
    OBVIOUS
  <1>1. ASSUME NEW c \in Callers, Start(c) PROVE TypeOK'
    <2>1. ticket' \in [Callers -> Nat] /\ requests' \in Nat
      BY <1>1, AcquiresType DEF Start
    <2>2. CASE started
      BY <1>1, <2>1, <2>2 DEF TypeOK, Start, taskVars
    <2>3. CASE ~started
      <3>1. spawned' \in Nat /\ live' = live \cup NewSupervisors(spawned')
        BY <1>1, <2>3 DEF TypeOK, Start, taskVars
      <3>2. NewSupervisors(spawned') \subseteq Supervisor
        BY <3>1, NewSupervisorsType
      <3>3. FreshStatus("starting") \in WorkerStatus
        BY FreshStatusType DEF States
      <3>4. live' \subseteq Supervisor
        BY <3>1, <3>2 DEF TypeOK
      <3>5. statuses' \in [Workers -> WorkerStatus] /\ tasks' \in [Workers -> Nat]
        BY <1>1, <2>3, <3>1, <3>3 DEF Start, taskVars
      <3>6. QED
        BY <1>1, <2>1, <2>3, <3>1, <3>4, <3>5 DEF TypeOK, Start
    <2>4. QED
      BY <2>2, <2>3
  <1>2. ASSUME NEW c \in Callers, Stop(c) PROVE TypeOK'
    <2>1. ticket' \in [Callers -> Nat] /\ requests' \in Nat
      BY <1>2, AcquiresType DEF Stop
    <2>2. CASE ~started
      BY <1>2, <2>1, <2>2 DEF TypeOK, Stop, taskVars
    <2>3. CASE started
      <3>1. \A w \in Workers : [statuses[w] EXCEPT !.state = "stopping"] \in WorkerStatus
        BY DEF TypeOK, WorkerStatus, States
      <3>2. statuses' \in [Workers -> WorkerStatus]
        BY <1>2, <2>3, <3>1 DEF TypeOK, Stop
      <3>3. QED
        BY <1>2, <2>1, <2>3, <3>2, CancelTasksType DEF TypeOK, Stop
    <2>4. QED
      BY <2>2, <2>3
  <1>3. ASSUME NEW c \in Callers, NEW op \in {"start", "stop"}, Queue(c, op) PROVE TypeOK'
    BY <1>3 DEF TypeOK, Queue, taskVars
  <1>4. ASSUME NEW c \in Callers, FinishStop(c) PROVE TypeOK'
    <2>1. \A w \in Workers :
            [statuses[w] EXCEPT !.state = "stopped", !.next_retry = None] \in WorkerStatus
      BY DEF TypeOK, WorkerStatus, States
    <2>2. QED
      BY <1>4, <2>1 DEF TypeOK, FinishStop
  <1>5. ASSUME NEW c \in Callers, CancelCaller(c) PROVE TypeOK'
    BY <1>5, CancelTasksType DEF TypeOK, CancelCaller
  <1>6. ASSUME NEW c \in Callers, AbandonStop(c) PROVE TypeOK'
    BY <1>6 DEF TypeOK, AbandonStop, taskVars
  <1>7. ASSUME NEW t \in live, RunRunner(t) PROVE TypeOK'
    <2>1. live' \subseteq Supervisor
      BY <1>7, MovesType DEF RunRunner
    <2>2. statuses' \in [Workers -> WorkerStatus]
      BY <1>7 DEF TypeOK, RunRunner, WorkerStatus, States, Supervisor
    <2>3. QED
      BY <1>7, <2>1, <2>2 DEF TypeOK, RunRunner, callVars
  <1>8. ASSUME NEW t \in live, NEW exit \in Exits, RunnerEnds(t, exit) PROVE TypeOK'
    <2>1. live' \subseteq Supervisor /\ statuses' \in [Workers -> WorkerStatus]
      BY <1>8, FailType, FinallyType DEF RunnerEnds, Exits
    <2>2. QED
      BY <1>8, <2>1 DEF TypeOK, RunnerEnds, callVars
  <1>9. ASSUME NEW t \in live, DeliverCancel(t) PROVE TypeOK'
    <2>1. live' \subseteq Supervisor /\ statuses' \in [Workers -> WorkerStatus]
      BY <1>9, MovesType, FinallyType DEF TypeOK, DeliverCancel
    <2>2. QED
      BY <1>9, <2>1 DEF TypeOK, DeliverCancel, callVars
  <1>10. CASE UNCHANGED vars
    BY <1>10 DEF TypeOK, vars
  <1>11. QED
    BY <1>1, <1>2, <1>3, <1>4, <1>5, <1>6, <1>7, <1>8, <1>9, <1>10
       DEF Next, CallerStep, SupervisorStep

\* The state of the runtime keeps its types: what start(), stop() and
\* _supervise store in a status is one of the documented values.
THEOREM TypeCorrect == Spec => []TypeOK
  BY TypeInit, TypeNext, PTL DEF Spec

-----------------------------------------------------------------------------
(***************************************************************************)
(* The inductive invariant.                                                *)
(***************************************************************************)
LEMMA IInvInit == Init => IInv
  <1> SUFFICES ASSUME Init PROVE IInv
    OBVIOUS
  <1>1. TypeOK
    BY TypeInit
  <1>2. LockDiscipline
    BY DEF Init, LockDiscipline
  <1>3. QED
    BY <1>1, <1>2
       DEF Init, IInv, AllRegistered, OneSupervisorPerWorker, NoSupervisorOutlivesStop

\* One supervisor moves on or ends; nothing else that IInv speaks of changes.
LEMMA SupervisorKeeps ==
  ASSUME IInv, TypeOK', NEW t \in live, NEW u, u.worker = t.worker, u.id = t.id,
         live' = live \ {t} \/ live' = (live \ {t}) \cup {u},
         UNCHANGED <<started, tasks, lock, pc>>
  PROVE  IInv'
  <1>1. LockDiscipline'
    BY DEF IInv, LockDiscipline
  <1>2. AllRegistered'
    BY DEF IInv, AllRegistered, Registered
  <1>3. OneSupervisorPerWorker'
    BY DEF IInv, OneSupervisorPerWorker
  <1>4. NoSupervisorOutlivesStop'
    BY DEF IInv, NoSupervisorOutlivesStop
  <1>5. QED
    BY <1>1, <1>2, <1>3, <1>4 DEF IInv

\* A cancelled task is the same task: same worker, same id.
LEMMA CancelTasksKeeps ==
  ASSUME TypeOK, NEW u \in CancelTasks
  PROVE  \E t \in live : /\ u.worker = t.worker /\ u.id = t.id /\ u.at = t.at
                         /\ u = [t EXCEPT !.cancel = t.cancel \/ Registered(t)]
  <1>1. PICK t \in live : u = [t EXCEPT !.cancel = t.cancel \/ Registered(t)]
    BY DEF CancelTasks
  <1>2. t \in Supervisor
    BY DEF TypeOK
  <1>3. u.worker = t.worker /\ u.id = t.id /\ u.at = t.at
    BY <1>1, <1>2 DEF Supervisor
  <1>4. QED
    BY <1>1, <1>3

LEMMA CancelTasksInv ==
  ASSUME IInv, live' = CancelTasks, tasks' = tasks
  PROVE  AllRegistered' /\ OneSupervisorPerWorker'
  <1>1. TypeOK
    BY DEF IInv
  <1>2. AllRegistered'
    BY <1>1, CancelTasksKeeps DEF IInv, AllRegistered, Registered
  <1>3. ASSUME NEW u \in live', NEW v \in live', u.worker = v.worker
        PROVE  u = v
    <2>1. PICK s \in live : /\ u.worker = s.worker
                            /\ u = [s EXCEPT !.cancel = s.cancel \/ Registered(s)]
      BY <1>1, CancelTasksKeeps
    <2>2. PICK t \in live : /\ v.worker = t.worker
                            /\ v = [t EXCEPT !.cancel = t.cancel \/ Registered(t)]
      BY <1>1, CancelTasksKeeps
    <2>3. s = t
      BY <1>3, <2>1, <2>2 DEF IInv, OneSupervisorPerWorker
    <2>4. QED
      BY <2>1, <2>2, <2>3
  <1>4. OneSupervisorPerWorker'
    BY <1>3 DEF OneSupervisorPerWorker
  <1>5. QED
    BY <1>2, <1>4

LEMMA IInvNext == IInv /\ [Next]_vars => IInv'
  <1> SUFFICES ASSUME IInv, [Next]_vars PROVE IInv'
    OBVIOUS
  <1> USE RuntimeAssumption
  <1>0. TypeOK /\ TypeOK'
    BY TypeNext DEF IInv
  <1>1. ASSUME NEW c \in Callers, Start(c) PROVE IInv'
    <2>1. lock = None /\ lock' = None /\ pc' = [pc EXCEPT ![c] = "idle"]
      BY <1>1 DEF Start, Acquires
    <2>2. LockDiscipline'
      BY <1>0, <2>1 DEF IInv, TypeOK, LockDiscipline
    <2>3. CASE started
      BY <1>0, <1>1, <2>1, <2>2, <2>3
         DEF Start, IInv, taskVars, AllRegistered, Registered, OneSupervisorPerWorker,
             NoSupervisorOutlivesStop
    <2>4. CASE ~started
      <3>1. live = {}
        BY <2>1, <2>4 DEF IInv, NoSupervisorOutlivesStop
      <3>2. /\ live' = NewSupervisors(spawned')
            /\ tasks' = [w \in Workers |-> spawned']
            /\ started'
        BY <1>1, <2>4, <3>1 DEF Start, taskVars
      <3>3. \A t \in live' : /\ t.worker \in Workers
                              /\ t = [worker |-> t.worker, id |-> spawned',
                                      at |-> "created", cancel |-> FALSE]
        BY <3>2 DEF NewSupervisors
      <3>4. AllRegistered'
        BY <3>2, <3>3 DEF AllRegistered, Registered
      <3>5. OneSupervisorPerWorker'
        BY <3>3 DEF OneSupervisorPerWorker
      <3>6. NoSupervisorOutlivesStop'
        BY <3>2 DEF NoSupervisorOutlivesStop
      <3>7. QED
        BY <1>0, <2>2, <3>4, <3>5, <3>6 DEF IInv
    <2>5. QED
      BY <2>3, <2>4
  <1>2. ASSUME NEW c \in Callers, Stop(c) PROVE IInv'
    <2>1. CASE ~started
      <3>1. lock = None /\ lock' = None /\ pc' = [pc EXCEPT ![c] = "idle"]
        BY <1>2, <2>1 DEF Stop, Acquires
      <3>2. LockDiscipline'
        BY <1>0, <3>1 DEF IInv, TypeOK, LockDiscipline
      <3>3. QED
        BY <1>0, <1>2, <2>1, <3>1, <3>2
           DEF Stop, IInv, taskVars, AllRegistered, Registered, OneSupervisorPerWorker,
               NoSupervisorOutlivesStop
    <2>2. CASE started
      <3>1. /\ lock = None /\ lock' = c /\ ~started'
            /\ pc' = [pc EXCEPT ![c] = "gathering"]
            /\ live' = CancelTasks /\ tasks' = tasks
        BY <1>2, <2>2 DEF Stop, Acquires
      <3>2. LockDiscipline'
        BY <1>0, <3>1 DEF IInv, TypeOK, LockDiscipline
      <3>3. AllRegistered' /\ OneSupervisorPerWorker'
        BY <3>1, CancelTasksInv
      <3>4. NoSupervisorOutlivesStop'
        BY <3>1 DEF NoSupervisorOutlivesStop
      <3>5. QED
        BY <1>0, <3>2, <3>3, <3>4 DEF IInv
    <2>3. QED
      BY <2>1, <2>2
  <1>3. ASSUME NEW c \in Callers, NEW op \in {"start", "stop"}, Queue(c, op) PROVE IInv'
    <2>1. LockDiscipline'
      BY <1>0, <1>3 DEF Queue, taskVars, IInv, TypeOK, LockDiscipline
    <2>2. QED
      BY <1>0, <1>3, <2>1
         DEF Queue, taskVars, IInv, AllRegistered, Registered, OneSupervisorPerWorker,
             NoSupervisorOutlivesStop
  <1>4. ASSUME NEW c \in Callers, FinishStop(c) PROVE IInv'
    <2>1. lock = c /\ lock' = None /\ ~started' /\ pc' = [pc EXCEPT ![c] = "idle"]
      BY <1>4 DEF FinishStop, IInv, LockDiscipline
    <2>2. live = {} /\ live' = {}
      BY <1>4 DEF FinishStop, Gathered, IInv, AllRegistered
    <2>3. LockDiscipline'
      BY <1>0, <2>1 DEF IInv, TypeOK, LockDiscipline
    <2>4. QED
      BY <1>0, <2>2, <2>3
         DEF IInv, AllRegistered, OneSupervisorPerWorker, NoSupervisorOutlivesStop
  <1>5. ASSUME NEW c \in Callers, CancelCaller(c) PROVE IInv'
    <2>1. LockDiscipline'
      BY <1>0, <1>5 DEF CancelCaller, Queued, IInv, TypeOK, LockDiscipline
    <2>2. CASE live' = live
      BY <1>0, <1>5, <2>1, <2>2
         DEF CancelCaller, IInv, AllRegistered, Registered, OneSupervisorPerWorker,
             NoSupervisorOutlivesStop
    <2>3. CASE live' = CancelTasks /\ pc[c] \in {"gathering", "abandoned"}
      <3>1. AllRegistered' /\ OneSupervisorPerWorker'
        BY <1>5, <2>3, CancelTasksInv DEF CancelCaller
      <3>2. lock' = c
        BY <1>5, <2>3 DEF CancelCaller, IInv, LockDiscipline
      <3>3. NoSupervisorOutlivesStop'
        BY <3>2 DEF NoSupervisorOutlivesStop
      <3>4. QED
        BY <1>0, <2>1, <3>1, <3>3 DEF IInv
    <2>4. QED
      BY <1>5, <2>2, <2>3 DEF CancelCaller
  <1>6. ASSUME NEW c \in Callers, AbandonStop(c) PROVE IInv'
    <2>1. lock = c /\ lock' = None /\ ~started' /\ pc' = [pc EXCEPT ![c] = "idle"]
      BY <1>6 DEF AbandonStop, taskVars, IInv, LockDiscipline
    <2>2. live = {} /\ live' = {}
      BY <1>6 DEF AbandonStop, taskVars, Gathered, IInv, AllRegistered
    <2>3. LockDiscipline'
      BY <1>0, <2>1 DEF IInv, TypeOK, LockDiscipline
    <2>4. QED
      BY <1>0, <2>2, <2>3
         DEF IInv, AllRegistered, OneSupervisorPerWorker, NoSupervisorOutlivesStop
  <1>7. ASSUME NEW t \in live, SupervisorStep(t) PROVE IInv'
    <2>1. t \in Supervisor
      BY <1>0 DEF TypeOK
    <2>2. UNCHANGED <<started, tasks, lock, pc>>
      BY <1>7 DEF SupervisorStep, RunRunner, RunnerEnds, DeliverCancel, callVars
    <2>3. \/ live' = live \ {t}
          \/ \E at \in {"running", "cleanup", "sleeping"} : Moves(t, at)
      BY <1>7 DEF SupervisorStep, RunRunner, RunnerEnds, DeliverCancel, Fail, Finally
    <2>4. CASE live' = live \ {t}
      BY <1>0, <2>2, <2>4, SupervisorKeeps
    <2>5. ASSUME NEW at \in {"running", "cleanup", "sleeping"}, Moves(t, at) PROVE IInv'
      <3>1. PICK u : u = [t EXCEPT !.at = at, !.cancel = FALSE]
        OBVIOUS
      <3>2. u.worker = t.worker /\ u.id = t.id
        BY <2>1, <3>1 DEF Supervisor
      <3>3. live' = (live \ {t}) \cup {u}
        BY <2>5, <3>1 DEF Moves
      <3>4. QED
        BY <1>0, <2>2, <3>2, <3>3, SupervisorKeeps
    <2>6. QED
      BY <2>3, <2>4, <2>5
  <1>8. CASE UNCHANGED vars
    BY <1>0, <1>8
       DEF vars, IInv, LockDiscipline, AllRegistered, Registered, OneSupervisorPerWorker,
           NoSupervisorOutlivesStop
  <1>9. QED
    BY <1>1, <1>2, <1>3, <1>4, <1>5, <1>6, <1>7, <1>8 DEF Next, CallerStep

LEMMA Invariant == Spec => []IInv
  BY IInvInit, IInvNext, PTL DEF Spec

\* A worker never has two supervisors, however many tasks call start() and
\* stop(), in whatever order the lock is granted and wherever they are cancelled.
THEOREM OneSupervisor == Spec => []OneSupervisorPerWorker
  <1>1. IInv => OneSupervisorPerWorker
    BY DEF IInv
  <1>2. QED
    BY <1>1, Invariant, PTL

\* When stop() gives the lock back, having returned or been cancelled, no
\* supervisor task is left, whatever the runners do.
THEOREM NoneOutlivesStop == Spec => []NoSupervisorOutlivesStop
  <1>1. IInv => NoSupervisorOutlivesStop
    BY DEF IInv
  <1>2. QED
    BY <1>1, Invariant, PTL

-----------------------------------------------------------------------------
(***************************************************************************)
(* The restart delays.                                                     *)
(***************************************************************************)
\* Storing a status that keeps to the schedule keeps all of them to it.
StatusOnSchedule(status) ==
  /\ status.state = "backoff" =>
       /\ status.restart_count > 0
       /\ LET delay == Doubling(status.restart_count - 1) IN
            status.next_retry \in delay - Slack .. delay
  /\ status.state \in {"starting", "running", "stopped"} => status.next_retry = None

LEMMA ScheduleNext == TypeOK /\ BackoffSchedule /\ [Next]_vars => BackoffSchedule'
  <1> SUFFICES ASSUME TypeOK, BackoffSchedule, [Next]_vars PROVE BackoffSchedule'
    OBVIOUS
  <1>0. \A w \in Workers : statuses[w] \in WorkerStatus /\ StatusOnSchedule(statuses[w])
    BY DEF TypeOK, BackoffSchedule, StatusOnSchedule
  <1>a. SUFFICES \A w \in Workers : StatusOnSchedule(statuses'[w])
    BY <1>a DEF BackoffSchedule, StatusOnSchedule
  <1>1. ASSUME NEW c \in Callers, Start(c) PROVE \A w \in Workers : StatusOnSchedule(statuses'[w])
    <2>1. StatusOnSchedule(FreshStatus("starting"))
      BY DEF StatusOnSchedule, FreshStatus
    <2>2. CASE started
      BY <1>0, <1>1, <2>2 DEF Start, taskVars
    <2>3. CASE ~started
      <3>1. \A w \in Workers : statuses'[w] = FreshStatus("starting")
        BY <1>1, <2>3 DEF Start, taskVars
      <3>2. QED
        BY <2>1, <3>1
    <2>4. QED
      BY <2>2, <2>3
  <1>2. ASSUME NEW c \in Callers, Stop(c) PROVE \A w \in Workers : StatusOnSchedule(statuses'[w])
    <2>1. CASE ~started
      BY <1>0, <1>2, <2>1 DEF Stop, taskVars
    <2>2. CASE started
      <3>1. \A w \in Workers : \/ statuses'[w] = statuses[w]
                               \/ statuses'[w] = [statuses[w] EXCEPT !.state = "stopping"]
        BY <1>2, <2>2 DEF Stop
      <3>2. \A w \in Workers : StatusOnSchedule([statuses[w] EXCEPT !.state = "stopping"])
        BY <1>0 DEF StatusOnSchedule, WorkerStatus
      <3>3. QED
        BY <1>0, <3>1, <3>2
    <2>3. QED
      BY <2>1, <2>2
  <1>3. ASSUME NEW c \in Callers, FinishStop(c)
        PROVE  \A w \in Workers : StatusOnSchedule(statuses'[w])
    <2>1. \A w \in Workers :
            statuses'[w] = [statuses[w] EXCEPT !.state = "stopped", !.next_retry = None]
      BY <1>3 DEF FinishStop
    <2>2. \A w \in Workers :
            StatusOnSchedule([statuses[w] EXCEPT !.state = "stopped", !.next_retry = None])
      BY <1>0 DEF StatusOnSchedule, WorkerStatus
    <2>3. QED
      BY <2>1, <2>2
  <1>4. ASSUME NEW t \in live, SupervisorStep(t)
        PROVE  \A w \in Workers : StatusOnSchedule(statuses'[w])
    <2> DEFINE status == statuses[t.worker]
    <2>1. t.worker \in Workers /\ status \in WorkerStatus
      BY <1>0 DEF TypeOK, Supervisor
    <2>2. status.restart_count \in Nat
      BY <2>1 DEF WorkerStatus
    <2>3. \/ UNCHANGED statuses
          \/ \E n : statuses' = [statuses EXCEPT ![t.worker] = n] /\ StatusOnSchedule(n)
      <3>1. CASE RunRunner(t)
        <4> DEFINE n == [status EXCEPT !.state = "running", !.next_retry = None]
        <4>1. statuses' = [statuses EXCEPT ![t.worker] = n]
          BY <2>1, <3>1 DEF RunRunner, TypeOK, WorkerStatus
        <4>2. StatusOnSchedule(n)
          BY <2>1 DEF StatusOnSchedule, WorkerStatus
        <4>3. QED
          BY <4>1, <4>2
      <3>2. CASE Finally(t)
        <4> DEFINE n == [status EXCEPT !.state = "stopped", !.next_retry = None]
        <4>1. statuses' = [statuses EXCEPT ![t.worker] = n]
          BY <2>1, <3>2 DEF Finally, TypeOK, WorkerStatus
        <4>2. StatusOnSchedule(n)
          BY <2>1 DEF StatusOnSchedule, WorkerStatus
        <4>3. QED
          BY <4>1, <4>2
      <3>3. ASSUME NEW exit, Fail(t, exit)
            PROVE  \E n : statuses' = [statuses EXCEPT ![t.worker] = n] /\ StatusOnSchedule(n)
        <4> DEFINE n == [state |-> "backoff", restart_count |-> status.restart_count + 1,
                         last_exit |-> exit, next_retry |-> RetrySeconds(status.restart_count)]
        <4>1. statuses' = [statuses EXCEPT ![t.worker] = n]
          BY <2>2, <3>3, NeverOverflows DEF Fail
        <4>2. n.restart_count > 0 /\ n.restart_count - 1 = status.restart_count
          BY <2>2
        <4>3. LET delay == Doubling(status.restart_count) IN n.next_retry \in delay - Slack .. delay
          BY <2>2, CapKeepsDelays
        <4>4. StatusOnSchedule(n)
          <5>1. n.state = "backoff"
            OBVIOUS
          <5> HIDE DEF n
          <5>2. QED
            BY <4>2, <4>3, <5>1 DEF StatusOnSchedule
        <4>5. QED
          BY <4>1, <4>4
      <3>4. QED
        BY <1>4, <3>1, <3>2, <3>3 DEF SupervisorStep, RunnerEnds, DeliverCancel
    <2>4. QED
      BY <1>0, <2>1, <2>3 DEF TypeOK
  <1>5. CASE UNCHANGED statuses
    BY <1>0, <1>5
  <1>6. QED
    BY <1>1, <1>2, <1>3, <1>4, <1>5
       DEF Next, CallerStep, Queue, CancelCaller, AbandonStop, taskVars, vars

\* Every delay that status_snapshot reports is that of plain doubling, clipped
\* at the maximum and exact up to Slack, and no delay is reported for a worker
\* that waits for none.
THEOREM BackoffOnSchedule == Spec => []BackoffSchedule
  <1>1. Init => BackoffSchedule
    BY DEF Init, BackoffSchedule, FreshStatus
  <1>2. QED
    BY <1>1, TypeCorrect, ScheduleNext, PTL DEF Spec

-----------------------------------------------------------------------------
(***************************************************************************)
(* Supervision.  While started, a supervisor was not cancelled, so its     *)
(* runner is not cleaning up and only a failure can end it.                *)
(***************************************************************************)
Supervised(w) ==
  \E t \in live : /\ t.worker = w /\ Registered(t)
                 /\ t.cancel = FALSE /\ t.at # "cleanup"

AllSupervised == started => \A w \in Workers : Supervised(w)

LEMMA SupervisedNext ==
  ASSUME RunnerExits \subseteq {"exception", "returned"}
  PROVE  IInv /\ AllSupervised /\ [Next]_vars => AllSupervised'
  <1> SUFFICES ASSUME IInv, AllSupervised, [Next]_vars, started', NEW w \in Workers
               PROVE  Supervised(w)'
    BY DEF AllSupervised
  <1> USE RuntimeAssumption
  <1>0. TypeOK
    BY DEF IInv
  <1>1. ASSUME NEW c \in Callers, Start(c) PROVE Supervised(w)'
    <2>1. CASE started
      BY <1>1, <2>1 DEF Start, taskVars, AllSupervised, Supervised, Registered
    <2>2. CASE ~started
      <3> DEFINE t == [worker |-> w, id |-> spawned', at |-> "created", cancel |-> FALSE]
      <3>1. t \in live' /\ tasks'[w] = spawned'
        BY <1>1, <2>2 DEF Start, taskVars, NewSupervisors
      <3>2. t.worker = w /\ t.id = spawned' /\ t.cancel = FALSE /\ t.at # "cleanup"
        OBVIOUS
      <3>3. QED
        BY <3>1, <3>2 DEF Supervised, Registered
    <2>3. QED
      BY <2>1, <2>2
  <1>2. ASSUME NEW c \in Callers, Stop(c) \/ FinishStop(c) \/ AbandonStop(c)
        PROVE  FALSE
    <2>1. CASE Stop(c)
      BY <2>1 DEF Stop, taskVars
    <2>2. CASE FinishStop(c) \/ AbandonStop(c)
      BY <2>2 DEF FinishStop, AbandonStop, taskVars, IInv, LockDiscipline
    <2>3. QED
      BY <1>2, <2>1, <2>2
  <1>3. ASSUME NEW c \in Callers, CancelCaller(c) PROVE Supervised(w)'
    <2>1. pc[c] \notin {"gathering", "abandoned"}
      BY <1>3 DEF CancelCaller, IInv, LockDiscipline
    <2>2. QED
      BY <1>3, <2>1 DEF CancelCaller, AllSupervised, Supervised, Registered
  <1>4. ASSUME NEW t \in live, SupervisorStep(t) PROVE Supervised(w)'
    <2>1. started /\ tasks' = tasks
      BY <1>4 DEF SupervisorStep, RunRunner, RunnerEnds, DeliverCancel
    <2>2. t \in Supervisor /\ t.worker \in Workers
      BY <1>0 DEF TypeOK, Supervisor
    <2>3. Registered(t) /\ t.cancel = FALSE /\ t.at # "cleanup"
      BY <2>1, <2>2 DEF IInv, OneSupervisorPerWorker, AllSupervised, Supervised
    <2>4. PICK at \in {"running", "sleeping"} : Moves(t, at)
      <3>1. CASE RunRunner(t)
        BY <3>1 DEF RunRunner
      <3>2. ASSUME NEW exit \in Exits, RunnerEnds(t, exit)
            PROVE  Moves(t, "sleeping")
        <4>1. statuses[t.worker].restart_count \in Nat
          BY <1>0, <2>2 DEF TypeOK, WorkerStatus
        <4>2. Fail(t, exit)
          BY <2>3, <3>2 DEF RunnerEnds
        <4>3. QED
          BY <4>1, <4>2, NeverOverflows DEF Fail
      <3>3. ~DeliverCancel(t)
        BY <2>3 DEF DeliverCancel
      <3>4. QED
        BY <1>4, <3>1, <3>2, <3>3 DEF SupervisorStep
    <2>5. PICK u : u = [t EXCEPT !.at = at, !.cancel = FALSE]
      OBVIOUS
    <2>6. /\ live' = (live \ {t}) \cup {u}
          /\ u.worker = t.worker /\ u.id = t.id /\ u.at = at /\ u.cancel = FALSE
      BY <2>2, <2>4, <2>5 DEF Moves, Supervisor
    <2>7. CASE t.worker = w
      <3>1. u \in live' /\ u.worker = w /\ u.id = tasks'[u.worker] /\ u.at # "cleanup"
        BY <2>1, <2>3, <2>4, <2>6, <2>7 DEF Registered
      <3>2. QED
        BY <2>6, <3>1 DEF Supervised, Registered
    <2>8. CASE t.worker # w
      BY <2>1, <2>6, <2>8 DEF AllSupervised, Supervised, Registered
    <2>9. QED
      BY <2>7, <2>8
  <1>5. CASE UNCHANGED <<started, tasks, live>>
    BY <1>5 DEF AllSupervised, Supervised, Registered
  <1>6. QED
    BY <1>1, <1>2, <1>3, <1>4, <1>5 DEF Next, CallerStep, Queue, taskVars, vars

\* As long as runners only fail or return, no number of failures costs a worker
\* its supervisor: while the runtime is started each has one, not cancelled.
THEOREM AlwaysSupervised ==
  ASSUME RunnerExits \subseteq {"exception", "returned"}
  PROVE  Spec => []SupervisedWhileStarted
  <1>1. Init => AllSupervised
    BY DEF Init, AllSupervised
  <1>2. AllSupervised => SupervisedWhileStarted
    BY DEF AllSupervised, Supervised, SupervisedWhileStarted, Of
  <1>3. QED
    BY <1>1, <1>2, SupervisedNext, Invariant, PTL DEF Spec

-----------------------------------------------------------------------------
(***************************************************************************)
(* The health report.  Each supervisor is where its worker's status says,  *)
(* or the status says "stopping"; and it does say so for a task that was   *)
(* cancelled before it ever ran, which ends without its finally clause.    *)
(* While a status says "stopping" its task is still in _tasks, cancelled.  *)
(***************************************************************************)
TaskReported(t) ==
  LET state == statuses[t.worker].state IN
  /\ t.id # 0
  /\ t.cancel = TRUE => ~started
  /\ t.at = "created" => state = "stopping" \/ (state = "starting" /\ started)
  /\ t.at \in {"running", "cleanup"} => state \in {"running", "stopping"}
  /\ t.at = "sleeping" => state \in {"backoff", "stopping"}
  /\ state = "stopping" => t.cancel = TRUE \/ t.at = "cleanup"

WorkerReported(w) ==
  /\ statuses[w].state \in {"starting", "running", "backoff"} => \E t \in live : t.worker = w
  /\ statuses[w].state = "stopping" => ~started /\ tasks[w] # 0

Reported == (\A t \in live : TaskReported(t)) /\ (\A w \in Workers : WorkerReported(w))

LEMMA ReportedIsTrue == TypeOK /\ Reported => HealthReportIsTrue
  <1> SUFFICES ASSUME TypeOK, Reported, NEW w \in Workers
               PROVE  LET state == statuses[w].state IN
                      /\ state = "stopped" => Of(w) = {}
                      /\ state = "starting" => \E t \in Of(w) : t.at = "created"
                      /\ state = "running" => \E t \in Of(w) : t.at \in {"running", "cleanup"}
                      /\ state = "backoff" => \E t \in Of(w) : t.at = "sleeping"
                      /\ state = "stopping" =>
                           /\ ~started
                           /\ tasks[w] # 0
                           /\ \A t \in Of(w) : t.cancel \/ t.at = "cleanup"
    BY DEF HealthReportIsTrue
  <1>1. \A t \in live : t.at \in {"created", "running", "cleanup", "sleeping"}
    BY DEF TypeOK, Supervisor
  <1>2. \A t \in live : TaskReported(t)
    BY DEF Reported
  <1>3. WorkerReported(w)
    BY DEF Reported
  <1>4. QED
    BY <1>1, <1>2, <1>3 DEF TaskReported, WorkerReported, Of

\* A supervisor ends or moves on, with what it stores in its worker's status.
LEMMA ReportEnds ==
  ASSUME IInv, Reported, NEW t \in live, live' = live \ {t},
         started' = started, tasks' = tasks,
         \A w \in Workers \ {t.worker} : statuses'[w].state = statuses[w].state,
         \/ statuses'[t.worker].state = "stopped"
         \/ statuses'[t.worker].state = "stopping" /\ statuses' = statuses
  PROVE  Reported'
  <1>1. \A s \in live' : s \in live /\ s.worker \in Workers \ {t.worker}
    BY DEF IInv, OneSupervisorPerWorker, TypeOK, Supervisor
  <1>2. ASSUME NEW s \in live' PROVE TaskReported(s)'
    <2>1. TaskReported(s) /\ statuses'[s.worker].state = statuses[s.worker].state
      BY <1>1 DEF Reported
    <2>2. QED
      BY <2>1 DEF TaskReported
  <1>3. ASSUME NEW w \in Workers PROVE WorkerReported(w)'
    <2>1. CASE w = t.worker
      BY <2>1 DEF WorkerReported, Reported
    <2>2. CASE w # t.worker
      <3>1. WorkerReported(w) /\ statuses'[w].state = statuses[w].state
        BY <2>2 DEF Reported
      <3>2. QED
        BY <2>2, <3>1 DEF WorkerReported
    <2>3. QED
      BY <2>1, <2>2
  <1>4. QED
    BY <1>2, <1>3 DEF Reported

LEMMA ReportMoves ==
  ASSUME IInv, Reported, NEW t \in live, NEW at, NEW u,
         u = [t EXCEPT !.at = at, !.cancel = FALSE], live' = (live \ {t}) \cup {u},
         started' = started, tasks' = tasks,
         \A w \in Workers \ {t.worker} : statuses'[w].state = statuses[w].state,
         \/ at = "running" /\ statuses'[t.worker].state = "running"
         \/ at = "sleeping" /\ statuses'[t.worker].state = "backoff"
         \/ /\ at = "cleanup" /\ t.at \in {"running", "cleanup"}
            /\ statuses'[t.worker].state = statuses[t.worker].state
  PROVE  Reported'
  <1>0. t \in Supervisor /\ t.worker \in Workers
    BY DEF IInv, TypeOK, Supervisor
  <1>1. u.worker = t.worker /\ u.id = t.id /\ u.at = at /\ u.cancel = FALSE
    BY <1>0 DEF Supervisor
  <1>2. TaskReported(t) /\ WorkerReported(t.worker)
    BY <1>0 DEF Reported
  <1>3. TaskReported(u)'
    BY <1>1, <1>2 DEF TaskReported
  <1>4. WorkerReported(t.worker)'
    BY <1>1, <1>2 DEF WorkerReported
  <1>5. \A s \in live \ {t} : s.worker \in Workers \ {t.worker}
    BY DEF IInv, OneSupervisorPerWorker, TypeOK, Supervisor
  <1>6. ASSUME NEW s \in live \ {t} PROVE TaskReported(s)'
    <2>1. TaskReported(s) /\ statuses'[s.worker].state = statuses[s.worker].state
      BY <1>5 DEF Reported
    <2>2. QED
      BY <2>1 DEF TaskReported
  <1>7. ASSUME NEW w \in Workers \ {t.worker} PROVE WorkerReported(w)'
    <2>1. WorkerReported(w) /\ statuses'[w].state = statuses[w].state
      BY DEF Reported
    <2>2. QED
      BY <2>1 DEF WorkerReported
  <1>8. QED
    BY <1>3, <1>4, <1>6, <1>7 DEF Reported

LEMMA ReportedStep ==
  ASSUME IInv, Reported, NEW t \in live, SupervisorStep(t)
  PROVE  Reported'
  <1>0. t \in Supervisor /\ t.worker \in Workers /\ TypeOK
    BY DEF IInv, TypeOK, Supervisor
  <1>1. started' = started /\ tasks' = tasks
    BY DEF SupervisorStep, RunRunner, RunnerEnds, DeliverCancel
  <1>2. \A w \in Workers : statuses[w] \in WorkerStatus
    BY <1>0 DEF TypeOK
  <1>3. ASSUME NEW at, Moves(t, at),
               \A w \in Workers \ {t.worker} : statuses'[w].state = statuses[w].state,
               \/ at = "running" /\ statuses'[t.worker].state = "running"
               \/ at = "sleeping" /\ statuses'[t.worker].state = "backoff"
               \/ /\ at = "cleanup" /\ t.at \in {"running", "cleanup"}
                  /\ statuses'[t.worker].state = statuses[t.worker].state
        PROVE  Reported'
    <2>1. PICK u : u = [t EXCEPT !.at = at, !.cancel = FALSE]
      OBVIOUS
    <2>2. live' = (live \ {t}) \cup {u}
      BY <1>3, <2>1 DEF Moves
    <2>3. QED
      BY <1>1, <1>3, <2>1, <2>2, ReportMoves
  <1>4. CASE RunRunner(t)
    <2>1. /\ \A w \in Workers \ {t.worker} : statuses'[w].state = statuses[w].state
          /\ statuses'[t.worker].state = "running"
      BY <1>0, <1>2, <1>4 DEF RunRunner, TypeOK, WorkerStatus
    <2>2. QED
      BY <1>3, <1>4, <2>1 DEF RunRunner
  <1>5. CASE Finally(t)
    <2>1. /\ \A w \in Workers \ {t.worker} : statuses'[w].state = statuses[w].state
          /\ statuses'[t.worker].state = "stopped"
      BY <1>0, <1>2, <1>5 DEF Finally, TypeOK, WorkerStatus
    <2>2. QED
      BY <1>1, <1>5, <2>1, ReportEnds DEF Finally
  <1>6. ASSUME NEW exit, Fail(t, exit) PROVE Reported'
    <2> DEFINE status == statuses[t.worker]
    <2>1. status.restart_count \in Nat
      BY <1>0, <1>2 DEF WorkerStatus
    <2>2. /\ Moves(t, "sleeping")
          /\ statuses' = [statuses EXCEPT ![t.worker] =
               [state |-> "backoff", restart_count |-> status.restart_count + 1,
                last_exit |-> exit, next_retry |-> RetrySeconds(status.restart_count)]]
      BY <1>6, <2>1, NeverOverflows DEF Fail
    <2>3. /\ \A w \in Workers \ {t.worker} : statuses'[w].state = statuses[w].state
          /\ statuses'[t.worker].state = "backoff"
      BY <1>0, <2>2 DEF TypeOK
    <2>4. QED
      BY <1>3, <2>2, <2>3
  <1>7. CASE DeliverCancel(t)
    <2>1. TaskReported(t) /\ t.cancel = TRUE
      BY <1>0, <1>7 DEF Reported, DeliverCancel, Supervisor
    <2>2. CASE t.at = "created"
      <3>1. ~started /\ statuses[t.worker].state = "stopping"
        BY <2>1, <2>2 DEF TaskReported
      <3>2. live' = live \ {t} /\ statuses' = statuses
        BY <1>7, <2>2 DEF DeliverCancel
      <3>3. QED
        BY <1>1, <3>1, <3>2, ReportEnds
    <2>3. CASE t.at = "sleeping"
      BY <1>5, <1>7, <2>3 DEF DeliverCancel
    <2>4. CASE t.at \in {"running", "cleanup"}
      BY <1>3, <1>7, <2>4 DEF DeliverCancel
    <2>5. QED
      BY <1>7, <2>2, <2>3, <2>4 DEF DeliverCancel
  <1>8. QED
    BY <1>4, <1>5, <1>6, <1>7 DEF SupervisorStep, RunnerEnds

\* stop(), or the cancellation of one, marks the tasks: they stay where they are.
LEMMA ReportedCancel ==
  ASSUME IInv, Reported, live' = CancelTasks, ~started', tasks' = tasks,
         \A w \in Workers :
           \/ statuses'[w].state = statuses[w].state
           \/ statuses'[w].state = "stopping" /\ tasks[w] # 0,
         \A t \in live : t.at = "created" => statuses'[t.worker].state = "stopping"
  PROVE  Reported'
  <1>0. TypeOK
    BY DEF IInv
  <1>1. ASSUME NEW u \in live' PROVE TaskReported(u)'
    <2>1. PICK t \in live : /\ u.worker = t.worker /\ u.id = t.id /\ u.at = t.at
                            /\ u = [t EXCEPT !.cancel = t.cancel \/ Registered(t)]
      BY <1>0, CancelTasksKeeps
    <2>2. t \in Supervisor /\ t.worker \in Workers /\ TaskReported(t) /\ Registered(t)
      BY <1>0 DEF TypeOK, Supervisor, Reported, IInv, AllRegistered
    <2>3. u.cancel = TRUE
      BY <2>1, <2>2 DEF Supervisor
    <2>4. QED
      BY <2>1, <2>2, <2>3 DEF TaskReported
  <1>2. ASSUME NEW w \in Workers PROVE WorkerReported(w)'
    <2>1. ASSUME NEW t \in live, t.worker = w PROVE \E u \in live' : u.worker = w
      <3>1. t \in Supervisor
        BY <1>0 DEF TypeOK
      <3>2. PICK u : u = [t EXCEPT !.cancel = t.cancel \/ Registered(t)]
        OBVIOUS
      <3>3. u \in live' /\ u.worker = w
        BY <2>1, <3>1, <3>2 DEF CancelTasks, Supervisor
      <3>4. QED
        BY <3>3
    <2>2. WorkerReported(w)
      BY DEF Reported
    <2>3. QED
      BY <2>1, <2>2 DEF WorkerReported
  <1>3. QED
    BY <1>1, <1>2 DEF Reported

LEMMA ReportedNext == IInv /\ Reported /\ [Next]_vars => Reported'
  <1> SUFFICES ASSUME IInv, Reported, [Next]_vars PROVE Reported'
    OBVIOUS
  <1>0. TypeOK
    BY DEF IInv
  <1>a. ASSUME UNCHANGED <<started, tasks, statuses, live>> PROVE Reported'
    BY <1>a DEF Reported, TaskReported, WorkerReported
  <1>1. ASSUME NEW c \in Callers, Start(c) PROVE Reported'
    <2>1. CASE started
      BY <1>1, <1>a, <2>1 DEF Start, taskVars
    <2>2. CASE ~started
      <3>1. live = {}
        BY <1>1, <2>2 DEF Start, Acquires, IInv, NoSupervisorOutlivesStop
      <3>2. /\ live' = NewSupervisors(spawned') /\ started' /\ spawned' = spawned + 1
            /\ statuses' = [w \in Workers |-> FreshStatus("starting")]
        BY <1>1, <2>2, <3>1 DEF Start, taskVars
      <3>3. spawned' # 0
        BY <1>0, <3>2 DEF TypeOK
      <3>4. \A w \in Workers : statuses'[w].state = "starting"
        BY <3>2 DEF FreshStatus
      <3>5. ASSUME NEW t \in live' PROVE TaskReported(t)'
        <4>1. PICK w \in Workers :
                t = [worker |-> w, id |-> spawned', at |-> "created", cancel |-> FALSE]
          BY <3>2 DEF NewSupervisors
        <4>2. t.worker = w /\ t.id = spawned' /\ t.at = "created" /\ t.cancel = FALSE
          BY <4>1
        <4>3. QED
          BY <3>2, <3>3, <3>4, <4>2 DEF TaskReported
      <3>6. ASSUME NEW w \in Workers PROVE WorkerReported(w)'
        <4>1. PICK t : t = [worker |-> w, id |-> spawned', at |-> "created", cancel |-> FALSE]
          OBVIOUS
        <4>2. t \in live' /\ t.worker = w
          BY <3>2, <4>1 DEF NewSupervisors
        <4>3. QED
          BY <3>4, <4>2 DEF WorkerReported
      <3>7. QED
        BY <3>5, <3>6 DEF Reported
    <2>3. QED
      BY <2>1, <2>2
  <1>2. ASSUME NEW c \in Callers, Stop(c) PROVE Reported'
    <2>1. CASE ~started
      BY <1>2, <1>a, <2>1 DEF Stop, taskVars
    <2>2. CASE started
      <3>1. /\ live' = CancelTasks /\ ~started' /\ tasks' = tasks
            /\ statuses' = [w \in Workers |->
                 IF tasks[w] = 0 THEN statuses[w]
                                 ELSE [statuses[w] EXCEPT !.state = "stopping"]]
        BY <1>2, <2>2 DEF Stop
      <3>2. \A w \in Workers :
              /\ tasks[w] = 0 => statuses'[w].state = statuses[w].state
              /\ tasks[w] # 0 => statuses'[w].state = "stopping"
        BY <1>0, <3>1 DEF TypeOK, WorkerStatus
      <3>3. \A t \in live : t.worker \in Workers /\ tasks[t.worker] # 0
        BY <1>0 DEF TypeOK, Supervisor, IInv, AllRegistered, Registered, Reported, TaskReported
      <3>4. QED
        BY <3>1, <3>2, <3>3, ReportedCancel
    <2>3. QED
      BY <2>1, <2>2
  <1>3. ASSUME NEW c \in Callers, FinishStop(c) PROVE Reported'
    <2>1. live' = {}
      BY <1>3 DEF FinishStop, Gathered, IInv, AllRegistered
    <2>2. \A w \in Workers : statuses'[w].state = "stopped"
      BY <1>0, <1>3 DEF FinishStop, TypeOK, WorkerStatus
    <2>3. QED
      BY <2>1, <2>2 DEF Reported, WorkerReported
  <1>4. ASSUME NEW c \in Callers, CancelCaller(c) PROVE Reported'
    <2>1. CASE UNCHANGED live
      BY <1>4, <1>a, <2>1 DEF CancelCaller
    <2>2. CASE live' = CancelTasks /\ pc[c] \in {"gathering", "abandoned"}
      <3>1. ~started /\ ~started' /\ tasks' = tasks /\ statuses' = statuses
        BY <1>4, <2>2, RuntimeAssumption DEF CancelCaller, IInv, LockDiscipline
      <3>2. \A t \in live : t.at = "created" => statuses[t.worker].state = "stopping"
        BY <3>1 DEF Reported, TaskReported
      <3>3. QED
        BY <2>2, <3>1, <3>2, ReportedCancel
    <2>3. QED
      BY <1>4, <2>1, <2>2 DEF CancelCaller
  <1>5. CASE UNCHANGED <<started, tasks, statuses, live>>
    BY <1>5, <1>a
  <1>6. QED
    BY <1>1, <1>2, <1>3, <1>4, <1>5, ReportedStep
       DEF Next, CallerStep, Queue, AbandonStop, taskVars, vars

\* What /health reports of a worker is what its supervisor is doing, for every
\* set of workers and however start(), stop(), their cancellation and the
\* runners interleave: also for a task that is cancelled before it ever ran,
\* and "stopping" only of a task that stop() cancelled and still has in _tasks.
THEOREM HealthIsTrue == Spec => []HealthReportIsTrue
  <1>1. Init => Reported
    BY DEF Init, Reported, WorkerReported, FreshStatus
  <1>2. IInv => TypeOK
    BY DEF IInv
  <1>3. QED
    BY <1>1, <1>2, ReportedNext, ReportedIsTrue, Invariant, PTL DEF Spec

-----------------------------------------------------------------------------
(***************************************************************************)
(* The refinement: every step of the runtime is one of WorkerSupervision,  *)
(* or changes neither the phase nor who has a supervisor.                  *)
(***************************************************************************)
LEMMA CancelKeepsActive ==
  ASSUME TypeOK, live' = CancelTasks
  PROVE  Active' = Active
  <1>1. \A t \in live : LET u == [t EXCEPT !.cancel = t.cancel \/ Registered(t)]
                        IN  u \in live' /\ u.worker = t.worker
    BY DEF TypeOK, Supervisor, CancelTasks
  <1>2. Active \subseteq Active'
    BY <1>1 DEF Active
  <1>3. Active' \subseteq Active
    BY CancelTasksKeeps DEF Active
  <1>4. QED
    BY <1>2, <1>3

LEMMA StepRefines ==
  ASSUME RunnerExits \subseteq {"exception", "returned"}
  PROVE  IInv /\ AllSupervised /\ [Next]_vars => [Supervision!Next]_(Supervision!vars)
  <1> SUFFICES ASSUME IInv, AllSupervised, [Next]_vars
               PROVE  Supervision!Next \/ UNCHANGED <<Phase, Active>>
    BY DEF Supervision!vars
  <1> USE RuntimeAssumption
  <1>0. TypeOK
    BY DEF IInv
  <1>1. ASSUME NEW c \in Callers, Start(c)
        PROVE  Supervision!Start \/ UNCHANGED <<Phase, Active>>
    <2>1. CASE started
      BY <1>1, <2>1 DEF Start, taskVars, Phase, Active
    <2>2. CASE ~started
      <3>1. lock = None /\ live = {} /\ started' /\ live' = NewSupervisors(spawned')
        BY <1>1, <2>2 DEF Start, Acquires, taskVars, IInv, NoSupervisorOutlivesStop
      <3>2. Phase = "stopped" /\ Phase' = "serving" /\ Active = {}
        BY <2>2, <3>1 DEF Phase, Active
      <3>3. Active' = Workers
        <4>1. \A w \in Workers :
                LET t == [worker |-> w, id |-> spawned', at |-> "created", cancel |-> FALSE]
                IN  t \in live' /\ t.worker = w
          BY <3>1 DEF NewSupervisors
        <4>2. \A t \in live' : t.worker \in Workers
          BY <3>1 DEF NewSupervisors
        <4>3. QED
          BY <4>1, <4>2 DEF Active
      <3>4. QED
        BY <3>2, <3>3 DEF Supervision!Start
    <2>3. QED
      BY <2>1, <2>2
  <1>2. ASSUME NEW c \in Callers, Stop(c)
        PROVE  Supervision!Stop \/ UNCHANGED <<Phase, Active>>
    <2>1. CASE ~started
      BY <1>2, <2>1 DEF Stop, taskVars, Phase, Active
    <2>2. CASE started
      <3>1. lock' = c /\ c # None /\ ~started' /\ live' = CancelTasks
        BY <1>2, <2>2 DEF Stop
      <3>2. Phase = "serving" /\ Phase' = "draining"
        BY <2>2, <3>1 DEF Phase
      <3>3. Active = Workers
        BY <1>0, <2>2 DEF AllSupervised, Supervised, Active, TypeOK, Supervisor
      <3>4. Active' = Active
        BY <1>0, <3>1, CancelKeepsActive
      <3>5. QED
        BY <3>2, <3>3, <3>4 DEF Supervision!Stop
    <2>3. QED
      BY <2>1, <2>2
  <1>3. ASSUME NEW c \in Callers, FinishStop(c) \/ AbandonStop(c)
        PROVE  Supervision!Stopped
    <2>1. lock = c /\ c # None /\ lock' = None /\ ~started /\ ~started' /\ live' = live
      <3>1. lock = c /\ c # None /\ ~started
        BY <1>3 DEF FinishStop, AbandonStop, IInv, LockDiscipline
      <3>2. lock' = None /\ started' = started /\ live' = live
        BY <1>3 DEF FinishStop, AbandonStop, taskVars
      <3>3. QED
        BY <3>1, <3>2
    <2>2. live = {}
      BY <1>3 DEF FinishStop, AbandonStop, Gathered, IInv, AllRegistered
    <2>3. QED
      BY <2>1, <2>2 DEF Supervision!Stopped, Phase, Active
  <1>4. ASSUME NEW c \in Callers, CancelCaller(c)
        PROVE  UNCHANGED <<Phase, Active>>
    <2>1. Phase' = Phase
      BY <1>4 DEF CancelCaller, Phase
    <2>2. live' = live \/ live' = CancelTasks
      BY <1>4 DEF CancelCaller
    <2>3. Active' = Active
      BY <1>0, <2>2, CancelKeepsActive DEF Active
    <2>4. QED
      BY <2>1, <2>3
  <1>5. ASSUME NEW t \in live, SupervisorStep(t)
        PROVE  Supervision!Drain(t.worker) \/ UNCHANGED <<Phase, Active>>
    <2>1. t \in Supervisor /\ t.worker \in Workers
      BY <1>0 DEF TypeOK, Supervisor
    <2>2. UNCHANGED <<started, lock>> /\ Phase' = Phase
      BY <1>5 DEF SupervisorStep, RunRunner, RunnerEnds, DeliverCancel, callVars, Phase
    <2>3. ASSUME NEW at, Moves(t, at) PROVE Active' = Active
      <3>1. PICK u : u = [t EXCEPT !.at = at, !.cancel = FALSE]
        OBVIOUS
      <3>2. live' = (live \ {t}) \cup {u} /\ u.worker = t.worker
        BY <2>1, <2>3, <3>1 DEF Moves, Supervisor
      <3>3. QED
        BY <3>2 DEF Active
    <2>4. CASE live' = live \ {t} /\ ~started
      <3>1. Phase = "draining"
        BY <2>4 DEF Phase, IInv, NoSupervisorOutlivesStop
      <3>2. t.worker \in Active /\ \A s \in live' : s \in live /\ s.worker # t.worker
        BY <2>4 DEF Active, IInv, OneSupervisorPerWorker
      <3>3. Active' = Active \ {t.worker}
        BY <2>4, <3>2 DEF Active
      <3>4. QED
        BY <2>2, <3>1, <3>2, <3>3 DEF Supervision!Drain
    <2>5. CASE started
      <3>1. t.cancel = FALSE /\ t.at # "cleanup"
        BY <2>1, <2>5 DEF IInv, OneSupervisorPerWorker, AllSupervised, Supervised
      <3>2. \E at : Moves(t, at)
        <4>1. CASE RunRunner(t)
          BY <4>1 DEF RunRunner
        <4>2. ASSUME NEW exit \in Exits, RunnerEnds(t, exit)
              PROVE  Moves(t, "sleeping")
          <5>1. statuses[t.worker].restart_count \in Nat
            BY <1>0, <2>1 DEF TypeOK, WorkerStatus
          <5>2. Fail(t, exit)
            BY <3>1, <4>2 DEF RunnerEnds
          <5>3. QED
            BY <5>1, <5>2, NeverOverflows DEF Fail
        <4>3. QED
          BY <1>5, <3>1, <4>1, <4>2 DEF SupervisorStep, DeliverCancel
      <3>3. QED
        BY <2>2, <2>3, <3>2
    <2>6. live' = live \ {t} \/ \E at : Moves(t, at)
      BY <1>5, Zenon DEF SupervisorStep, RunRunner, RunnerEnds, DeliverCancel, Fail, Finally
    <2>7. QED
      BY <2>2, <2>3, <2>4, <2>5, <2>6
  <1>6. CASE UNCHANGED <<started, lock, live>>
    BY <1>6 DEF Phase, Active
  <1>7. \A t \in live : t.worker \in Workers
    BY <1>0 DEF TypeOK, Supervisor
  <1>8. QED
    BY <1>1, <1>2, <1>3, <1>4, <1>5, <1>6, <1>7
       DEF Next, CallerStep, Queue, taskVars, vars, Supervision!Next

\* The runtime takes no step that WorkerSupervision does not allow main.py to
\* rely on, as long as runners only fail or return: start() and stop() are
\* all-or-nothing for every number of workers, and a supervisor ends only
\* while a stop() waits for it.
THEOREM RuntimeRefinesSupervision ==
  ASSUME RunnerExits \subseteq {"exception", "returned"}
  PROVE  Spec => Supervision!Spec
  <1>1. Init => Supervision!Init
    BY DEF Init, Supervision!Init, Phase, Active
  <1>2. Init => AllSupervised
    BY DEF Init, AllSupervised
  <1>3. QED
    BY <1>1, <1>2, SupervisedNext, StepRefines, Invariant, PTL DEF Spec, Supervision!Spec

-----------------------------------------------------------------------------
(***************************************************************************)
(* GET /health.  Three copies of the statuses follow each other: the       *)
(* loop's, what is in memory of them and what the thread has read.         *)
(***************************************************************************)
FieldNames == {"state", "restart_count", "last_exit", "next_retry"}
Statuses == [Workers -> WorkerStatus]
Memory == [running : BOOLEAN, app_state : BOOLEAN, statuses : Statuses]
Values == BOOLEAN \cup States \cup Nat \cup Exits \cup {None}
Assignments ==
  [name : FieldNames \cup {"running", "app_state"}, worker : Workers \cup {None}, value : Values]

Counted(status) == status.restart_count > 0 /\ status.last_exit # None

Explained(rows) == \A w \in Workers : rows[w].state = "backoff" => Counted(rows[w])

\* What one copy has counted, the next has counted too.
Follows(rows, next) ==
  \A w \in Workers : /\ rows[w].restart_count > 0 => next[w].restart_count > 0
                     /\ rows[w].last_exit # None => next[w].last_exit # None

NothingCounted ==
  spawned = 0 => /\ live = {}
                 /\ \A w \in Workers : /\ statuses[w].restart_count = 0
                                       /\ statuses[w].last_exit = None

\* An assignment still to be made is of a value the loop has, and once the state
\* becomes "backoff" neither the count nor the exit is still to come.
Assigns(a, rows) ==
  \/ a.worker = None /\ a.name \in {"running", "app_state"} /\ a.value \in BOOLEAN
  \/ a.worker \in Workers /\ a.name \in FieldNames /\ a.value = rows[a.worker][a.name]

Ordered(list) ==
  \A i, j \in 1 .. Len(list) :
    /\ i < j
    /\ list[i].worker = list[j].worker
    /\ list[i].name = "state"
    /\ list[i].value = "backoff"
    => list[j].name \notin {"restart_count", "last_exit"}

Sound(list, rows) ==
  /\ list \in Seq(Assignments)
  /\ \A i \in 1 .. Len(list) : Assigns(list[i], rows)
  /\ Ordered(list)

\* Memory is behind the loop by the assignments still to be made.
Pending(list, w, field) ==
  \E i \in 1 .. Len(list) : list[i].worker = w /\ list[i].name = field

Behind(seen, rows, list) ==
  \A w \in Workers, field \in FieldNames :
    seen[w][field] = rows[w][field] \/ Pending(list, w, field)

\* Once the thread has read the state "backoff" of the k-th worker, memory has
\* its count and its exit by the time the thread reads them.
Row(k, read, row, seen) ==
  row.state = "backoff" =>
    /\ read > 4 * k - 3 => Counted(seen)
    /\ read > 4 * k - 2 => row.restart_count > 0
    /\ read > 4 * k - 1 => row.last_exit # None

LoopInv == TypeOK /\ Explained(statuses) /\ NothingCounted

MemoryInv ==
  /\ memory \in Memory
  /\ Explained(memory.statuses)
  /\ Follows(memory.statuses, statuses)
  /\ Sound(todo, statuses)
  /\ Behind(memory.statuses, statuses, todo)

ReportInv ==
  /\ thread \in 0 .. Complete
  /\ report \in Statuses
  /\ \A k \in 1 .. Len(Names) : Row(k, thread, report[Names[k]], memory.statuses[Names[k]])

HealthInv == LoopInv /\ MemoryInv /\ ReportInv

-----------------------------------------------------------------------------
LEMMA NamesAreWorkers ==
  /\ Names \in Seq(Workers) /\ Len(Names) \in Nat
  /\ \A w \in Workers : \E k \in 1 .. Len(Names) : Names[k] = w
  /\ \A j, k \in 1 .. Len(Names) : Names[j] = Names[k] => j = k
  <1> DEFINE N == Cardinality(Workers)
  <1>1. N \in Nat /\ ExistsBijection(1 .. N, Workers)
    BY HealthAssumption, FS_CardinalityType
  <1>2. Names \in Bijection(1 .. N, Workers)
    BY <1>1, Zenon DEF Names, ExistsBijection
  <1>3. /\ Names \in [1 .. N -> Workers]
        /\ \A w \in Workers : \E k \in 1 .. N : Names[k] = w
        /\ \A j, k \in 1 .. N : Names[j] = Names[k] => j = k
    BY <1>2 DEF Bijection, Injection, Surjection, IsInjective
  <1> HIDE DEF N
  <1>4. Names \in Seq(Workers) /\ Len(Names) = N
    <2>1. \A n \in Nat : \A f \in [1 .. n -> Workers] : f \in Seq(Workers) /\ Len(f) = n
      OBVIOUS
    <2>2. QED
      BY <1>1, <1>3, <2>1, Zenon
  <1>5. QED
    BY <1>1, <1>3, <1>4

\* The place of the fields of the k-th worker.
LEMMA Places ==
  ASSUME NEW k \in 1 .. Len(Names), NEW r \in 0 .. 3
  PROVE  /\ 4 * k - 3 + r \in 1 .. 4 * Len(Names)
         /\ WorkerAt(4 * k - 3 + r) = Names[k]
         /\ \A order : FieldAt(order, 4 * k - 3 + r) = order[1 + r]
  <1>1. Len(Names) \in Nat /\ Len(Fields) = 4
    BY NamesAreWorkers DEF Fields
  <1>2. 4 * k - 3 + r \in 1 .. 4 * Len(Names)
    BY <1>1
  <1>3. /\ 1 + (((4 * k - 3 + r) - 1) \div 4) = k
        /\ 1 + (((4 * k - 3 + r) - 1) % 4) = 1 + r
    BY <1>1
  <1>4. QED
    BY <1>1, <1>2, <1>3 DEF WorkerAt, FieldAt

LEMMA PlaceOf ==
  ASSUME NEW n \in 1 .. 4 * Len(Names)
  PROVE  \E k \in 1 .. Len(Names), r \in 0 .. 3 : n = 4 * k - 3 + r
  <1>1. Len(Names) \in Nat
    BY NamesAreWorkers
  <1> DEFINE q == (n - 1) \div 4
             r == (n - 1) % 4
  <1>2. q \in Int /\ r \in 0 .. 3 /\ n - 1 = 4 * q + r
    BY <1>1
  <1> HIDE DEF q, r
  <1>3. q + 1 \in 1 .. Len(Names) /\ n = 4 * (q + 1) - 3 + r
    BY <1>1, <1>2
  <1>4. QED
    BY <1>2, <1>3

-----------------------------------------------------------------------------
(***************************************************************************)
(* One assignment.                                                         *)
(***************************************************************************)
LEMMA SoundTail ==
  ASSUME NEW rows, NEW list, Sound(list, rows), list # <<>>
  PROVE  /\ Sound(Tail(list), rows)
         /\ Assigns(Head(list), rows)
         /\ Head(list).name = "state" /\ Head(list).value = "backoff" =>
              \A field \in {"restart_count", "last_exit"} :
                ~Pending(Tail(list), Head(list).worker, field)
         /\ \A w, field : Pending(list, w, field) =>
              \/ Pending(Tail(list), w, field)
              \/ Head(list).worker = w /\ Head(list).name = field
  <1>1. /\ list \in Seq(Assignments) /\ Len(list) \in Nat \ {0}
        /\ \A i \in 1 .. Len(list) : Assigns(list[i], rows)
        /\ Ordered(list)
    BY DEF Sound
  <1> DEFINE tail == Tail(list)
  <1>2. /\ tail \in Seq(Assignments) /\ Len(tail) = Len(list) - 1
        /\ \A i \in 1 .. Len(tail) : i + 1 \in 1 .. Len(list) /\ tail[i] = list[i + 1]
        /\ Head(list) = list[1]
    BY <1>1
  <1> HIDE DEF tail
  <1>3. \A i \in 1 .. Len(tail) : Assigns(tail[i], rows)
    BY <1>1, <1>2
  <1>4. Ordered(tail)
    BY <1>1, <1>2 DEF Ordered
  <1>5. Sound(tail, rows)
    BY <1>2, <1>3, <1>4 DEF Sound
  <1>6. 1 \in 1 .. Len(list)
    BY <1>1
  <1>7. ASSUME Head(list).name = "state", Head(list).value = "backoff",
               NEW field \in {"restart_count", "last_exit"}
        PROVE  ~Pending(tail, Head(list).worker, field)
    <2> SUFFICES ASSUME NEW i \in 1 .. Len(tail),
                        tail[i].worker = list[1].worker, tail[i].name = field
                 PROVE  FALSE
      BY <1>2 DEF Pending
    <2>1. i + 1 \in 1 .. Len(list) /\ 1 < i + 1 /\ tail[i] = list[i + 1]
      BY <1>1, <1>2
    <2>2. QED
      BY <1>1, <1>2, <1>6, <1>7, <2>1 DEF Ordered
  <1>8. ASSUME NEW w, NEW field, Pending(list, w, field)
        PROVE  Pending(tail, w, field) \/ (list[1].worker = w /\ list[1].name = field)
    <2>1. PICK i \in 1 .. Len(list) : list[i].worker = w /\ list[i].name = field
      BY <1>8 DEF Pending
    <2>2. CASE i = 1
      BY <2>1, <2>2
    <2>3. CASE i # 1
      <3>1. i - 1 \in 1 .. Len(tail) /\ (i - 1) + 1 = i
        BY <1>1, <1>2, <2>3
      <3>2. tail[i - 1] = list[i]
        BY <1>2, <3>1
      <3>3. QED
        BY <2>1, <3>1, <3>2 DEF Pending
    <2>4. QED
      BY <2>2, <2>3
  <1>9. QED
    BY <1>1, <1>2, <1>5, <1>6, <1>7, <1>8 DEF tail

Put(rows, a) == [rows EXCEPT ![a.worker][a.name] = a.value]

LEMMA OneAssignment ==
  ASSUME NEW rows \in Statuses, NEW seen \in Statuses, NEW list,
         Explained(rows), Explained(seen), Follows(seen, rows),
         Sound(list, rows), Behind(seen, rows, list),
         list # <<>>, NEW a, a = Head(list), a.worker # None,
         NEW new, new = Put(seen, a)
  PROVE  /\ new \in Statuses
         /\ Explained(new)
         /\ Follows(new, rows) /\ Follows(seen, new)
         /\ Behind(new, rows, Tail(list))
  <1> DEFINE w == a.worker
             f == a.name
  <1>1. w \in Workers /\ f \in FieldNames /\ a.value = rows[w][f]
    BY SoundTail DEF Assigns
  <1>2. new = [seen EXCEPT ![w][f] = rows[w][f]]
    BY <1>1 DEF Put
  <1> HIDE DEF w, f
  <1>3. new \in Statuses
    <2>1. rows[w] \in WorkerStatus /\ seen[w] \in WorkerStatus
      BY <1>1 DEF Statuses
    <2>2. [seen[w] EXCEPT ![f] = rows[w][f]] \in WorkerStatus
      <3>1. CASE f = "state"
        BY <2>1, <3>1 DEF WorkerStatus
      <3>2. CASE f = "restart_count"
        BY <2>1, <3>2 DEF WorkerStatus
      <3>3. CASE f = "last_exit"
        BY <2>1, <3>3 DEF WorkerStatus
      <3>4. CASE f = "next_retry"
        BY <2>1, <3>4 DEF WorkerStatus
      <3>5. QED
        BY <1>1, <3>1, <3>2, <3>3, <3>4 DEF FieldNames
    <2>3. new = [seen EXCEPT ![w] = [seen[w] EXCEPT ![f] = rows[w][f]]]
      BY <1>1, <1>2 DEF Statuses
    <2>4. QED
      BY <1>1, <2>2, <2>3 DEF Statuses
  <1>4. \A u \in Workers, g \in FieldNames :
          new[u][g] = IF u = w /\ g = f THEN rows[u][g] ELSE seen[u][g]
    BY <1>1, <1>2 DEF Statuses, WorkerStatus, FieldNames
  <1>5. \A u \in Workers :
          /\ new[u].restart_count \in {seen[u].restart_count, rows[u].restart_count}
          /\ new[u].last_exit \in {seen[u].last_exit, rows[u].last_exit}
    BY <1>4 DEF FieldNames
  <1>6. Follows(new, rows) /\ Follows(seen, new)
    BY <1>5 DEF Follows
  <1>7. Behind(new, rows, Tail(list))
    <2> SUFFICES ASSUME NEW u \in Workers, NEW g \in FieldNames, new[u][g] # rows[u][g]
                 PROVE  Pending(Tail(list), u, g)
      BY DEF Behind
    <2>1. ~(u = w /\ g = f) /\ seen[u][g] # rows[u][g]
      BY <1>4
    <2>2. Pending(list, u, g)
      BY <2>1 DEF Behind
    <2>3. QED
      BY <2>1, <2>2, SoundTail DEF w, f
  <1>8. Explained(new)
    <2> SUFFICES ASSUME NEW u \in Workers, new[u].state = "backoff"
                 PROVE  Counted(new[u])
      BY DEF Explained
    <2>1. CASE u = w /\ f = "state"
      <3>1. rows[u].state = "backoff"
        BY <1>4, <2>1 DEF FieldNames
      <3>2. Counted(rows[u])
        BY <3>1 DEF Explained
      <3>3. /\ ~Pending(Tail(list), u, "restart_count")
            /\ ~Pending(Tail(list), u, "last_exit")
        <4>1. Head(list).worker = u /\ Head(list).name = "state" /\ Head(list).value = "backoff"
          BY <1>1, <2>1, <3>1 DEF w, f
        <4>2. QED
          BY <4>1, SoundTail, Zenon
      <3>4. new[u].restart_count = rows[u].restart_count /\ new[u].last_exit = rows[u].last_exit
        BY <1>7, <3>3 DEF Behind, FieldNames
      <3>5. QED
        BY <3>2, <3>4 DEF Counted
    <2>2. CASE ~(u = w /\ f = "state")
      <3>1. seen[u].state = "backoff"
        BY <1>4, <2>2 DEF FieldNames
      <3>2. QED
        BY <3>1, <1>6 DEF Explained, Counted, Follows
    <2>3. QED
      BY <2>1, <2>2
  <1>9. QED
    BY <1>3, <1>6, <1>7, <1>8

LEMMA FlagWrite ==
  ASSUME NEW m \in Memory, NEW b \in BOOLEAN, NEW name \in {"running", "app_state"}
  PROVE  [m EXCEPT ![name] = b] \in Memory /\ [m EXCEPT ![name] = b].statuses = m.statuses
  BY DEF Memory

LEMMA WriteKeeps ==
  ASSUME HealthInv, Write
  PROVE  HealthInv'
  <1> DEFINE a == Head(todo)
             seen == memory.statuses
  <1>1. /\ UNCHANGED <<vars, thread, report>> /\ todo # <<>> /\ todo' = Tail(todo)
        /\ memory' = IF a.worker = None
                     THEN [memory EXCEPT ![a.name] = a.value]
                     ELSE [memory EXCEPT !.statuses[a.worker][a.name] = a.value]
    BY DEF Write, threadVars
  <1>2. /\ memory \in Memory /\ seen \in Statuses /\ statuses \in Statuses
        /\ Explained(statuses) /\ Explained(seen) /\ Follows(seen, statuses)
        /\ Sound(todo, statuses) /\ Behind(seen, statuses, todo)
    BY DEF HealthInv, LoopInv, MemoryInv, Memory, TypeOK, Statuses
  <1>3. UNCHANGED <<statuses, spawned, live>>
    BY <1>1 DEF vars
  <1>4. LoopInv'
    <2>1. TypeOK' /\ NothingCounted'
      BY <1>1 DEF HealthInv, LoopInv, vars, TypeOK, NothingCounted
    <2>2. QED
      BY <1>2, <1>3, <2>1 DEF LoopInv
  <1>5. Sound(todo', statuses')
    BY <1>1, <1>2, <1>3, SoundTail
  <1>6. /\ memory' \in Memory
        /\ Explained(memory'.statuses)
        /\ Follows(memory'.statuses, statuses') /\ Follows(seen, memory'.statuses)
        /\ Behind(memory'.statuses, statuses', todo')
    <2>1. CASE a.worker = None
      <3>1. a.name \in {"running", "app_state"} /\ a.value \in BOOLEAN
        BY <1>1, <1>2, <2>1, SoundTail, HealthAssumption DEF Assigns
      <3>2. memory' \in Memory /\ memory'.statuses = seen
        BY <1>1, <1>2, <2>1, <3>1, FlagWrite
      <3>3. Follows(seen, seen)
        BY DEF Follows
      <3>4. Behind(seen, statuses, Tail(todo))
        <4>1. ASSUME NEW w \in Workers, NEW field, Pending(todo, w, field)
              PROVE  Pending(Tail(todo), w, field)
          BY <1>1, <1>2, <2>1, <4>1, SoundTail, HealthAssumption
        <4>2. QED
          BY <1>2, <4>1 DEF Behind
      <3>5. QED
        BY <1>1, <1>2, <1>3, <3>2, <3>3, <3>4
    <2>2. CASE a.worker # None
      <3> DEFINE new == Put(seen, a)
      <3>1. /\ new \in Statuses /\ Explained(new)
            /\ Follows(new, statuses) /\ Follows(seen, new)
            /\ Behind(new, statuses, Tail(todo))
        BY <1>1, <1>2, <2>2, OneAssignment
      <3>2. memory' \in Memory /\ memory'.statuses = new
        <4>1. memory' = [memory EXCEPT !.statuses[a.worker][a.name] = a.value]
          BY <1>1, <2>2, Zenon
        <4>2. new \in Statuses
          BY <3>1
        <4>3. QED
          BY <1>2, <4>1, <4>2 DEF Memory, Put
      <3> HIDE DEF new
      <3>3. QED
        BY <1>1, <1>3, <3>1, <3>2
    <2>3. QED
      BY <2>1, <2>2
  <1>7. MemoryInv'
    BY <1>5, <1>6 DEF MemoryInv
  <1>8. ReportInv'
    <2>1. /\ thread' \in 0 .. Complete /\ report' \in Statuses
      BY <1>1 DEF HealthInv, ReportInv
    <2>2. ASSUME NEW k \in 1 .. Len(Names)
          PROVE  Row(k, thread', report'[Names[k]], memory'.statuses[Names[k]])
      <3>1. Row(k, thread, report[Names[k]], seen[Names[k]])
        BY DEF HealthInv, ReportInv
      <3>2. Names[k] \in Workers
        BY NamesAreWorkers
      <3>3. Counted(seen[Names[k]]) => Counted(memory'.statuses[Names[k]])
        BY <1>6, <3>2 DEF Follows, Counted
      <3>4. QED
        BY <1>1, <3>1, <3>3 DEF Row
    <2>3. QED
      BY <2>1, <2>2 DEF ReportInv
  <1>9. QED
    BY <1>4, <1>7, <1>8 DEF HealthInv

-----------------------------------------------------------------------------
(***************************************************************************)
(* A step of the loop.                                                     *)
(***************************************************************************)
\* A step that counts nothing and puts nobody into backoff.
Harmless ==
  \A w \in Workers :
    /\ statuses'[w].restart_count = statuses[w].restart_count
    /\ statuses'[w].last_exit = statuses[w].last_exit
    /\ statuses'[w].state = "backoff" => statuses[w].state = "backoff"

LEMMA HarmlessKeeps ==
  ASSUME Explained(statuses), Harmless
  PROVE  Explained(statuses') /\ Follows(statuses, statuses')
  BY DEF Harmless, Explained, Follows, Counted

LEMMA FinallyIsHarmless ==
  ASSUME TypeOK, NEW t \in live, Finally(t)
  PROVE  Harmless
  <1>1. t.worker \in Workers /\ statuses \in [Workers -> WorkerStatus]
    BY DEF TypeOK, Supervisor
  <1>2. QED
    BY <1>1 DEF Finally, Harmless, WorkerStatus

LEMMA FailCounts ==
  ASSUME TypeOK, Explained(statuses), NEW t \in live,
         NEW exit \in Exits \ {"cancelled"}, Fail(t, exit)
  PROVE  Explained(statuses') /\ Follows(statuses, statuses')
  <1> DEFINE w == t.worker
  <1>1. w \in Workers /\ statuses \in [Workers -> WorkerStatus] /\ statuses[w] \in WorkerStatus
    BY DEF TypeOK, Supervisor
  <1>2. exit # None
    BY RuntimeAssumption
  <1>3. \A u \in Workers : u # w => statuses'[u] = statuses[u]
    BY <1>1 DEF Fail
  <1>4. /\ statuses'[w].last_exit = exit
        /\ statuses'[w].restart_count = statuses[w].restart_count + 1
    <2>1. ~LdexpOverflows(BaseBackoff, Exponent(statuses[w].restart_count))
      BY <1>1, NeverOverflows DEF WorkerStatus
    <2>2. QED
      BY <1>1, <2>1 DEF Fail, WorkerStatus
  <1>5. statuses[w].restart_count \in Nat
    BY <1>1 DEF WorkerStatus
  <1> HIDE DEF w
  <1>6. QED
    BY <1>2, <1>3, <1>4, <1>5 DEF Explained, Follows, Counted

LEMMA SupervisorCounts ==
  ASSUME LoopInv, NEW t \in live, SupervisorStep(t)
  PROVE  Explained(statuses') /\ Follows(statuses, statuses') /\ NothingCounted'
  <1>1. TypeOK /\ Explained(statuses) /\ NothingCounted
    BY DEF LoopInv
  <1>2. t.worker \in Workers /\ statuses \in [Workers -> WorkerStatus]
    BY <1>1 DEF TypeOK, Supervisor
  <1>3. spawned' # 0
    BY <1>1 DEF NothingCounted, SupervisorStep, RunRunner, RunnerEnds, DeliverCancel
  <1>4. CASE RunRunner(t)
    <2>1. Harmless
      BY <1>2, <1>4 DEF RunRunner, Harmless, WorkerStatus
    <2>2. QED
      BY <1>1, <1>3, <2>1, HarmlessKeeps DEF NothingCounted
  <1>5. CASE DeliverCancel(t)
    <2>1. Harmless
      <3>1. CASE UNCHANGED statuses
        BY <3>1 DEF Harmless
      <3>2. CASE Finally(t)
        BY <1>1, <3>2, FinallyIsHarmless
      <3>3. QED
        BY <1>5, <3>1, <3>2 DEF DeliverCancel
    <2>2. QED
      BY <1>1, <1>3, <2>1, HarmlessKeeps DEF NothingCounted
  <1>6. ASSUME NEW exit \in Exits, RunnerEnds(t, exit)
        PROVE  Explained(statuses') /\ Follows(statuses, statuses') /\ NothingCounted'
    <2>1. CASE exit = "cancelled"
      <3>1. Finally(t)
        BY <1>6, <2>1 DEF RunnerEnds
      <3>2. QED
        BY <1>1, <1>3, <3>1, FinallyIsHarmless, HarmlessKeeps DEF NothingCounted
    <2>2. CASE exit # "cancelled"
      <3>1. Fail(t, exit)
        BY <1>6, <2>2 DEF RunnerEnds
      <3>2. QED
        BY <1>1, <1>3, <2>2, <3>1, FailCounts DEF NothingCounted
    <2>3. QED
      BY <2>1, <2>2
  <1>7. QED
    BY <1>4, <1>5, <1>6 DEF SupervisorStep

LEMMA MainCounts ==
  ASSUME LoopInv, NEW c \in Callers, MainStep(c)
  PROVE  Explained(statuses') /\ Follows(statuses, statuses') /\ NothingCounted'
  <1>1. TypeOK /\ Explained(statuses) /\ NothingCounted
    BY DEF LoopInv
  <1>2. statuses \in [Workers -> WorkerStatus] /\ spawned \in Nat
    BY <1>1 DEF TypeOK
  <1>3. CASE spawned = 0 /\ Start(c)
    <2>1. CASE UNCHANGED taskVars
      <3>1. Harmless
        BY <2>1 DEF taskVars, Harmless
      <3>2. QED
        BY <1>1, <2>1, <3>1, HarmlessKeeps DEF taskVars, NothingCounted
    <2>2. CASE /\ spawned' = spawned + 1
               /\ statuses' = [w \in Workers |-> FreshStatus("starting")]
      <3>1. spawned' # 0
        BY <1>2, <2>2
      <3>2. Explained(statuses')
        BY <2>2 DEF Explained, FreshStatus
      <3>3. Follows(statuses, statuses')
        BY <1>1, <1>3 DEF NothingCounted, Follows
      <3>4. QED
        BY <3>1, <3>2, <3>3 DEF NothingCounted
    <2>3. QED
      BY <1>3, <2>1, <2>2 DEF Start
  <1>4. CASE spawned = 1 /\ Stop(c)
    <2>1. Harmless
      BY <1>2, <1>4 DEF Stop, taskVars, Harmless, WorkerStatus
    <2>2. spawned' # 0
      BY <1>4 DEF Stop, taskVars
    <2>3. QED
      BY <1>1, <2>1, <2>2, HarmlessKeeps DEF NothingCounted
  <1>5. CASE spawned = 1 /\ CancelCaller(c)
    <2>1. Harmless /\ spawned' # 0
      BY <1>5 DEF CancelCaller, Harmless
    <2>2. QED
      BY <1>1, <2>1, HarmlessKeeps DEF NothingCounted
  <1>6. CASE FinishStop(c)
    <2>1. Harmless
      BY <1>2, <1>6 DEF FinishStop, Harmless, WorkerStatus
    <2>2. UNCHANGED <<spawned, live>>
      BY <1>6 DEF FinishStop
    <2>3. NothingCounted'
      BY <1>1, <2>1, <2>2 DEF NothingCounted, Harmless
    <2>4. QED
      BY <1>1, <2>1, <2>3, HarmlessKeeps
  <1>7. CASE AbandonStop(c)
    <2>1. Harmless /\ UNCHANGED <<spawned, live, statuses>>
      BY <1>7 DEF AbandonStop, taskVars, Harmless
    <2>2. QED
      BY <1>1, <2>1, HarmlessKeeps DEF NothingCounted
  <1>8. QED
    BY <1>3, <1>4, <1>5, <1>6, <1>7 DEF MainStep

LEMMA SeqOfFunction ==
  ASSUME NEW S, NEW n \in Nat, NEW f \in [1 .. n -> S]
  PROVE  f \in Seq(S) /\ Len(f) = n
  OBVIOUS

LEMMA FieldValues ==
  ASSUME NEW status \in WorkerStatus, NEW field \in FieldNames
  PROVE  status[field] \in Values
  <1>1. CASE field = "state"
    BY <1>1 DEF WorkerStatus, Values
  <1>2. CASE field = "restart_count"
    BY <1>2 DEF WorkerStatus, Values
  <1>3. CASE field = "last_exit"
    BY <1>3 DEF WorkerStatus, Values, Exits
  <1>4. CASE field = "next_retry"
    BY <1>4 DEF WorkerStatus, Values
  <1>5. QED
    BY <1>1, <1>2, <1>3, <1>4 DEF FieldNames

\* WriteOrder is an order of all fields, in which "backoff" comes after the count
\* and the exit.
LEMMA WriteOrders ==
  ASSUME NEW w \in Workers
  PROVE  /\ \A r \in 0 .. 3 : WriteOrder(w)[1 + r] \in FieldNames
         /\ \A field \in FieldNames : \E r \in 0 .. 3 : WriteOrder(w)[1 + r] = field
         /\ statuses'[w].state = "backoff" =>
              \A r, s \in 0 .. 3 : r < s /\ WriteOrder(w)[1 + r] = "state" =>
                WriteOrder(w)[1 + s] \notin {"restart_count", "last_exit"}
  <1>1. CASE statuses'[w].state = "backoff"
    <2>1. WriteOrder(w) = <<"last_exit", "restart_count", "state", "next_retry">>
      BY <1>1 DEF WriteOrder
    <2>2. QED
      BY <2>1 DEF FieldNames
  <1>2. CASE statuses'[w].state # "backoff"
    <2>1. WriteOrder(w) = <<"state", "restart_count", "last_exit", "next_retry">>
      BY <1>2 DEF WriteOrder, Fields
    <2>2. QED
      BY <1>2, <2>1 DEF FieldNames
  <1>3. QED
    BY <1>1, <1>2

LEMMA StatusWritesSound ==
  ASSUME statuses' \in Statuses
  PROVE  /\ Sound(StatusWrites, statuses')
         /\ \A w \in Workers, field \in FieldNames : Pending(StatusWrites, w, field)
  <1> DEFINE list == StatusWrites
             Name(k, r) == WriteOrder(Names[k])[1 + r]
  <1>1. Len(Names) \in Nat /\ Len(Fields) = 4 /\ 4 * Len(Names) \in Nat
    BY NamesAreWorkers DEF Fields
  <1>2. \A k \in 1 .. Len(Names) : Names[k] \in Workers
    BY NamesAreWorkers
  <1>3. ASSUME NEW k \in 1 .. Len(Names), NEW r \in 0 .. 3
        PROVE  list[4 * k - 3 + r] = Assign(Name(k, r), Names[k], statuses'[Names[k]][Name(k, r)])
    <2> DEFINE n == 4 * k - 3 + r
    <2>1. /\ n \in 1 .. Len(Fields) * Len(Names)
          /\ WorkerAt(n) = Names[k]
          /\ FieldAt(WriteOrder(Names[k]), n) = Name(k, r)
      BY <1>1, Places
    <2> HIDE DEF n, Name
    <2>2. list[n] = Assign(FieldAt(WriteOrder(WorkerAt(n)), n), WorkerAt(n),
                           statuses'[WorkerAt(n)][FieldAt(WriteOrder(WorkerAt(n)), n)])
      BY <2>1, Zenon DEF StatusWrites
    <2>3. QED
      BY <2>1, <2>2, Zenon DEF n
  <1>4. ASSUME NEW k \in 1 .. Len(Names), NEW r \in 0 .. 3
        PROVE  Name(k, r) \in FieldNames
    BY <1>2, WriteOrders
  <1>5. list \in Seq(Assignments) /\ Len(list) = 4 * Len(Names)
    <2>1. ASSUME NEW n \in 1 .. 4 * Len(Names)
          PROVE  list[n] \in Assignments
      <3>1. PICK k \in 1 .. Len(Names), r \in 0 .. 3 : n = 4 * k - 3 + r
        BY PlaceOf
      <3>2. statuses'[Names[k]] \in WorkerStatus
        BY <1>2 DEF Statuses
      <3>3. statuses'[Names[k]][Name(k, r)] \in Values
        BY <1>4, <3>2, FieldValues
      <3>4. list[n] = Assign(Name(k, r), Names[k], statuses'[Names[k]][Name(k, r)])
        BY <1>3, <3>1
      <3>5. QED
        BY <1>2, <1>4, <3>3, <3>4 DEF Assign, Assignments
    <2>2. list = [n \in 1 .. 4 * Len(Names) |-> list[n]]
      BY <1>1 DEF StatusWrites
    <2> HIDE DEF list
    <2>3. list \in [1 .. 4 * Len(Names) -> Assignments]
      BY <2>1, <2>2
    <2>4. QED
      BY <1>1, <2>3, SeqOfFunction
  <1> HIDE DEF list, Name
  <1>6. ASSUME NEW n \in 1 .. Len(list)
        PROVE  Assigns(list[n], statuses')
    <2>1. PICK k \in 1 .. Len(Names), r \in 0 .. 3 : n = 4 * k - 3 + r
      BY <1>5, PlaceOf
    <2>2. list[n] = Assign(Name(k, r), Names[k], statuses'[Names[k]][Name(k, r)])
      BY <1>3, <2>1, Zenon
    <2>3. /\ list[n].worker = Names[k] /\ list[n].name = Name(k, r)
          /\ list[n].value = statuses'[Names[k]][Name(k, r)]
      BY <2>2 DEF Assign
    <2>4. QED
      BY <1>2, <1>4, <2>3 DEF Assigns
  <1>7. Ordered(list)
    <2> SUFFICES ASSUME NEW i \in 1 .. Len(list), NEW j \in 1 .. Len(list), i < j,
                        list[i].worker = list[j].worker, list[i].name = "state",
                        list[i].value = "backoff"
                 PROVE  list[j].name \notin {"restart_count", "last_exit"}
      BY DEF Ordered
    <2>1. PICK k \in 1 .. Len(Names), r \in 0 .. 3 : i = 4 * k - 3 + r
      BY <1>5, PlaceOf
    <2>2. PICK l \in 1 .. Len(Names), s \in 0 .. 3 : j = 4 * l - 3 + s
      BY <1>5, PlaceOf
    <2>3. /\ list[i].worker = Names[k] /\ list[i].name = Name(k, r)
          /\ list[i].value = statuses'[Names[k]][Name(k, r)]
          /\ list[j].worker = Names[l] /\ list[j].name = Name(l, s)
      <3>1. /\ list[i] = Assign(Name(k, r), Names[k], statuses'[Names[k]][Name(k, r)])
            /\ list[j] = Assign(Name(l, s), Names[l], statuses'[Names[l]][Name(l, s)])
        BY <1>3, <2>1, <2>2, Zenon
      <3>2. QED
        BY <3>1 DEF Assign
    <2>4. k = l
      BY <2>3, NamesAreWorkers
    <2>5. r < s
      BY <1>1, <2>1, <2>2, <2>4
    <2>6. Name(k, r) = "state" /\ statuses'[Names[k]].state = "backoff"
      BY <2>3
    <2>7. Name(k, s) \notin {"restart_count", "last_exit"}
      BY <1>2, <2>5, <2>6, WriteOrders DEF Name
    <2>8. QED
      BY <2>3, <2>4, <2>7
  <1>8. ASSUME NEW w \in Workers, NEW field \in FieldNames
        PROVE  Pending(list, w, field)
    <2>1. PICK k \in 1 .. Len(Names) : Names[k] = w
      BY NamesAreWorkers
    <2>2. PICK r \in 0 .. 3 : Name(k, r) = field
      BY <2>1, WriteOrders DEF Name
    <2>3. 4 * k - 3 + r \in 1 .. Len(list)
      BY <1>5, Places
    <2>4. list[4 * k - 3 + r].worker = w /\ list[4 * k - 3 + r].name = field
      <3>1. list[4 * k - 3 + r] = Assign(Name(k, r), Names[k], statuses'[Names[k]][Name(k, r)])
        BY <1>3, Zenon
      <3>2. QED
        BY <2>1, <2>2, <3>1 DEF Assign
    <2>5. QED
      BY <2>3, <2>4 DEF Pending
  <1>9. QED
    BY <1>5, <1>6, <1>7, <1>8 DEF Sound, list

LEMMA Joined ==
  ASSUME NEW rows, NEW s, NEW t, Sound(s, rows), Sound(t, rows),
         \A i \in 1 .. Len(s), j \in 1 .. Len(t) :
           s[i].name # "state" \/ t[j].name \notin {"restart_count", "last_exit"}
  PROVE  /\ Sound(s \o t, rows)
         /\ \A w, field : Pending(s, w, field) \/ Pending(t, w, field) => Pending(s \o t, w, field)
  <1> DEFINE both == s \o t
  <1>1. /\ s \in Seq(Assignments) /\ t \in Seq(Assignments)
        /\ Len(s) \in Nat /\ Len(t) \in Nat
    BY DEF Sound
  <1>2. /\ both \in Seq(Assignments) /\ Len(both) = Len(s) + Len(t)
        /\ \A i \in 1 .. Len(s) : both[i] = s[i]
        /\ \A i \in Len(s) + 1 .. Len(s) + Len(t) : both[i] = t[i - Len(s)]
    BY <1>1
  <1> HIDE DEF both
  <1>3. \A i \in 1 .. Len(both) :
          \/ i \in 1 .. Len(s) /\ both[i] = s[i]
          \/ /\ i \in Len(s) + 1 .. Len(s) + Len(t)
             /\ i - Len(s) \in 1 .. Len(t) /\ both[i] = t[i - Len(s)]
    BY <1>1, <1>2
  <1>4. \A i \in 1 .. Len(both) : Assigns(both[i], rows)
    BY <1>3 DEF Sound
  <1>5. Ordered(both)
    <2> SUFFICES ASSUME NEW i \in 1 .. Len(both), NEW j \in 1 .. Len(both), i < j,
                        both[i].worker = both[j].worker, both[i].name = "state",
                        both[i].value = "backoff"
                 PROVE  both[j].name \notin {"restart_count", "last_exit"}
      BY DEF Ordered
    <2>1. CASE i \in 1 .. Len(s) /\ j \in 1 .. Len(s)
      BY <1>2, <2>1 DEF Sound, Ordered
    <2>2. CASE i \in 1 .. Len(s) /\ j - Len(s) \in 1 .. Len(t) /\ both[j] = t[j - Len(s)]
      BY <1>2, <2>2
    <2>3. CASE i \in Len(s) + 1 .. Len(s) + Len(t)
      <3>1. /\ i - Len(s) \in 1 .. Len(t) /\ both[i] = t[i - Len(s)]
            /\ j - Len(s) \in 1 .. Len(t) /\ both[j] = t[j - Len(s)]
            /\ i - Len(s) < j - Len(s)
        <4>1. j \in Len(s) + 1 .. Len(s) + Len(t)
          BY <1>1, <1>2, <2>3
        <4>2. both[i] = t[i - Len(s)] /\ both[j] = t[j - Len(s)]
          BY <1>2, <2>3, <4>1
        <4>3. QED
          BY <1>1, <2>3, <4>1, <4>2
      <3>2. QED
        BY <3>1 DEF Sound, Ordered
    <2>4. QED
      BY <1>3, <2>1, <2>2, <2>3
  <1>6. ASSUME NEW w, NEW field, Pending(s, w, field) \/ Pending(t, w, field)
        PROVE  Pending(both, w, field)
    <2>1. CASE Pending(s, w, field)
      <3>1. PICK i \in 1 .. Len(s) : s[i].worker = w /\ s[i].name = field
        BY <2>1 DEF Pending
      <3>2. i \in 1 .. Len(both) /\ both[i] = s[i]
        BY <1>1, <1>2
      <3>3. QED
        BY <3>1, <3>2 DEF Pending
    <2>2. CASE Pending(t, w, field)
      <3>1. PICK i \in 1 .. Len(t) : t[i].worker = w /\ t[i].name = field
        BY <2>2 DEF Pending
      <3>2. /\ i + Len(s) \in Len(s) + 1 .. Len(s) + Len(t) /\ i + Len(s) \in 1 .. Len(both)
            /\ (i + Len(s)) - Len(s) = i
        BY <1>1, <1>2
      <3>3. both[i + Len(s)] = t[i]
        BY <1>2, <3>2
      <3>4. QED
        BY <3>1, <3>2, <3>3 DEF Pending
    <2>3. QED
      BY <1>6, <2>1, <2>2
  <1>7. QED
    BY <1>2, <1>4, <1>5, <1>6 DEF Sound, both

\* An assignment of app.state or of _started.
LEMMA FlagSound ==
  ASSUME NEW rows, NEW name \in {"running", "app_state"}, NEW b \in BOOLEAN
  PROVE  Sound(<<Assign(name, None, b)>>, rows)
  <1> DEFINE flag == Assign(name, None, b)
  <1>1. flag.name = name /\ flag.worker = None /\ flag.value = b
    BY DEF Assign
  <1>2. flag \in Assignments
    <2>1. b \in Values
      BY Zenon DEF Values
    <2>2. QED
      BY <2>1 DEF Assign, Assignments
  <1>3. Assigns(flag, rows)
    BY <1>1, Zenon DEF Assigns
  <1> HIDE DEF flag
  <1>4. /\ <<flag>> \in Seq(Assignments) /\ Len(<<flag>>) = 1
        /\ \A i \in 1 .. Len(<<flag>>) : i = 1 /\ <<flag>>[i] = flag
    BY <1>2
  <1>5. Ordered(<<flag>>)
    BY <1>4 DEF Ordered
  <1>6. Sound(<<flag>>, rows)
    BY <1>3, <1>4, <1>5 DEF Sound
  <1>7. QED
    BY <1>6 DEF flag

LEMMA FlagNames ==
  ASSUME NEW name \in {"running", "app_state"}, NEW b
  PROVE  \A i \in 1 .. Len(<<Assign(name, None, b)>>) :
           <<Assign(name, None, b)>>[i].name \notin {"state", "restart_count", "last_exit"}
  BY DEF Assign

LEMMA WritesSound ==
  ASSUME statuses' \in Statuses, started' \in BOOLEAN
  PROVE  /\ Sound(Writes, statuses')
         /\ \A w \in Workers, field \in FieldNames : Pending(Writes, w, field)
  <1> DEFINE flag == <<Assign("running", None, started')>>
  <1>1. Sound(flag, statuses')
    BY FlagSound
  <1>2. \A i \in 1 .. Len(flag) : flag[i].name \notin {"state", "restart_count", "last_exit"}
    BY FlagNames
  <1>3. Writes = flag \o StatusWrites
    BY DEF Writes
  <1> HIDE DEF flag
  <1>4. QED
    BY <1>1, <1>2, <1>3, StatusWritesSound, Joined

LEMMA WritesThenFlagSound ==
  ASSUME statuses' \in Statuses, started' \in BOOLEAN, NEW b \in BOOLEAN
  PROVE  /\ Sound(Writes \o <<Assign("app_state", None, b)>>, statuses')
         /\ \A w \in Workers, field \in FieldNames :
              Pending(Writes \o <<Assign("app_state", None, b)>>, w, field)
  <1> DEFINE flag == <<Assign("app_state", None, b)>>
  <1>1. Sound(flag, statuses')
    BY FlagSound
  <1>2. \A i \in 1 .. Len(flag) : flag[i].name \notin {"state", "restart_count", "last_exit"}
    BY FlagNames
  <1> HIDE DEF flag
  <1>3. /\ Sound(Writes \o flag, statuses')
        /\ \A w \in Workers, field \in FieldNames : Pending(Writes \o flag, w, field)
    BY <1>1, <1>2, WritesSound, Joined
  <1>4. QED
    BY <1>3 DEF flag

LEMMA LoopKeeps ==
  ASSUME HealthInv, LoopRuns
  PROVE  HealthInv'
  <1> DEFINE seen == memory.statuses
  <1>1. UNCHANGED <<memory, thread, report>> /\ todo = <<>>
    BY DEF LoopRuns, threadVars
  <1>2. /\ LoopInv /\ seen \in Statuses /\ Follows(seen, statuses)
        /\ Behind(seen, statuses, todo) /\ Explained(seen) /\ memory \in Memory
    BY DEF HealthInv, MemoryInv, Memory
  <1>3. [Next]_vars
    BY DEF LoopRuns, MainStep, Next, CallerStep
  <1>4. TypeOK'
    BY <1>2, <1>3, TypeNext DEF LoopInv
  <1>5. statuses' \in Statuses /\ started' \in BOOLEAN
    BY <1>4 DEF TypeOK, Statuses
  <1>6. Explained(statuses') /\ Follows(statuses, statuses') /\ NothingCounted'
    BY <1>2, MainCounts, SupervisorCounts DEF LoopRuns
  <1>7. Follows(seen, statuses')
    BY <1>2, <1>6 DEF Follows
  <1>8. Sound(todo', statuses') /\ Behind(seen, statuses', todo')
    <2>1. CASE todo' = Writes
      BY <1>5, <2>1, WritesSound DEF Behind
    <2>2. ASSUME NEW b \in BOOLEAN, todo' = Writes \o <<Assign("app_state", None, b)>>
          PROVE  Sound(todo', statuses') /\ Behind(seen, statuses', todo')
      BY <1>5, <2>2, WritesThenFlagSound DEF Behind
    <2>3. CASE todo' = <<Assign("app_state", None, FALSE)>> /\ UNCHANGED statuses
      <3>1. Sound(todo', statuses')
        BY <2>3, FlagSound
      <3>2. \A w, field : ~Pending(todo, w, field)
        BY <1>1 DEF Pending
      <3>3. QED
        BY <1>2, <2>3, <3>1, <3>2 DEF Behind
    <2>4. QED
      BY <2>1, <2>2, <2>3 DEF LoopRuns, MainStep, AbandonStop, taskVars
  <1>9. LoopInv' /\ MemoryInv'
    BY <1>1, <1>2, <1>4, <1>6, <1>7, <1>8 DEF LoopInv, MemoryInv
  <1>10. ReportInv'
    BY <1>1 DEF HealthInv, ReportInv
  <1>11. QED
    BY <1>9, <1>10 DEF HealthInv

-----------------------------------------------------------------------------
(***************************************************************************)
(* The thread.                                                             *)
(***************************************************************************)
LEMMA ThreadKeeps ==
  ASSUME HealthInv, UNCHANGED <<vars, memory, todo>>, ReportInv'
  PROVE  HealthInv'
  <1>1. LoopInv'
    BY DEF HealthInv, LoopInv, vars, TypeOK, NothingCounted
  <1>2. MemoryInv'
    BY DEF HealthInv, MemoryInv, vars
  <1>3. QED
    BY <1>1, <1>2 DEF HealthInv

LEMMA HealthCheckKeeps ==
  ASSUME HealthInv, HealthCheck
  PROVE  HealthInv'
  <1>1. UNCHANGED <<vars, memory, todo, report>> /\ thread' \in {0, 1}
    BY Zenon DEF HealthCheck
  <1>2. Len(Names) \in Nat /\ Complete = 1 + 4 * Len(Names)
    BY NamesAreWorkers DEF Complete, Fields
  <1>3. \A k \in 1 .. Len(Names) : Row(k, thread', report'[Names[k]], memory'.statuses[Names[k]])
    BY <1>1, <1>2 DEF Row
  <1>4. thread' \in 0 .. Complete /\ report' \in Statuses
    BY <1>1, <1>2 DEF HealthInv, ReportInv
  <1>5. QED
    BY <1>1, <1>3, <1>4, ThreadKeeps DEF ReportInv

LEMMA ReadFieldKeeps ==
  ASSUME HealthInv, ReadField
  PROVE  HealthInv'
  <1> DEFINE seen == memory.statuses
  <1>1. UNCHANGED <<vars, memory, todo>> /\ thread' = thread + 1 /\ thread \in 1 .. Complete - 1
    BY DEF ReadField
  <1>2. Len(Names) \in Nat /\ Complete = 1 + 4 * Len(Names)
    BY NamesAreWorkers DEF Complete, Fields
  <1>3. PICK k \in 1 .. Len(Names), r \in 0 .. 3 : thread = 4 * k - 3 + r
    BY <1>1, <1>2, PlaceOf
  <1> DEFINE w == Names[k]
             field == Fields[1 + r]
  <1>4. w \in Workers /\ field \in FieldNames
    BY NamesAreWorkers DEF Fields, FieldNames
  <1>5. report' = [report EXCEPT ![w][field] = seen[w][field]]
    <2>1. WorkerAt(thread) = w /\ FieldAt(Fields, thread) = field
      BY <1>3, Places
    <2>2. QED
      BY <2>1, Zenon DEF ReadField
  <1>6. report \in Statuses /\ seen \in Statuses /\ Explained(seen)
    BY DEF HealthInv, ReportInv, MemoryInv, Memory
  <1>7. \A j \in 1 .. Len(Names) : Row(j, thread, report[Names[j]], seen[Names[j]])
    BY DEF HealthInv, ReportInv
  <1>8. /\ \A u \in Workers : u # w => report'[u] = report[u]
        /\ report'[w] = [report[w] EXCEPT ![field] = seen[w][field]]
        /\ report[w] \in WorkerStatus /\ seen[w] \in WorkerStatus
    BY <1>4, <1>5, <1>6 DEF Statuses
  <1>9. report' \in Statuses
    <2>1. report'[w] \in WorkerStatus
      <3>1. CASE field = "state"
        BY <1>8, <3>1 DEF WorkerStatus
      <3>2. CASE field = "restart_count"
        BY <1>8, <3>2 DEF WorkerStatus
      <3>3. CASE field = "last_exit"
        BY <1>8, <3>3 DEF WorkerStatus
      <3>4. CASE field = "next_retry"
        BY <1>8, <3>4 DEF WorkerStatus
      <3>5. QED
        BY <1>4, <3>1, <3>2, <3>3, <3>4 DEF FieldNames
    <2>2. report' = [report EXCEPT ![w] = report'[w]]
      BY <1>4, <1>5, <1>6 DEF Statuses
    <2>3. QED
      BY <1>4, <1>6, <2>1, <2>2 DEF Statuses
  <1>10. ASSUME NEW j \in 1 .. Len(Names), j # k
         PROVE  Row(j, thread', report'[Names[j]], seen[Names[j]])
    <2>1. Names[j] \in Workers /\ Names[j] # w
      BY <1>10, NamesAreWorkers
    <2>2. report'[Names[j]] = report[Names[j]]
      BY <1>8, <2>1
    <2>3. /\ thread' > 4 * j - 3 <=> thread > 4 * j - 3
          /\ thread' > 4 * j - 2 <=> thread > 4 * j - 2
          /\ thread' > 4 * j - 1 <=> thread > 4 * j - 1
      BY <1>1, <1>3, <1>10
    <2>4. QED
      BY <1>7, <2>2, <2>3 DEF Row
  <1>11. Row(k, thread', report'[w], seen[w])
    <2>1. Row(k, thread, report[w], seen[w])
      BY <1>7
    <2>2. thread' = 4 * k - 2 + r
      BY <1>1, <1>3
    <2>3. CASE r = 0
      <3>1. report'[w].state = seen[w].state
        BY <1>8, <2>3 DEF WorkerStatus, Fields
      <3>2. seen[w].state = "backoff" => Counted(seen[w])
        BY <1>4, <1>6 DEF Explained
      <3>3. ~(thread' > 4 * k - 2) /\ ~(thread' > 4 * k - 1)
        BY <2>2, <2>3
      <3>4. QED
        BY <3>1, <3>2, <3>3 DEF Row
    <2>4. CASE r = 1
      <3>1. /\ report'[w].state = report[w].state
            /\ report'[w].restart_count = seen[w].restart_count
        BY <1>8, <2>4 DEF WorkerStatus, Fields
      <3>2. thread > 4 * k - 3 /\ ~(thread' > 4 * k - 1)
        BY <1>3, <2>2, <2>4
      <3>3. QED
        BY <2>1, <3>1, <3>2 DEF Row, Counted
    <2>5. CASE r = 2
      <3>1. /\ report'[w].state = report[w].state
            /\ report'[w].restart_count = report[w].restart_count
            /\ report'[w].last_exit = seen[w].last_exit
        BY <1>8, <2>5 DEF WorkerStatus, Fields
      <3>2. thread > 4 * k - 3 /\ thread > 4 * k - 2
        BY <1>3, <2>5
      <3>3. QED
        BY <2>1, <3>1, <3>2 DEF Row, Counted
    <2>6. CASE r = 3
      <3>1. /\ report'[w].state = report[w].state
            /\ report'[w].restart_count = report[w].restart_count
            /\ report'[w].last_exit = report[w].last_exit
        BY <1>8, <2>6 DEF WorkerStatus, Fields
      <3>2. thread > 4 * k - 3 /\ thread > 4 * k - 2 /\ thread > 4 * k - 1
        BY <1>3, <2>6
      <3>3. QED
        BY <2>1, <3>1, <3>2 DEF Row
    <2>7. QED
      BY <2>3, <2>4, <2>5, <2>6
  <1>12. \A j \in 1 .. Len(Names) : Row(j, thread', report'[Names[j]], memory'.statuses[Names[j]])
    BY <1>1, <1>10, <1>11
  <1>13. thread' \in 0 .. Complete
    BY <1>1, <1>2
  <1>14. QED
    BY <1>1, <1>9, <1>12, <1>13, ThreadKeeps DEF ReportInv

-----------------------------------------------------------------------------
LEMMA HealthInvInit == HealthInit => HealthInv
  <1> SUFFICES ASSUME HealthInit PROVE HealthInv
    OBVIOUS
  <1>1. TypeOK /\ statuses \in Statuses
    BY TypeInit DEF HealthInit, TypeOK, Statuses
  <1>2. \A w \in Workers : statuses[w] = FreshStatus("stopped")
    BY DEF HealthInit, Init
  <1>3. LoopInv
    BY <1>1, <1>2 DEF LoopInv, Explained, NothingCounted, FreshStatus, HealthInit, Init
  <1>4. memory = [running |-> FALSE, app_state |-> FALSE, statuses |-> statuses] /\ todo = <<>>
    BY DEF HealthInit
  <1>5. Sound(<<>>, statuses)
    BY DEF Sound, Ordered
  <1>6. MemoryInv
    BY <1>1, <1>3, <1>4, <1>5 DEF MemoryInv, Memory, LoopInv, Follows, Behind
  <1>7. Len(Names) \in Nat /\ Complete = 1 + 4 * Len(Names)
    BY NamesAreWorkers DEF Complete, Fields
  <1>8. thread = 0 /\ report = statuses
    BY DEF HealthInit
  <1>9. ReportInv
    BY <1>1, <1>7, <1>8 DEF ReportInv, Row
  <1>10. QED
    BY <1>3, <1>6, <1>9 DEF HealthInv

LEMMA HealthInvNext == HealthInv /\ [HealthNext]_healthVars => HealthInv'
  <1> SUFFICES ASSUME HealthInv, [HealthNext]_healthVars PROVE HealthInv'
    OBVIOUS
  <1>1. CASE UNCHANGED healthVars
    <2>1. UNCHANGED <<vars, memory, todo, thread, report>>
      BY <1>1 DEF healthVars, threadVars
    <2>2. ReportInv'
      BY <2>1 DEF HealthInv, ReportInv
    <2>3. QED
      BY <2>1, <2>2, ThreadKeeps
  <1>2. QED
    BY <1>1, LoopKeeps, WriteKeeps, HealthCheckKeeps, ReadFieldKeeps DEF HealthNext

\* A row of GET /health that says "backoff" has the exit and the count of the
\* failure, for any number of workers and any interleaving of status_snapshot()
\* with the assignments of the supervisors, of start() and of stop().
THEOREM HealthExplainsBackoff == HealthSpec => []BackoffIsExplained
  <1>1. HealthInv => BackoffIsExplained
    <2> SUFFICES ASSUME HealthInv, thread = Complete, NEW w \in Workers,
                        report[w].state = "backoff"
                 PROVE  report[w].restart_count > 0 /\ report[w].last_exit # None
      BY DEF BackoffIsExplained
    <2>1. PICK k \in 1 .. Len(Names) : Names[k] = w
      BY NamesAreWorkers
    <2>2. Row(k, thread, report[w], memory.statuses[w])
      BY <2>1 DEF HealthInv, ReportInv
    <2>3. thread = 1 + 4 * Len(Names) /\ Len(Names) \in Nat
      BY NamesAreWorkers DEF Complete, Fields
    <2>4. QED
      BY <2>2, <2>3 DEF Row
  <1>2. QED
    BY <1>1, HealthInvInit, HealthInvNext, PTL DEF HealthSpec

-----------------------------------------------------------------------------
(***************************************************************************)
(* app.state.  It is TRUE in memory from start() until stop() has given    *)
(* the lock back, or the assignment that makes it so is still to be made;  *)
(* and while it is, no supervisor is past its creation.                    *)
(***************************************************************************)
Serving == started \/ lock # None

Flags(list) == {i \in 1 .. Len(list) : list[i].name = "app_state"}

ModeInv ==
  /\ spawned = 0 => ~started
  /\ Flags(todo) = {} => memory.app_state = Serving
  /\ \A i \in Flags(todo) : todo[i].value = Serving
  /\ Flags(todo) # {} => \A t \in live : t.at = "created"

\* The assignments of a step are of statuses and of _started.
LEMMA WritesNoFlag ==
  ASSUME statuses' \in Statuses, started' \in BOOLEAN
  PROVE  Writes \in Seq(Assignments) /\ Flags(Writes) = {}
  <1> DEFINE head == Assign("running", None, started')
  <1>1. StatusWrites \in Seq(Assignments) /\ Writes \in Seq(Assignments)
    BY StatusWritesSound, WritesSound DEF Sound
  <1>2. ASSUME NEW n \in 1 .. Len(StatusWrites) PROVE StatusWrites[n].name # "app_state"
    <2>1. Len(Names) \in Nat /\ Len(Fields) = 4 /\ Len(StatusWrites) = 4 * Len(Names)
      <3>1. Len(Names) \in Nat /\ Len(Fields) = 4 /\ 4 * Len(Names) \in Nat
        BY NamesAreWorkers DEF Fields
      <3>2. DOMAIN StatusWrites = 1 .. 4 * Len(Names)
        BY <3>1 DEF StatusWrites
      <3>3. QED
        BY <1>1, <3>1, <3>2
    <2>2. PICK k \in 1 .. Len(Names), r \in 0 .. 3 : n = 4 * k - 3 + r
      BY <2>1, PlaceOf
    <2> DEFINE w == WorkerAt(n)
               field == FieldAt(WriteOrder(w), n)
    <2>3. w = Names[k] /\ FieldAt(WriteOrder(w), n) = WriteOrder(w)[1 + r]
      BY <2>2, Places
    <2>4. w \in Workers /\ WriteOrder(w)[1 + r] \in FieldNames
      <3>1. Names[k] \in Workers
        BY NamesAreWorkers
      <3> HIDE DEF w
      <3>2. w \in Workers
        BY <2>3, <3>1
      <3>3. QED
        BY <3>2, WriteOrders
    <2>5. StatusWrites[n] = Assign(field, w, statuses'[w][field])
      <3>1. n \in 1 .. Len(Fields) * Len(Names)
        BY <2>1
      <3>2. QED
        BY <3>1, Zenon DEF StatusWrites
    <2> HIDE DEF w, field
    <2>6. StatusWrites[n].name = field
      BY <2>5 DEF Assign
    <2>7. QED
      BY <2>3, <2>4, <2>6 DEF FieldNames, field
  <1>3. Writes = <<head>> \o StatusWrites /\ head.name = "running"
    BY DEF Writes, Assign
  <1> HIDE DEF head
  <1>4. ASSUME NEW i \in 1 .. Len(Writes) PROVE Writes[i].name # "app_state"
    <2>1. Len(Writes) = 1 + Len(StatusWrites) /\ Len(StatusWrites) \in Nat
      BY <1>1, <1>3
    <2>2. CASE i = 1
      BY <1>1, <1>3, <2>2
    <2>3. CASE i # 1
      <3>1. i - 1 \in 1 .. Len(StatusWrites) /\ Writes[i] = StatusWrites[i - 1]
        BY <1>1, <1>3, <2>1, <2>3
      <3>2. QED
        BY <1>2, <3>1
    <2>4. QED
      BY <2>2, <2>3
  <1>5. QED
    BY <1>1, <1>4 DEF Flags

\* One assignment of app.state at the end is the only one.
LEMMA OneFlag ==
  ASSUME NEW list \in Seq(Assignments), Flags(list) = {}, NEW b \in BOOLEAN
  PROVE  LET all == list \o <<Assign("app_state", None, b)>> IN
         /\ Flags(all) # {}
         /\ \A i \in Flags(all) : all[i].value = b
  <1> DEFINE flag == Assign("app_state", None, b)
             all == list \o <<flag>>
             n == Len(list)
  <1>1. flag.name = "app_state" /\ flag.value = b
    BY DEF Assign
  <1> HIDE DEF flag
  <1>2. /\ n \in Nat /\ Len(all) = n + 1 /\ all[n + 1] = flag
        /\ \A i \in 1 .. n : all[i] = list[i]
    OBVIOUS
  <1> HIDE DEF all, n
  <1>3. n + 1 \in Flags(all)
    BY <1>1, <1>2 DEF Flags
  <1>4. ASSUME NEW i \in Flags(all) PROVE all[i].value = b
    <2>1. CASE i = n + 1
      BY <1>1, <1>2, <2>1
    <2>2. CASE i # n + 1
      <3>1. i \in 1 .. n /\ list[i].name = "app_state"
        BY <1>2, <2>2 DEF Flags
      <3>2. QED
        BY <3>1 DEF Flags, n
    <2>3. QED
      BY <2>1, <2>2
  <1>5. QED
    BY <1>3, <1>4 DEF all, flag

LEMMA ModeLoop ==
  ASSUME HealthInv, IInv, ModeInv, LoopRuns
  PROVE  ModeInv'
  <1> USE RuntimeAssumption
  <1>1. todo = <<>> /\ UNCHANGED memory /\ Flags(todo) = {}
    BY DEF LoopRuns, Flags
  <1>2. memory.app_state = Serving
    BY <1>1 DEF ModeInv
  <1>3. [Next]_vars
    BY DEF LoopRuns, MainStep, Next, CallerStep
  <1>4. IInv' /\ statuses' \in Statuses /\ started' \in BOOLEAN
    BY <1>3, IInvNext DEF IInv, TypeOK, Statuses
  <1>5. Writes \in Seq(Assignments) /\ Flags(Writes) = {}
    BY <1>4, WritesNoFlag
  <1>6. ASSUME Serving' = Serving, todo' = Writes, spawned' = 0 => ~started'
        PROVE  ModeInv'
    BY <1>1, <1>2, <1>5, <1>6 DEF ModeInv
  <1>7. ASSUME NEW b \in BOOLEAN, NEW list \in Seq(Assignments), Flags(list) = {},
               todo' = list \o <<Assign("app_state", None, b)>>, Serving' = b,
               \A t \in live' : t.at = "created", spawned' = 0 => ~started'
        PROVE  ModeInv'
    BY <1>7, OneFlag DEF ModeInv
  <1>8. ASSUME NEW c \in Callers, spawned = 0, Start(c),
               todo' = Writes \o <<Assign("app_state", None, TRUE)>>
        PROVE  ModeInv'
    <2>1. ~started /\ live = {} /\ lock = None
      BY <1>8 DEF ModeInv, Start, Acquires, IInv, NoSupervisorOutlivesStop
    <2>2. /\ started' /\ spawned' = spawned + 1
          /\ live' = live \cup NewSupervisors(spawned')
      BY <1>8, <2>1 DEF Start, taskVars
    <2>3. Serving' = TRUE
      BY <1>4, <2>2 DEF Serving
    <2>4. \A t \in live' : t.at = "created"
      BY <2>1, <2>2 DEF NewSupervisors
    <2>5. spawned' # 0
      BY <2>2 DEF IInv, TypeOK
    <2>6. QED
      BY <1>5, <1>7, <1>8, <2>3, <2>4, <2>5
  <1>9. ASSUME NEW c \in Callers, spawned = 1, Stop(c) \/ CancelCaller(c), todo' = Writes
        PROVE  ModeInv'
    <2>1. Serving' = Serving
      <3>1. CASE Stop(c)
        BY <3>1 DEF Stop, Acquires, Serving, taskVars
      <3>2. CASE CancelCaller(c)
        BY <3>2 DEF CancelCaller, Serving
      <3>3. QED
        BY <1>9, <3>1, <3>2
    <2>2. spawned' = 1
      BY <1>9 DEF Stop, CancelCaller, taskVars
    <2>3. QED
      BY <1>6, <1>9, <2>1, <2>2
  <1>10. ASSUME NEW c \in Callers, FinishStop(c) \/ AbandonStop(c) PROVE
           Serving' = FALSE /\ (\A t \in live' : t.at = "created") /\ ~started'
    <2>1. ~started' /\ lock' = None
      <3>1. pc[c] \in {"gathering", "abandoned"}
        BY <1>10 DEF FinishStop, AbandonStop
      <3>2. lock = c /\ c # None
        BY <1>10, <3>1 DEF IInv, LockDiscipline
      <3>3. ~started
        BY <3>2 DEF IInv, LockDiscipline
      <3>4. started' = started /\ lock' = None
        <4>1. CASE FinishStop(c)
          BY <4>1 DEF FinishStop
        <4>2. CASE AbandonStop(c)
          BY <4>2 DEF AbandonStop, taskVars
        <4>3. QED
          BY <1>10, <4>1, <4>2
      <3>5. QED
        BY <3>3, <3>4
    <2>2. live' = {}
      BY <1>4, <2>1 DEF IInv, NoSupervisorOutlivesStop
    <2>3. QED
      BY <2>1, <2>2 DEF Serving
  <1>11. ASSUME NEW c \in Callers, FinishStop(c),
                todo' = Writes \o <<Assign("app_state", None, FALSE)>>
         PROVE  ModeInv'
    BY <1>5, <1>7, <1>10, <1>11
  <1>12. ASSUME NEW c \in Callers, AbandonStop(c), todo' = <<Assign("app_state", None, FALSE)>>
         PROVE  ModeInv'
    <2>1. <<>> \in Seq(Assignments) /\ Flags(<<>>) = {}
      BY DEF Flags
    <2>2. todo' = <<>> \o <<Assign("app_state", None, FALSE)>>
      BY <1>12
    <2>3. QED
      BY <1>7, <1>10, <1>12, <2>1, <2>2
  <1>13. ASSUME NEW t \in live, SupervisorStep(t), todo' = Writes
         PROVE  ModeInv'
    <2>1. UNCHANGED <<started, lock, spawned>>
      BY <1>13 DEF SupervisorStep, RunRunner, RunnerEnds, DeliverCancel, callVars
    <2>2. QED
      BY <1>6, <1>13, <2>1 DEF Serving, ModeInv
  <1>14. QED
    BY <1>8, <1>9, <1>11, <1>12, <1>13 DEF LoopRuns, MainStep

LEMMA ModeWrite ==
  ASSUME HealthInv, ModeInv, Write
  PROVE  ModeInv'
  <1> DEFINE a == Head(todo)
  <1>1. /\ UNCHANGED vars /\ todo # <<>> /\ todo' = Tail(todo)
        /\ memory' = IF a.worker = None
                     THEN [memory EXCEPT ![a.name] = a.value]
                     ELSE [memory EXCEPT !.statuses[a.worker][a.name] = a.value]
    BY DEF Write
  <1>2. UNCHANGED <<started, lock, spawned, live>> /\ Serving' = Serving
    BY <1>1 DEF vars, Serving
  <1>3. /\ memory \in Memory /\ todo \in Seq(Assignments)
        /\ \A i \in 1 .. Len(todo) : Assigns(todo[i], statuses)
    BY DEF HealthInv, MemoryInv, Sound
  <1>4. /\ Len(todo) \in Nat /\ 1 \in 1 .. Len(todo) /\ a = todo[1]
        /\ Len(todo') = Len(todo) - 1
        /\ \A i \in 1 .. Len(todo') : i + 1 \in 1 .. Len(todo) /\ todo'[i] = todo[i + 1]
    BY <1>1, <1>3
  <1>5. Assigns(a, statuses)
    BY <1>3, <1>4
  <1> HIDE DEF a
  <1>6. \A i \in Flags(todo') : i + 1 \in Flags(todo) /\ todo'[i] = todo[i + 1]
    BY <1>4 DEF Flags
  <1>7. CASE a.name = "app_state"
    <2>1. 1 \in Flags(todo) /\ a.value = Serving
      BY <1>4, <1>7 DEF Flags, ModeInv
    <2>2. a.worker = None
      BY <1>5, <1>7 DEF Assigns, FieldNames
    <2>3. memory'.app_state = Serving
      BY <1>1, <1>3, <1>7, <2>1, <2>2 DEF Memory
    <2>4. QED
      BY <1>2, <1>6, <2>1, <2>3 DEF ModeInv
  <1>8. CASE a.name # "app_state"
    <2>1. memory'.app_state = memory.app_state
      <3>1. CASE a.worker = None
        <4>1. a.name = "running"
          BY <1>5, <1>8, <3>1, HealthAssumption DEF Assigns
        <4>2. memory' = [memory EXCEPT !["running"] = a.value]
          BY <1>1, <3>1, <4>1
        <4>3. QED
          BY <1>3, <4>2 DEF Memory
      <3>2. CASE a.worker # None
        BY <1>1, <1>3, <3>2 DEF Memory
      <3>3. QED
        BY <3>1, <3>2
    <2>2. \A i \in Flags(todo) : i - 1 \in Flags(todo')
      <3>1. ASSUME NEW i \in Flags(todo) PROVE i - 1 \in Flags(todo')
        <4>1. i \in 1 .. Len(todo) /\ todo[i].name = "app_state" /\ i # 1
          BY <1>4, <1>8 DEF Flags
        <4>2. i - 1 \in 1 .. Len(todo') /\ todo'[i - 1] = todo[i]
          BY <1>4, <4>1
        <4>3. QED
          BY <4>1, <4>2 DEF Flags
      <3>2. QED
        BY <3>1
    <2>3. QED
      BY <1>2, <1>6, <2>1, <2>2 DEF ModeInv
  <1>9. QED
    BY <1>7, <1>8

\* While a supervisor is past its creation every request that reads app.state
\* finds the runtime in it, and once stop() has ended none does for longer than
\* the loop takes to reset it; for any number of workers, wherever stop() is
\* cancelled and wherever the thread reads.
THEOREM HealthKnowsMode == HealthSpec => []EmbeddedWhileWorking
  <1>1. HealthInit => IInv /\ ModeInv
    <2> SUFFICES ASSUME HealthInit PROVE IInv /\ ModeInv
      OBVIOUS
    <2>1. IInv
      BY IInvInit DEF HealthInit
    <2>2. Serving = FALSE /\ memory.app_state = FALSE /\ Flags(todo) = {} /\ ~started
      BY DEF HealthInit, Init, Serving, Flags
    <2>3. QED
      BY <2>1, <2>2 DEF ModeInv
  <1>2. HealthInv /\ IInv /\ ModeInv /\ [HealthNext]_healthVars => IInv' /\ ModeInv'
    <2> SUFFICES ASSUME HealthInv, IInv, ModeInv, [HealthNext]_healthVars
                 PROVE  IInv' /\ ModeInv'
      OBVIOUS
    <2>1. CASE LoopRuns
      <3>1. [Next]_vars
        BY <2>1 DEF LoopRuns, MainStep, Next, CallerStep
      <3>2. QED
        BY <2>1, <3>1, IInvNext, ModeLoop
    <2>2. CASE Write
      <3>1. UNCHANGED vars
        BY <2>2 DEF Write
      <3>2. QED
        BY <2>2, <3>1, IInvNext, ModeWrite
    <2>3. CASE UNCHANGED <<vars, memory, todo>>
      <3>1. IInv'
        BY <2>3, IInvNext
      <3>2. UNCHANGED <<started, lock, spawned, live, memory, todo>>
        BY <2>3 DEF vars
      <3>3. QED
        BY <3>1, <3>2 DEF ModeInv, Serving, Flags
    <2>4. QED
      BY <2>1, <2>2, <2>3 DEF HealthNext, HealthCheck, ReadField, healthVars
  <1>3. IInv /\ ModeInv => EmbeddedWhileWorking
    <2> SUFFICES ASSUME IInv, ModeInv PROVE EmbeddedWhileWorking
      OBVIOUS
    <2>1. ASSUME NEW t \in live, t.at # "created" PROVE memory.app_state
      BY <2>1 DEF ModeInv, IInv, NoSupervisorOutlivesStop, Serving
    <2>2. ASSUME memory.app_state, todo = <<>> PROVE started \/ lock # None
      <3>1. Flags(todo) = {}
        BY <2>2 DEF Flags
      <3>2. QED
        BY <2>2, <3>1, Zenon DEF ModeInv, Serving
    <2>3. QED
      BY <2>1, <2>2 DEF EmbeddedWhileWorking
  <1>4. QED
    BY <1>1, <1>2, <1>3, HealthInvInit, HealthInvNext, PTL DEF HealthSpec
=============================================================================
