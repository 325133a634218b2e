-------------------------- MODULE SessionPoolProofs --------------------------
(***************************************************************************)
(* get_db() and the pool for any number of requests and connections, and   *)
(* any pool_size and max_overflow, the unlimited ones included.            *)
(***************************************************************************)
EXTENDS SessionPool, FiniteSetTheorems, TLAPS

(***************************************************************************)
(* The inductive invariant.  Only a request that has not left get_db(), or *)
(* whose session is still closing, holds a connection, and the pool never  *)
(* keeps more than pool_size.                                              *)
(***************************************************************************)
TypeOK ==
  /\ pc \in [Requests -> {"out", "in", "waiting", "closing", "abandoned"}]
  /\ held \in [Requests -> Connections \cup {None}]
  /\ idle \subseteq Connections /\ dead \subseteq Connections
  /\ kills \in Nat

HoldersAreIn == \A r \in Requests : held[r] # None => pc[r] \in {"in", "closing", "abandoned"}

PoolBound == PoolSize > 0 => Cardinality(idle) <= PoolSize

IInv == TypeOK /\ HoldersAreIn /\ PoolBound

-----------------------------------------------------------------------------
LEMMA Finite ==
  ASSUME NEW S, S \subseteq Connections
  PROVE  IsFiniteSet(S) /\ Cardinality(S) \in Nat
  BY PoolAssumption, FS_Subset, FS_CardinalityType

\* A connection that comes back is kept only while the pool is below its size.
LEMMA ReturnBound ==
  ASSUME IInv, NEW r \in Requests, Return(r)
  PROVE  idle' \subseteq Connections /\ PoolBound'
  <1>1. idle \subseteq Connections /\ held[r] \in Connections \cup {None}
    BY DEF IInv, TypeOK
  <1>2. CASE idle' = idle
    BY <1>1, <1>2 DEF IInv, PoolBound
  <1>3. CASE /\ idle' = idle \cup {held[r]} /\ held[r] # None
             /\ ~(PoolSize > 0 /\ Cardinality(idle) >= PoolSize)
    <2>1. held[r] \in Connections
      BY <1>1, <1>3
    <2>2. Cardinality(idle') <= Cardinality(idle) + 1
      BY <1>1, <1>3, <2>1, Finite, FS_AddElement
    <2>3. Cardinality(idle) \in Nat /\ Cardinality(idle') \in Nat
      BY <1>1, <1>3, <2>1, Finite
    <2>4. PoolBound'
      BY <1>3, <2>2, <2>3, PoolAssumption DEF PoolBound
    <2>5. QED
      BY <1>1, <1>3, <2>1, <2>4
  <1>4. QED
    BY <1>2, <1>3 DEF Return

LEMMA InitIInv == Init => IInv
  BY FS_EmptySet, PoolAssumption DEF Init, IInv, TypeOK, HoldersAreIn, PoolBound

LEMMA CheckoutIInv ==
  ASSUME IInv, NEW r \in Requests, Checkout(r)
  PROVE  IInv'
  <1>1. CASE TakeIdle(r)
    <2>1. PICK c \in idle : Gets(r, c) /\ idle' = idle \ {c} /\ dead' = dead \ {c}
      BY <1>1 DEF TakeIdle
    <2>2. TypeOK' /\ HoldersAreIn'
      BY <2>1 DEF IInv, TypeOK, HoldersAreIn, Gets, Checkout
    <2>3. idle' \subseteq idle /\ idle \subseteq Connections
      BY <2>1 DEF IInv, TypeOK
    <2>4. Cardinality(idle') <= Cardinality(idle)
      BY <2>3, Finite, FS_Subset
    <2>5. Cardinality(idle) \in Nat /\ Cardinality(idle') \in Nat
      BY <2>3, Finite
    <2>6. QED
      BY <2>2, <2>4, <2>5, PoolAssumption DEF IInv, PoolBound
  <1>2. CASE OpenNew(r)
    <2>1. PICK c \in Connections \ Open : Gets(r, c)
      BY <1>2 DEF OpenNew
    <2>2. TypeOK' /\ HoldersAreIn'
      BY <1>2, <2>1 DEF IInv, TypeOK, HoldersAreIn, Gets, Checkout, OpenNew
    <2>3. QED
      BY <1>2, <2>2 DEF IInv, PoolBound, OpenNew
  <1>3. QED
    BY <1>1, <1>2 DEF Checkout

LEMMA CommitIInv ==
  ASSUME IInv, NEW r \in Requests, Commit(r)
  PROVE  IInv'
  <1>1. idle' \subseteq Connections /\ PoolBound'
    BY ReturnBound DEF Commit
  <1>2. QED
    BY <1>1 DEF Commit, Return, IInv, TypeOK, HoldersAreIn

LEMMA ClosedIInv ==
  ASSUME IInv, NEW r \in Requests, Closed(r)
  PROVE  IInv'
  <1>1. idle' \subseteq Connections /\ PoolBound'
    BY ReturnBound DEF Closed
  <1>2. QED
    BY <1>1 DEF Closed, Return, IInv, TypeOK, HoldersAreIn

LEMMA LeaveIInv ==
  ASSUME IInv, NEW r \in Requests, Leave(r) \/ Abandon(r)
  PROVE  IInv'
  <1>1. dead' \subseteq Connections
    BY DEF IInv, TypeOK, Leave, Abandon
  <1>2. QED
    BY <1>1 DEF IInv, TypeOK, HoldersAreIn, PoolBound, Leave, Abandon

LEMMA NextIInv == IInv /\ [Next]_vars => IInv'
  <1> SUFFICES ASSUME IInv, [Next]_vars PROVE IInv'
    OBVIOUS
  <1>1. ASSUME NEW r \in Requests, Enter(r) \/ Wait(r) \/ TimesOut(r)
        PROVE  IInv'
    BY <1>1 DEF Enter, Wait, TimesOut, IInv, TypeOK, HoldersAreIn, PoolBound
  <1>2. ASSUME NEW c \in Connections, Kill(c)
        PROVE  IInv'
    BY <1>2 DEF Kill, IInv, TypeOK, HoldersAreIn, PoolBound
  <1>3. CASE UNCHANGED vars
    BY <1>3 DEF vars, IInv, TypeOK, HoldersAreIn, PoolBound
  <1>4. QED
    BY <1>1, <1>2, <1>3, CheckoutIInv, CommitIInv, ClosedIInv, LeaveIInv
       DEF Next, RequestStep

\* However many requests share the engine, wherever they fail, time out or are
\* cancelled, and also while their sessions close: when every session has closed no
\* connection is out, and the pool is back within pool_size.
THEOREM PoolIsWhole == Spec => []NothingLeaked
  <1>1. IInv => NothingLeaked
    <2> SUFFICES ASSUME IInv, \A r \in Requests : pc[r] = "out"
                 PROVE  Out = {} /\ (PoolSize > 0 => Cardinality(Open) <= PoolSize)
      BY DEF NothingLeaked
    <2>1. \A r \in Requests : held[r] = None
      BY DEF IInv, HoldersAreIn
    <2>2. Out = {} /\ Open = idle
      BY <2>1 DEF Out, Open
    <2>3. QED
      BY <2>2 DEF IInv, PoolBound
  <1>2. QED
    BY <1>1, InitIInv, NextIInv, PTL DEF Spec
=============================================================================
