------------------------------ MODULE MCSchema -------------------------------
(***************************************************************************)
(* TLC instances of Schema.  A table whose id set is empty stays empty.    *)
(***************************************************************************)
EXTENDS Schema, TLC

CONSTANTS o1, u1, c1, c2, g1, k1, p1, a1, t1, t2, v1, s1, n1, n2, m1

NoIds == {}
OneOrganization == {o1}
OneUser == {u1}
TwoContests == {c1, c2}
OneCategory == {g1}
OneCandidate == {k1}
OnePackage == {p1}
OneSubaccount == {a1}
TwoTransactions == {t1, t2}
OneVote == {v1}
OneSettlement == {s1}
TwoNames == {n1, n2}
OneMatric == {m1}

\* Bounds: a second name, a second payment and matric numbers are for the unique
\* indexes of transactions only, and occur where no login, subaccount, vote or
\* settlement does; a reason is given for a disqualification only.
RowsBound ==
  /\ \A i \in DOMAIN users : users[i].email = n1
  /\ \A i \in DOMAIN categories : categories[i].name = n1
  /\ \A i \in DOMAIN candidates :
       /\ candidates[i].slug = n1
       /\ candidates[i].disqualification_reason <=> candidates[i].status = "disqualified"
  /\ \A i \in DOMAIN subaccounts : subaccounts[i].subaccount_code # n2

PaymentsBound ==
  \/ \A i \in DOMAIN transactions :
       /\ i = t1
       /\ transactions[i].paystack_reference = n1
       /\ transactions[i].voter_matric_number = NULL
  \/ \A table \in {users, subaccounts, votes, settlements} : table = Empty

Bounds == RowsBound /\ PaymentsBound
=============================================================================
