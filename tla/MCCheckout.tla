----------------------------- MODULE MCCheckout ------------------------------
(***************************************************************************)
(* TLC instances of Checkout: two contests, a candidate who may be moved   *)
(* with the category, and two checkouts of one voter.                      *)
(***************************************************************************)
EXTENDS Checkout

CONSTANTS o1, c1, c2, g1, g2, k1, p1, t1, t2, n1, n2, m1

NoIds == {}
OneOrganization == {o1}
TwoContests == {c1, c2}
TwoCategories == {g1, g2}
OneCandidate == {k1}
OnePackage == {p1}
TwoTransactions == {t1, t2}
TwoNames == {n1, n2}
OneMatric == {m1}
=============================================================================
