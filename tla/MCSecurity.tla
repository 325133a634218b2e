----------------------------- MODULE MCSecurity ------------------------------
(***************************************************************************)
(* TLC instances of Security: the vault with a key of every kind, and      *)
(* logins and digests with two passwords that differ after 72 bytes.       *)
(***************************************************************************)
EXTENDS Security, TLC

CONSTANTS k1, k2, half, junk, s1, s2, t1, t2

TwoKeys == {k1, k2}
HalfKey == {half}
Junk == {junk}
TwoSecrets == {s1, s2}
TwoTexts == {t1, t2}

\* Bound: two things are stored at a time, of one kind or of two.
StoredBound == Cardinality(vault) + Cardinality(hashes) + Cardinality(digests) <= 2

Symmetry == Permutations(TwoTexts)
=============================================================================
