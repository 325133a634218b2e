------------------------------ MODULE Checkout -------------------------------
(***************************************************************************)
(* The identity cap as the models describe it: a checkout copies the       *)
(* contest of the candidate, and that contest's caps_votes_per_identity,   *)
(* into the transaction it inserts, and the webhook later sets its status. *)
(* The checkout and the webhook are not in the repository (BE-09, BE-10):  *)
(* they are external here, and do exactly what the comments of             *)
(* transaction.py ask.  Everything else is a statement of Schema.          *)
(***************************************************************************)
EXTENDS Schema

VARIABLE caps_votes_per_identity    \* that column of contests

checkoutVars == <<vars, caps_votes_per_identity>>

\* The contest a candidate, or the candidate of a transaction, stands in.
ContestOf(candidate) == categories[candidates[candidate].category_id].contest_id

CheckoutInit == Init /\ caps_votes_per_identity = [c \in Contests |-> FALSE]

EditContest(id, row, caps) ==
  /\ SaveContest(id, row)
  /\ caps_votes_per_identity' = [caps_votes_per_identity EXCEPT ![id] = caps]

\* A category or a candidate is added, or moved.
EditCategory(id, row) ==
  /\ SaveCategory(id, row)
  /\ UNCHANGED caps_votes_per_identity

EditCandidate(id, row) ==
  /\ SaveCandidate(id, row)
  /\ UNCHANGED caps_votes_per_identity

StartCheckout(id, candidate, package, matric, reference) ==
  LET contest == ContestOf(candidate) IN
  /\ id \notin DOMAIN transactions
  /\ vote_packages[package].contest_id = contest
  /\ SaveTransaction(id,
       [candidate_id |-> candidate, vote_package_id |-> package, contest_id |-> contest,
        paystack_reference |-> reference, status |-> "pending", confirmed_at |-> FALSE,
        voter_matric_number |-> matric,
        enforce_identity_cap |-> caps_votes_per_identity[contest]])
  /\ UNCHANGED caps_votes_per_identity

\* The webhook confirms, or an abandoned checkout is marked failed; a late
\* confirmation may still come after that.
Settle(id, status) ==
  /\ SaveTransaction(id, [transactions[id] EXCEPT !.status = status,
                                                 !.confirmed_at = @ \/ status = "success"])
  /\ UNCHANGED caps_votes_per_identity

OtherStatement ==
  /\ \/ \E id \in Organizations, row \in Organization : SaveOrganization(id, row)
     \/ \E id \in VotePackages, row \in VotePackage : SaveVotePackage(id, row)
     \/ \E x \in Rows : Delete(x)
  /\ UNCHANGED caps_votes_per_identity

CheckoutNext ==
  \/ \E id \in Contests, row \in Contest, caps \in BOOLEAN : EditContest(id, row, caps)
  \/ \E id \in Categories, row \in Category : EditCategory(id, row)
  \/ \E id \in Candidates, row \in Candidate : EditCandidate(id, row)
  \/ \E id \in Transactions, candidate \in DOMAIN candidates, package \in DOMAIN vote_packages,
        matric \in Maybe(Matrics), reference \in Names :
       StartCheckout(id, candidate, package, matric, reference)
  \/ \E id \in DOMAIN transactions, status \in {"success", "failed"} : Settle(id, status)
  \/ OtherStatement

CheckoutSpec == CheckoutInit /\ [][CheckoutNext]_checkoutVars

-----------------------------------------------------------------------------
\* "Whether that matric number may vote only once in this contest" (contest.py):
\* no two checkouts of one voter are open or paid for candidates of a capped
\* contest.  It does not hold: the index sees only the copies taken at checkout.
CapCoversContest ==
  \A s, t \in DOMAIN transactions :
    LET contest == ContestOf(transactions[s].candidate_id) IN
    /\ s # t
    /\ caps_votes_per_identity[contest]
    /\ ContestOf(transactions[t].candidate_id) = contest
    /\ transactions[s].voter_matric_number = transactions[t].voter_matric_number
    => "failed" \in {transactions[s].status, transactions[t].status}
=============================================================================
