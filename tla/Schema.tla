------------------------------- MODULE Schema --------------------------------
(***************************************************************************)
(* The ten tables of the initial migration and of api/v1/models, and what  *)
(* any SQL statement may do to them: INSERT or UPDATE one row (Save...),   *)
(* DELETE one row, TRUNCATE tables.  The constraints, the ON DELETE rules  *)
(* and the triggers decide; a statement they refuse changes nothing.       *)
(*                                                                         *)
(* A table maps the ids in use to rows.  A row keeps its foreign keys and  *)
(* the columns that a unique index or a CHECK over two columns looks at;   *)
(* ..._at and ..._reason columns are reduced to IS NOT NULL.               *)
(***************************************************************************)
EXTENDS Integers, ForeignKeys

CONSTANTS
  Organizations, Users, Contests, Categories, Candidates, VotePackages,
  Subaccounts, Transactions, Votes, Settlements,    \* ids (UUIDs) per table
  Names,        \* values of the unique text columns
  Matrics,      \* matric numbers
  NULL

AllIds ==
  <<Organizations, Users, Contests, Categories, Candidates, VotePackages,
    Subaccounts, Transactions, Votes, Settlements>>

\* Primary keys are random UUIDs: no two rows share one, even across tables.
ASSUME SchemaAssumption ==
  /\ \A i, j \in 1 .. 10 : i # j => AllIds[i] \cap AllIds[j] = {}
  /\ \A i \in 1 .. 10 : NULL \notin AllIds[i]
  /\ NULL \notin Names
  /\ NULL \notin Matrics

VARIABLES
  organizations, users, contests, categories, candidates, vote_packages,
  subaccounts, transactions, votes, settlements

vars ==
  <<organizations, users, contests, categories, candidates, vote_packages,
    subaccounts, transactions, votes, settlements>>

Maybe(S) == S \cup {NULL}

Organization == [created_by_user_id : Maybe(Users)]
User         == [organization_id : Maybe(Organizations), email : Names]
Contest      == [organization_id : Organizations]
Category     == [contest_id : Contests, name : Names]
Candidate    == [category_id : Categories, user_id : Maybe(Users), slug : Names,
                 status : {"pending_approval", "approved", "disqualified"},
                 disqualification_reason : BOOLEAN]
VotePackage  == [contest_id : Contests]
Subaccount   == [candidate_id : Candidates, subaccount_code : Maybe(Names),
                 status : {"pending", "verified"}]
Transaction  == [candidate_id : Candidates, vote_package_id : VotePackages,
                 contest_id : Contests, paystack_reference : Names,
                 status : {"pending", "success", "failed"}, confirmed_at : BOOLEAN,
                 voter_matric_number : Maybe(Matrics), enforce_identity_cap : BOOLEAN]
Vote         == [transaction_id : Transactions, candidate_id : Candidates]
Settlement   == [candidate_id : Candidates, actioned_by_user_id : Maybe(Users),
                 status : {"held", "released", "reversed"}, actioned_at : BOOLEAN]

\* A table with rows of the given kind under some of the given ids.
IsTable(table, Ids, Row) ==
  /\ DOMAIN table \subseteq Ids
  /\ table \in [DOMAIN table -> Row]

TypeOK ==
  /\ IsTable(organizations, Organizations, Organization)
  /\ IsTable(users, Users, User)
  /\ IsTable(contests, Contests, Contest)
  /\ IsTable(categories, Categories, Category)
  /\ IsTable(candidates, Candidates, Candidate)
  /\ IsTable(vote_packages, VotePackages, VotePackage)
  /\ IsTable(subaccounts, Subaccounts, Subaccount)
  /\ IsTable(transactions, Transactions, Transaction)
  /\ IsTable(votes, Votes, Vote)
  /\ IsTable(settlements, Settlements, Settlement)

Empty == [i \in {} |-> NULL]

Init ==
  /\ organizations = Empty /\ users = Empty /\ contests = Empty
  /\ categories = Empty /\ candidates = Empty /\ vote_packages = Empty
  /\ subaccounts = Empty /\ transactions = Empty /\ votes = Empty
  /\ settlements = Empty

-----------------------------------------------------------------------------
(***************************************************************************)
(* INSERT and UPDATE.                                                      *)
(***************************************************************************)
Put(table, id, row) ==
  [i \in DOMAIN table \cup {id} |-> IF i = id THEN row ELSE table[i]]

Optional(ref, table) == ref = NULL \/ ref \in DOMAIN table

\* No other row of the table has the same value: NULLs do not collide.
Unique(table, id, Key(_), key) ==
  key = NULL \/ \A i \in DOMAIN table \ {id} : Key(table[i]) # key

SaveOrganization(id, row) ==
  /\ Optional(row.created_by_user_id, users)
  /\ organizations' = Put(organizations, id, row)
  /\ UNCHANGED <<users, contests, categories, candidates, vote_packages,
                 subaccounts, transactions, votes, settlements>>

SaveUser(id, row) ==
  /\ Optional(row.organization_id, organizations)
  /\ Unique(users, id, LAMBDA r : r.email, row.email)
  /\ users' = Put(users, id, row)
  /\ UNCHANGED <<organizations, contests, categories, candidates, vote_packages,
                 subaccounts, transactions, votes, settlements>>

SaveContest(id, row) ==
  /\ row.organization_id \in DOMAIN organizations
  /\ contests' = Put(contests, id, row)
  /\ UNCHANGED <<organizations, users, categories, candidates, vote_packages,
                 subaccounts, transactions, votes, settlements>>

SaveCategory(id, row) ==
  /\ row.contest_id \in DOMAIN contests
  /\ Unique(categories, id, LAMBDA r : <<r.contest_id, r.name>>, <<row.contest_id, row.name>>)
  /\ categories' = Put(categories, id, row)
  /\ UNCHANGED <<organizations, users, contests, candidates, vote_packages,
                 subaccounts, transactions, votes, settlements>>

SaveCandidate(id, row) ==
  /\ row.category_id \in DOMAIN categories
  /\ Optional(row.user_id, users)
  /\ Unique(candidates, id, LAMBDA r : r.slug, row.slug)
  /\ row.status = "disqualified" => row.disqualification_reason
  /\ candidates' = Put(candidates, id, row)
  /\ UNCHANGED <<organizations, users, contests, categories, vote_packages,
                 subaccounts, transactions, votes, settlements>>

SaveVotePackage(id, row) ==
  /\ row.contest_id \in DOMAIN contests
  /\ vote_packages' = Put(vote_packages, id, row)
  /\ UNCHANGED <<organizations, users, contests, categories, candidates,
                 subaccounts, transactions, votes, settlements>>

SaveSubaccount(id, row) ==
  /\ row.candidate_id \in DOMAIN candidates
  /\ Unique(subaccounts, id, LAMBDA r : r.candidate_id, row.candidate_id)
  /\ Unique(subaccounts, id, LAMBDA r : r.subaccount_code, row.subaccount_code)
  /\ row.status = "verified" => row.subaccount_code # NULL
  /\ subaccounts' = Put(subaccounts, id, row)
  /\ UNCHANGED <<organizations, users, contests, categories, candidates,
                 vote_packages, transactions, votes, settlements>>

\* The predicate of uq_transactions_identity_cap.
Capped(row) == row.enforce_identity_cap /\ row.status \in {"pending", "success"}

\* Mutant: no ck_transactions_cap_needs_matric_number.
SuccessIsConfirmed(row) == row.status = "success" => row.confirmed_at

\* ck_transactions_success_is_confirmed, ck_transactions_cap_needs_matric_number.
TransactionChecks(row) ==
  /\ row.status = "success" => row.confirmed_at
  /\ row.enforce_identity_cap => row.voter_matric_number # NULL

\* uq_transactions_identity_cap: it ignores a row without a matric number.
IdentityIsFree(id, row) ==
  Capped(row) /\ row.voter_matric_number # NULL =>
    ~ \E t \in DOMAIN transactions \ {id} :
        /\ Capped(transactions[t])
        /\ transactions[t].contest_id = row.contest_id
        /\ transactions[t].voter_matric_number = row.voter_matric_number

SaveTransaction(id, row) ==
  /\ row.candidate_id \in DOMAIN candidates
  /\ row.vote_package_id \in DOMAIN vote_packages
  /\ row.contest_id \in DOMAIN contests
  /\ Unique(transactions, id, LAMBDA r : r.paystack_reference, row.paystack_reference)
  /\ TransactionChecks(row)
  /\ IdentityIsFree(id, row)
  /\ transactions' = Put(transactions, id, row)
  /\ UNCHANGED <<organizations, users, contests, categories, candidates,
                 vote_packages, subaccounts, votes, settlements>>

\* votes_append_only: only an INSERT gets past the trigger.
SaveVote(id, row) ==
  /\ id \notin DOMAIN votes
  /\ row.transaction_id \in DOMAIN transactions
  /\ row.candidate_id \in DOMAIN candidates
  /\ votes' = Put(votes, id, row)
  /\ UNCHANGED <<organizations, users, contests, categories, candidates,
                 vote_packages, subaccounts, transactions, settlements>>

SaveSettlement(id, row) ==
  /\ row.candidate_id \in DOMAIN candidates
  /\ Optional(row.actioned_by_user_id, users)
  /\ row.status = "held" \/ row.actioned_at
  /\ settlements' = Put(settlements, id, row)
  /\ UNCHANGED <<organizations, users, contests, categories, candidates,
                 vote_packages, subaccounts, transactions, votes>>

-----------------------------------------------------------------------------
(***************************************************************************)
(* DELETE ... WHERE id = x.  The ON DELETE CASCADE rules doom the rows     *)
(* below x, level by level.                                                *)
(***************************************************************************)
DoomedContests(x) ==
  {c \in DOMAIN contests : x \in {c, contests[c].organization_id}}

DoomedCategories(x) ==
  {k \in DOMAIN categories : k = x \/ categories[k].contest_id \in DoomedContests(x)}

DoomedVotePackages(x) ==
  {p \in DOMAIN vote_packages : p = x \/ vote_packages[p].contest_id \in DoomedContests(x)}

\* Mutant: candidates.user_id is ON DELETE CASCADE.
CandidatesGoWithLogin(x) ==
  {c \in DOMAIN candidates :
     \/ x \in {c, candidates[c].user_id}
     \/ candidates[c].category_id \in DoomedCategories(x)}

DoomedCandidates(x) ==
  {c \in DOMAIN candidates : c = x \/ candidates[c].category_id \in DoomedCategories(x)}

DoomedSubaccounts(x) ==
  {s \in DOMAIN subaccounts : s = x \/ subaccounts[s].candidate_id \in DoomedCandidates(x)}

\* Mutant: transactions.candidate_id is ON DELETE CASCADE.
PaymentsGoWithCandidate(x) ==
  {t \in DOMAIN transactions : t = x \/ transactions[t].candidate_id \in DoomedCandidates(x)}

\* No cascade ends in transactions.
DoomedTransactions(x) == {t \in DOMAIN transactions : t = x}

\* An ON DELETE RESTRICT rule on a row that x or its cascade would take.
RestrictedByTransactions(x) ==
  \E t \in DOMAIN transactions \ DoomedTransactions(x) :
    \/ transactions[t].candidate_id \in DoomedCandidates(x)
    \/ transactions[t].vote_package_id \in DoomedVotePackages(x)
    \/ transactions[t].contest_id \in DoomedContests(x)

RestrictedByVotes(x) ==
  \E v \in DOMAIN votes :
    \/ votes[v].transaction_id \in DoomedTransactions(x)
    \/ votes[v].candidate_id \in DoomedCandidates(x)

RestrictedBySettlements(x) ==
  \E s \in DOMAIN settlements : settlements[s].candidate_id \in DoomedCandidates(x)

Without(table, D) == [i \in DOMAIN table \ D |-> table[i]]

\* The ON DELETE SET NULL rules, on the rows that stay.
ForgetCreator(table, x) ==
  [i \in DOMAIN table |-> [created_by_user_id |->
     IF table[i].created_by_user_id = x THEN NULL ELSE table[i].created_by_user_id]]

ForgetOrganization(table, x) ==
  [i \in DOMAIN table |-> [table[i] EXCEPT !.organization_id = IF @ = x THEN NULL ELSE @]]

ForgetLogin(table, x) ==
  [i \in DOMAIN table |-> [table[i] EXCEPT !.user_id = IF @ = x THEN NULL ELSE @]]

ForgetActor(table, x) ==
  [i \in DOMAIN table |-> [table[i] EXCEPT !.actioned_by_user_id = IF @ = x THEN NULL ELSE @]]

\* The trigger votes_append_only refuses a DELETE on votes.
LedgerTrigger(x) == x \notin DOMAIN votes

Delete(x) ==
  /\ LedgerTrigger(x)
  /\ ~RestrictedByTransactions(x)
  /\ ~RestrictedByVotes(x)
  /\ ~RestrictedBySettlements(x)
  /\ organizations' = ForgetCreator(Without(organizations, {x}), x)
  /\ users' = ForgetOrganization(Without(users, {x}), x)
  /\ contests' = Without(contests, DoomedContests(x))
  /\ categories' = Without(categories, DoomedCategories(x))
  /\ candidates' = ForgetLogin(Without(candidates, DoomedCandidates(x)), x)
  /\ vote_packages' = Without(vote_packages, DoomedVotePackages(x))
  /\ subaccounts' = Without(subaccounts, DoomedSubaccounts(x))
  /\ transactions' = Without(transactions, DoomedTransactions(x))
  /\ votes' = Without(votes, {x})
  /\ settlements' = ForgetActor(Without(settlements, {x}), x)

(***************************************************************************)
(* TRUNCATE a, b, ... [CASCADE].  The tables it empties include every      *)
(* table that refers to one of them: CASCADE adds the missing ones, and    *)
(* without it the statement is refused.                                    *)
(***************************************************************************)
Truncatable ==
  {S \in SUBSET Tables \ {{}} : \A table \in Tables : RefersTo[table] \cap S # {} => table \in S}

\* Mutant: no trigger votes_no_truncate; TRUNCATE fires no row-level trigger.
NoTruncateTrigger(S) == TRUE

\* The trigger votes_no_truncate, fired for a table that CASCADE reached as well.
TruncateTrigger(S) == "votes" \notin S

Truncated(name, S, table) == IF name \in S THEN Empty ELSE table

Truncate(S) ==
  /\ TruncateTrigger(S)
  /\ organizations' = Truncated("organizations", S, organizations)
  /\ users' = Truncated("users", S, users)
  /\ contests' = Truncated("contests", S, contests)
  /\ categories' = Truncated("categories", S, categories)
  /\ candidates' = Truncated("candidates", S, candidates)
  /\ vote_packages' = Truncated("vote_packages", S, vote_packages)
  /\ subaccounts' = Truncated("subaccounts", S, subaccounts)
  /\ transactions' = Truncated("transactions", S, transactions)
  /\ votes' = Truncated("votes", S, votes)
  /\ settlements' = Truncated("settlements", S, settlements)

-----------------------------------------------------------------------------
Rows ==
  DOMAIN organizations \cup DOMAIN users \cup DOMAIN contests
    \cup DOMAIN categories \cup DOMAIN candidates \cup DOMAIN vote_packages
    \cup DOMAIN subaccounts \cup DOMAIN transactions \cup DOMAIN votes
    \cup DOMAIN settlements

Next ==
  \/ \E id \in Organizations, row \in Organization : SaveOrganization(id, row)
  \/ \E id \in Users, row \in User : SaveUser(id, row)
  \/ \E id \in Contests, row \in Contest : SaveContest(id, row)
  \/ \E id \in Categories, row \in Category : SaveCategory(id, row)
  \/ \E id \in Candidates, row \in Candidate : SaveCandidate(id, row)
  \/ \E id \in VotePackages, row \in VotePackage : SaveVotePackage(id, row)
  \/ \E id \in Subaccounts, row \in Subaccount : SaveSubaccount(id, row)
  \/ \E id \in Transactions, row \in Transaction : SaveTransaction(id, row)
  \/ \E id \in Votes, row \in Vote : SaveVote(id, row)
  \/ \E id \in Settlements, row \in Settlement : SaveSettlement(id, row)
  \/ \E x \in Rows : Delete(x)
  \/ \E S \in Truncatable : Truncate(S)

Spec == Init /\ [][Next]_vars

-----------------------------------------------------------------------------
(***************************************************************************)
(* Properties.                                                             *)
(***************************************************************************)
\* In a capped contest no two open or successful transactions are for the same
\* voter, an unknown voter included: the unique index alone would let any
\* number of NULLs through, and an UPDATE may revive a failed row.
IdentityCap ==
  \A s, t \in DOMAIN transactions :
    /\ Capped(transactions[s]) /\ Capped(transactions[t])
    /\ transactions[s].contest_id = transactions[t].contest_id
    /\ transactions[s].voter_matric_number = transactions[t].voter_matric_number
    => s = t

\* votes only grows: no statement on any table removes or changes a vote that was
\* counted, be it a DELETE or TRUNCATE of a table above it that cascades.
LedgerAppendOnly ==
  [][\A v \in DOMAIN votes : v \in DOMAIN votes' /\ votes'[v] = votes[v]]_votes

\* The evidence of a payment or of a payout never goes as a side effect.  A
\* transaction goes only by a DELETE of that very row, and not even then once votes
\* were credited from it; a settlement goes by its own DELETE or TRUNCATE.  Nothing
\* above either of them goes in the same statement.
EvidenceSurvives ==
  [][/\ \A t \in DOMAIN transactions : t \notin DOMAIN transactions' =>
          /\ \A v \in DOMAIN votes : votes[v].transaction_id # t
          /\ UNCHANGED <<organizations, users, contests, categories, candidates,
                         vote_packages, subaccounts, votes, settlements>>
     /\ \A s \in DOMAIN settlements : s \notin DOMAIN settlements' =>
          UNCHANGED <<organizations, users, contests, categories, candidates,
                      vote_packages, transactions, votes>>]_vars

\* Deleting a login takes nothing with it: organizations, candidates and
\* settlements stay, each settlement with the state and time of its action.
RecordsOutliveLogins ==
  [][\A u \in DOMAIN users : u \notin DOMAIN users' =>
       /\ DOMAIN organizations' = DOMAIN organizations
       /\ DOMAIN candidates' = DOMAIN candidates
       /\ DOMAIN settlements' = DOMAIN settlements
       /\ \A s \in DOMAIN settlements :
            /\ settlements'[s].status = settlements[s].status
            /\ settlements'[s].actioned_at = settlements[s].actioned_at
       /\ UNCHANGED <<contests, categories, vote_packages, subaccounts,
                      transactions, votes>>]_vars
=============================================================================
