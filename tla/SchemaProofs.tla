---------------------------- MODULE SchemaProofs -----------------------------
(***************************************************************************)
(* The constraints of the schema for any number of rows and any sequence   *)
(* of statements.                                                          *)
(***************************************************************************)
EXTENDS Schema, TLAPS

-----------------------------------------------------------------------------
(***************************************************************************)
(* What the table operators return.                                        *)
(***************************************************************************)
LEMMA EmptyTable ==
  ASSUME NEW Ids, NEW Row
  PROVE  IsTable(Empty, Ids, Row) /\ DOMAIN Empty = {}
  BY DEF IsTable, Empty

LEMMA PutTable ==
  ASSUME NEW Ids, NEW Row, NEW table, IsTable(table, Ids, Row), NEW id \in Ids, NEW row \in Row
  PROVE  /\ IsTable(Put(table, id, row), Ids, Row)
         /\ DOMAIN Put(table, id, row) = DOMAIN table \cup {id}
         /\ Put(table, id, row)[id] = row
         /\ \A i \in DOMAIN table \ {id} : Put(table, id, row)[i] = table[i]
  BY DEF IsTable, Put

-----------------------------------------------------------------------------
(***************************************************************************)
(* What a DELETE leaves of each table.                                     *)
(***************************************************************************)
LEMMA DeleteForgets ==
  ASSUME TypeOK, NEW x, Delete(x)
  PROVE  /\ IsTable(organizations', Organizations, Organization)
         /\ IsTable(users', Users, User)
         /\ IsTable(candidates', Candidates, Candidate)
         /\ DOMAIN organizations' = DOMAIN organizations \ {x}
         /\ \A i \in DOMAIN organizations' :
              organizations'[i].created_by_user_id =
                IF organizations[i].created_by_user_id = x THEN NULL
                ELSE organizations[i].created_by_user_id
         /\ DOMAIN users' = DOMAIN users \ {x}
         /\ \A i \in DOMAIN users' :
              users'[i].organization_id =
                IF users[i].organization_id = x THEN NULL ELSE users[i].organization_id
         /\ DOMAIN candidates' = DOMAIN candidates \ DoomedCandidates(x)
         /\ \A i \in DOMAIN candidates' :
              /\ candidates'[i].category_id = candidates[i].category_id
              /\ candidates'[i].user_id =
                   IF candidates[i].user_id = x THEN NULL ELSE candidates[i].user_id
  <1>1. /\ IsTable(organizations', Organizations, Organization)
        /\ DOMAIN organizations' = DOMAIN organizations \ {x}
        /\ \A i \in DOMAIN organizations' :
             /\ organizations'[i].created_by_user_id =
                  IF organizations[i].created_by_user_id = x THEN NULL
                  ELSE organizations[i].created_by_user_id
    BY DEF TypeOK, Delete, IsTable, Without, ForgetCreator, Organization, Maybe
  <1>2. /\ IsTable(users', Users, User)
        /\ DOMAIN users' = DOMAIN users \ {x}
        /\ \A i \in DOMAIN users' :
             /\ users'[i].organization_id =
                  IF users[i].organization_id = x THEN NULL ELSE users[i].organization_id
    BY DEF TypeOK, Delete, IsTable, Without, ForgetOrganization, User, Maybe
  <1>3. /\ IsTable(candidates', Candidates, Candidate)
        /\ DOMAIN candidates' = DOMAIN candidates \ DoomedCandidates(x)
        /\ \A i \in DOMAIN candidates' :
             /\ candidates'[i].category_id = candidates[i].category_id
             /\ candidates'[i].user_id =
                  IF candidates[i].user_id = x THEN NULL ELSE candidates[i].user_id
    <2> DEFINE Forget(row) == [row EXCEPT !.user_id = IF @ = x THEN NULL ELSE @]
    <2>1. \A row \in Candidate :
            /\ Forget(row) \in Candidate
            /\ Forget(row).category_id = row.category_id
            /\ Forget(row).user_id = IF row.user_id = x THEN NULL ELSE row.user_id
      BY DEF Candidate, Maybe
    <2>2. candidates' = [i \in DOMAIN candidates \ DoomedCandidates(x) |-> Forget(candidates[i])]
      BY DEF Delete, ForgetLogin, Without
    <2>3. \A i \in DOMAIN candidates : candidates[i] \in Candidate /\ i \in Candidates
      BY DEF TypeOK, IsTable
    <2> HIDE DEF Forget
    <2>4. QED
      BY <2>1, <2>2, <2>3 DEF IsTable
  <1>4. QED
    BY <1>1, <1>2, <1>3

LEMMA DeleteForgetsActor ==
  ASSUME TypeOK, NEW x, Delete(x)
  PROVE  /\ IsTable(settlements', Settlements, Settlement)
         /\ DOMAIN settlements' = DOMAIN settlements \ {x}
         /\ \A i \in DOMAIN settlements' :
              /\ settlements'[i].candidate_id = settlements[i].candidate_id
              /\ settlements'[i].status = settlements[i].status
              /\ settlements'[i].actioned_at = settlements[i].actioned_at
              /\ settlements'[i].actioned_by_user_id =
                   IF settlements[i].actioned_by_user_id = x THEN NULL
                   ELSE settlements[i].actioned_by_user_id
  <1> DEFINE Forget(row) == [row EXCEPT !.actioned_by_user_id = IF @ = x THEN NULL ELSE @]
  <1>1. \A row \in Settlement :
          /\ Forget(row) \in Settlement
          /\ Forget(row).candidate_id = row.candidate_id
          /\ Forget(row).status = row.status
          /\ Forget(row).actioned_at = row.actioned_at
          /\ Forget(row).actioned_by_user_id =
               IF row.actioned_by_user_id = x THEN NULL ELSE row.actioned_by_user_id
    BY DEF Settlement, Maybe
  <1>2. settlements' = [i \in DOMAIN settlements \ {x} |-> Forget(settlements[i])]
    BY DEF Delete, ForgetActor, Without
  <1>3. \A i \in DOMAIN settlements : settlements[i] \in Settlement /\ i \in Settlements
    BY DEF TypeOK, IsTable
  <1> HIDE DEF Forget
  <1>4. QED
    BY <1>1, <1>2, <1>3 DEF IsTable

LEMMA DeleteRemoves ==
  ASSUME TypeOK, NEW x, Delete(x)
  PROVE  /\ IsTable(contests', Contests, Contest)
         /\ IsTable(categories', Categories, Category)
         /\ IsTable(vote_packages', VotePackages, VotePackage)
         /\ IsTable(subaccounts', Subaccounts, Subaccount)
         /\ IsTable(transactions', Transactions, Transaction)
         /\ IsTable(votes', Votes, Vote)
         /\ DOMAIN contests' = DOMAIN contests \ DoomedContests(x)
         /\ DOMAIN categories' = DOMAIN categories \ DoomedCategories(x)
         /\ DOMAIN vote_packages' = DOMAIN vote_packages \ DoomedVotePackages(x)
         /\ DOMAIN subaccounts' = DOMAIN subaccounts \ DoomedSubaccounts(x)
         /\ DOMAIN transactions' = DOMAIN transactions \ {x}
         /\ DOMAIN votes' = DOMAIN votes
         /\ \A i \in DOMAIN contests' : contests'[i] = contests[i]
         /\ \A i \in DOMAIN categories' : categories'[i] = categories[i]
         /\ \A i \in DOMAIN vote_packages' : vote_packages'[i] = vote_packages[i]
         /\ \A i \in DOMAIN subaccounts' : subaccounts'[i] = subaccounts[i]
         /\ \A i \in DOMAIN transactions' : transactions'[i] = transactions[i]
         /\ \A i \in DOMAIN votes' : votes'[i] = votes[i]
  <1>1. /\ IsTable(contests', Contests, Contest)
        /\ DOMAIN contests' = DOMAIN contests \ DoomedContests(x)
        /\ \A i \in DOMAIN contests' : contests'[i] = contests[i]
    BY DEF TypeOK, Delete, IsTable, Without
  <1>2. /\ IsTable(categories', Categories, Category)
        /\ DOMAIN categories' = DOMAIN categories \ DoomedCategories(x)
        /\ \A i \in DOMAIN categories' : categories'[i] = categories[i]
    BY DEF TypeOK, Delete, IsTable, Without
  <1>3. /\ IsTable(vote_packages', VotePackages, VotePackage)
        /\ DOMAIN vote_packages' = DOMAIN vote_packages \ DoomedVotePackages(x)
        /\ \A i \in DOMAIN vote_packages' : vote_packages'[i] = vote_packages[i]
    BY DEF TypeOK, Delete, IsTable, Without
  <1>4. /\ IsTable(subaccounts', Subaccounts, Subaccount)
        /\ DOMAIN subaccounts' = DOMAIN subaccounts \ DoomedSubaccounts(x)
        /\ \A i \in DOMAIN subaccounts' : subaccounts'[i] = subaccounts[i]
    BY DEF TypeOK, Delete, IsTable, Without
  <1>5. /\ IsTable(transactions', Transactions, Transaction)
        /\ DOMAIN transactions' = DOMAIN transactions \ {x}
        /\ \A i \in DOMAIN transactions' : transactions'[i] = transactions[i]
    BY DEF TypeOK, Delete, IsTable, Without, DoomedTransactions
  <1>6. /\ IsTable(votes', Votes, Vote)
        /\ DOMAIN votes' = DOMAIN votes \ {x}
        /\ \A i \in DOMAIN votes' : votes'[i] = votes[i]
    BY DEF TypeOK, Delete, IsTable, Without
  <1>7. DOMAIN votes' = DOMAIN votes
    BY <1>6 DEF Delete, LedgerTrigger
  <1>8. QED
    BY <1>1, <1>2, <1>3, <1>4, <1>5, <1>6, <1>7

-----------------------------------------------------------------------------
(***************************************************************************)
(* What a TRUNCATE takes: a table above votes takes votes with it, along   *)
(* the foreign keys, and the trigger refuses that.                         *)
(***************************************************************************)
LEMMA AboveVotes ==
  ASSUME NEW S \in Truncatable, "votes" \notin S
  PROVE  S \subseteq {"subaccounts", "settlements"}
  <1> DEFINE Takes(above, below) ==
        below \in Tables /\ above \in RefersTo[below] => (above \in S => below \in S)
  <1>1. S \subseteq Tables /\ \A above, below : Takes(above, below)
    BY DEF Truncatable
  <1>2. Tables = {"organizations", "users", "contests", "categories", "candidates",
                  "vote_packages", "subaccounts", "transactions", "votes", "settlements"}
    BY DEF Tables, RefersTo
  <1>3. "transactions" \notin S /\ "candidates" \notin S
    <2>1. RefersTo["votes"] = {"transactions", "candidates"}
      BY DEF RefersTo, VotesReferTo
    <2>2. QED
      BY <1>1, <1>2, <2>1
  <1>4. "vote_packages" \notin S /\ "contests" \notin S
    <2>1. RefersTo["transactions"] = {"candidates", "vote_packages", "contests"}
      BY DEF RefersTo, TransactionsReferTo
    <2>2. QED
      BY <1>1, <1>2, <1>3, <2>1
  <1>5. "categories" \notin S /\ "users" \notin S
    <2>1. RefersTo["candidates"] = {"categories", "users"}
      BY DEF RefersTo, CandidatesReferTo
    <2>2. QED
      BY <1>1, <1>2, <1>3, <2>1
  <1>6. "organizations" \notin S
    <2>1. RefersTo["contests"] = {"organizations"}
      BY DEF RefersTo, ContestsReferTo
    <2>2. QED
      BY <1>1, <1>2, <1>4, <2>1
  <1>7. QED
    BY <1>1, <1>2, <1>3, <1>4, <1>5, <1>6

LEMMA TruncateTakes ==
  ASSUME NEW S \in Truncatable, Truncate(S)
  PROVE  /\ UNCHANGED <<organizations, users, contests, categories, candidates,
                        vote_packages, transactions, votes>>
         /\ subaccounts' \in {subaccounts, Empty}
         /\ settlements' \in {settlements, Empty}
  <1>1. S \subseteq {"subaccounts", "settlements"}
    BY AboveVotes DEF Truncate, TruncateTrigger
  <1>2. /\ "organizations" \notin S /\ "users" \notin S /\ "contests" \notin S
        /\ "categories" \notin S /\ "candidates" \notin S /\ "vote_packages" \notin S
        /\ "transactions" \notin S /\ "votes" \notin S
    BY <1>1
  <1>3. QED
    BY <1>2 DEF Truncate, Truncated

-----------------------------------------------------------------------------
(***************************************************************************)
(* Type correctness.                                                       *)
(***************************************************************************)
LEMMA TypeInit == Init => TypeOK
  BY EmptyTable DEF Init, TypeOK

LEMMA TypeNext == TypeOK /\ [Next]_vars => TypeOK'
  <1> SUFFICES ASSUME TypeOK, [Next]_vars PROVE TypeOK'
    OBVIOUS
  <1>1. ASSUME NEW id \in Organizations, NEW row \in Organization, SaveOrganization(id, row) PROVE TypeOK'
    <2>1. IsTable(organizations', Organizations, Organization)
      BY <1>1, PutTable DEF TypeOK, SaveOrganization
    <2>2. QED
      BY <1>1, <2>1 DEF TypeOK, SaveOrganization
  <1>2. ASSUME NEW id \in Users, NEW row \in User, SaveUser(id, row) PROVE TypeOK'
    <2>1. IsTable(users', Users, User)
      BY <1>2, PutTable DEF TypeOK, SaveUser
    <2>2. QED
      BY <1>2, <2>1 DEF TypeOK, SaveUser
  <1>3. ASSUME NEW id \in Contests, NEW row \in Contest, SaveContest(id, row) PROVE TypeOK'
    <2>1. IsTable(contests', Contests, Contest)
      BY <1>3, PutTable DEF TypeOK, SaveContest
    <2>2. QED
      BY <1>3, <2>1 DEF TypeOK, SaveContest
  <1>4. ASSUME NEW id \in Categories, NEW row \in Category, SaveCategory(id, row) PROVE TypeOK'
    <2>1. IsTable(categories', Categories, Category)
      BY <1>4, PutTable DEF TypeOK, SaveCategory
    <2>2. QED
      BY <1>4, <2>1 DEF TypeOK, SaveCategory
  <1>5. ASSUME NEW id \in Candidates, NEW row \in Candidate, SaveCandidate(id, row) PROVE TypeOK'
    <2>1. IsTable(candidates', Candidates, Candidate)
      BY <1>5, PutTable DEF TypeOK, SaveCandidate
    <2>2. QED
      BY <1>5, <2>1 DEF TypeOK, SaveCandidate
  <1>6. ASSUME NEW id \in VotePackages, NEW row \in VotePackage, SaveVotePackage(id, row) PROVE TypeOK'
    <2>1. IsTable(vote_packages', VotePackages, VotePackage)
      BY <1>6, PutTable DEF TypeOK, SaveVotePackage
    <2>2. QED
      BY <1>6, <2>1 DEF TypeOK, SaveVotePackage
  <1>7. ASSUME NEW id \in Subaccounts, NEW row \in Subaccount, SaveSubaccount(id, row) PROVE TypeOK'
    <2>1. IsTable(subaccounts', Subaccounts, Subaccount)
      BY <1>7, PutTable DEF TypeOK, SaveSubaccount
    <2>2. QED
      BY <1>7, <2>1 DEF TypeOK, SaveSubaccount
  <1>8. ASSUME NEW id \in Transactions, NEW row \in Transaction, SaveTransaction(id, row) PROVE TypeOK'
    <2>1. IsTable(transactions', Transactions, Transaction)
      BY <1>8, PutTable DEF TypeOK, SaveTransaction
    <2>2. QED
      BY <1>8, <2>1 DEF TypeOK, SaveTransaction
  <1>9. ASSUME NEW id \in Votes, NEW row \in Vote, SaveVote(id, row) PROVE TypeOK'
    <2>1. IsTable(votes', Votes, Vote)
      BY <1>9, PutTable DEF TypeOK, SaveVote
    <2>2. QED
      BY <1>9, <2>1 DEF TypeOK, SaveVote
  <1>10. ASSUME NEW id \in Settlements, NEW row \in Settlement, SaveSettlement(id, row) PROVE TypeOK'
    <2>1. IsTable(settlements', Settlements, Settlement)
      BY <1>10, PutTable DEF TypeOK, SaveSettlement
    <2>2. QED
      BY <1>10, <2>1 DEF TypeOK, SaveSettlement
  <1>11. ASSUME NEW x \in Rows, Delete(x) PROVE TypeOK'
    BY <1>11, DeleteForgets, DeleteForgetsActor, DeleteRemoves DEF TypeOK
  <1>12. ASSUME NEW S \in Truncatable, Truncate(S) PROVE TypeOK'
    <2>1. /\ IsTable(subaccounts', Subaccounts, Subaccount)
          /\ IsTable(settlements', Settlements, Settlement)
      BY <1>12, TruncateTakes, EmptyTable DEF TypeOK
    <2>2. QED
      BY <1>12, <2>1, TruncateTakes DEF TypeOK
  <1>13. CASE UNCHANGED vars
    BY <1>13 DEF TypeOK, vars
  <1>14. QED
    BY <1>1, <1>2, <1>3, <1>4, <1>5, <1>6, <1>7, <1>8, <1>9, <1>10, <1>11, <1>12,
       <1>13 DEF Next

\* Every statement leaves tables of typed rows: no cascade and no SET NULL puts
\* a value into a column that the column does not admit.
THEOREM SchemaTypes == Spec => []TypeOK
  BY TypeInit, TypeNext, PTL DEF Spec

-----------------------------------------------------------------------------
(***************************************************************************)
(* The vote ledger and the payment log.                                    *)
(***************************************************************************)
\* A vote that is in the table stays in it, unchanged.
LEMMA VotesStay ==
  ASSUME TypeOK, [Next]_vars, NEW v \in DOMAIN votes
  PROVE  v \in DOMAIN votes' /\ votes'[v] = votes[v]
  <1>1. ASSUME NEW id \in Votes, NEW row \in Vote, SaveVote(id, row)
        PROVE  v \in DOMAIN votes' /\ votes'[v] = votes[v]
    BY <1>1 DEF SaveVote, Put
  <1>2. ASSUME NEW x \in Rows, Delete(x)
        PROVE  v \in DOMAIN votes' /\ votes'[v] = votes[v]
    BY <1>2, DeleteRemoves
  <1>3. CASE votes' = votes
    BY <1>3
  <1>4. QED
    BY <1>1, <1>2, <1>3, TruncateTakes
       DEF Next, vars, SaveOrganization, SaveUser, SaveContest, SaveCategory, SaveCandidate,
           SaveVotePackage, SaveSubaccount, SaveTransaction, SaveSettlement

\* No statement on any table, DELETE and TRUNCATE with all they cascade to
\* included, removes or changes a vote: the two triggers leave only INSERT.
THEOREM LedgerIsAppendOnly == Spec => LedgerAppendOnly
  <1>1. TypeOK /\ [Next]_vars =>
          [\A v \in DOMAIN votes : v \in DOMAIN votes' /\ votes'[v] = votes[v]]_votes
    BY VotesStay
  <1>2. QED
    BY <1>1, SchemaTypes, PTL DEF Spec, LedgerAppendOnly

\* What a step that removes a transaction must be.
LEMMA OnlyDeleteRemovesPayments ==
  ASSUME TypeOK, [Next]_vars, NEW t \in DOMAIN transactions, t \notin DOMAIN transactions'
  PROVE  Delete(t)
  <1>1. ASSUME NEW id \in Transactions, NEW row \in Transaction, SaveTransaction(id, row)
        PROVE  FALSE
    BY <1>1 DEF SaveTransaction, Put
  <1>2. ASSUME NEW x \in Rows, Delete(x) PROVE x = t
    BY <1>2, DeleteRemoves
  <1>3. transactions' # transactions
    OBVIOUS
  <1>4. QED
    BY <1>1, <1>2, <1>3, TruncateTakes
       DEF Next, vars, SaveOrganization, SaveUser, SaveContest, SaveCategory, SaveCandidate,
           SaveVotePackage, SaveSubaccount, SaveVote, SaveSettlement

\* What a step that removes a settlement must be.
LEMMA WhatRemovesSettlements ==
  ASSUME TypeOK, [Next]_vars, NEW s \in DOMAIN settlements, s \notin DOMAIN settlements'
  PROVE  Delete(s) \/ \E S \in Truncatable : Truncate(S)
  <1>1. ASSUME NEW id \in Settlements, NEW row \in Settlement, SaveSettlement(id, row)
        PROVE  FALSE
    BY <1>1 DEF SaveSettlement, Put
  <1>2. ASSUME NEW x \in Rows, Delete(x) PROVE x = s
    <2>1. DOMAIN settlements' = DOMAIN settlements \ {x}
      BY <1>2, DeleteForgetsActor, Zenon
    <2>2. QED
      BY <2>1
  <1>3. settlements' # settlements
    OBVIOUS
  <1>4. QED
    BY <1>1, <1>2, <1>3
       DEF Next, vars, SaveOrganization, SaveUser, SaveContest, SaveCategory, SaveCandidate,
           SaveVotePackage, SaveSubaccount, SaveTransaction, SaveVote

\* The id of a transaction, or of a settlement, is in no other table.
EvidenceIds == Transactions \cup Settlements

LEMMA DisjointIds ==
  /\ EvidenceIds \cap Organizations = {} /\ EvidenceIds \cap Users = {}
  /\ EvidenceIds \cap Contests = {} /\ EvidenceIds \cap Categories = {}
  /\ EvidenceIds \cap Candidates = {} /\ EvidenceIds \cap VotePackages = {}
  /\ EvidenceIds \cap Subaccounts = {} /\ EvidenceIds \cap Votes = {}
  /\ Transactions \cap Settlements = {}
  BY SchemaAssumption DEF AllIds, EvidenceIds

\* Deleting a transaction or a settlement touches no other table: nothing hangs
\* below it.
LEMMA DeleteEvidence ==
  ASSUME TypeOK, NEW t \in EvidenceIds, Delete(t)
  PROVE  /\ UNCHANGED <<organizations, users, contests, categories, candidates,
                        vote_packages, subaccounts, votes>>
         /\ t \in Transactions => settlements' = settlements
         /\ t \in Settlements => transactions' = transactions
  <1>2. DoomedContests(t) = {}
    BY DisjointIds DEF TypeOK, IsTable, DoomedContests, Contest
  <1>3. DoomedCategories(t) = {} /\ DoomedVotePackages(t) = {}
    BY <1>2, DisjointIds DEF TypeOK, IsTable, DoomedCategories, DoomedVotePackages
  <1>4. DoomedCandidates(t) = {}
    BY <1>3, DisjointIds DEF TypeOK, IsTable, DoomedCandidates
  <1>5. DoomedSubaccounts(t) = {}
    BY <1>4, DisjointIds DEF TypeOK, IsTable, DoomedSubaccounts
  <1>6. contests' = contests /\ categories' = categories
        /\ vote_packages' = vote_packages /\ subaccounts' = subaccounts
    BY <1>2, <1>3, <1>5 DEF Delete, Without, TypeOK, IsTable
  <1>7. votes' = votes
    BY DisjointIds DEF Delete, Without, TypeOK, IsTable
  <1>8. organizations' = organizations
    <2>1. \A i \in DOMAIN organizations :
            /\ i # t /\ organizations[i].created_by_user_id # t
            /\ organizations[i] =
                 [created_by_user_id |-> organizations[i].created_by_user_id]
      BY DisjointIds, SchemaAssumption DEF TypeOK, IsTable, Organization, Maybe, AllIds, EvidenceIds
    <2>2. QED
      BY <2>1 DEF Delete, Without, ForgetCreator, TypeOK, IsTable
  <1>9. users' = users
    <2>1. \A i \in DOMAIN users :
            /\ i # t /\ users[i].organization_id # t
            /\ users[i] = [users[i] EXCEPT !.organization_id = users[i].organization_id]
      BY DisjointIds, SchemaAssumption DEF TypeOK, IsTable, User, Maybe, AllIds, EvidenceIds
    <2>2. QED
      BY <2>1 DEF Delete, Without, ForgetOrganization, TypeOK, IsTable
  <1>10. candidates' = candidates
    <2>1. \A i \in DOMAIN candidates :
            /\ candidates[i].user_id # t
            /\ candidates[i] = [candidates[i] EXCEPT !.user_id = candidates[i].user_id]
      BY DisjointIds, SchemaAssumption DEF TypeOK, IsTable, Candidate, Maybe, AllIds, EvidenceIds
    <2>2. QED
      BY <1>4, <2>1 DEF Delete, Without, ForgetLogin, TypeOK, IsTable
  <1>11. ASSUME t \in Transactions PROVE settlements' = settlements
    <2>1. \A i \in DOMAIN settlements :
            /\ i # t /\ settlements[i].actioned_by_user_id # t
            /\ settlements[i] =
                 [settlements[i] EXCEPT !.actioned_by_user_id = settlements[i].actioned_by_user_id]
      BY <1>11, DisjointIds, SchemaAssumption
         DEF TypeOK, IsTable, Settlement, Maybe, AllIds, EvidenceIds
    <2>2. QED
      BY <2>1 DEF Delete, Without, ForgetActor, TypeOK, IsTable
  <1>12. ASSUME t \in Settlements PROVE transactions' = transactions
    BY <1>12, DisjointIds DEF Delete, Without, DoomedTransactions, TypeOK, IsTable
  <1>13. QED
    BY <1>6, <1>7, <1>8, <1>9, <1>10, <1>11, <1>12

\* A payment's row goes only by a DELETE of that very row, with no vote credited
\* from it, a settlement's only by its own DELETE or TRUNCATE: never with the
\* candidate, package, contest or organization above.
THEOREM EvidenceIsKept == Spec => EvidenceSurvives
  <1> DEFINE Payments ==
        \A t \in DOMAIN transactions : t \notin DOMAIN transactions' =>
          /\ \A v \in DOMAIN votes : votes[v].transaction_id # t
          /\ UNCHANGED <<organizations, users, contests, categories, candidates,
                         vote_packages, subaccounts, votes, settlements>>
      Payouts ==
        \A s \in DOMAIN settlements : s \notin DOMAIN settlements' =>
          UNCHANGED <<organizations, users, contests, categories, candidates,
                      vote_packages, transactions, votes>>
  <1>1. TypeOK /\ [Next]_vars => Payments
    <2> SUFFICES ASSUME TypeOK, [Next]_vars, NEW t \in DOMAIN transactions,
                        t \notin DOMAIN transactions'
                 PROVE  /\ \A v \in DOMAIN votes : votes[v].transaction_id # t
                        /\ UNCHANGED <<organizations, users, contests, categories, candidates,
                                       vote_packages, subaccounts, votes, settlements>>
      OBVIOUS
    <2>1. Delete(t) /\ t \in Transactions
      BY OnlyDeleteRemovesPayments DEF TypeOK, IsTable
    <2>2. \A v \in DOMAIN votes : votes[v].transaction_id # t
      BY <2>1 DEF Delete, RestrictedByVotes, DoomedTransactions
    <2>3. QED
      BY <2>1, <2>2, DeleteEvidence DEF EvidenceIds
  <1>2. TypeOK /\ [Next]_vars => Payouts
    <2> SUFFICES ASSUME TypeOK, [Next]_vars, NEW s \in DOMAIN settlements,
                        s \notin DOMAIN settlements'
                 PROVE  UNCHANGED <<organizations, users, contests, categories, candidates,
                                    vote_packages, transactions, votes>>
      OBVIOUS
    <2>1. CASE Delete(s)
      <3>1. s \in Settlements
        BY DEF TypeOK, IsTable
      <3>2. QED
        BY <2>1, <3>1, DeleteEvidence DEF EvidenceIds
    <2>2. QED
      BY <2>1, WhatRemovesSettlements, TruncateTakes
  <1>3. QED
    BY <1>1, <1>2, SchemaTypes, PTL DEF Spec, EvidenceSurvives

-----------------------------------------------------------------------------
(***************************************************************************)
(* Logins.                                                                 *)
(***************************************************************************)
LEMMA OnlyDeleteRemovesLogins ==
  ASSUME TypeOK, [Next]_vars, NEW u \in DOMAIN users, u \notin DOMAIN users'
  PROVE  Delete(u)
  <1>1. ASSUME NEW id \in Users, NEW row \in User, SaveUser(id, row)
        PROVE  FALSE
    BY <1>1 DEF SaveUser, Put
  <1>2. ASSUME NEW x \in Rows, Delete(x) PROVE x = u
    <2>1. DOMAIN users' = DOMAIN users \ {x}
      BY <1>2, DeleteForgets, Zenon
    <2>2. QED
      BY <2>1
  <1>3. users' # users
    OBVIOUS
  <1>4. QED
    BY <1>1, <1>2, <1>3, TruncateTakes
       DEF Next, vars, SaveOrganization, SaveContest, SaveCategory, SaveCandidate,
           SaveVotePackage, SaveSubaccount, SaveTransaction, SaveVote, SaveSettlement

\* The id of a login is in no other table.
LEMMA LoginIds ==
  /\ Users \cap Organizations = {} /\ Users \cap Contests = {}
  /\ Users \cap Categories = {} /\ Users \cap Candidates = {}
  /\ Users \cap VotePackages = {} /\ Users \cap Subaccounts = {}
  /\ Users \cap Transactions = {} /\ Users \cap Votes = {}
  /\ Users \cap Settlements = {}
  BY SchemaAssumption DEF AllIds

\* Nothing hangs below a login: only SET NULL rules point at users.
LEMMA DeleteLogin ==
  ASSUME TypeOK, NEW u \in DOMAIN users, Delete(u)
  PROVE  /\ DOMAIN organizations' = DOMAIN organizations
         /\ DOMAIN candidates' = DOMAIN candidates
         /\ DOMAIN settlements' = DOMAIN settlements
         /\ \A s \in DOMAIN settlements :
              /\ settlements'[s].status = settlements[s].status
              /\ settlements'[s].actioned_at = settlements[s].actioned_at
         /\ UNCHANGED <<contests, categories, vote_packages, subaccounts,
                        transactions, votes>>
  <1>1. u \in Users
    BY DEF TypeOK, IsTable
  <1>2. DoomedContests(u) = {}
    BY <1>1, LoginIds DEF TypeOK, IsTable, DoomedContests, Contest
  <1>3. DoomedCategories(u) = {} /\ DoomedVotePackages(u) = {}
    BY <1>1, <1>2, LoginIds DEF TypeOK, IsTable, DoomedCategories, DoomedVotePackages
  <1>4. DoomedCandidates(u) = {}
    BY <1>1, <1>3, LoginIds DEF TypeOK, IsTable, DoomedCandidates
  <1>5. DoomedSubaccounts(u) = {}
    BY <1>1, <1>4, LoginIds DEF TypeOK, IsTable, DoomedSubaccounts
  <1>6. contests' = contests /\ categories' = categories
        /\ vote_packages' = vote_packages /\ subaccounts' = subaccounts
    BY <1>2, <1>3, <1>5 DEF Delete, Without, TypeOK, IsTable
  <1>7. transactions' = transactions /\ votes' = votes
    BY <1>1, LoginIds DEF Delete, Without, DoomedTransactions, TypeOK, IsTable
  <1>8. u \notin DOMAIN organizations /\ u \notin DOMAIN settlements
    BY <1>1, LoginIds DEF TypeOK, IsTable
  <1>9. DOMAIN organizations' = DOMAIN organizations /\ DOMAIN candidates' = DOMAIN candidates
    <2>1. /\ DOMAIN organizations' = DOMAIN organizations \ {u}
          /\ DOMAIN candidates' = DOMAIN candidates \ DoomedCandidates(u)
      BY DeleteForgets, Zenon
    <2>2. QED
      BY <1>4, <1>8, <2>1
  <1>10. /\ DOMAIN settlements' = DOMAIN settlements
         /\ \A s \in DOMAIN settlements :
              /\ settlements'[s].status = settlements[s].status
              /\ settlements'[s].actioned_at = settlements[s].actioned_at
    <2>1. /\ DOMAIN settlements' = DOMAIN settlements \ {u}
          /\ \A s \in DOMAIN settlements' :
               /\ settlements'[s].status = settlements[s].status
               /\ settlements'[s].actioned_at = settlements[s].actioned_at
      BY DeleteForgetsActor, Zenon
    <2>2. QED
      BY <1>8, <2>1
  <1>11. QED
    BY <1>6, <1>7, <1>9, <1>10

\* A login can be deleted without taking an organization, a candidate or a
\* settlement with it, or the record of what was done to one.
THEOREM LoginsTakeNothing == Spec => RecordsOutliveLogins
  <1> DEFINE Step ==
        \A u \in DOMAIN users : u \notin DOMAIN users' =>
          /\ DOMAIN organizations' = DOMAIN organizations
          /\ DOMAIN candidates' = DOMAIN candidates
          /\ DOMAIN settlements' = DOMAIN settlements
          /\ \A s \in DOMAIN settlements :
               /\ settlements'[s].status = settlements[s].status
               /\ settlements'[s].actioned_at = settlements[s].actioned_at
          /\ UNCHANGED <<contests, categories, vote_packages, subaccounts,
                         transactions, votes>>
  <1>1. TypeOK /\ [Next]_vars => Step
    BY OnlyDeleteRemovesLogins, DeleteLogin
  <1>2. QED
    BY <1>1, SchemaTypes, PTL DEF Spec, RecordsOutliveLogins

-----------------------------------------------------------------------------
(***************************************************************************)
(* The identity cap.                                                       *)
(***************************************************************************)
LEMMA CapNext == TypeOK /\ IdentityCap /\ [Next]_vars => IdentityCap'
  <1> SUFFICES ASSUME TypeOK, IdentityCap, [Next]_vars PROVE IdentityCap'
    OBVIOUS
  <1>1. ASSUME NEW id \in Transactions, NEW row \in Transaction, SaveTransaction(id, row)
        PROVE  IdentityCap'
    <2>1. /\ DOMAIN transactions' = DOMAIN transactions \cup {id}
          /\ transactions'[id] = row
          /\ \A i \in DOMAIN transactions \ {id} : transactions'[i] = transactions[i]
      BY <1>1 DEF SaveTransaction, Put
    <2>2. Capped(row) => row.voter_matric_number # NULL
      BY <1>1 DEF SaveTransaction, TransactionChecks, Capped
    <2>3. ASSUME NEW t \in DOMAIN transactions \ {id}, Capped(row), Capped(transactions[t]),
                 transactions[t].contest_id = row.contest_id
          PROVE  transactions[t].voter_matric_number # row.voter_matric_number
      BY <1>1, <2>2, <2>3 DEF SaveTransaction, IdentityIsFree
    <2>4. QED
      BY <2>1, <2>3 DEF IdentityCap
  <1>2. ASSUME NEW x \in Rows, Delete(x) PROVE IdentityCap'
    <2>1. /\ DOMAIN transactions' \subseteq DOMAIN transactions
          /\ \A i \in DOMAIN transactions' : transactions'[i] = transactions[i]
      BY <1>2, DeleteRemoves
    <2>2. QED
      BY <2>1 DEF IdentityCap
  <1>3. CASE transactions' = transactions
    BY <1>3 DEF IdentityCap
  <1>4. QED
    BY <1>1, <1>2, <1>3, TruncateTakes
       DEF Next, vars, SaveOrganization, SaveUser, SaveContest, SaveCategory, SaveCandidate,
           SaveVotePackage, SaveSubaccount, SaveVote, SaveSettlement

\* However transactions are inserted, revived, moved to another contest or given
\* another matric number, a capped contest has at most one open or successful
\* one per voter.
THEOREM CapHolds == Spec => []IdentityCap
  <1>1. Init => IdentityCap
    BY EmptyTable DEF Init, IdentityCap
  <1>2. QED
    BY <1>1, CapNext, SchemaTypes, PTL DEF Spec
=============================================================================
