---------------------------- MODULE ForeignKeys ------------------------------
(***************************************************************************)
(* The foreign keys of the initial migration: which tables each table      *)
(* refers to.  The order of the migration's statements, and what TRUNCATE  *)
(* may take, both depend on this graph.                                    *)
(***************************************************************************)
OrganizationsReferTo == {"users"}    \* fk_organizations_created_by_user_id_users
UsersReferTo == {"organizations"}
ContestsReferTo == {"organizations"}
CategoriesReferTo == {"contests"}
CandidatesReferTo == {"categories", "users"}
VotePackagesReferTo == {"contests"}
SubaccountsReferTo == {"candidates"}
TransactionsReferTo == {"candidates", "vote_packages", "contests"}
VotesReferTo == {"transactions", "candidates"}
SettlementsReferTo == {"candidates", "users"}

RefersTo ==
  [organizations |-> OrganizationsReferTo, users |-> UsersReferTo,
   contests |-> ContestsReferTo, categories |-> CategoriesReferTo,
   candidates |-> CandidatesReferTo, vote_packages |-> VotePackagesReferTo,
   subaccounts |-> SubaccountsReferTo, transactions |-> TransactionsReferTo,
   votes |-> VotesReferTo, settlements |-> SettlementsReferTo]

Tables == DOMAIN RefersTo
=============================================================================
