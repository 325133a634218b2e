------------------------------ MODULE Migration ------------------------------
(***************************************************************************)
(* alembic/env.py and the initial migration, as they are run: every api    *)
(* container runs "alembic upgrade head && exec uvicorn" and is restarted  *)
(* when it exits, and an operator may run "alembic downgrade base".        *)
(*                                                                         *)
(* One statement of the migration is one step.  A table stands for itself  *)
(* and its own indexes.  PostgreSQL and alembic are external: DDL is       *)
(* transactional, a CREATE waits for another transaction that creates the  *)
(* same name and fails once that one has committed, a DROP waits for one   *)
(* that drops it, and the end of a session rolls its transaction back.     *)
(***************************************************************************)
EXTENDS Naturals, Sequences, ForeignKeys

CONSTANTS
  Containers,     \* replicas of the api service
  Operators,      \* people who downgrade
  MaxCrashes      \* bound: containers killed, connections lost

ASSUME MigrationAssumption ==
  Containers \cap Operators = {} /\ MaxCrashes \in Nat

VARIABLES
  catalog,        \* the committed objects
  version,        \* the committed row of alembic_version
  pc,             \* where each process is
  todo, done,     \* the statements of its transaction
  crashes

vars == <<catalog, version, pc, todo, done, crashes>>

Processes == Containers \cup Operators

(***************************************************************************)
(* upgrade(): what each object refers to.  organizations is created before *)
(* users, so its own foreign key is an object apart.                       *)
(***************************************************************************)
TriggersNeed == {"votes", "votes_forbid_mutation"}

Needs ==
  [organizations |-> {}, users |-> UsersReferTo,
   fk_organizations_created_by |-> {"organizations"} \cup OrganizationsReferTo,
   contests |-> ContestsReferTo, categories |-> CategoriesReferTo,
   candidates |-> CandidatesReferTo, vote_packages |-> VotePackagesReferTo,
   subaccounts |-> SubaccountsReferTo, transactions |-> TransactionsReferTo,
   votes |-> VotesReferTo, votes_forbid_mutation |-> {},
   votes_append_only |-> TriggersNeed, votes_no_truncate |-> TriggersNeed,
   settlements |-> SettlementsReferTo, alembic_version |-> {}]

\* What goes with a table when the table is dropped.
Parts(object) ==
  CASE object = "organizations" -> {"fk_organizations_created_by"}
    [] object = "votes" -> {"votes_append_only", "votes_no_truncate"}
    [] OTHER -> {}

\* DROP ... IF EXISTS
IfExists == {"votes_no_truncate", "votes_append_only", "votes_forbid_mutation"}

Schema == DOMAIN Needs \ {"alembic_version"}

\* Mutant: the tables in alphabetical order.
AlphabeticalOrder ==
  <<"candidates", "categories", "contests", "organizations", "users">>

UpgradeOrder ==
  <<"organizations", "users", "fk_organizations_created_by", "contests", "categories",
    "candidates", "vote_packages", "subaccounts", "transactions", "votes",
    "votes_forbid_mutation", "votes_append_only", "votes_no_truncate", "settlements">>

\* Mutant: the circular reference is left to the table that holds it.
DropWithoutConstraint ==
  <<"settlements", "votes_no_truncate", "votes_append_only", "votes_forbid_mutation",
    "votes", "transactions", "subaccounts", "vote_packages", "candidates", "categories",
    "contests", "users", "organizations">>

\* downgrade()
DowngradeOrder ==
  <<"settlements", "votes_no_truncate", "votes_append_only", "votes_forbid_mutation",
    "votes", "transactions", "subaccounts", "vote_packages", "candidates", "categories",
    "contests", "fk_organizations_created_by", "users", "organizations">>

Statements(op, order) == [i \in DOMAIN order |-> [op |-> op, object |-> order[i]]]

Init ==
  /\ catalog = {} /\ version = "base"
  /\ pc = [p \in Processes |-> "idle"]
  /\ todo = [p \in Processes |-> <<>>]
  /\ done = [p \in Processes |-> {}]
  /\ crashes = 0

-----------------------------------------------------------------------------
Created(p) == {s.object : s \in {r \in done[p] : r.op = "create"}}
Dropped(p) ==
  UNION {{s.object} \cup Parts(s.object) : s \in {r \in done[p] : r.op = "drop"}}

\* The catalog as the transaction of p sees it.
Visible(p) == (catalog \cup Created(p)) \ Dropped(p)

Waits(p, s) ==
  \E q \in Processes \ {p} :
    \/ s.op = "create" /\ s.object \in Created(q)
    \/ s.op = "drop" /\ s.object \in Dropped(q)

Accepted(p, s) ==
  IF s.op = "create"
  THEN s.object \notin Visible(p) /\ Needs[s.object] \subseteq Visible(p)
  ELSE /\ s.object \in Visible(p) \cup IfExists
       /\ \A o \in Visible(p) : s.object \in Needs[o] => o \in Parts(s.object)

\* The transaction of p is over.
Ends(p) ==
  /\ todo' = [todo EXCEPT ![p] = <<>>]
  /\ done' = [done EXCEPT ![p] = {}]

\* env.py opens a transaction; alembic reads the version, creates its table if it
\* is not there, and picks the steps to run.
Begin(p) ==
  /\ pc[p] = "idle"
  /\ pc' = [pc EXCEPT ![p] = "migrating"]
  /\ todo' = [todo EXCEPT ![p] =
       (IF "alembic_version" \in catalog
        THEN <<>> ELSE Statements("create", <<"alembic_version">>))
       \o CASE p \in Containers /\ version = "base" -> Statements("create", UpgradeOrder)
            [] p \in Operators /\ version = "head" -> Statements("drop", DowngradeOrder)
            [] OTHER -> <<>>]
  /\ UNCHANGED <<catalog, version, done, crashes>>

\* Mutant: every statement commits.
AutoCommit(p) ==
  /\ pc[p] = "migrating" /\ todo[p] # <<>>
  /\ LET s == Head(todo[p]) IN
       /\ ~Waits(p, s) /\ Accepted(p, s)
       /\ catalog' = IF s.op = "create" THEN catalog \cup {s.object}
                                        ELSE catalog \ {s.object}
  /\ todo' = [todo EXCEPT ![p] = Tail(@)]
  /\ UNCHANGED <<version, pc, done, crashes>>

\* One op of upgrade() or downgrade().
Execute(p) ==
  /\ pc[p] = "migrating" /\ todo[p] # <<>>
  /\ LET s == Head(todo[p]) IN
       /\ ~Waits(p, s) /\ Accepted(p, s)
       /\ done' = [done EXCEPT ![p] = @ \cup {s}]
  /\ todo' = [todo EXCEPT ![p] = Tail(@)]
  /\ UNCHANGED <<catalog, version, pc, crashes>>

\* A statement is refused: the transaction rolls back and alembic exits with an
\* error, so the server is not started.
Refused(p) ==
  /\ pc[p] = "migrating" /\ todo[p] # <<>>
  /\ LET s == Head(todo[p]) IN ~Waits(p, s) /\ ~Accepted(p, s)
  /\ pc' = [pc EXCEPT ![p] = "exited"]
  /\ Ends(p)
  /\ UNCHANGED <<catalog, version, crashes>>

\* The version row is written and the transaction committed; the container execs
\* the server, the operator is done.
Commit(p) ==
  /\ pc[p] = "migrating" /\ todo[p] = <<>>
  /\ catalog' = Visible(p)
  /\ version' = IF Created(p) \cap Schema # {} THEN "head"
                ELSE IF Dropped(p) # {} THEN "base" ELSE version
  /\ pc' = [pc EXCEPT ![p] = IF p \in Containers THEN "serving" ELSE "exited"]
  /\ Ends(p)
  /\ UNCHANGED crashes

\* Mutant: ";" for "&&": the server starts whatever became of alembic.
ServeAnyway(p) ==
  /\ pc[p] = "migrating"
  /\ crashes < MaxCrashes /\ crashes' = crashes + 1
  /\ pc' = [pc EXCEPT ![p] = "serving"]
  /\ Ends(p)
  /\ UNCHANGED <<catalog, version>>

\* A container, or its connection to the database, is lost at any point.
Crash(p) ==
  /\ pc[p] \in {"migrating", "serving"}
  /\ crashes < MaxCrashes /\ crashes' = crashes + 1
  /\ pc' = [pc EXCEPT ![p] = "exited"]
  /\ Ends(p)
  /\ UNCHANGED <<catalog, version>>

\* restart: unless-stopped
Restart(c) ==
  /\ c \in Containers
  /\ pc[c] = "exited"
  /\ pc' = [pc EXCEPT ![c] = "idle"]
  /\ UNCHANGED <<catalog, version, todo, done, crashes>>

-----------------------------------------------------------------------------
Step(p) == Begin(p) \/ Execute(p) \/ Refused(p) \/ Commit(p) \/ Restart(p)

Next == \E p \in Processes : Step(p) \/ Crash(p)

\* Processes make progress and the orchestrator restarts what exited; nobody has
\* to downgrade.
Spec ==
  /\ Init
  /\ [][Next]_vars
  /\ \A c \in Containers : WF_vars(Step(c))

-----------------------------------------------------------------------------
(***************************************************************************)
(* Properties.                                                             *)
(***************************************************************************)
\* However migrations race, fail or are killed, other sessions see none of the
\* initial schema or all of it, and the recorded version says which.
Committed ==
  CASE catalog \cap Schema = {} /\ version = "base" -> "base"
    [] Schema \subseteq catalog /\ version = "head" -> "head"
    [] OTHER -> "partial"

Version == INSTANCE SchemaVersion WITH schema <- Committed
ImplementsSchemaVersion == Version!Spec

\* No operator has taken a hand yet; one who has is never "idle" again.
NobodyDowngrades == \A o \in Operators : pc[o] = "idle"

\* No server runs on a database whose migration was lost half way, unless it was
\* downgraded under it.
ServesCompleteSchema ==
  NobodyDowngrades => \A c \in Containers : pc[c] = "serving" => Schema \subseteq catalog

\* No statement of upgrade() or downgrade() is refused for its place in the order:
\* a migration that fails was overtaken by another one.
RefusedOnlyWhenOvertaken ==
  [][\A p \in Processes :
       Refused(p) => \/ version = (IF p \in Containers THEN "head" ELSE "base")
                     \/ "alembic_version" \in catalog
                          /\ Head(todo[p]).object = "alembic_version"]_vars

\* Where nobody downgrades, containers that start together on an empty database,
\* and are killed some of the time, all serve in the end: the ones that lost the
\* race find the schema complete when they are restarted.
AllServe == []NobodyDowngrades => \A c \in Containers : <>[](pc[c] = "serving")
=============================================================================
