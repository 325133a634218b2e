--------------------------- MODULE MigrationProofs ---------------------------
(***************************************************************************)
(* Migration runs for any number of containers, operators and crashes.     *)
(***************************************************************************)
EXTENDS Migration, TLAPS

(***************************************************************************)
(* The inductive invariant.  A transaction has one fixed set of statements *)
(* from its Begin to its end, all of upgrade(), all of downgrade() or      *)
(* none, with or without the CREATE of alembic_version; each statement     *)
(* finds what it needs among the ones before it; and the catalog and the   *)
(* version row only ever change together.                                  *)
(***************************************************************************)
Statement == [op : {"create", "drop"}, object : DOMAIN Needs]

Elements(seq) == {seq[i] : i \in 1 .. Len(seq)}

Work(p) == done[p] \cup Elements(todo[p])

CreateVersion == [op |-> "create", object |-> "alembic_version"]
All(op) == {[op |-> op, object |-> o] : o \in Schema}

IsWork(W, S) == W = S \/ W = S \cup {CreateVersion}

\* What the statements of a set have created and dropped.
Creates(B) == {s.object : s \in {r \in B : r.op = "create"}}
Drops(B) == UNION {{s.object} \cup Parts(s.object) : s \in {r \in B : r.op = "drop"}}

\* Statement s can follow the statements of B: on an empty schema if it creates, on
\* a complete one if it drops.
InPlace(s, B) ==
  IF s.op = "create"
  THEN s \notin B /\ Needs[s.object] \subseteq Creates(B)
  ELSE /\ s.object \in IfExists \/ s.object \in Schema \ Drops(B)
       /\ \A o \in DOMAIN Needs : s.object \in Needs[o] => o \in Parts(s.object) \cup Drops(B)

Ordered(B, seq) ==
  \A i \in 1 .. Len(seq) : InPlace(seq[i], B \cup {seq[j] : j \in 1 .. i - 1})

TypeOK ==
  /\ version \in {"base", "head"}
  /\ catalog \subseteq DOMAIN Needs
  /\ pc \in [Processes -> {"idle", "migrating", "serving", "exited"}]
  /\ todo \in [Processes -> Seq(Statement)]
  /\ done \in [Processes -> SUBSET Statement]

\* The version row tells what of the schema is there: all or nothing.
Whole ==
  \/ version = "base" /\ catalog \cap Schema = {}
  \/ version = "head" /\ Schema \subseteq catalog

Transaction(p) ==
  /\ pc[p] # "migrating" => todo[p] = <<>> /\ done[p] = {}
  /\ \/ IsWork(Work(p), {})
     \/ p \in Containers /\ IsWork(Work(p), All("create"))
     \/ p \in Operators /\ IsWork(Work(p), All("drop"))
  /\ Ordered(done[p], todo[p])

Transactions == \A p \in Processes : Transaction(p)

\* A container that serves, or has nothing to run before it does, found the schema
\* or made it.
MayServe(c) == pc[c] = "serving" \/ (pc[c] = "migrating" /\ IsWork(Work(c), {}))
ServersAtHead == NobodyDowngrades => \A c \in Containers : MayServe(c) => version = "head"

IInv == TypeOK /\ Whole /\ Transactions /\ ServersAtHead

-----------------------------------------------------------------------------
(***************************************************************************)
(* The statements of upgrade() and of downgrade() are those of the schema. *)
(***************************************************************************)
LEMMA Names ==
  DOMAIN Needs =
    {"organizations", "users", "fk_organizations_created_by", "contests", "categories",
     "candidates", "vote_packages", "subaccounts", "transactions", "votes",
     "votes_forbid_mutation", "votes_append_only", "votes_no_truncate", "settlements",
     "alembic_version"}
  BY DEF Needs

LEMMA SchemaNames ==
  Schema =
    {"organizations", "users", "fk_organizations_created_by", "contests", "categories",
     "candidates", "vote_packages", "subaccounts", "transactions", "votes",
     "votes_forbid_mutation", "votes_append_only", "votes_no_truncate", "settlements"}
  BY Names DEF Schema

LEMMA ElementOfSeq ==
  ASSUME NEW S, NEW s \in Seq(S), NEW i \in 1 .. Len(s)
  PROVE  s[i] \in S
  OBVIOUS

LEMMA UpgradeCovers ==
  /\ Len(UpgradeOrder) = 14 /\ UpgradeOrder \in Seq(Schema)
  /\ Elements(UpgradeOrder) = Schema
  <1>1. Len(UpgradeOrder) = 14 /\ UpgradeOrder \in Seq(Schema)
    BY SchemaNames DEF UpgradeOrder
  <1>2. \A o \in Schema : \E i \in 1 .. 14 : UpgradeOrder[i] = o
    BY SchemaNames DEF UpgradeOrder
  <1>3. \A i \in 1 .. 14 : UpgradeOrder[i] \in Schema
    BY <1>1, ElementOfSeq
  <1>4. QED
    BY <1>1, <1>2, <1>3 DEF Elements

LEMMA DowngradeCovers ==
  /\ Len(DowngradeOrder) = 14 /\ DowngradeOrder \in Seq(Schema)
  /\ Elements(DowngradeOrder) = Schema
  <1>1. Len(DowngradeOrder) = 14 /\ DowngradeOrder \in Seq(Schema)
    BY SchemaNames DEF DowngradeOrder
  <1>2. \A o \in Schema : \E i \in 1 .. 14 : DowngradeOrder[i] = o
    BY SchemaNames DEF DowngradeOrder
  <1>3. \A i \in 1 .. 14 : DowngradeOrder[i] \in Schema
    BY <1>1, ElementOfSeq
  <1>4. QED
    BY <1>1, <1>2, <1>3 DEF Elements

LEMMA StatementsOf ==
  ASSUME NEW op \in {"create", "drop"}, NEW S \in SUBSET DOMAIN Needs, NEW order \in Seq(S)
  PROVE  /\ Statements(op, order) \in Seq(Statement)
         /\ Elements(Statements(op, order)) = {[op |-> op, object |-> o] : o \in Elements(order)}
  <1>1. DOMAIN order = 1 .. Len(order) /\ Len(order) \in Nat
    OBVIOUS
  <1>2. \A i \in 1 .. Len(order) : order[i] \in DOMAIN Needs
    OBVIOUS
  <1>3. \A i \in 1 .. Len(order) : [op |-> op, object |-> order[i]] \in Statement
    BY <1>2 DEF Statement
  <1>4. /\ Statements(op, order) = [i \in 1 .. Len(order) |-> [op |-> op, object |-> order[i]]]
    BY <1>1 DEF Statements
  <1>5. Statements(op, order) \in Seq(Statement) /\ Len(Statements(op, order)) = Len(order)
    BY <1>1, <1>3, <1>4
  <1>6. Elements(Statements(op, order)) =
          {[op |-> op, object |-> order[i]] : i \in 1 .. Len(order)}
    BY <1>4, <1>5 DEF Elements
  <1>7. {[op |-> op, object |-> order[i]] : i \in 1 .. Len(order)} =
          {[op |-> op, object |-> o] : o \in Elements(order)}
    BY DEF Elements
  <1>8. QED
    BY <1>5, <1>6, <1>7

LEMMA ElementsConcat ==
  ASSUME NEW s \in Seq(Statement), NEW t \in Seq(Statement)
  PROVE  Elements(s \o t) = Elements(s) \cup Elements(t)
  <1>1. Len(s \o t) = Len(s) + Len(t) /\ Len(s) \in Nat /\ Len(t) \in Nat
    OBVIOUS
  <1>2. \A i \in 1 .. Len(s) : i \in 1 .. Len(s \o t) /\ (s \o t)[i] = s[i]
    BY <1>1
  <1>3. \A i \in 1 .. Len(t) : Len(s) + i \in 1 .. Len(s \o t) /\ (s \o t)[Len(s) + i] = t[i]
    BY <1>1
  <1>4. \A i \in 1 .. Len(s \o t) :
          \/ i \in 1 .. Len(s) /\ (s \o t)[i] = s[i]
          \/ i - Len(s) \in 1 .. Len(t) /\ (s \o t)[i] = t[i - Len(s)]
    BY <1>1
  <1>5. QED
    BY <1>2, <1>3, <1>4 DEF Elements

LEMMA ElementsTail ==
  ASSUME NEW S, NEW s \in Seq(S), s # <<>>
  PROVE  /\ Tail(s) \in Seq(S) /\ Head(s) \in S
         /\ Elements(s) = {Head(s)} \cup Elements(Tail(s))
  <1>1. Len(s) \in Nat \ {0} /\ Tail(s) \in Seq(S) /\ Len(Tail(s)) = Len(s) - 1 /\ Head(s) \in S
    OBVIOUS
  <1>2. \A i \in 1 .. Len(Tail(s)) : Tail(s)[i] = s[i + 1] /\ i + 1 \in 1 .. Len(s)
    BY <1>1
  <1>3. \A i \in 1 .. Len(s) : i = 1 \/ (i - 1 \in 1 .. Len(Tail(s)) /\ Tail(s)[i - 1] = s[i])
    BY <1>1, <1>2
  <1>4. Head(s) = s[1] /\ 1 \in 1 .. Len(s)
    BY <1>1
  <1>5. Elements(s) \subseteq {s[1]} \cup Elements(Tail(s))
    BY <1>3 DEF Elements
  <1>6. {s[1]} \cup Elements(Tail(s)) \subseteq Elements(s)
    BY <1>2, <1>4 DEF Elements
  <1>7. QED
    BY <1>1, <1>4, <1>5, <1>6

LEMMA UpgradeInOrder ==
  \A i \in 1 .. 14 :
    /\ \A j \in 1 .. i - 1 : UpgradeOrder[j] # UpgradeOrder[i]
    /\ \A n \in Needs[UpgradeOrder[i]] : \E j \in 1 .. i - 1 : UpgradeOrder[j] = n
  <1>1. \A i \in 1 .. 14 : \A j \in 1 .. i - 1 : UpgradeOrder[j] # UpgradeOrder[i]
    BY DEF UpgradeOrder
  <1>2. ASSUME NEW i \in 1 .. 14
        PROVE  \A n \in Needs[UpgradeOrder[i]] : \E j \in 1 .. i - 1 : UpgradeOrder[j] = n
    BY DEF UpgradeOrder, Needs, OrganizationsReferTo, UsersReferTo,
           ContestsReferTo, CategoriesReferTo, CandidatesReferTo, VotePackagesReferTo,
           SubaccountsReferTo, TransactionsReferTo, VotesReferTo, SettlementsReferTo,
           TriggersNeed
  <1>3. QED
    BY <1>1, <1>2

LEMMA DowngradeInOrder ==
  \A i \in 1 .. 14 :
    /\ \A j \in 1 .. i - 1 : DowngradeOrder[i] \notin {DowngradeOrder[j]} \cup Parts(DowngradeOrder[j])
                             \/ DowngradeOrder[i] \in IfExists
    /\ \A o \in DOMAIN Needs :
         DowngradeOrder[i] \in Needs[o] =>
           \/ o \in Parts(DowngradeOrder[i])
           \/ \E j \in 1 .. i - 1 : DowngradeOrder[j] = o
  <1>1. \A i \in 1 .. 14 : \A j \in 1 .. i - 1 :
          \/ DowngradeOrder[i] \notin {DowngradeOrder[j]} \cup Parts(DowngradeOrder[j])
          \/ DowngradeOrder[i] \in IfExists
    BY DEF DowngradeOrder, Parts, IfExists
  <1>2. ASSUME NEW i \in 1 .. 14, NEW o \in DOMAIN Needs, DowngradeOrder[i] \in Needs[o]
        PROVE  o \in Parts(DowngradeOrder[i]) \/ \E j \in 1 .. i - 1 : DowngradeOrder[j] = o
    BY <1>2, Names DEF DowngradeOrder, Needs, Parts, OrganizationsReferTo, UsersReferTo,
           ContestsReferTo, CategoriesReferTo, CandidatesReferTo, VotePackagesReferTo,
           SubaccountsReferTo, TransactionsReferTo, VotesReferTo, SettlementsReferTo,
           TriggersNeed
  <1>3. QED
    BY <1>1, <1>2

LEMMA UpgradeOrdered == Ordered({}, Statements("create", UpgradeOrder))
  <1> DEFINE seq == Statements("create", UpgradeOrder)
  <1>1. Len(seq) = 14 /\ \A i \in 1 .. 14 : seq[i] = [op |-> "create", object |-> UpgradeOrder[i]]
    BY UpgradeCovers DEF Statements
  <1> SUFFICES ASSUME NEW i \in 1 .. 14
               PROVE  InPlace(seq[i], {seq[j] : j \in 1 .. i - 1})
    BY <1>1 DEF Ordered
  <1> DEFINE B == {seq[j] : j \in 1 .. i - 1}
  <1> HIDE DEF seq
  <1>2. \A j \in 1 .. i - 1 : j \in 1 .. 14
    OBVIOUS
  <1>3. seq[i] \notin B
    BY <1>1, <1>2, UpgradeInOrder
  <1>4. \A j \in 1 .. i - 1 : UpgradeOrder[j] \in Creates(B)
    <2> SUFFICES ASSUME NEW j \in 1 .. i - 1
                 PROVE  UpgradeOrder[j] \in Creates(B)
      OBVIOUS
    <2>1. seq[j] \in B /\ seq[j].op = "create" /\ seq[j].object = UpgradeOrder[j]
      BY <1>1, <1>2
    <2>2. QED
      BY <2>1 DEF Creates
  <1>5. Needs[UpgradeOrder[i]] \subseteq Creates(B)
    BY <1>4, UpgradeInOrder
  <1>6. QED
    BY <1>1, <1>3, <1>5 DEF InPlace

LEMMA DowngradeOrdered == Ordered({}, Statements("drop", DowngradeOrder))
  <1> DEFINE seq == Statements("drop", DowngradeOrder)
  <1>1. Len(seq) = 14 /\ \A i \in 1 .. 14 : seq[i] = [op |-> "drop", object |-> DowngradeOrder[i]]
    BY DowngradeCovers DEF Statements
  <1> SUFFICES ASSUME NEW i \in 1 .. 14
               PROVE  InPlace(seq[i], {seq[j] : j \in 1 .. i - 1})
    BY <1>1 DEF Ordered
  <1> DEFINE B == {seq[j] : j \in 1 .. i - 1}
  <1> HIDE DEF seq
  <1>2. \A j \in 1 .. i - 1 : j \in 1 .. 14
    OBVIOUS
  <1>3. \A j \in 1 .. i - 1 : DowngradeOrder[j] \in Drops(B)
    <2> SUFFICES ASSUME NEW j \in 1 .. i - 1
                 PROVE  DowngradeOrder[j] \in Drops(B)
      OBVIOUS
    <2>1. seq[j] \in B /\ seq[j].op = "drop" /\ seq[j].object = DowngradeOrder[j]
      BY <1>1, <1>2
    <2>2. QED
      BY <2>1 DEF Drops
  <1>4. ASSUME NEW o \in Drops(B)
        PROVE  \E j \in 1 .. i - 1 : o \in {DowngradeOrder[j]} \cup Parts(DowngradeOrder[j])
    <2>1. PICK r \in B : o \in {r.object} \cup Parts(r.object)
      BY <1>4 DEF Drops
    <2>2. PICK j \in 1 .. i - 1 : r = seq[j]
      BY <2>1
    <2>3. r.object = DowngradeOrder[j]
      BY <2>2, <1>1, <1>2
    <2>4. QED
      BY <2>1, <2>3
  <1>5. DowngradeOrder[i] \in IfExists \/ DowngradeOrder[i] \in Schema \ Drops(B)
    <2>1. DowngradeOrder[i] \in Schema
      BY DowngradeCovers, ElementOfSeq
    <2>2. QED
      BY <2>1, <1>4, DowngradeInOrder
  <1>6. \A o \in DOMAIN Needs :
          DowngradeOrder[i] \in Needs[o] => o \in Parts(DowngradeOrder[i]) \cup Drops(B)
    BY <1>3, DowngradeInOrder
  <1>7. seq[i].op = "drop" /\ seq[i].object = DowngradeOrder[i]
    BY <1>1
  <1>8. QED
    BY <1>5, <1>6, <1>7 DEF InPlace

LEMMA InPlaceAfterVersion ==
  ASSUME NEW B, NEW s, s # CreateVersion, InPlace(s, B)
  PROVE  InPlace(s, B \cup {CreateVersion})
  <1>1. Drops(B \cup {CreateVersion}) = Drops(B)
    BY DEF Drops, CreateVersion
  <1>2. Creates(B) \subseteq Creates(B \cup {CreateVersion})
    BY DEF Creates
  <1>3. QED
    BY <1>1, <1>2 DEF InPlace

LEMMA OrderedAfterVersion ==
  ASSUME NEW seq \in Seq(Statement), Ordered({}, seq), CreateVersion \notin Elements(seq)
  PROVE  Ordered({}, <<CreateVersion>> \o seq)
  <1> DEFINE whole == <<CreateVersion>> \o seq
  <1>1. /\ Len(seq) \in Nat /\ Len(whole) = Len(seq) + 1 /\ whole[1] = CreateVersion
        /\ \A i \in 1 .. Len(seq) : whole[i + 1] = seq[i]
    OBVIOUS
  <1> HIDE DEF whole
  <1> SUFFICES ASSUME NEW i \in 1 .. Len(whole)
               PROVE  InPlace(whole[i], {whole[j] : j \in 1 .. i - 1})
    BY DEF Ordered, whole
  <1>2. CASE i = 1
    <2>1. {whole[j] : j \in 1 .. i - 1} = {}
      BY <1>2
    <2>2. InPlace(CreateVersion, {})
      BY DEF InPlace, CreateVersion, Needs
    <2>3. QED
      BY <2>1, <2>2, <1>1, <1>2
  <1>3. CASE i # 1
    <2> DEFINE k == i - 1
    <2>1. k \in 1 .. Len(seq) /\ whole[i] = seq[k] /\ i = k + 1
      BY <1>1, <1>3
    <2> HIDE DEF k
    <2>2. \A j \in 1 .. k : j = 1 \/ (j - 1 \in 1 .. k - 1 /\ whole[j] = seq[j - 1])
      BY <2>1, <1>1
    <2>3. \A j \in 1 .. k - 1 : j + 1 \in 1 .. k /\ whole[j + 1] = seq[j]
      BY <2>1, <1>1
    <2>4. {whole[j] : j \in 1 .. k} \subseteq {seq[j] : j \in 1 .. k - 1} \cup {CreateVersion}
      BY <2>2, <1>1
    <2>5. {seq[j] : j \in 1 .. k - 1} \subseteq {whole[j] : j \in 1 .. k}
      BY <2>3
    <2>6. i - 1 = k /\ 1 \in 1 .. k
      BY <2>1
    <2>6a. CreateVersion \in {whole[j] : j \in 1 .. k}
      BY <2>6, <1>1
    <2>7. {whole[j] : j \in 1 .. i - 1} = {seq[j] : j \in 1 .. k - 1} \cup {CreateVersion}
      BY <2>4, <2>5, <2>6, <2>6a
    <2>8. InPlace(seq[k], {seq[j] : j \in 1 .. k - 1}) /\ seq[k] # CreateVersion
      BY <2>1 DEF Ordered, Elements
    <2>9. QED
      BY <2>1, <2>7, <2>8, InPlaceAfterVersion
  <1>4. QED
    BY <1>2, <1>3

LEMMA OrderedTail ==
  ASSUME NEW B, NEW S, NEW seq \in Seq(S), seq # <<>>, Ordered(B, seq)
  PROVE  InPlace(Head(seq), B) /\ Ordered(B \cup {Head(seq)}, Tail(seq))
  <1>1. /\ Len(seq) \in Nat \ {0} /\ Len(Tail(seq)) = Len(seq) - 1 /\ Head(seq) = seq[1]
        /\ \A i \in 1 .. Len(Tail(seq)) : Tail(seq)[i] = seq[i + 1]
    OBVIOUS
  <1>2. InPlace(Head(seq), B)
    <2>1. InPlace(seq[1], B \cup {seq[j] : j \in 1 .. 1 - 1})
      BY <1>1 DEF Ordered
    <2>2. {seq[j] : j \in 1 .. 1 - 1} = {}
      OBVIOUS
    <2>3. QED
      BY <2>1, <2>2, <1>1
  <1>3. ASSUME NEW i \in 1 .. Len(Tail(seq))
        PROVE  InPlace(Tail(seq)[i],
                       (B \cup {Head(seq)}) \cup {Tail(seq)[j] : j \in 1 .. i - 1})
    <2>1. i + 1 \in 1 .. Len(seq) /\ (i + 1) - 1 = i
      BY <1>1
    <2>2. InPlace(seq[i + 1], B \cup {seq[j] : j \in 1 .. i})
      BY <2>1 DEF Ordered
    <2>3. \A j \in 1 .. i - 1 : j + 1 \in 1 .. i /\ Tail(seq)[j] = seq[j + 1]
      BY <1>1
    <2>4. \A j \in 1 .. i : j = 1 \/ (j - 1 \in 1 .. i - 1 /\ Tail(seq)[j - 1] = seq[j])
      BY <1>1
    <2>5. {seq[j] : j \in 1 .. i} \subseteq {Head(seq)} \cup {Tail(seq)[j] : j \in 1 .. i - 1}
      BY <2>4, <1>1
    <2>6. {Head(seq)} \cup {Tail(seq)[j] : j \in 1 .. i - 1} \subseteq {seq[j] : j \in 1 .. i}
      BY <2>3, <1>1
    <2>7. B \cup {seq[j] : j \in 1 .. i}
            = (B \cup {Head(seq)}) \cup {Tail(seq)[j] : j \in 1 .. i - 1}
      BY <2>5, <2>6
    <2>8. QED
      BY <2>2, <2>7, <1>1
  <1>4. QED
    BY <1>2, <1>3 DEF Ordered

LEMMA WithVersion ==
  ASSUME NEW post \in Seq(Statement), Ordered({}, post), CreateVersion \notin Elements(post),
         NEW pre \in {<<>>, <<CreateVersion>>}
  PROVE  /\ pre \o post \in Seq(Statement)
         /\ Ordered({}, pre \o post)
         /\ IsWork(Elements(pre \o post), Elements(post))
  <1>1. CASE pre = <<>>
    <2>1. pre \o post = post
      BY <1>1
    <2>2. QED
      BY <2>1 DEF IsWork
  <1>2. CASE pre = <<CreateVersion>>
    <2>1. CreateVersion \in Statement
      BY Names DEF CreateVersion, Statement
    <2>2. <<CreateVersion>> \in Seq(Statement) /\ pre \o post \in Seq(Statement)
      BY <2>1, <1>2
    <2>3. Elements(<<CreateVersion>>) = {CreateVersion}
      BY DEF Elements
    <2>4. Elements(pre \o post) = Elements(pre) \cup Elements(post)
      <3>1. pre \in Seq(Statement)
        BY <2>2, <1>2
      <3>2. QED
        BY <3>1, ElementsConcat
    <2>5. Ordered({}, pre \o post)
      BY <1>2, OrderedAfterVersion
    <2>6. QED
      BY <2>2, <2>3, <2>4, <2>5, <1>2 DEF IsWork
  <1>3. QED
    BY <1>1, <1>2

\* What a whole set of statements does to the schema.
LEMMA Outcome ==
  ASSUME NEW W
  PROVE  /\ IsWork(W, {}) => /\ Creates(W) \subseteq {"alembic_version"}
                             /\ Drops(W) = {}
         /\ IsWork(W, All("create")) => /\ Schema \subseteq Creates(W)
                                        /\ Creates(W) \subseteq DOMAIN Needs
                                        /\ Drops(W) = {}
         /\ IsWork(W, All("drop")) => /\ Creates(W) \subseteq {"alembic_version"}
                                      /\ Drops(W) = Schema
  <1>1. ASSUME IsWork(W, {})
        PROVE  Creates(W) \subseteq {"alembic_version"} /\ Drops(W) = {}
    BY <1>1 DEF IsWork, CreateVersion, Creates, Drops
  <1>2. ASSUME IsWork(W, All("create"))
        PROVE  /\ Schema \subseteq Creates(W)
               /\ Creates(W) \subseteq DOMAIN Needs
               /\ Drops(W) = {}
    <2>1. \A o \in Schema : \E s \in W : s.op = "create" /\ s.object = o
      <3>1. \A o \in Schema : [op |-> "create", object |-> o] \in W
        BY <1>2 DEF IsWork, All
      <3>2. QED
        BY <3>1
    <2>2. \A s \in W : s.op = "create" /\ s.object \in DOMAIN Needs
      BY <1>2, Names DEF IsWork, All, CreateVersion, Schema
    <2>3. Schema \subseteq Creates(W)
      BY <2>1 DEF Creates
    <2>4. Creates(W) \subseteq DOMAIN Needs /\ Drops(W) = {}
      BY <2>2 DEF Creates, Drops
    <2>5. QED
      BY <2>3, <2>4
  <1>3. ASSUME IsWork(W, All("drop"))
        PROVE  Creates(W) \subseteq {"alembic_version"} /\ Drops(W) = Schema
    <2>1. \A o \in Schema : \E s \in W : s.op = "drop" /\ s.object = o
      <3>1. \A o \in Schema : [op |-> "drop", object |-> o] \in W
        BY <1>3 DEF IsWork, All
      <3>2. QED
        BY <3>1
    <2>2. \A s \in W : \/ s.op = "create" /\ s.object = "alembic_version"
                       \/ s.op = "drop" /\ s.object \in Schema
      BY <1>3 DEF IsWork, All, CreateVersion
    <2>3. \A o \in Schema : Parts(o) \subseteq Schema
      BY SchemaNames DEF Parts
    <2>4. Schema \subseteq Drops(W)
      BY <2>1 DEF Drops
    <2>5. Drops(W) \subseteq Schema
      BY <2>2, <2>3 DEF Drops
    <2>6. Creates(W) \subseteq {"alembic_version"}
      BY <2>2 DEF Creates
    <2>7. QED
      BY <2>4, <2>5, <2>6
  <1>4. QED
    BY <1>1, <1>2, <1>3

-----------------------------------------------------------------------------
(***************************************************************************)
(* The actions keep the invariant.                                         *)
(***************************************************************************)
LEMMA Initially == Init => IInv
  <1> SUFFICES ASSUME Init PROVE IInv
    OBVIOUS
  <1> USE DEF Init
  <1>1. <<>> \in Seq(Statement) /\ Elements(<<>>) = {} /\ \A B : Ordered(B, <<>>)
    BY DEF Elements, Ordered
  <1>2. TypeOK
    BY <1>1 DEF TypeOK
  <1>3. Whole
    BY DEF Whole
  <1>4. Transactions
    BY <1>1 DEF Transactions, Transaction, Work, IsWork
  <1>5. ServersAtHead
    BY DEF ServersAtHead, MayServe, Processes
  <1>6. QED
    BY <1>2, <1>3, <1>4, <1>5 DEF IInv

\* A process of which nothing has changed.
LEMMA Untouched ==
  ASSUME NEW q \in Processes, Transaction(q),
         pc'[q] = pc[q], todo'[q] = todo[q], done'[q] = done[q]
  PROVE  Transaction(q)' /\ (MayServe(q)' <=> MayServe(q))
  BY DEF Transaction, Work, MayServe

\* A process whose transaction is over.
LEMMA Over ==
  ASSUME NEW q \in Processes, todo'[q] = <<>>, done'[q] = {}
  PROVE  Transaction(q)'
  <1>1. Elements(<<>>) = {} /\ Ordered({}, <<>>)
    BY DEF Elements, Ordered
  <1>2. QED
    BY <1>1 DEF Transaction, Work, IsWork

\* The statements a process sets out with.
LEMMA BeginWork ==
  ASSUME NEW p \in Processes, IInv, Begin(p)
  PROVE  /\ todo'[p] \in Seq(Statement) /\ Ordered({}, todo'[p])
         /\ \/ /\ IsWork(Elements(todo'[p]), {})
               /\ p \in Containers => version = "head"
            \/ p \in Containers /\ IsWork(Elements(todo'[p]), All("create"))
            \/ p \in Operators /\ IsWork(Elements(todo'[p]), All("drop"))
  <1> DEFINE pre == IF "alembic_version" \in catalog
                    THEN <<>> ELSE Statements("create", <<"alembic_version">>)
             post == CASE p \in Containers /\ version = "base" -> Statements("create", UpgradeOrder)
                       [] p \in Operators /\ version = "head" -> Statements("drop", DowngradeOrder)
                       [] OTHER -> <<>>
  <1>1. todo'[p] = pre \o post
    BY DEF Begin, IInv, TypeOK
  <1>2. pre \in {<<>>, <<CreateVersion>>}
    <2>1. Statements("create", <<"alembic_version">>) = <<CreateVersion>>
      BY DEF Statements, CreateVersion
    <2>2. QED
      BY <2>1
  <1>3. Schema \in SUBSET DOMAIN Needs
    BY DEF Schema
  <1>4. ASSUME NEW op \in {"create", "drop"}, NEW seq \in Seq(Statement),
               Elements(seq) = All(op)
        PROVE  CreateVersion \notin Elements(seq)
    BY <1>4 DEF All, CreateVersion, Schema
  <1>5. /\ post \in Seq(Statement) /\ Ordered({}, post) /\ CreateVersion \notin Elements(post)
        /\ \/ Elements(post) = {} /\ (p \in Containers => version = "head")
           \/ p \in Containers /\ Elements(post) = All("create")
           \/ p \in Operators /\ Elements(post) = All("drop")
    <2>1. CASE p \in Containers /\ version = "base"
      <3>1. post = Statements("create", UpgradeOrder)
        BY <2>1
      <3>2. /\ Statements("create", UpgradeOrder) \in Seq(Statement)
            /\ Elements(Statements("create", UpgradeOrder)) = All("create")
        BY <1>3, UpgradeCovers, StatementsOf DEF All
      <3>3. CreateVersion \notin Elements(Statements("create", UpgradeOrder))
        BY <3>2, <1>4
      <3>4. QED
        BY <3>1, <3>2, <3>3, <2>1, UpgradeOrdered
    <2>2. CASE p \in Operators /\ version = "head"
      <3>1. post = Statements("drop", DowngradeOrder)
        BY <2>2, MigrationAssumption
      <3>2. /\ Statements("drop", DowngradeOrder) \in Seq(Statement)
            /\ Elements(Statements("drop", DowngradeOrder)) = All("drop")
        BY <1>3, DowngradeCovers, StatementsOf DEF All
      <3>3. CreateVersion \notin Elements(Statements("drop", DowngradeOrder))
        BY <3>2, <1>4
      <3>4. QED
        BY <3>1, <3>2, <3>3, <2>2, DowngradeOrdered
    <2>3. CASE ~(p \in Containers /\ version = "base") /\ ~(p \in Operators /\ version = "head")
      <3>1. post = <<>>
        BY <2>3
      <3>2. <<>> \in Seq(Statement) /\ Elements(<<>>) = {} /\ Ordered({}, <<>>)
        BY DEF Elements, Ordered
      <3>3. p \in Containers => version = "head"
        BY <2>3 DEF IInv, TypeOK
      <3>4. QED
        BY <3>1, <3>2, <3>3
    <2>4. QED
      BY <2>1, <2>2, <2>3
  <1> HIDE DEF pre, post
  <1>6. /\ pre \o post \in Seq(Statement) /\ Ordered({}, pre \o post)
        /\ IsWork(Elements(pre \o post), Elements(post))
    BY <1>2, <1>5, WithVersion
  <1>7. QED
    BY <1>1, <1>5, <1>6

LEMMA BeginKeeps ==
  ASSUME NEW p \in Processes, IInv, Begin(p)
  PROVE  IInv'
  <1> USE DEF IInv
  <1>1. pc' = [pc EXCEPT ![p] = "migrating"] /\ UNCHANGED <<catalog, version, done>>
    BY DEF Begin
  <1>2. \A q \in Processes \ {p} : todo'[q] = todo[q] /\ pc'[q] = pc[q] /\ done'[q] = done[q]
    BY <1>1 DEF Begin, TypeOK
  <1>3. done'[p] = {} /\ pc'[p] = "migrating"
    BY <1>1 DEF Begin, TypeOK, Transactions, Transaction
  <1>4. TypeOK'
    BY <1>1, <1>2, BeginWork DEF Begin, TypeOK
  <1>5. Whole'
    BY <1>1 DEF Whole
  <1>6. Transaction(p)'
    <2>1. Work(p)' = Elements(todo'[p])
      BY <1>3 DEF Work
    <2>2. QED
      BY <1>3, <2>1, BeginWork DEF Transaction
  <1>7. Transactions'
    BY <1>2, <1>6, Untouched DEF Transactions
  <1>8. ServersAtHead'
    <2> SUFFICES ASSUME NobodyDowngrades', NEW c \in Containers, MayServe(c)'
                 PROVE  version' = "head"
      BY DEF ServersAtHead
    <2>1. p \in Containers
      BY <1>3 DEF NobodyDowngrades, Processes
    <2>2. NobodyDowngrades
      BY <1>2, <2>1, MigrationAssumption DEF NobodyDowngrades, Processes
    <2>3. CASE c # p
      BY <1>1, <1>2, <2>2, <2>3, Untouched DEF ServersAtHead, Transactions, Processes
    <2>4. CASE c = p
      <3>1. IsWork(Elements(todo'[p]), {})
        BY <1>3, <2>4 DEF MayServe, Work
      <3>2. ~IsWork(Elements(todo'[p]), All("create"))
        BY <3>1, Outcome, SchemaNames
      <3>3. version = "head"
        BY <3>1, <3>2, <2>1, BeginWork, MigrationAssumption
      <3>4. QED
        BY <3>3, <1>1
    <2>5. QED
      BY <2>3, <2>4
  <1>9. QED
    BY <1>4, <1>5, <1>7, <1>8

LEMMA ExecuteKeeps ==
  ASSUME NEW p \in Processes, IInv, Execute(p)
  PROVE  IInv'
  <1> USE DEF IInv
  <1>1. /\ todo[p] # <<>> /\ todo[p] \in Seq(Statement) /\ pc[p] = "migrating"
        /\ done' = [done EXCEPT ![p] = @ \cup {Head(todo[p])}]
        /\ todo' = [todo EXCEPT ![p] = Tail(@)]
        /\ UNCHANGED <<catalog, version, pc>>
    BY DEF Execute, TypeOK
  <1>2. /\ Tail(todo[p]) \in Seq(Statement) /\ Head(todo[p]) \in Statement
        /\ Elements(todo[p]) = {Head(todo[p])} \cup Elements(Tail(todo[p]))
    BY <1>1, ElementsTail
  <1>3. \A q \in Processes \ {p} : todo'[q] = todo[q] /\ pc'[q] = pc[q] /\ done'[q] = done[q]
    BY <1>1 DEF TypeOK
  <1>4. todo'[p] = Tail(todo[p]) /\ done'[p] = done[p] \cup {Head(todo[p])} /\ pc'[p] = pc[p]
    BY <1>1 DEF TypeOK
  <1>5. Work(p)' = Work(p)
    BY <1>2, <1>4 DEF Work
  <1>6. TypeOK'
    BY <1>1, <1>2 DEF TypeOK
  <1>7. Ordered(done'[p], todo'[p])
    BY <1>1, <1>4, OrderedTail DEF Transactions, Transaction
  <1>8. Transaction(p)'
    BY <1>1, <1>4, <1>5, <1>7 DEF Transactions, Transaction
  <1>9. Transactions'
    BY <1>3, <1>8, Untouched DEF Transactions
  <1>10. \A q \in Processes : MayServe(q)' <=> MayServe(q)
    BY <1>3, <1>4, <1>5, Untouched DEF Transactions, MayServe
  <1>11. Whole' /\ ServersAtHead'
    BY <1>1, <1>10 DEF Whole, ServersAtHead, NobodyDowngrades, Processes
  <1>12. QED
    BY <1>6, <1>9, <1>11

\* Refused and Crash: nothing of the transaction is left.
LEMMA RollbackKeeps ==
  ASSUME NEW p \in Processes, IInv, Refused(p) \/ Crash(p)
  PROVE  IInv'
  <1> USE DEF IInv
  <1>1. /\ pc' = [pc EXCEPT ![p] = "exited"] /\ UNCHANGED <<catalog, version>>
        /\ todo' = [todo EXCEPT ![p] = <<>>] /\ done' = [done EXCEPT ![p] = {}]
    BY DEF Refused, Crash, Ends
  <1>2. \A q \in Processes \ {p} : todo'[q] = todo[q] /\ pc'[q] = pc[q] /\ done'[q] = done[q]
    BY <1>1 DEF TypeOK
  <1>3. todo'[p] = <<>> /\ done'[p] = {} /\ pc'[p] = "exited"
    BY <1>1 DEF TypeOK
  <1>4. TypeOK'
    <2>1. <<>> \in Seq(Statement)
      OBVIOUS
    <2>2. QED
      BY <1>1, <2>1 DEF TypeOK
  <1>5. Whole'
    BY <1>1 DEF Whole
  <1>6. Transactions'
    BY <1>2, <1>3, Untouched, Over DEF Transactions
  <1>7. ServersAtHead'
    <2> SUFFICES ASSUME NobodyDowngrades', NEW c \in Containers, MayServe(c)'
                 PROVE  version' = "head"
      BY DEF ServersAtHead
    <2>1. p \in Containers
      BY <1>3 DEF NobodyDowngrades, Processes
    <2>2. NobodyDowngrades
      BY <1>2, <2>1, MigrationAssumption DEF NobodyDowngrades, Processes
    <2>3. c # p
      BY <1>3 DEF MayServe
    <2>4. QED
      BY <1>1, <1>2, <2>2, <2>3, Untouched DEF ServersAtHead, Transactions, Processes
  <1>8. QED
    BY <1>4, <1>5, <1>6, <1>7

LEMMA RestartKeeps ==
  ASSUME NEW p \in Processes, IInv, Restart(p)
  PROVE  IInv'
  <1> USE DEF IInv
  <1>1. /\ p \in Containers /\ pc[p] = "exited" /\ pc' = [pc EXCEPT ![p] = "idle"]
        /\ UNCHANGED <<catalog, version, todo, done>>
    BY DEF Restart
  <1>2. \A q \in Processes \ {p} : todo'[q] = todo[q] /\ pc'[q] = pc[q] /\ done'[q] = done[q]
    BY <1>1 DEF TypeOK
  <1>3. todo'[p] = <<>> /\ done'[p] = {} /\ pc'[p] = "idle"
    BY <1>1 DEF TypeOK, Transactions, Transaction
  <1>4. TypeOK' /\ Whole'
    BY <1>1 DEF TypeOK, Whole
  <1>5. Transactions'
    BY <1>2, <1>3, Untouched, Over DEF Transactions
  <1>6. ServersAtHead'
    <2> SUFFICES ASSUME NobodyDowngrades', NEW c \in Containers, MayServe(c)'
                 PROVE  version' = "head"
      BY DEF ServersAtHead
    <2>1. NobodyDowngrades
      BY <1>1, <1>2, MigrationAssumption DEF NobodyDowngrades, Processes
    <2>2. c # p
      BY <1>3 DEF MayServe
    <2>3. QED
      BY <1>1, <1>2, <2>1, <2>2, Untouched DEF ServersAtHead, Transactions, Processes
  <1>7. QED
    BY <1>4, <1>5, <1>6

\* The three things a commit can do.
LEMMA CommitOutcome ==
  ASSUME NEW p \in Processes, IInv, Commit(p)
  PROVE  \/ /\ catalog' \cap Schema = catalog \cap Schema /\ version' = version
            /\ IsWork(Work(p), {})
         \/ p \in Containers /\ Schema \subseteq catalog' /\ version' = "head"
         \/ p \in Operators /\ catalog' \cap Schema = {} /\ version' = "base"
  <1>1. Created(p) = Creates(done[p]) /\ Dropped(p) = Drops(done[p])
    BY DEF Created, Dropped, Creates, Drops
  <1>2. Work(p) = done[p]
    <2>1. Elements(<<>>) = {}
      BY DEF Elements
    <2>2. QED
      BY <2>1 DEF Commit, Work
  <1>3. /\ catalog' = (catalog \cup Created(p)) \ Dropped(p)
        /\ version' = IF Created(p) \cap Schema # {} THEN "head"
                      ELSE IF Dropped(p) # {} THEN "base" ELSE version
    BY DEF Commit, Visible
  <1>4. Schema # {} /\ "alembic_version" \notin Schema
    BY SchemaNames
  <1>5. CASE IsWork(done[p], {})
    BY <1>1, <1>2, <1>3, <1>4, <1>5, Outcome
  <1>6. CASE p \in Containers /\ IsWork(done[p], All("create"))
    BY <1>1, <1>3, <1>4, <1>6, Outcome
  <1>7. CASE p \in Operators /\ IsWork(done[p], All("drop"))
    BY <1>1, <1>3, <1>4, <1>7, Outcome
  <1>8. QED
    BY <1>2, <1>5, <1>6, <1>7 DEF IInv, Transactions, Transaction

LEMMA CommitKeeps ==
  ASSUME NEW p \in Processes, IInv, Commit(p)
  PROVE  IInv'
  <1> USE DEF IInv
  <1>1. /\ pc[p] = "migrating"
        /\ pc' = [pc EXCEPT ![p] = IF p \in Containers THEN "serving" ELSE "exited"]
        /\ todo' = [todo EXCEPT ![p] = <<>>] /\ done' = [done EXCEPT ![p] = {}]
    BY DEF Commit, Ends
  <1>2. \A q \in Processes \ {p} : todo'[q] = todo[q] /\ pc'[q] = pc[q] /\ done'[q] = done[q]
    BY <1>1 DEF TypeOK
  <1>3. todo'[p] = <<>> /\ done'[p] = {} /\ pc'[p] \in {"serving", "exited"}
    BY <1>1 DEF TypeOK
  <1>4. TypeOK'
    <2>1. catalog' \subseteq DOMAIN Needs
      <3>1. Created(p) \subseteq DOMAIN Needs
        BY DEF Created, TypeOK, Statement
      <3>2. QED
        BY <3>1 DEF Commit, Visible, TypeOK
    <2>2. <<>> \in Seq(Statement)
      OBVIOUS
    <2>3. version' \in {"base", "head"}
      BY CommitOutcome DEF TypeOK
    <2>4. QED
      BY <1>1, <2>1, <2>2, <2>3 DEF TypeOK
  <1>5. Whole'
    BY CommitOutcome DEF Whole
  <1>6. Transactions'
    BY <1>2, <1>3, Untouched, Over DEF Transactions
  <1>7. ServersAtHead'
    <2> SUFFICES ASSUME NobodyDowngrades', NEW c \in Containers, MayServe(c)'
                 PROVE  version' = "head"
      BY DEF ServersAtHead
    <2>1. p \in Containers /\ p \notin Operators
      BY <1>3, MigrationAssumption DEF NobodyDowngrades, Processes
    <2>2. NobodyDowngrades
      BY <1>2, <2>1 DEF NobodyDowngrades, Processes
    <2>3. CASE version' = "head"
      BY <2>3
    <2>4. CASE version' = version /\ IsWork(Work(p), {})
      <3>1. MayServe(p)
        BY <1>1, <2>4 DEF MayServe
      <3>2. QED
        BY <3>1, <2>1, <2>2, <2>4 DEF ServersAtHead
    <2>5. QED
      BY <2>1, <2>3, <2>4, CommitOutcome
  <1>8. QED
    BY <1>4, <1>5, <1>6, <1>7

LEMMA StutterKeeps ==
  ASSUME IInv, UNCHANGED vars
  PROVE  IInv'
  <1> USE DEF IInv, vars
  <1>1. TypeOK' /\ Whole'
    BY DEF TypeOK, Whole
  <1>2. Transactions' /\ \A q \in Processes : MayServe(q)' <=> MayServe(q)
    BY Untouched DEF Transactions
  <1>3. ServersAtHead'
    BY <1>2 DEF ServersAtHead, NobodyDowngrades, Processes
  <1>4. QED
    BY <1>1, <1>2, <1>3

LEMMA NextKeeps == IInv /\ [Next]_vars => IInv'
  <1> SUFFICES ASSUME IInv, [Next]_vars PROVE IInv'
    OBVIOUS
  <1>1. CASE UNCHANGED vars
    BY <1>1, StutterKeeps
  <1>2. ASSUME NEW p \in Processes, Step(p) \/ Crash(p)
        PROVE  IInv'
    BY <1>2, BeginKeeps, ExecuteKeeps, RollbackKeeps, CommitKeeps, RestartKeeps DEF Step
  <1>3. QED
    BY <1>1, <1>2 DEF Next

-----------------------------------------------------------------------------
(***************************************************************************)
(* The theorems.                                                           *)
(***************************************************************************)
\* Every transaction runs the statements of one whole migration in an order that
\* suits them, and the catalog agrees with the version row, however many
\* containers and operators run alembic and however often they are killed.
THEOREM Invariance == Spec => []IInv
  BY Initially, NextKeeps, PTL DEF Spec

\* No server runs on a database whose migration was lost half way, unless it was
\* downgraded under it.
THEOREM ServesWholeSchema == Spec => []ServesCompleteSchema
  <1>1. IInv => ServesCompleteSchema
    BY DEF IInv, Whole, ServersAtHead, MayServe, ServesCompleteSchema
  <1>2. QED
    BY <1>1, Invariance, PTL

\* The two values the mapping takes.
LEMMA Mapping ==
  ASSUME Whole
  PROVE  Committed = version
  <1>1. Schema # {}
    BY SchemaNames
  <1>2. QED
    BY <1>1 DEF Whole, Committed

\* Other sessions see none of the initial schema or all of it: migrations that race,
\* fail or are killed implement SchemaVersion.
THEOREM ImplementsVersion == Spec => ImplementsSchemaVersion
  <1>1. Init => Version!Init
    BY Initially, Mapping DEF IInv, Init, Version!Init
  <1>2. IInv /\ IInv' /\ [Next]_vars => [Version!Next]_Committed
    <2> SUFFICES ASSUME IInv, IInv', [Next]_vars
                 PROVE  [Version!Next]_Committed
      OBVIOUS
    <2>1. Committed = version /\ version \in {"base", "head"}
      BY Mapping DEF IInv, TypeOK
    <2>2. Committed' = version' /\ version' \in {"base", "head"}
      <3>1. Schema # {} /\ Whole'
        BY SchemaNames DEF IInv
      <3>2. QED
        BY <3>1 DEF Whole, Committed
    <2>3. QED
      BY <2>1, <2>2 DEF Version!Next, Version!Upgrade, Version!Downgrade
  <1>3. QED
    BY <1>1, <1>2, Invariance, PTL DEF Spec, ImplementsSchemaVersion, Version!Spec

\* No statement of upgrade() or downgrade() is refused for its place in the order:
\* a migration that fails was overtaken by another one.
THEOREM RefusedByARace == Spec => RefusedOnlyWhenOvertaken
  <1> DEFINE Overtaken(p) ==
        \/ version = (IF p \in Containers THEN "head" ELSE "base")
        \/ "alembic_version" \in catalog /\ Head(todo[p]).object = "alembic_version"
  <1>1. ASSUME IInv, NEW p \in Processes, Refused(p), ~Overtaken(p)
        PROVE  FALSE
    <2> DEFINE s == Head(todo[p])
    <2>1. todo[p] # <<>> /\ todo[p] \in Seq(Statement) /\ ~Accepted(p, s)
      BY <1>1 DEF Refused, IInv, TypeOK
    <2>2. s \in Statement /\ s \in Work(p)
      BY <2>1, ElementsTail DEF Work
    <2>3. InPlace(s, done[p])
      BY <1>1, <2>1, OrderedTail DEF IInv, Transactions, Transaction
    <2>4. /\ Created(p) = Creates(done[p]) /\ Dropped(p) = Drops(done[p])
          /\ done[p] \subseteq Statement /\ done[p] \subseteq Work(p)
      BY <1>1 DEF Created, Dropped, Creates, Drops, IInv, TypeOK, Work
    <2> HIDE DEF s
    <2>5. CASE s.op = "create"
      <3>1. s.object \notin Created(p)
        BY <2>2, <2>3, <2>4, <2>5 DEF InPlace, Creates, Statement
      <3>2. Needs[s.object] \subseteq Created(p)
        BY <2>3, <2>4, <2>5 DEF InPlace
      <3>3. s.object \in catalog \/ Needs[s.object] \cap Dropped(p) # {}
        BY <2>1, <2>5, <3>1, <3>2 DEF Accepted, Visible
      <3>4. CASE s = CreateVersion
        BY <1>1, <3>3, <3>4 DEF CreateVersion, Needs, s
      <3>5. CASE s # CreateVersion
        <4>1. p \in Containers /\ IsWork(Work(p), All("create")) /\ s.object \in Schema
          BY <1>1, <2>2, <2>5, <3>5 DEF IInv, Transactions, Transaction, IsWork, All
        <4>2. Dropped(p) = {}
          <5>1. \A r \in done[p] : r.op = "create"
            BY <4>1, <2>4 DEF IsWork, All, CreateVersion
          <5>2. QED
            BY <5>1 DEF Dropped
        <4>3. catalog \cap Schema = {}
          BY <1>1, <4>1 DEF IInv, Whole
        <4>4. QED
          BY <3>3, <4>1, <4>2, <4>3
      <3>6. QED
        BY <3>4, <3>5
    <2>6. CASE s.op = "drop"
      <3>1. p \in Operators /\ p \notin Containers /\ s.object \in Schema
        BY <1>1, <2>2, <2>6, MigrationAssumption
        DEF IInv, Transactions, Transaction, IsWork, All, CreateVersion
      <3>2. Schema \subseteq catalog
        BY <1>1, <3>1 DEF IInv, Whole
      <3>3. s.object \in Visible(p) \cup IfExists
        BY <2>3, <2>4, <2>6, <3>2 DEF InPlace, Visible
      <3>4. Visible(p) \subseteq DOMAIN Needs /\ Visible(p) \cap Dropped(p) = {}
        BY <1>1, <2>4 DEF Visible, IInv, TypeOK, Creates, Statement
      <3>5. \A o \in Visible(p) : s.object \in Needs[o] => o \in Parts(s.object)
        BY <2>3, <2>4, <2>6, <3>4 DEF InPlace
      <3>6. QED
        BY <2>1, <2>6, <3>3, <3>5 DEF Accepted
    <2>7. QED
      BY <2>2, <2>5, <2>6 DEF Statement
  <1>2. IInv => [\A p \in Processes : Refused(p) => Overtaken(p)]_vars
    BY <1>1
  <1>3. QED
    BY <1>2, Invariance, PTL DEF RefusedOnlyWhenOvertaken

=============================================================================
