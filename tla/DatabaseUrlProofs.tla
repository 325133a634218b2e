-------------------------- MODULE DatabaseUrlProofs --------------------------
(***************************************************************************)
(* The database URL for queries of any length and any environment.  The    *)
(* loop over the query is a recursive function; that a non-empty set of    *)
(* naturals has a least element takes the place of an induction rule.      *)
(***************************************************************************)
EXTENDS DatabaseUrl, FiniteSetTheorems, TLAPS

LessThan == {ss \in Nat \X Nat : ss[1] < ss[2]}

\* A non-empty set of naturals has a least element.
LEMMA LeastNat ==
  ASSUME NEW T \in SUBSET Nat, T # {}
  PROVE  \E x \in T : \A y \in T : x <= y
  <1>1. IsWellFoundedOn(LessThan, Nat)
    BY NatLessThanWellFounded, Zenon DEF OpToRel, LessThan
  <1>2. PICK x \in T : \A y \in T : ~(<<y, x>> \in LessThan)
    BY <1>1, WFMin, Zenon
  <1>3. \A y \in T : ~(y < x)
    BY <1>2 DEF LessThan
  <1>4. QED
    BY <1>3

-----------------------------------------------------------------------------
(***************************************************************************)
(* The loop of build_async_url().                                          *)
(***************************************************************************)
NoPairs == [ssl_modes |-> <<>>, retained_params |-> <<>>]

\* The first n turns of the loop.
IsTable(pairs, n, g) ==
  /\ g = [i \in 0 .. n |-> g[i]]
  /\ g[0] = NoPairs
  /\ \A i \in 1 .. n : g[i] = AddPair(g[i - 1], pairs[i])

LEMMA TableExists ==
  ASSUME NEW pairs
  PROVE  \A n \in Nat : \E g : IsTable(pairs, n, g)
  <1> DEFINE T == {n \in Nat : ~ \E g : IsTable(pairs, n, g)}
  <1> SUFFICES ASSUME T # {} PROVE FALSE
    OBVIOUS
  <1>1. PICK n \in T : \A m \in T : n <= m
    BY LeastNat
  <1>2. CASE n = 0
    <2>1. IsTable(pairs, 0, [i \in 0 .. 0 |-> NoPairs])
      BY DEF IsTable
    <2>2. QED
      BY <1>2, <2>1
  <1>3. CASE n # 0
    <2>1. n - 1 \in Nat /\ n - 1 \notin T
      BY <1>1, <1>3
    <2>2. PICK g : IsTable(pairs, n - 1, g)
      BY <2>1
    <2> DEFINE h == [i \in 0 .. n |-> IF i = n THEN AddPair(g[n - 1], pairs[n]) ELSE g[i]]
    <2>3. h = [i \in 0 .. n |-> h[i]] /\ h[0] = NoPairs
      BY <1>3, <2>1, <2>2 DEF IsTable
    <2>4. ASSUME NEW i \in 1 .. n
          PROVE  h[i] = AddPair(h[i - 1], pairs[i])
      <3>1. i \in 0 .. n /\ i - 1 \in 0 .. n /\ i - 1 # n
        BY <1>1
      <3>2. h[i - 1] = g[i - 1]
        BY <3>1
      <3>3. CASE i = n
        BY <3>1, <3>2, <3>3
      <3>4. CASE i # n
        <4>1. i \in 1 .. n - 1
          BY <3>4, <1>1
        <4>2. h[i] = g[i]
          BY <3>1, <3>4
        <4>3. g[i] = AddPair(g[i - 1], pairs[i])
          BY <4>1, <2>2 DEF IsTable
        <4>4. QED
          BY <3>2, <4>2, <4>3
      <3>5. QED
        BY <3>3, <3>4
    <2> HIDE DEF h
    <2>5. IsTable(pairs, n, h)
      BY <2>3, <2>4 DEF IsTable
    <2>6. QED
      BY <2>5
  <1>4. QED
    BY <1>2, <1>3

\* The equation that defines the loop has a solution, so Lists satisfies it.
LEMMA ListsDef ==
  ASSUME NEW pairs, Len(pairs) \in Nat
  PROVE  /\ Lists(pairs)[0] = NoPairs
         /\ \A n \in 1 .. Len(pairs) :
              Lists(pairs)[n] = AddPair(Lists(pairs)[n - 1], pairs[n])
  <1> DEFINE Eq(f) == f = [n \in 0 .. Len(pairs) |->
                             IF n = 0 THEN [ssl_modes |-> <<>>, retained_params |-> <<>>]
                                      ELSE AddPair(f[n - 1], pairs[n])]
  <1>1. PICK g : IsTable(pairs, Len(pairs), g)
    BY TableExists
  <1>2. \A n \in 0 .. Len(pairs) :
          g[n] = IF n = 0 THEN [ssl_modes |-> <<>>, retained_params |-> <<>>]
                          ELSE AddPair(g[n - 1], pairs[n])
    <2>1. g[0] = [ssl_modes |-> <<>>, retained_params |-> <<>>]
      BY <1>1 DEF IsTable, NoPairs
    <2>2. \A n \in 1 .. Len(pairs) : g[n] = AddPair(g[n - 1], pairs[n])
      BY <1>1 DEF IsTable
    <2>3. \A n \in 0 .. Len(pairs) : n = 0 \/ n \in 1 .. Len(pairs)
      OBVIOUS
    <2>4. QED
      BY <2>1, <2>2, <2>3, Zenon
  <1>3. g = [n \in 0 .. Len(pairs) |-> g[n]]
    BY <1>1 DEF IsTable
  <1>4. Eq(g)
    BY <1>2, <1>3, Zenon
  <1>5. Lists(pairs) = CHOOSE f : Eq(f)
    BY Zenon DEF Lists
  <1>6. Eq(Lists(pairs))
    BY <1>4, <1>5, Zenon
  <1>7. QED
    BY <1>6 DEF NoPairs

-----------------------------------------------------------------------------
(***************************************************************************)
(* What a list that is built by appending holds: the items at the          *)
(* positions K, in their order.                                            *)
(***************************************************************************)
Rank(K, i) == Cardinality({j \in K : j <= i})

IsSelection(list, K, item, V) ==
  /\ list \in Seq(V)
  /\ Len(list) = Cardinality(K)
  /\ \A i \in K : list[Rank(K, i)] = item[i]

LEMMA Ranks ==
  ASSUME NEW n \in Nat, NEW K \in SUBSET (1 .. n)
  PROVE  /\ IsFiniteSet(K) /\ Cardinality(K) \in Nat
         /\ \A i \in K : Rank(K, i) \in 1 .. Cardinality(K)
  <1>1. IsFiniteSet(K)
    <2>1. IsFiniteSet(1 .. n)
      BY FS_Interval
    <2>2. K \subseteq 1 .. n
      OBVIOUS
    <2>3. QED
      BY <2>1, <2>2, FS_Subset
  <1>2. Cardinality(K) \in Nat
    BY <1>1, FS_CardinalityType
  <1>3. ASSUME NEW i \in K
        PROVE  Rank(K, i) \in 1 .. Cardinality(K)
    <2> DEFINE L == {j \in K : j <= i}
    <2>1. L \subseteq K /\ i \in L
      OBVIOUS
    <2>2. IsFiniteSet(L) /\ Cardinality(L) <= Cardinality(K) /\ Cardinality(L) \in Nat
      BY <1>1, <2>1, FS_Subset, FS_CardinalityType
    <2>3. Cardinality(L) # 0
      BY <2>1, <2>2, FS_EmptySet
    <2>4. QED
      BY <1>2, <2>2, <2>3 DEF Rank
  <1>4. QED
    BY <1>1, <1>2, <1>3

LEMMA EmptySelection ==
  ASSUME NEW item, NEW V
  PROVE  IsSelection(<<>>, {}, item, V)
  BY FS_EmptySet DEF IsSelection

LEMMA SelectionGrows ==
  ASSUME NEW V, NEW item, NEW n \in Nat \ {0}, NEW K \in SUBSET (1 .. n - 1), NEW list,
         IsSelection(list, K, item, V), item[n] \in V
  PROVE  IsSelection(Append(list, item[n]), K \cup {n}, item, V)
  <1> DEFINE more == Append(list, item[n])
  <1>1. /\ IsFiniteSet(K) /\ Cardinality(K) \in Nat
        /\ \A i \in K : Rank(K, i) \in 1 .. Cardinality(K)
    <2>1. n - 1 \in Nat
      OBVIOUS
    <2>2. QED
      BY <2>1, Ranks
  <1>2. n \notin K
    OBVIOUS
  <1>3. Cardinality(K \cup {n}) = Cardinality(K) + 1
    BY <1>1, <1>2, FS_AddElement
  <1>4. list \in Seq(V) /\ Len(list) = Cardinality(K) /\ \A i \in K : list[Rank(K, i)] = item[i]
    BY DEF IsSelection
  <1>5. /\ more \in Seq(V) /\ Len(more) = Cardinality(K) + 1
        /\ \A k \in 1 .. Cardinality(K) : more[k] = list[k]
        /\ more[Cardinality(K) + 1] = item[n]
    BY <1>4
  <1>6. ASSUME NEW i \in K
        PROVE  more[Rank(K \cup {n}, i)] = item[i]
    <2>1. {j \in K \cup {n} : j <= i} = {j \in K : j <= i}
      OBVIOUS
    <2>2. Rank(K \cup {n}, i) = Rank(K, i)
      BY <2>1 DEF Rank
    <2>3. QED
      BY <2>2, <1>1, <1>4, <1>5
  <1>7. more[Rank(K \cup {n}, n)] = item[n]
    <2>1. {j \in K \cup {n} : j <= n} = K \cup {n}
      <3>1. \A j \in K \cup {n} : j <= n
        OBVIOUS
      <3>2. QED
        BY <3>1
    <2>2. Rank(K \cup {n}, n) = Cardinality(K) + 1
      BY <2>1, <1>3 DEF Rank
    <2>3. QED
      BY <2>2, <1>5
  <1> HIDE DEF more
  <1>8. QED
    BY <1>3, <1>5, <1>6, <1>7 DEF IsSelection, more

\* The items of a list and their positions.
LEMMA ItemOfSeq ==
  ASSUME NEW V, NEW s \in Seq(V), NEW i \in 1 .. Len(s)
  PROVE  s[i] \in V /\ i \in Nat \ {0} /\ i - 1 \in Nat /\ Len(s) \in Nat
  OBVIOUS

-----------------------------------------------------------------------------
(***************************************************************************)
(* The two lists hold exactly what their names say.                        *)
(***************************************************************************)
ModesAt(query, n) == {i \in 1 .. n : query[i].key = "sslmode"}
OthersAt(query, n) == {i \in 1 .. n : query[i].key \notin {"sslmode", "channel_binding"}}
ValuesOf(pairs) == [i \in 1 .. Len(pairs) |-> pairs[i].value]

AreListsOf(lists, pairs, n) ==
  /\ lists \in [ssl_modes : Seq(Text), retained_params : Seq(QueryPairs)]
  /\ IsSelection(lists.ssl_modes, ModesAt(pairs, n), ValuesOf(pairs), Text)
  /\ IsSelection(lists.retained_params, OthersAt(pairs, n), pairs, QueryPairs)

LEMMA Turn ==
  ASSUME NEW pairs \in Seq(QueryPairs), NEW n \in 1 .. Len(pairs), NEW lists,
         AreListsOf(lists, pairs, n - 1)
  PROVE  AreListsOf(AddPair(lists, pairs[n]), pairs, n)
  <1>1. /\ Len(pairs) \in Nat /\ n \in Nat \ {0} /\ n - 1 \in Nat
        /\ pairs[n] \in QueryPairs /\ pairs[n].value \in Text
        /\ ValuesOf(pairs)[n] = pairs[n].value
    <2>1. /\ Len(pairs) \in Nat /\ n \in Nat \ {0} /\ n - 1 \in Nat
          /\ pairs[n] \in QueryPairs
      BY ItemOfSeq
    <2>2. pairs[n].value \in Text
      BY <2>1 DEF QueryPairs
    <2>3. ValuesOf(pairs)[n] = pairs[n].value
      BY DEF ValuesOf
    <2>4. QED
      BY <2>1, <2>2, <2>3
  <1>2. /\ lists \in [ssl_modes : Seq(Text), retained_params : Seq(QueryPairs)]
        /\ IsSelection(lists.ssl_modes, ModesAt(pairs, n - 1), ValuesOf(pairs), Text)
        /\ IsSelection(lists.retained_params, OthersAt(pairs, n - 1), pairs, QueryPairs)
    BY DEF AreListsOf
  <1>3. /\ ModesAt(pairs, n - 1) \in SUBSET (1 .. n - 1)
        /\ OthersAt(pairs, n - 1) \in SUBSET (1 .. n - 1)
    BY DEF ModesAt, OthersAt
  <1>4. \A i \in 1 .. n : i = n \/ i \in 1 .. n - 1
    BY <1>1
  <1>5. \A i \in 1 .. n - 1 : i \in 1 .. n
    BY <1>1
  <1>6. CASE pairs[n].key = "sslmode"
    <2> DEFINE new == AddPair(lists, pairs[n])
    <2>1. /\ new \in [ssl_modes : Seq(Text), retained_params : Seq(QueryPairs)]
          /\ new.ssl_modes = Append(lists.ssl_modes, ValuesOf(pairs)[n])
          /\ new.retained_params = lists.retained_params
      <3>1. new = [lists EXCEPT !.ssl_modes = Append(@, pairs[n].value)]
        BY <1>6 DEF AddPair
      <3>2. Append(lists.ssl_modes, pairs[n].value) \in Seq(Text)
        BY <1>1, <1>2
      <3>3. QED
        BY <1>1, <1>2, <3>1, <3>2
    <2>2. ModesAt(pairs, n) = ModesAt(pairs, n - 1) \cup {n}
      BY <1>1, <1>4, <1>5, <1>6 DEF ModesAt
    <2>3. OthersAt(pairs, n) = OthersAt(pairs, n - 1)
      BY <1>4, <1>5, <1>6 DEF OthersAt
    <2>4. IsSelection(Append(lists.ssl_modes, ValuesOf(pairs)[n]),
                      ModesAt(pairs, n - 1) \cup {n}, ValuesOf(pairs), Text)
      BY <1>1, <1>2, <1>3, SelectionGrows
    <2>5. QED
      BY <1>2, <2>1, <2>2, <2>3, <2>4 DEF AreListsOf
  <1>7. CASE pairs[n].key \notin {"sslmode", "channel_binding"}
    <2> DEFINE new == AddPair(lists, pairs[n])
    <2>1. /\ new \in [ssl_modes : Seq(Text), retained_params : Seq(QueryPairs)]
          /\ new.ssl_modes = lists.ssl_modes
          /\ new.retained_params = Append(lists.retained_params, pairs[n])
      <3>1. new = [lists EXCEPT !.retained_params = Append(@, pairs[n])]
        BY <1>7 DEF AddPair
      <3>2. Append(lists.retained_params, pairs[n]) \in Seq(QueryPairs)
        BY <1>1, <1>2
      <3>3. QED
        BY <1>1, <1>2, <3>1, <3>2
    <2>2. OthersAt(pairs, n) = OthersAt(pairs, n - 1) \cup {n}
      BY <1>1, <1>4, <1>5, <1>7 DEF OthersAt
    <2>3. ModesAt(pairs, n) = ModesAt(pairs, n - 1)
      BY <1>4, <1>5, <1>7 DEF ModesAt
    <2>4. IsSelection(Append(lists.retained_params, pairs[n]),
                      OthersAt(pairs, n - 1) \cup {n}, pairs, QueryPairs)
      BY <1>1, <1>2, <1>3, SelectionGrows
    <2>5. QED
      BY <1>2, <2>1, <2>2, <2>3, <2>4 DEF AreListsOf
  <1>8. CASE pairs[n].key = "channel_binding"
    <2>1. AddPair(lists, pairs[n]) = lists
      BY <1>8 DEF AddPair
    <2>2. OthersAt(pairs, n) = OthersAt(pairs, n - 1)
      BY <1>4, <1>5, <1>8 DEF OthersAt
    <2>3. ModesAt(pairs, n) = ModesAt(pairs, n - 1)
      BY <1>4, <1>5, <1>8 DEF ModesAt
    <2>4. QED
      BY <1>2, <2>1, <2>2, <2>3 DEF AreListsOf
  <1>9. QED
    BY <1>6, <1>7, <1>8

LEMMA LoopIsExact ==
  ASSUME NEW pairs \in Seq(QueryPairs)
  PROVE  AreListsOf(Lists(pairs)[Len(pairs)], pairs, Len(pairs))
  <1> DEFINE T == {n \in 0 .. Len(pairs) : ~AreListsOf(Lists(pairs)[n], pairs, n)}
  <1>0. Len(pairs) \in Nat /\ Len(pairs) \in 0 .. Len(pairs)
    OBVIOUS
  <1> SUFFICES ASSUME T # {} PROVE FALSE
    BY <1>0
  <1>1. PICK n \in T : \A m \in T : n <= m
    <2>1. T \in SUBSET Nat
      BY <1>0
    <2>2. QED
      BY <2>1, LeastNat
  <1>2. n # 0
    <2>1. ModesAt(pairs, 0) = {} /\ OthersAt(pairs, 0) = {}
      BY DEF ModesAt, OthersAt
    <2>2. NoPairs \in [ssl_modes : Seq(Text), retained_params : Seq(QueryPairs)]
      BY DEF NoPairs
    <2>3. AreListsOf(NoPairs, pairs, 0)
      BY <2>1, <2>2, EmptySelection DEF AreListsOf, NoPairs
    <2>4. QED
      BY <1>0, <1>1, <2>3, ListsDef
  <1>3. n \in 1 .. Len(pairs) /\ n - 1 \in 0 .. Len(pairs) /\ n - 1 \notin T
    BY <1>0, <1>1, <1>2
  <1>4. AreListsOf(Lists(pairs)[n - 1], pairs, n - 1)
    BY <1>3
  <1>5. Lists(pairs)[n] = AddPair(Lists(pairs)[n - 1], pairs[n])
    BY <1>0, <1>3, ListsDef
  <1>6. QED
    BY <1>1, <1>3, <1>4, <1>5, Turn

-----------------------------------------------------------------------------
(***************************************************************************)
(* What urllib does to a query.                                            *)
(***************************************************************************)
\* Encoding a decoded text and decoding it again gives it back.
LEMMA Coding ==
  ASSUME NEW raw \in Text
  PROVE  /\ Decode(raw) \in Text /\ Encode(raw) \in Text
         /\ Decode(Encode(Decode(raw))) = Decode(raw)
  <1>1. \A r : Decode(r) = IF r \in {"a%20b", "a+b"} THEN "a b"
                           ELSE IF r = "p%25" THEN "p%"
                           ELSE IF r = "ssl%6Dode" THEN "sslmode"
                           ELSE IF r = "verify%2Dfull" THEN "verify-full" ELSE r
    <2>1. \A r : /\ r \in {"a%20b", "a+b"} => r \notin {"p%25", "ssl%6Dode", "verify%2Dfull"}
                 /\ r = "p%25" => r \notin {"ssl%6Dode", "verify%2Dfull"}
                 /\ r = "ssl%6Dode" => r # "verify%2Dfull"
      OBVIOUS
    <2>2. QED
      BY <2>1, Zenon DEF Decode
  <1>2. \A v : Encode(v) = IF v = "a b" THEN "a+b" ELSE IF v = "p%" THEN "p%25" ELSE v
    BY Zenon DEF Encode
  <1>3. Decode(raw) \in Text /\ Encode(raw) \in Text
    <2>1. /\ Decode(raw) \in {raw, "a b", "p%", "sslmode", "verify-full"}
          /\ Encode(raw) \in {raw, "a+b", "p%25"}
      BY <1>1, <1>2, Zenon
    <2>2. /\ "a b" \in Text /\ "p%" \in Text /\ "a+b" \in Text /\ "p%25" \in Text
          /\ "sslmode" \in Text /\ "verify-full" \in Text
      BY DEF Text
    <2>3. QED
      BY <2>1, <2>2
  <1>4. /\ Decode("a+b") = "a b" /\ Decode("p%25") = "p%"
        /\ Decode("sslmode") = "sslmode" /\ Decode("verify-full") = "verify-full"
    BY <1>1
  <1>5. Decode(Encode(Decode(raw))) = Decode(raw)
    <2>1. CASE Decode(raw) = "a b"
      BY <1>2, <1>4, <2>1
    <2>2. CASE Decode(raw) = "p%"
      BY <1>2, <1>4, <2>2
    <2>3. CASE Decode(raw) \in {"sslmode", "verify-full"}
      BY <1>2, <1>4, <2>3
    <2>4. CASE Decode(raw) \notin {"a b", "p%", "sslmode", "verify-full"}
      <3>1. Decode(raw) = raw /\ Encode(Decode(raw)) = Decode(raw)
        BY <1>1, <1>2, <2>4
      <3>2. QED
        BY <3>1
    <2>5. QED
      BY <2>1, <2>2, <2>3, <2>4
  <1>6. QED
    BY <1>3, <1>5

\* The same of a pair.
LEMMA CodingOfPair ==
  ASSUME NEW pair \in QueryPairs
  PROVE  /\ DecodePair(pair) \in QueryPairs /\ EncodePair(pair) \in QueryPairs
         /\ DecodePair(EncodePair(DecodePair(pair))) = DecodePair(pair)
  <1>1. pair.key \in Text /\ pair.value \in Text
    BY DEF QueryPairs
  <1>2. DecodePair(pair) \in QueryPairs /\ EncodePair(pair) \in QueryPairs
    BY <1>1, Coding DEF DecodePair, EncodePair, QueryPairs
  <1>3. DecodePair(EncodePair(DecodePair(pair))) =
          [key |-> Decode(Encode(Decode(pair.key))), value |-> Decode(Encode(Decode(pair.value)))]
    BY DEF DecodePair, EncodePair
  <1>4. QED
    BY <1>1, <1>2, <1>3, Coding, Zenon DEF DecodePair

LEMMA Parsing ==
  ASSUME NEW query \in Seq(QueryPairs)
  PROVE  /\ ParseQsl(query) \in Seq(QueryPairs)
         /\ Len(ParseQsl(query)) = Len(query)
         /\ \A i \in 1 .. Len(query) : ParseQsl(query)[i] = DecodePair(query[i])
  <1>1. Len(query) \in Nat /\ ParseQsl(query) = [i \in 1 .. Len(query) |-> DecodePair(query[i])]
    BY DEF ParseQsl
  <1>2. \A i \in 1 .. Len(query) : DecodePair(query[i]) \in QueryPairs
    BY ItemOfSeq, CodingOfPair
  <1>3. QED
    BY <1>1, <1>2

LEMMA Encoding ==
  ASSUME NEW pairs \in Seq(QueryPairs)
  PROVE  /\ Urlencode(pairs) \in Seq(QueryPairs)
         /\ Len(Urlencode(pairs)) = Len(pairs)
         /\ \A i \in 1 .. Len(pairs) : Urlencode(pairs)[i] = EncodePair(pairs[i])
  <1>1. Len(pairs) \in Nat /\ Urlencode(pairs) = [i \in 1 .. Len(pairs) |-> EncodePair(pairs[i])]
    BY DEF Urlencode
  <1>2. \A i \in 1 .. Len(pairs) : EncodePair(pairs[i]) \in QueryPairs
    BY ItemOfSeq, CodingOfPair
  <1>3. QED
    BY <1>1, <1>2

-----------------------------------------------------------------------------
(***************************************************************************)
(* What build_async_url() returns.                                         *)
(***************************************************************************)
ModesOf(url) == {i \in 1 .. Len(url.query) : Decode(url.query[i].key) = "sslmode"}
OthersOf(url) ==
  {i \in 1 .. Len(url.query) : Decode(url.query[i].key) \notin {"sslmode", "channel_binding"}}

WellFormed(url) ==
  /\ url.scheme \in {"postgres", "postgresql", "postgresql+asyncpg"}
  /\ Cardinality(ModesOf(url)) <= 1
  /\ \A i \in ModesOf(url) : Decode(url.query[i].value) \in Modes

PolicyIsExact(built, url) ==
  \/ ModesOf(url) = {} /\ built[2] = None
  \/ \E i \in 1 .. Len(url.query) : /\ ModesOf(url) = {i}
                                    /\ built[2] = Decode(url.query[i].value)
                                    /\ built[2] \in Modes

OptionsAreKept(built, url) ==
  /\ Len(built[1].query) = Cardinality(OthersOf(url))
  /\ \A i \in OthersOf(url) :
       DecodePair(built[1].query[Rank(OthersOf(url), i)]) = DecodePair(url.query[i])

ListsOf(url) == Lists(ParseQsl(url.query))[Len(ParseQsl(url.query))]

Built(url) ==
  <<[scheme |-> "postgresql+asyncpg", percent |-> url.percent,
     query |-> Urlencode(ListsOf(url).retained_params)],
    IF ListsOf(url).ssl_modes = <<>> THEN None ELSE ListsOf(url).ssl_modes[1]>>

\* The lists of build_async_url() and the positions of the raw query.
LEMMA ListsOfUrl ==
  ASSUME NEW url \in Urls
  PROVE  /\ url.query \in Seq(QueryPairs)
         /\ ListsOf(url).ssl_modes \in Seq(Text)
         /\ Len(ListsOf(url).ssl_modes) = Cardinality(ModesOf(url))
         /\ \A i \in ModesOf(url) :
              ListsOf(url).ssl_modes[Rank(ModesOf(url), i)] = Decode(url.query[i].value)
         /\ ListsOf(url).retained_params \in Seq(QueryPairs)
         /\ Len(ListsOf(url).retained_params) = Cardinality(OthersOf(url))
         /\ \A i \in OthersOf(url) :
              ListsOf(url).retained_params[Rank(OthersOf(url), i)] = DecodePair(url.query[i])
  <1> DEFINE query == url.query
             pairs == ParseQsl(query)
  <1>1. query \in Seq(QueryPairs)
    BY DEF Urls
  <1>2. /\ pairs \in Seq(QueryPairs) /\ Len(pairs) = Len(query)
        /\ \A i \in 1 .. Len(query) : pairs[i] = DecodePair(query[i])
    BY <1>1, Parsing
  <1>a. \A i \in 1 .. Len(query) : /\ pairs[i].key = Decode(query[i].key)
                                   /\ pairs[i].value = Decode(query[i].value)
    <2>1. \A pair : /\ DecodePair(pair).key = Decode(pair.key)
                    /\ DecodePair(pair).value = Decode(pair.value)
      BY DEF DecodePair
    <2>2. QED
      BY <1>2, <2>1, Zenon
  <1>3. ModesAt(pairs, Len(pairs)) = ModesOf(url) /\ OthersAt(pairs, Len(pairs)) = OthersOf(url)
    BY <1>2, <1>a DEF ModesAt, OthersAt, ModesOf, OthersOf
  <1>4. AreListsOf(ListsOf(url), pairs, Len(pairs))
    BY <1>2, LoopIsExact DEF ListsOf
  <1>5. /\ IsSelection(ListsOf(url).ssl_modes, ModesOf(url), ValuesOf(pairs), Text)
        /\ IsSelection(ListsOf(url).retained_params, OthersOf(url), pairs, QueryPairs)
    BY <1>3, <1>4 DEF AreListsOf
  <1>6. \A i \in ModesOf(url) \cup OthersOf(url) : i \in 1 .. Len(query)
    BY DEF ModesOf, OthersOf
  <1>7. \A i \in ModesOf(url) : ValuesOf(pairs)[i] = Decode(query[i].value)
    BY <1>2, <1>a, <1>6 DEF ValuesOf
  <1> HIDE DEF pairs
  <1>8. QED
    BY <1>1, <1>2, <1>5, <1>6, <1>7 DEF IsSelection

LEMMA ModesAreFinite ==
  ASSUME NEW url \in Urls
  PROVE  /\ ModesOf(url) \in SUBSET (1 .. Len(url.query))
         /\ OthersOf(url) \in SUBSET (1 .. Len(url.query))
         /\ Len(url.query) \in Nat
         /\ IsFiniteSet(ModesOf(url)) /\ Cardinality(ModesOf(url)) \in Nat
         /\ \A i \in OthersOf(url) : Rank(OthersOf(url), i) \in 1 .. Cardinality(OthersOf(url))
  <1>1. Len(url.query) \in Nat
    BY DEF Urls
  <1>2. /\ ModesOf(url) \in SUBSET (1 .. Len(url.query))
        /\ OthersOf(url) \in SUBSET (1 .. Len(url.query))
    BY DEF ModesOf, OthersOf
  <1>3. QED
    BY <1>1, <1>2, Ranks

\* No sslmode: an empty list.  One: a list of it.
LEMMA NoMode ==
  ASSUME NEW url \in Urls, Cardinality(ModesOf(url)) = 0
  PROVE  ModesOf(url) = {} /\ ListsOf(url).ssl_modes = <<>>
  <1>1. ModesOf(url) = {}
    BY ModesAreFinite, FS_EmptySet
  <1>2. Len(ListsOf(url).ssl_modes) = 0 /\ ListsOf(url).ssl_modes \in Seq(Text)
    BY ListsOfUrl
  <1>3. QED
    BY <1>1, <1>2

LEMMA OneMode ==
  ASSUME NEW url \in Urls, Cardinality(ModesOf(url)) = 1
  PROVE  \E i \in 1 .. Len(url.query) :
           /\ ModesOf(url) = {i}
           /\ url.query[i].value \in Text
           /\ Len(ListsOf(url).ssl_modes) = 1
           /\ ListsOf(url).ssl_modes \in Seq(Text)
           /\ ListsOf(url).ssl_modes # <<>>
           /\ ListsOf(url).ssl_modes[1] = Decode(url.query[i].value)
  <1>1. PICK i : ModesOf(url) = {i}
    BY ModesAreFinite, FS_Singleton
  <1>2. i \in 1 .. Len(url.query) /\ i \in Nat
    BY <1>1, ModesAreFinite
  <1>3. Rank(ModesOf(url), i) = 1
    <2>1. {j \in {i} : j <= i} = {i}
      BY <1>2
    <2>2. QED
      BY <1>1, <2>1, FS_Singleton DEF Rank
  <1>4. /\ url.query \in Seq(QueryPairs)
        /\ ListsOf(url).ssl_modes \in Seq(Text)
        /\ Len(ListsOf(url).ssl_modes) = 1
        /\ ListsOf(url).ssl_modes[1] = Decode(url.query[i].value)
    BY <1>1, <1>3, ListsOfUrl
  <1>5. url.query[i].value \in Text
    <2>1. url.query[i] \in QueryPairs
      BY <1>2, <1>4, ItemOfSeq
    <2>2. QED
      BY <2>1 DEF QueryPairs
  <1>6. ListsOf(url).ssl_modes # <<>>
    BY <1>4
  <1>7. QED
    BY <1>1, <1>2, <1>4, <1>5, <1>6

\* The list of modes is accepted when the query holds at most one, a known one.
LEMMA AcceptedModes ==
  ASSUME NEW url \in Urls
  PROVE  ModesAccepted(ListsOf(url).ssl_modes) <=>
           /\ Cardinality(ModesOf(url)) <= 1
           /\ \A i \in ModesOf(url) : Decode(url.query[i].value) \in Modes
  <1> DEFINE modes == ListsOf(url).ssl_modes
  <1>1. /\ modes \in Seq(Text) /\ Len(modes) = Cardinality(ModesOf(url))
        /\ Cardinality(ModesOf(url)) \in Nat
    BY ListsOfUrl, ModesAreFinite
  <1>2. ModesAccepted(modes) <=> Len(modes) <= 1 /\ \A i \in 1 .. Len(modes) : modes[i] \in Modes
    BY <1>1 DEF ModesAccepted
  <1>3. CASE Cardinality(ModesOf(url)) = 0
    <2>1. ModesOf(url) = {} /\ Len(modes) = 0
      BY <1>1, <1>3, NoMode
    <2>2. QED
      BY <1>2, <1>3, <2>1
  <1>4. CASE Cardinality(ModesOf(url)) = 1
    <2>1. PICK i \in 1 .. Len(url.query) :
            /\ ModesOf(url) = {i} /\ url.query[i].value \in Text
            /\ Len(modes) = 1 /\ modes[1] = Decode(url.query[i].value)
      BY <1>4, OneMode
    <2>2. modes[1] \in Modes <=> Decode(url.query[i].value) \in Modes
      BY <2>1
    <2>3. \A k \in 1 .. Len(modes) : k = 1
      BY <2>1
    <2>4. 1 \in 1 .. Len(modes)
      BY <2>1
    <2>5. QED
      BY <1>2, <1>4, <2>1, <2>2, <2>3, <2>4
  <1>5. CASE Cardinality(ModesOf(url)) > 1
    BY <1>1, <1>2, <1>5
  <1>6. QED
    BY <1>1, <1>3, <1>4, <1>5

\* build_async_url() accepts the well-formed URLs and no other.
LEMMA BuildAccepts ==
  ASSUME NEW url \in Urls
  PROVE  BuildAsyncUrl(url) = IF WellFormed(url) THEN Built(url) ELSE None
  <1>1. url # Empty
    BY UrlAssumption
  <1>2. BuildAsyncUrl(url) =
          IF /\ url.scheme \in {"postgres", "postgresql", "postgresql+asyncpg"}
             /\ ModesAccepted(ListsOf(url).ssl_modes)
          THEN Built(url) ELSE None
    BY <1>1, Zenon DEF BuildAsyncUrl, Built, ListsOf
  <1>3. QED
    BY <1>2, AcceptedModes, Zenon DEF WellFormed

\* What it returns is a URL of the driver's, with the TLS policy and the options
\* of the one it was given.
LEMMA BuildIsExact ==
  ASSUME NEW url \in Urls, WellFormed(url)
  PROVE  /\ Built(url) \in Urls \X (Text \cup {None})
         /\ PolicyIsExact(Built(url), url)
         /\ OptionsAreKept(Built(url), url)
  <1> DEFINE modes == ListsOf(url).ssl_modes
             retained == ListsOf(url).retained_params
             clean == [scheme |-> "postgresql+asyncpg", percent |-> url.percent,
                       query |-> Urlencode(retained)]
             mode == IF modes = <<>> THEN None ELSE modes[1]
  <1>1. Built(url) = <<clean, mode>>
    BY DEF Built
  <1>2. /\ retained \in Seq(QueryPairs)
        /\ Len(retained) = Cardinality(OthersOf(url))
        /\ \A i \in OthersOf(url) : retained[Rank(OthersOf(url), i)] = DecodePair(url.query[i])
    BY ListsOfUrl
  <1>3. /\ Urlencode(retained) \in Seq(QueryPairs)
        /\ Len(Urlencode(retained)) = Len(retained)
        /\ \A k \in 1 .. Len(retained) : Urlencode(retained)[k] = EncodePair(retained[k])
    BY <1>2, Encoding
  <1>4. clean \in Urls
    <2>1. url.percent \in Nat
      BY DEF Urls
    <2>2. "postgresql+asyncpg" \in Text
      BY DEF Text
    <2>3. QED
      BY <1>3, <2>1, <2>2 DEF Urls
  <1>5. mode \in Text \cup {None} /\ PolicyIsExact(<<clean, mode>>, url)
    <2>1. Cardinality(ModesOf(url)) \in {0, 1}
      BY ModesAreFinite DEF WellFormed
    <2>2. CASE Cardinality(ModesOf(url)) = 0
      BY <2>2, NoMode DEF PolicyIsExact
    <2>3. CASE Cardinality(ModesOf(url)) = 1
      <3>1. PICK i \in 1 .. Len(url.query) :
              /\ ModesOf(url) = {i} /\ url.query[i].value \in Text
              /\ modes # <<>> /\ modes[1] = Decode(url.query[i].value)
        BY <2>3, OneMode
      <3>2. Decode(url.query[i].value) \in Modes
        BY <3>1 DEF WellFormed
      <3>3. mode = Decode(url.query[i].value)
        BY <3>1, <3>2
      <3>4. mode \in Text
        BY <3>1, <3>3, Coding
      <3> HIDE DEF clean, mode
      <3>5. QED
        BY <3>1, <3>2, <3>3, <3>4 DEF PolicyIsExact
    <2>4. QED
      BY <2>1, <2>2, <2>3
  <1>6. OptionsAreKept(<<clean, mode>>, url)
    <2>1. ASSUME NEW i \in OthersOf(url)
          PROVE  DecodePair(Urlencode(retained)[Rank(OthersOf(url), i)]) =
                   DecodePair(url.query[i])
      <3>1. Rank(OthersOf(url), i) \in 1 .. Len(retained)
        BY <1>2, ModesAreFinite
      <3>2. url.query[i] \in QueryPairs
        <4>1. i \in 1 .. Len(url.query) /\ url.query \in Seq(QueryPairs)
          BY ModesAreFinite, ListsOfUrl
        <4>2. QED
          BY <4>1, ItemOfSeq
      <3>3. Urlencode(retained)[Rank(OthersOf(url), i)] = EncodePair(DecodePair(url.query[i]))
        BY <1>2, <1>3, <3>1
      <3>4. QED
        BY <3>2, <3>3, CodingOfPair, Zenon
    <2>2. <<clean, mode>>[1].query = Urlencode(retained)
      OBVIOUS
    <2> HIDE DEF clean, mode, retained
    <2>3. QED
      BY <1>2, <1>3, <2>1, <2>2 DEF OptionsAreKept
  <1> HIDE DEF clean, mode
  <1>7. QED
    BY <1>1, <1>4, <1>5, <1>6

-----------------------------------------------------------------------------
(***************************************************************************)
(* The deployment.  It gets past the import only with a URL that can be    *)
(* built; alembic builds the one it read, the application the one in its   *)
(* settings, and these are the same where DB_URL is in capitals.           *)
(***************************************************************************)
Valid(url) == url \in Urls /\ WellFormed(url)

IInv ==
  /\ os \in Environ /\ file \in Environ
  /\ last \in [os : {"DB_URL", "db_url"}, file : {"DB_URL", "db_url"}]
  /\ at \in {"alembic", "env.py", "uvicorn", "serving", "failed"}
  /\ at \in {"env.py", "uvicorn", "serving"} => Valid(Configured)
  /\ InCapitals /\ at = "failed" => ~Valid(Configured)
  /\ at \notin {"uvicorn", "serving"} => migrated = None
  /\ at \in {"uvicorn", "serving"} => Valid(Read) /\ migrated = Built(Read)
  /\ at # "serving" => served = None
  /\ at = "serving" => served = Built(Configured)

\* Building succeeds on the valid URLs, among what a variable may hold.
LEMMA BuildOfVariable ==
  ASSUME NEW url \in Urls \cup {None, Empty}, url # None
  PROVE  /\ BuildAsyncUrl(url) # None <=> url \in Urls /\ WellFormed(url)
         /\ BuildAsyncUrl(url) # None => BuildAsyncUrl(url) = Built(url)
  <1>1. CASE url = Empty
    <2>1. BuildAsyncUrl(url) = None
      BY <1>1, Zenon DEF BuildAsyncUrl
    <2>2. url \notin Urls
      BY <1>1, UrlAssumption
    <2>3. QED
      BY <2>1, <2>2
  <1>2. CASE url \in Urls
    <2>1. BuildAsyncUrl(url) = IF WellFormed(url) THEN Built(url) ELSE None
      BY <1>2, BuildAccepts
    <2>2. WellFormed(url) => Built(url) # None
      <3>1. WellFormed(url) => Built(url) \in Urls \X (Text \cup {None})
        BY <1>2, BuildIsExact
      <3>2. QED
        BY <3>1, UrlAssumption, Zenon
    <2>3. QED
      BY <1>2, <2>1, <2>2, Zenon
  <1>3. QED
    BY <1>1, <1>2

\* Doubling every "%" makes any URL a value the configuration takes.
LEMMA OptionIsAccepted ==
  ASSUME NEW url \in Urls
  PROVE  OptionAccepted(url)
  <1>1. url.percent \in Nat
    BY DEF Urls
  <1>2. \A run \in PercentRuns(url) : run \in Nat
    BY <1>1 DEF PercentRuns
  <1>3. \A run \in Nat : (2 * run) % 2 = 0
    OBVIOUS
  <1>4. QED
    BY <1>2, <1>3 DEF OptionAccepted, Escaped

LEMMA ResolvedIsVariable ==
  ASSUME IInv
  PROVE  Configured \in Urls \cup {None, Empty} /\ Read \in Urls \cup {None, Empty}
  <1>1. last.os \in {"DB_URL", "db_url"} /\ last.file \in {"DB_URL", "db_url"}
    BY DEF IInv
  <1>2. Configured \in Urls \cup {None, Empty}
    BY <1>1 DEF IInv, Environ, Configured, SettingsDbUrl, CaseInsensitive
  <1>3. LoadDotenv \in Environ
    BY DEF IInv, Environ, LoadDotenv
  <1>4. QED
    BY <1>2, <1>3 DEF Environ, Read, GetUrl

\* env.py, reading the environment after load_dotenv(), finds the settings' URL.
LEMMA SameUrl ==
  ASSUME IInv, InCapitals, Valid(Configured)
  PROVE  Read = Configured
  <1>1. DOMAIN os = {"DB_URL", "db_url", "DATABASE_URL"} /\ last.os \in {"DB_URL", "db_url"}
        /\ last.file \in {"DB_URL", "db_url"}
    BY DEF IInv, Environ
  <1>2. /\ CaseInsensitive(os, last.os) = os["DB_URL"]
        /\ CaseInsensitive(file, last.file) = file["DB_URL"]
    BY <1>1 DEF CaseInsensitive, InCapitals
  <1>3. LoadDotenv["DB_URL"] = Configured
    BY <1>1, <1>2 DEF LoadDotenv, Configured, SettingsDbUrl
  <1>4. Configured \notin {None, Empty}
    BY UrlAssumption DEF Valid
  <1>5. QED
    BY <1>3, <1>4, Zenon DEF GetUrl, Read

LEMMA InitIInv == Init => IInv
  <1> SUFFICES ASSUME Init PROVE IInv
    OBVIOUS
  <1>1. PICK e \in Environments : os = e.os /\ file = e.file /\ last = e.last
    BY DEF Init
  <1>2. /\ os \in Environ /\ file \in Environ
        /\ last \in [os : {"DB_URL", "db_url"}, file : {"DB_URL", "db_url"}]
    BY <1>1, UrlAssumption, Zenon
  <1>3. QED
    BY <1>2 DEF Init, IInv

\* No step changes what is configured.
LEMMA SameConfigured ==
  ASSUME UNCHANGED <<os, file, last>>
  PROVE  Configured' = Configured /\ Read' = Read /\ InCapitals' = InCapitals
  BY DEF Configured, SettingsDbUrl, CaseInsensitive, Read, GetUrl, LoadDotenv, InCapitals

LEMMA ImportDatabaseStep ==
  ASSUME IInv, ImportDatabase
  PROVE  IInv'
  <1>1. UNCHANGED <<os, file, last, migrated, served>> /\ at = "alembic"
    BY DEF ImportDatabase
  <1>2. Configured' = Configured /\ InCapitals' = InCapitals
    BY <1>1, SameConfigured
  <1>3. Configured = None => ~Valid(Configured)
    BY UrlAssumption DEF Valid
  <1>4. Configured # None => (BuildAsyncUrl(Configured) # None <=> Valid(Configured))
    BY ResolvedIsVariable, BuildOfVariable DEF Valid
  <1>5. at' = IF Valid(Configured) THEN "env.py" ELSE "failed"
    BY <1>3, <1>4, Zenon DEF ImportDatabase, Configured
  <1>6. Valid(Configured)' = Valid(Configured)
    BY <1>2 DEF Valid
  <1>7. QED
    BY <1>1, <1>2, <1>5, <1>6 DEF IInv

LEMMA MigrateStep ==
  ASSUME IInv, Migrate
  PROVE  IInv'
  <1>1. UNCHANGED <<os, file, last, served>> /\ at = "env.py" /\ Valid(Configured)
    BY DEF Migrate, IInv
  <1>2. Configured' = Configured /\ Read' = Read /\ InCapitals' = InCapitals
    BY <1>1, SameConfigured
  <1> DEFINE built == IF Read = None THEN None ELSE BuildAsyncUrl(Read)
  <1>3. built = IF Valid(Read) THEN Built(Read) ELSE None
    <2>1. CASE Read = None
      <3>1. ~Valid(Read)
        BY <2>1, UrlAssumption DEF Valid
      <3>2. QED
        BY <2>1, <3>1
    <2>2. CASE Read # None
      BY <2>2, ResolvedIsVariable, BuildOfVariable DEF Valid
    <2>3. QED
      BY <2>1, <2>2
  <1>4. Valid(Read) => Built(Read) # None /\ OptionAccepted(Built(Read)[1])
    <2> SUFFICES ASSUME Valid(Read) PROVE Built(Read) # None /\ OptionAccepted(Built(Read)[1])
      OBVIOUS
    <2>1. Built(Read) \in Urls \X (Text \cup {None})
      BY BuildIsExact DEF Valid
    <2>2. Built(Read) # None
      BY <2>1, UrlAssumption, Zenon
    <2>3. Built(Read)[1] \in Urls
      BY <2>1
    <2>4. QED
      BY <2>2, <2>3, OptionIsAccepted
  <1>5. \/ built # None /\ OptionAccepted(built[1]) /\ at' = "uvicorn" /\ migrated' = built
        \/ (built # None => ~OptionAccepted(built[1])) /\ at' = "failed" /\ migrated' = migrated
    BY Zenon DEF Migrate, Read
  <1> HIDE DEF built
  <1>6. CASE Valid(Read)
    <2>1. at' = "uvicorn" /\ migrated' = Built(Read)
      BY <1>3, <1>4, <1>5, <1>6, Zenon
    <2>2. QED
      BY <1>1, <1>2, <1>6, <2>1 DEF IInv, Valid
  <1>7. CASE ~Valid(Read)
    <2>1. at' = "failed" /\ migrated' = migrated
      BY <1>3, <1>5, <1>7, Zenon
    <2>2. ~InCapitals
      BY <1>1, <1>7, SameUrl
    <2>3. QED
      BY <1>1, <1>2, <2>1, <2>2 DEF IInv
  <1>8. QED
    BY <1>6, <1>7

LEMMA ServeStep ==
  ASSUME IInv, Serve
  PROVE  IInv'
  <1>1. /\ UNCHANGED <<os, file, last, migrated>> /\ at = "uvicorn" /\ at' = "serving"
        /\ Valid(Configured)
    BY DEF Serve, IInv
  <1>2. Configured' = Configured /\ Read' = Read
    BY <1>1, SameConfigured
  <1>3. BuildAsyncUrl(Configured) = Built(Configured)
    <2>1. Configured # None
      BY <1>1, UrlAssumption DEF Valid
    <2>2. QED
      BY <1>1, <2>1, BuildOfVariable DEF Valid
  <1>4. served' = Built(Configured)
    BY <1>3, Zenon DEF Serve, Configured
  <1>5. QED
    BY <1>1, <1>2, <1>4 DEF IInv, Valid

LEMMA NextIInv == IInv /\ [Next]_vars => IInv'
  <1> SUFFICES ASSUME IInv, [Next]_vars PROVE IInv'
    OBVIOUS
  <1>1. CASE UNCHANGED vars
    <2>1. Configured' = Configured /\ Read' = Read /\ InCapitals' = InCapitals
      BY <1>1, SameConfigured DEF vars
    <2>2. QED
      BY <1>1, <2>1 DEF vars, IInv, Valid
  <1>2. QED
    BY <1>1, ImportDatabaseStep, MigrateStep, ServeStep DEF Next

-----------------------------------------------------------------------------
(***************************************************************************)
(* The theorems.                                                           *)
(***************************************************************************)
LEMMA Queries ==
  ASSUME NEW url \in Urls
  PROVE  /\ DOMAIN url.query = 1 .. Len(url.query)
         /\ ModePositions(url) = ModesOf(url)
         /\ OtherPositions(url) = OthersOf(url)
  <1>1. url.query \in Seq(QueryPairs)
    BY DEF Urls
  <1>2. DOMAIN url.query = 1 .. Len(url.query)
    BY <1>1
  <1>3. QED
    BY <1>2, Zenon DEF ModePositions, OtherPositions, ModesOf, OthersOf

\* alembic connects with the TLS policy of the URL it read, the engine with that of
\* the URL in the settings, whatever the query: the loop of build_async_url()
\* collects every sslmode, however it is encoded.
THEOREM ExactTlsPolicy == Spec => []TlsPolicyIsExact
  <1>1. ASSUME NEW url, Valid(url) PROVE HasPolicyOf(Built(url), url)
    <2>1. PolicyIsExact(Built(url), url)
      BY <1>1, BuildIsExact DEF Valid
    <2>2. QED
      BY <1>1, <2>1, Queries, Zenon DEF PolicyIsExact, HasPolicyOf, Valid
  <1>2. IInv => TlsPolicyIsExact
    BY <1>1 DEF IInv, TlsPolicyIsExact
  <1>3. QED
    BY <1>2, InitIInv, NextIInv, PTL DEF Spec

\* Every other option of the URL in the settings is in the engine's URL: as many,
\* in the same order, and the same once decoded (parse_qsl(), the loop,
\* urlencode()).
THEOREM OptionsKept == Spec => []OtherOptionsKept
  <1>1. IInv => OtherOptionsKept
    <2> SUFFICES ASSUME IInv, served # None
                 PROVE  LET clean == served[1].query IN
                        /\ Len(clean) = Cardinality(OtherPositions(Configured))
                        /\ \A i \in OtherPositions(Configured) :
                             LET n == Cardinality({j \in OtherPositions(Configured) : j <= i}) IN
                             DecodePair(clean[n]) = DecodePair(Configured.query[i])
      BY DEF OtherOptionsKept
    <2>1. Valid(Configured) /\ served = Built(Configured)
      BY DEF IInv
    <2>2. OptionsAreKept(served, Configured)
      BY <2>1, BuildIsExact DEF Valid
    <2>3. QED
      BY <2>1, <2>2, Queries, Zenon DEF OptionsAreKept, Rank, Valid
  <1>2. QED
    BY <1>1, InitIInv, NextIInv, PTL DEF Spec

\* Where DB_URL is spelt in capitals, alembic, through load_dotenv() and
\* os.getenv(), and the application, through its case-insensitive settings, use one
\* database with one TLS policy, in every environment and with every .env.
THEOREM OneDatabase == Spec => []MigratesTheAppsDatabase
  <1>1. IInv => MigratesTheAppsDatabase
    <2> SUFFICES ASSUME IInv, InCapitals, at = "serving" PROVE migrated = served
      BY DEF MigratesTheAppsDatabase
    <2>1. Valid(Configured) /\ migrated = Built(Read) /\ served = Built(Configured)
      BY DEF IInv
    <2>2. Read = Configured
      BY <2>1, SameUrl
    <2>3. QED
      BY <2>1, <2>2
  <1>2. QED
    BY <1>1, InitIInv, NextIInv, PTL DEF Spec

\* A container with a well-formed DB_URL gets past alembic: the URL survives .env,
\* the environment and, with "%" doubled, alembic's configuration.
THEOREM ValidUrlBoots == Spec => []BootsOnValidUrl
  <1>1. IInv => BootsOnValidUrl
    <2> SUFFICES ASSUME IInv, InCapitals, at = "failed", Configured \notin {None, Empty}
                 PROVE  \/ Configured.scheme \notin {"postgres", "postgresql", "postgresql+asyncpg"}
                        \/ Cardinality(ModePositions(Configured)) > 1
                        \/ \E i \in ModePositions(Configured) :
                             Decode(Configured.query[i].value) \notin Modes
      BY DEF BootsOnValidUrl
    <2>1. Configured \in Urls /\ ~WellFormed(Configured)
      BY ResolvedIsVariable DEF IInv, Valid
    <2>2. ModePositions(Configured) = ModesOf(Configured)
      BY <2>1, Queries
    <2>3. Cardinality(ModesOf(Configured)) \in Nat
      BY <2>1, ModesAreFinite
    <2>4. QED
      BY <2>1, <2>2, <2>3 DEF WellFormed
  <1>2. QED
    BY <1>1, InitIInv, NextIInv, PTL DEF Spec
=============================================================================
