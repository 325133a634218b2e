---------------------------- MODULE MCDatabaseUrl ----------------------------
(***************************************************************************)
(* TLC instances of DatabaseUrl: every URL with up to three query pairs in *)
(* one place, and a few URLs in every combination of places.               *)
(***************************************************************************)
EXTENDS DatabaseUrl

Pair(key, values) == {[key |-> key, value |-> v] : v \in values}
Pairs == Pair("sslmode", {"require", "verify%2Dfull", "verify-peer", ""})
         \cup Pair("ssl%6Dode", {"require"})
         \cup Pair("channel_binding", {"require"})
         \cup Pair("options", {"x", "", "a%20b"})
         \cup Pair("timeout", {"a+b", "p%25"})

UrlsWith(schemes, runs, pairs, length) ==
  [scheme : schemes, percent : runs, query : UNION {[1 .. n -> pairs] : n \in 0 .. length}]

Unset == [DB_URL |-> None, db_url |-> None, DATABASE_URL |-> None]
Capitals == [os |-> "DB_URL", file |-> "DB_URL"]

EveryUrl ==
  {[os |-> [Unset EXCEPT !.DB_URL = u], file |-> Unset, last |-> Capitals] :
     u \in UrlsWith({"postgres", "postgresql+asyncpg", "sqlite"}, {0, 1}, Pairs, 3)}

\* Two URLs, the second with an odd run of "%" and an sslmode.
Few == {[scheme |-> "postgresql", percent |-> 2, query |-> <<>>],
        [scheme |-> "postgresql", percent |-> 1,
         query |-> <<[key |-> "sslmode", value |-> "require"]>>],
        None, Empty}

Spellings == {"DB_URL", "db_url"}

EveryPlace ==
  [os : [DOMAIN Unset -> Few], file : [DOMAIN Unset -> Few],
   last : [os : Spellings, file : Spellings]]

MCEnvironments == EveryUrl \cup EveryPlace
=============================================================================
