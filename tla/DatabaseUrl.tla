----------------------------- MODULE DatabaseUrl -----------------------------
(***************************************************************************)
(* api/db/url.py and the two places that use it: api/db/database.py, which *)
(* takes DB_URL from the settings, and alembic/env.py, which imports       *)
(* database.py first and then reads the environment for itself.  A         *)
(* container runs alembic and, if it succeeds, the application.            *)
(*                                                                         *)
(* A URL is its scheme, how many "%" stand in a row before the query, and  *)
(* its raw query.  Keys and values are a few raw forms: two spellings of a *)
(* space, an encoded "%", a plain name with a letter encoded that needs no *)
(* encoding, and plain ones.                                               *)
(***************************************************************************)
EXTENDS Integers, Sequences, FiniteSets

CONSTANTS
  Environments,   \* [os, file, last]: the process environment, the .env file, and
                  \* which spelling of DB_URL comes last in each of the two
  None,           \* Python's None; a variable that is not set
  Empty           \* the empty string as a URL

VARIABLES
  os,             \* the environment of the container
  file,           \* the variables of .env
  last,
  at,
  migrated,       \* the <<url, ssl mode>> alembic used
  served          \* the <<url, ssl mode>> of the application's engine

vars == <<os, file, last, at, migrated, served>>

\* Every string.  The provers do not know that a literal is one, so the literals
\* that a URL is built from are named.
Text ==
  STRING \cup {"postgresql+asyncpg", "sslmode", "verify-full", "a b", "a+b", "p%", "p%25"}

QueryPairs == [key : Text, value : Text]
Urls == [scheme : Text, percent : Nat, query : Seq(QueryPairs)]

\* "db_url" stands for every spelling of the name other than in capitals.
Environ == [{"DB_URL", "db_url", "DATABASE_URL"} -> Urls \cup {None, Empty}]

ASSUME UrlAssumption ==
  /\ \A e \in Environments : /\ e.os \in Environ /\ e.file \in Environ
                              /\ e.last \in [os : {"DB_URL", "db_url"},
                                             file : {"DB_URL", "db_url"}]
  /\ {None, Empty} \cap Urls = {}
  /\ None # Empty
  /\ None \notin Text
  /\ None \notin Urls \X (Text \cup {None})

Modes == {"disable", "allow", "prefer", "require", "verify-ca", "verify-full"}

\* What urllib does to a key or a value.
Decode(raw) == CASE raw \in {"a%20b", "a+b"} -> "a b"
                 [] raw = "p%25" -> "p%"
                 [] raw = "ssl%6Dode" -> "sslmode"
                 [] raw = "verify%2Dfull" -> "verify-full"
                 [] OTHER -> raw
Encode(text) == CASE text = "a b" -> "a+b"
                  [] text = "p%" -> "p%25"
                  [] OTHER -> text

DecodePair(pair) == [key |-> Decode(pair.key), value |-> Decode(pair.value)]
EncodePair(pair) == [key |-> Encode(pair.key), value |-> Encode(pair.value)]

\* Mutant: blank values are not kept.
ParseNonBlank(query) ==
  LET NonBlank(pair) == pair.value # "" IN
  SelectSeq([i \in DOMAIN query |-> DecodePair(query[i])], NonBlank)

\* parse_qsl(..., keep_blank_values=True)
ParseQsl(query) == [i \in DOMAIN query |-> DecodePair(query[i])]

\* Mutant: the pairs go through a dict, which keeps the last of a repeated key.
UrlencodeDict(pairs) ==
  LET Final(i) == \A j \in DOMAIN pairs : j > i => pairs[j].key # pairs[i].key
      kept == SelectSeq([i \in DOMAIN pairs |-> i], Final)
  IN  [n \in DOMAIN kept |-> EncodePair(pairs[kept[n]])]

Urlencode(pairs) == [i \in DOMAIN pairs |-> EncodePair(pairs[i])]

ModesAccepted(modes) == Len(modes) <= 1 /\ \A i \in DOMAIN modes : modes[i] \in Modes

\* The body of the loop over the pairs.
AddPair(lists, pair) ==
  CASE pair.key = "sslmode" -> [lists EXCEPT !.ssl_modes = Append(@, pair.value)]
    [] pair.key \notin {"sslmode", "channel_binding"} ->
         [lists EXCEPT !.retained_params = Append(@, pair)]
    [] OTHER -> lists

\* The two lists after each turn of the loop.
Lists(pairs) ==
  LET lists[n \in 0 .. Len(pairs)] ==
        IF n = 0 THEN [ssl_modes |-> <<>>, retained_params |-> <<>>]
                 ELSE AddPair(lists[n - 1], pairs[n])
  IN  lists

\* <<clean_url, ssl_mode>>, or None where a ValueError is raised.
BuildAsyncUrl(url) ==
  IF url = Empty THEN None
  ELSE
  LET pairs == ParseQsl(url.query)
      lists == Lists(pairs)[Len(pairs)]
  IN  IF /\ url.scheme \in {"postgres", "postgresql", "postgresql+asyncpg"}
         /\ ModesAccepted(lists.ssl_modes)
      THEN <<[scheme |-> "postgresql+asyncpg", percent |-> url.percent,
              query |-> Urlencode(lists.retained_params)],
             IF lists.ssl_modes = <<>> THEN None ELSE lists.ssl_modes[1]>>
      ELSE None

\* The lengths of the runs of "%" in a URL.
PercentRuns(url) ==
  {url.percent}
    \cup {1 : i \in {j \in DOMAIN url.query : "p%25" \in {url.query[j].key, url.query[j].value}}}

\* Mutant: "%" is not escaped.
Unescaped(run) == run

\* replace("%", "%%")
Escaped(run) == 2 * run

\* config.set_main_option(): the configuration takes "%" in pairs only.
OptionAccepted(url) == \A run \in PercentRuns(url) : Escaped(run) % 2 = 0

-----------------------------------------------------------------------------
(***************************************************************************)
(* Resolving the URL.                                                      *)
(***************************************************************************)
\* Settings ignores case: a place is read into a dict by lower-case names, in which
\* the spelling that comes last stays.
CaseInsensitive(variables, latter) ==
  IF variables[latter] # None THEN variables[latter]
  ELSE variables[IF latter = "DB_URL" THEN "db_url" ELSE "DB_URL"]

\* Settings(): a variable of the environment, also an empty one, hides .env.
SettingsDbUrl ==
  IF CaseInsensitive(os, last.os) # None
  THEN CaseInsensitive(os, last.os) ELSE CaseInsensitive(file, last.file)

\* load_dotenv(): only what is not set yet.
LoadDotenv == [v \in DOMAIN os |-> IF os[v] # None THEN os[v] ELSE file[v]]

\* Mutant: the names in the other order.
FallbackFirst(environ) ==
  IF environ["DATABASE_URL"] \notin {None, Empty}
  THEN environ["DATABASE_URL"] ELSE environ["DB_URL"]

\* os.getenv("DB_URL") or os.getenv("DATABASE_URL")
GetUrl(environ) ==
  IF environ["DB_URL"] \notin {None, Empty} THEN environ["DB_URL"] ELSE environ["DATABASE_URL"]

Init ==
  /\ \E e \in Environments : os = e.os /\ file = e.file /\ last = e.last
  /\ at = "alembic"
  /\ migrated = None
  /\ served = None

\* env.py imports database.py: the settings must hold a URL that can be built.
ImportDatabase ==
  /\ at = "alembic"
  /\ at' = IF SettingsDbUrl = None \/ BuildAsyncUrl(SettingsDbUrl) = None
           THEN "failed" ELSE "env.py"
  /\ UNCHANGED <<os, file, last, migrated, served>>

\* The rest of env.py, up to the migration.
Migrate ==
  /\ at = "env.py"
  /\ LET url == GetUrl(LoadDotenv)
         built == IF url = None THEN None ELSE BuildAsyncUrl(url)
     IN  \/ /\ built # None
            /\ OptionAccepted(built[1])
            /\ at' = "uvicorn"
            /\ migrated' = built
         \/ /\ built # None => ~OptionAccepted(built[1])
            /\ at' = "failed"
            /\ UNCHANGED migrated
  /\ UNCHANGED <<os, file, last, served>>

\* The application, a new process.
Serve ==
  /\ at = "uvicorn"
  /\ served' = BuildAsyncUrl(SettingsDbUrl)
  /\ at' = "serving"
  /\ UNCHANGED <<os, file, last, migrated>>

Next == ImportDatabase \/ Migrate \/ Serve

Spec == Init /\ [][Next]_vars

-----------------------------------------------------------------------------
(***************************************************************************)
(* Properties.  The application uses Configured, alembic uses Read.        *)
(***************************************************************************)
Configured == SettingsDbUrl
Read == GetUrl(LoadDotenv)

ModePositions(url) == {i \in DOMAIN url.query : Decode(url.query[i].key) = "sslmode"}
OtherPositions(url) ==
  {i \in DOMAIN url.query : Decode(url.query[i].key) \notin {"sslmode", "channel_binding"}}

\* The TLS policy that was used is the URL's.
HasPolicyOf(used, url) ==
  \/ ModePositions(url) = {} /\ used[2] = None
  \/ \E i \in DOMAIN url.query :
       /\ ModePositions(url) = {i}
       /\ used[2] = Decode(url.query[i].value)
       /\ used[2] \in Modes

\* Nobody connects with another TLS policy than the one in the URL they were given:
\* exactly the sslmode it holds, none if it holds none, and not at all if it holds
\* two, a blank one or one that asyncpg does not know.
TlsPolicyIsExact ==
  /\ migrated # None => HasPolicyOf(migrated, Read)
  /\ served # None => HasPolicyOf(served, Configured)

\* Every other option of the URL reaches the driver: as often as it was given, in
\* the same order, with the same key and value once decoded, blank ones included.
OtherOptionsKept ==
  served # None =>
    LET clean == served[1].query IN
    /\ Len(clean) = Cardinality(OtherPositions(Configured))
    /\ \A i \in OtherPositions(Configured) :
         LET n == Cardinality({j \in OtherPositions(Configured) : j <= i}) IN
         DecodePair(clean[n]) = DecodePair(Configured.query[i])

\* DB_URL is written in capitals wherever it is set, as the documentation does.
InCapitals == os["db_url"] = None /\ file["db_url"] = None

\* The migration runs against the database the application then uses, with the
\* same TLS policy, wherever DB_URL and DATABASE_URL are set and to what.  With
\* another spelling they may differ (see the README, "Disagreements").
MigratesTheAppsDatabase == InCapitals /\ at = "serving" => migrated = served

\* A container whose DB_URL is well-formed is not stopped by the way the URL
\* travels through the environment, .env and alembic's configuration.
BootsOnValidUrl ==
  InCapitals /\ at = "failed" =>
    \/ Configured \in {None, Empty}
    \/ Configured.scheme \notin {"postgres", "postgresql", "postgresql+asyncpg"}
    \/ Cardinality(ModePositions(Configured)) > 1
    \/ \E i \in ModePositions(Configured) : Decode(Configured.query[i].value) \notin Modes
=============================================================================
