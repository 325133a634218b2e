------------------------------ MODULE Security -------------------------------
(***************************************************************************)
(* api/core/security.py: the vault, passwords and digests for lookup, over *)
(* processes that come and go with other keys while what they stored       *)
(* stays.                                                                  *)
(*                                                                         *)
(* A call is one step: calls share only the two caches, and threads that   *)
(* miss _key() together decode the same setting.  The primitives are       *)
(* external and ideal: a cipher text opens under its own key only, SHA-256 *)
(* and HMAC are injective, bcrypt reads 72 bytes, random values are fresh. *)
(***************************************************************************)
EXTENDS Naturals, FiniteSets

CONSTANTS
  Aes256Keys,     \* settings that decode to 32 bytes
  Aes128Keys,     \* settings that decode to 16 bytes, a length AES takes too
  NotBase64,      \* settings that do not decode
  SecretKeys,
  Texts,          \* account numbers, passwords and codes
  None,
  MaxBlobs, MaxHashes, MaxDigests,   \* bounds: what is stored, of each kind
  MaxRandom       \* bound: random values drawn

\* Passwords agree in their first 72 bytes or not, and may go on after them.
Passwords == [head : Texts, tail : Texts]

ASSUME SecurityAssumption ==
  /\ None \notin Aes256Keys \cup Aes128Keys \cup NotBase64 \cup SecretKeys
  /\ None \notin Passwords

EncryptionKeys == Aes256Keys \cup Aes128Keys \cup NotBase64

VARIABLES
  ENCRYPTION_KEY, SECRET_KEY,   \* the settings of the running process
  key, decoy,                   \* what _key and _decoy_password_hash cached
  nonces,                       \* random values drawn so far
  vault,                        \* the stored blobs: what was sealed, under which
                                \* key, and whether the database damaged it since
  hashes,                       \* the stored password hashes: of what, and whether
                                \* bcrypt can read them
  digests,                      \* the stored digests
  answer                        \* the last call and its outcome

settings == <<ENCRYPTION_KEY, SECRET_KEY>>
stored == <<vault, hashes, digests>>
vars == <<settings, key, decoy, nonces, stored, answer>>

Digests == {"hash_secret", "hash_short_code"}

Init ==
  /\ ENCRYPTION_KEY \in EncryptionKeys /\ SECRET_KEY \in SecretKeys
  /\ key = None /\ decoy = None
  /\ nonces = 0
  /\ vault = {} /\ hashes = {} /\ digests = {}
  /\ answer = None

-----------------------------------------------------------------------------
(***************************************************************************)
(* The vault.                                                              *)
(***************************************************************************)
\* The body of _key(); None is a ValueError.
Decoded == IF ENCRYPTION_KEY \in Aes256Keys THEN ENCRYPTION_KEY ELSE None

\* _key(): lru_cache keeps results and no exceptions.
Key == IF key # None THEN key ELSE Decoded

\* Mutant: one nonce per process.
CachedNonce == IF key # None THEN nonces ELSE nonces + 1

\* secrets.token_bytes()
Nonce == nonces + 1

\* encrypt_bytes(): the nonce is drawn before the key is looked up.
Encrypt(text) ==
  /\ Cardinality(vault) < MaxBlobs /\ nonces < MaxRandom
  /\ nonces' = Nonce
  /\ key' = Key
  /\ \/ /\ Key = None
        /\ answer' = [op |-> "encrypt", outcome |-> "ValueError"]
        /\ UNCHANGED vault
     \/ /\ Key # None
        /\ vault' = vault \cup
             {[key |-> Key, nonce |-> nonces', text |-> text, form |-> "intact"]}
        /\ answer' = [op |-> "encrypt", outcome |-> "sealed"]
  /\ UNCHANGED <<settings, decoy, hashes, digests>>

\* Mutant: AESGCM refuses a nonce that is too short in its own way.
NoLengthCheck(blob) ==
  CASE Key = None \/ blob.form = "short" -> "ValueError"
    [] blob.form = "altered" \/ blob.key # Key -> "InvalidTag"
    [] OTHER -> blob.text

\* decrypt_bytes(): the length is looked at before the key.
Opened(blob) ==
  CASE blob.form = "short" -> "InvalidTag"
    [] blob.form # "short" /\ Key = None -> "ValueError"
    [] blob.form # "short" /\ Key # None ->
         IF blob.form = "intact" /\ blob.key = Key THEN blob.text ELSE "InvalidTag"

Decrypt(blob) ==
  /\ answer' = [op |-> "decrypt", blob |-> blob, outcome |-> Opened(blob)]
  /\ key' = IF blob.form = "short" THEN key ELSE Key
  /\ UNCHANGED <<settings, decoy, nonces, stored>>

\* The row is altered in the database, or cut off to _NONCE_BYTES bytes or fewer.
Damage(blob, form) ==
  /\ vault' = (vault \ {blob}) \cup {[blob EXCEPT !.form = form]}
  /\ answer' = None
  /\ UNCHANGED <<settings, key, decoy, nonces, hashes, digests>>

-----------------------------------------------------------------------------
(***************************************************************************)
(* Passwords.                                                              *)
(***************************************************************************)
\* Mutant: no digest, so bcrypt sees the first 72 bytes.
NoPrehash(password) == password.head

\* _prehash(): 44 bytes that stand for the whole password.
Prehash(password) == password

\* None is the secret of the decoy, which nobody can type.
HashOf(password, salt) == [of |-> password, salt |-> salt, malformed |-> FALSE]

HashPassword(password) ==
  /\ Cardinality(hashes) < MaxHashes /\ nonces < MaxRandom
  /\ nonces' = nonces + 1
  /\ hashes' = hashes \cup {HashOf(password, nonces')}
  /\ answer' = None
  /\ UNCHANGED <<settings, key, decoy, vault, digests>>

\* A hash that bcrypt cannot read.
Corrupt(hash) ==
  /\ hashes' = (hashes \ {hash}) \cup {[hash EXCEPT !.malformed = TRUE]}
  /\ answer' = None
  /\ UNCHANGED <<settings, key, decoy, nonces, vault, digests>>

\* verify_password(): bcrypt raises on a malformed hash, and that is a False.
VerifyPassword(password, hash) ==
  ~hash.malformed /\ hash.of # None /\ Prehash(password) = Prehash(hash.of)

\* verify_password_equal_time(): without a hash the password is checked against
\* the decoy, which the first such call of the process makes, and the answer is
\* discarded.
Login(password, hash) ==
  /\ IF hash = None /\ decoy = None
     THEN nonces < MaxRandom /\ nonces' = nonces + 1 /\ decoy' = HashOf(None, nonces')
     ELSE UNCHANGED <<nonces, decoy>>
  /\ answer' = [op |-> "login", password |-> password, hash |-> hash,
                outcome |-> hash # None /\ VerifyPassword(password, hash)]
  /\ UNCHANGED <<settings, key, stored>>

-----------------------------------------------------------------------------
(***************************************************************************)
(* Digests for lookup.                                                     *)
(***************************************************************************)
\* hash_secret() and hash_short_code(), which is keyed.
Digest(kind, text) == IF kind = "hash_secret" THEN <<text>> ELSE <<SECRET_KEY, text>>

StoreDigest(kind, text) ==
  /\ Cardinality(digests) < MaxDigests
  /\ digests' = digests \cup
       {[kind |-> kind, text |-> text, secret_key |-> SECRET_KEY,
         digest |-> Digest(kind, text)]}
  /\ answer' = None
  /\ UNCHANGED <<settings, key, decoy, nonces, vault, hashes>>

LookUp(kind, text) ==
  /\ answer' = [op |-> "lookup", kind |-> kind, text |-> text,
                outcome |-> \E d \in digests : d.kind = kind /\ d.digest = Digest(kind, text)]
  /\ UNCHANGED <<settings, key, decoy, nonces, stored>>

-----------------------------------------------------------------------------
\* A new process, with the same settings or others.
Restart ==
  /\ ENCRYPTION_KEY' \in EncryptionKeys /\ SECRET_KEY' \in SecretKeys
  /\ key' = None /\ decoy' = None /\ answer' = None
  /\ UNCHANGED <<nonces, stored>>

Next ==
  \/ \E text \in Texts : Encrypt(text)
  \/ \E blob \in vault : Decrypt(blob) \/ \E form \in {"altered", "short"} : Damage(blob, form)
  \/ \E password \in Passwords :
       HashPassword(password) \/ \E hash \in hashes \cup {None} : Login(password, hash)
  \/ \E hash \in hashes : Corrupt(hash)
  \/ \E kind \in Digests, text \in Texts : StoreDigest(kind, text) \/ LookUp(kind, text)
  \/ Restart

Spec == Init /\ [][Next]_vars

-----------------------------------------------------------------------------
(***************************************************************************)
(* Properties.                                                             *)
(***************************************************************************)
Answered(op) == answer # None /\ answer.op = op

\* However often the key was changed, mistyped and changed back, a blob gives the
\* account number that was sealed in it or an exception: InvalidTag when it is
\* not this key's or not whole, so that no caller takes it for a miss.
OpensExactly ==
  Answered("decrypt") =>
    LET blob == answer.blob IN
    IF blob.form = "short" THEN answer.outcome = "InvalidTag"
    ELSE IF ENCRYPTION_KEY \notin Aes256Keys THEN answer.outcome = "ValueError"
    ELSE answer.outcome =
           IF blob.form = "intact" /\ blob.key = ENCRYPTION_KEY THEN blob.text ELSE "InvalidTag"

\* However calls fail, are retried and restarts change the setting back and forth,
\* nothing is stored under a setting that is not an AES-256 key, and no two blobs
\* of one key share a nonce.
SealedSoundly ==
  /\ \A blob \in vault : blob.key \in Aes256Keys
  /\ \A a, b \in vault : a.key = b.key /\ a.nonce = b.nonce => a = b

\* What is stored recognises exactly what it was made of.  A login succeeds with
\* the password of the hash and no other, also where two differ only after 72
\* bytes, and never on a hash bcrypt cannot read; a digest is found again by any
\* later process, that of a short code by those with the same SECRET_KEY only.
RecognisesExactly ==
  /\ Answered("login") =>
       (answer.outcome <=> /\ answer.hash # None
                           /\ ~answer.hash.malformed
                           /\ answer.hash.of = answer.password)
  /\ Answered("lookup") =>
       (answer.outcome <=>
          \E d \in digests : /\ d.kind = answer.kind
                             /\ d.text = answer.text
                             /\ d.kind = "hash_secret" \/ d.secret_key = SECRET_KEY)
=============================================================================
