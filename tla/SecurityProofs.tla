---------------------------- MODULE SecurityProofs ----------------------------
(***************************************************************************)
(* security.py for any keys, texts and number of stored values, over any   *)
(* number of restarts.                                                     *)
(***************************************************************************)
EXTENDS Security, TLAPS

(***************************************************************************)
(* The inductive invariant.  The key lru_cache keeps is the setting of     *)
(* this process, every nonce ever drawn is below the next one, and a       *)
(* stored digest is the one its own process computed.                      *)
(***************************************************************************)
KeyIsSetting == key # None => key = ENCRYPTION_KEY /\ key \in Aes256Keys

Blob ==
  [key : Aes256Keys, nonce : Nat, text : Texts, form : {"intact", "altered", "short"}]

VaultOK ==
  /\ nonces \in Nat
  /\ vault \subseteq Blob
  /\ \A blob \in vault : blob.nonce <= nonces
  /\ \A a, b \in vault : a.nonce = b.nonce => a = b

DigestOK(d) ==
  d.digest = IF d.kind = "hash_secret" THEN <<d.text>> ELSE <<d.secret_key, d.text>>

DigestsOK == \A d \in digests : DigestOK(d)

IInv == KeyIsSetting /\ VaultOK /\ DigestsOK

-----------------------------------------------------------------------------
\* _key() is the setting, cached or not, and fails exactly when the setting is
\* not 32 bytes of base64.
LEMMA KeyIsExact ==
  ASSUME KeyIsSetting
  PROVE  IF ENCRYPTION_KEY \in Aes256Keys THEN Key = ENCRYPTION_KEY /\ Key # None
                                          ELSE Key = None
  BY SecurityAssumption DEF KeyIsSetting, Key, Decoded

LEMMA IInvNext == IInv /\ [Next]_vars => IInv'
  <1> SUFFICES ASSUME IInv, [Next]_vars PROVE IInv'
    OBVIOUS
  <1>0. KeyIsSetting /\ VaultOK /\ DigestsOK
    BY DEF IInv
  <1>1. KeyIsSetting'
    <2>1. CASE Restart
      BY <2>1 DEF Restart, KeyIsSetting
    <2>2. CASE key' = key /\ UNCHANGED settings
      BY <1>0, <2>2 DEF KeyIsSetting, settings
    <2>3. CASE key' = Key /\ UNCHANGED settings
      BY <1>0, <2>3, KeyIsExact DEF KeyIsSetting, settings
    <2>4. QED
      BY <2>1, <2>2, <2>3
         DEF Next, vars, Encrypt, Decrypt, Damage, HashPassword, Corrupt, Login, StoreDigest,
             LookUp
  <1>2. VaultOK'
    <2>1. ASSUME NEW text \in Texts, Encrypt(text) PROVE VaultOK'
      <3>1. nonces' = nonces + 1 /\ nonces' \in Nat
        BY <1>0, <2>1 DEF Encrypt, Nonce, VaultOK
      <3>2. CASE vault' = vault
        BY <1>0, <3>1, <3>2 DEF VaultOK, Blob
      <3>3. CASE Key # None
        <4>1. PICK b : b = [key |-> Key, nonce |-> nonces', text |-> text, form |-> "intact"]
          OBVIOUS
        <4>2. vault' = vault \cup {b}
          BY <2>1, <3>3, <4>1 DEF Encrypt
        <4>3. Key \in Aes256Keys
          BY <1>0, <3>3, KeyIsExact
        <4>4. b \in Blob /\ b.nonce = nonces'
          BY <3>1, <4>1, <4>3 DEF Blob
        <4>5. \A a \in vault : a.nonce \in Nat /\ a.nonce <= nonces
          BY <1>0 DEF VaultOK, Blob
        <4>6. QED
          BY <1>0, <3>1, <4>2, <4>4, <4>5 DEF VaultOK
      <3>4. QED
        BY <2>1, <3>2, <3>3 DEF Encrypt
    <2>2. ASSUME NEW blob \in vault, NEW form \in {"altered", "short"}, Damage(blob, form)
          PROVE  VaultOK'
      <3>1. PICK b : b = [blob EXCEPT !.form = form]
        OBVIOUS
      <3>2. vault' = (vault \ {blob}) \cup {b} /\ nonces' = nonces
        BY <2>2, <3>1 DEF Damage
      <3>3. blob \in Blob
        BY <1>0 DEF VaultOK
      <3>4. b \in Blob /\ b.nonce = blob.nonce
        BY <3>1, <3>3 DEF Blob
      <3>5. QED
        BY <1>0, <3>2, <3>4 DEF VaultOK
    <2>3. CASE vault' = vault /\ nonces' \in {nonces, nonces + 1}
      <3>1. \A blob \in vault : blob.nonce \in Nat
        BY <1>0 DEF VaultOK, Blob
      <3>2. QED
        BY <1>0, <2>3, <3>1 DEF VaultOK
    <2>4. QED
      BY <2>1, <2>2, <2>3
         DEF Next, vars, stored, Decrypt, HashPassword, Corrupt, Login, StoreDigest, LookUp,
             Restart
  <1>3. DigestsOK'
    <2>1. ASSUME NEW kind \in Digests, NEW text \in Texts, StoreDigest(kind, text)
          PROVE  DigestsOK'
      <3>1. PICK d : d = [kind |-> kind, text |-> text, secret_key |-> SECRET_KEY,
                          digest |-> Digest(kind, text)]
        OBVIOUS
      <3>2. digests' = digests \cup {d}
        BY <2>1, <3>1 DEF StoreDigest
      <3>3. DigestOK(d)
        BY <3>1 DEF DigestOK, Digest
      <3>4. QED
        BY <1>0, <3>2, <3>3 DEF DigestsOK
    <2>2. CASE digests' = digests
      BY <1>0, <2>2 DEF DigestsOK
    <2>3. QED
      BY <2>1, <2>2
         DEF Next, vars, stored, Encrypt, Decrypt, Damage, HashPassword, Corrupt, Login,
             LookUp, Restart
  <1>4. QED
    BY <1>1, <1>2, <1>3 DEF IInv

LEMMA Invariant == Spec => []IInv
  <1>1. Init => IInv
    BY DEF Init, IInv, KeyIsSetting, VaultOK, DigestsOK
  <1>2. QED
    BY <1>1, IInvNext, PTL DEF Spec

\* Whatever failed, was retried or restarted with other settings, every blob is
\* sealed under an AES-256 key, and no two blobs of one key share a nonce.
THEOREM VaultIsSound == Spec => []SealedSoundly
  <1>1. IInv => SealedSoundly
    BY DEF IInv, VaultOK, Blob, SealedSoundly
  <1>2. QED
    BY <1>1, Invariant, PTL

-----------------------------------------------------------------------------
(***************************************************************************)
(* The answers: each is judged in the step that gives it.                  *)
(***************************************************************************)
LEMMA OpensNext == IInv /\ OpensExactly /\ [Next]_vars => OpensExactly'
  <1> SUFFICES ASSUME IInv, OpensExactly, [Next]_vars PROVE OpensExactly'
    OBVIOUS
  <1>1. ASSUME NEW blob \in vault, Decrypt(blob) PROVE OpensExactly'
    <2>1. /\ answer' = [op |-> "decrypt", blob |-> blob, outcome |-> Opened(blob)]
          /\ ENCRYPTION_KEY' = ENCRYPTION_KEY
      BY <1>1 DEF Decrypt, settings
    <2>2. answer'.blob = blob /\ answer'.outcome = Opened(blob)
      BY <2>1
    <2>3. IF ENCRYPTION_KEY \in Aes256Keys THEN Key = ENCRYPTION_KEY /\ Key # None
                                           ELSE Key = None
      BY KeyIsExact DEF IInv
    <2>4. QED
      BY <2>1, <2>2, <2>3 DEF OpensExactly, Opened
  <1>2. CASE answer' = None \/ answer'.op # "decrypt"
    BY <1>2 DEF OpensExactly, Answered
  <1>3. CASE UNCHANGED vars
    BY <1>3 DEF vars, settings, OpensExactly, Answered
  <1>4. QED
    BY <1>1, <1>2, <1>3
       DEF Next, Encrypt, Damage, HashPassword, Corrupt, Login, StoreDigest, LookUp, Restart

\* A blob opens to what was sealed in it, under its own key and undamaged, and
\* otherwise to the exception that says why: also with a key that was cached.
THEOREM VaultOpensExactly == Spec => []OpensExactly
  <1>1. Init => OpensExactly
    BY DEF Init, OpensExactly, Answered
  <1>2. QED
    BY <1>1, OpensNext, Invariant, PTL DEF Spec

\* d was stored for this text, by a process that would compute the same digest.
IsOf(d, kind, text) ==
  /\ d.kind = kind
  /\ d.text = text
  /\ d.kind = "hash_secret" \/ d.secret_key = SECRET_KEY

\* Two digests are equal only if they are of the same text, and of the same key
\* where there is one.
LEMMA DigestIsExact ==
  ASSUME NEW d \in digests, DigestOK(d), NEW kind \in Digests, NEW text, d.kind = kind
  PROVE  d.digest = Digest(kind, text) <=>
           d.text = text /\ (d.kind = "hash_secret" \/ d.secret_key = SECRET_KEY)
  BY DEF DigestOK, Digest, Digests

LEMMA RecognisesNext == IInv /\ RecognisesExactly /\ [Next]_vars => RecognisesExactly'
  <1> SUFFICES ASSUME IInv, RecognisesExactly, [Next]_vars PROVE RecognisesExactly'
    OBVIOUS
  <1>1. ASSUME NEW password \in Passwords, NEW hash \in hashes \cup {None},
               Login(password, hash)
        PROVE  RecognisesExactly'
    <2> DEFINE matched == hash # None /\ VerifyPassword(password, hash)
    <2>1. answer' = [op |-> "login", password |-> password, hash |-> hash,
                     outcome |-> matched]
      BY <1>1 DEF Login
    <2>2. /\ answer'.op = "login" /\ answer'.password = password /\ answer'.hash = hash
          /\ answer'.outcome = matched
      BY <2>1, Zenon
    <2>3. password # None
      BY SecurityAssumption
    <2>4. matched <=> hash # None /\ ~hash.malformed /\ hash.of = password
      BY <2>3, Zenon DEF VerifyPassword, Prehash
    <2> HIDE DEF matched
    <2>5. QED
      BY <2>2, <2>4, Zenon DEF RecognisesExactly, Answered
  <1>2. ASSUME NEW kind \in Digests, NEW text \in Texts, LookUp(kind, text)
        PROVE  RecognisesExactly'
    <2> DEFINE found == \E d \in digests : d.kind = kind /\ d.digest = Digest(kind, text)
    <2>1. /\ answer' = [op |-> "lookup", kind |-> kind, text |-> text, outcome |-> found]
          /\ digests' = digests /\ SECRET_KEY' = SECRET_KEY
      BY <1>2 DEF LookUp, stored, settings
    <2>2. /\ answer'.op = "lookup" /\ answer'.kind = kind /\ answer'.text = text
          /\ answer'.outcome = found
      BY <2>1, Zenon
    <2>3. ASSUME NEW d \in digests
          PROVE  d.kind = kind /\ d.digest = Digest(kind, text) <=> IsOf(d, kind, text)
      BY DigestIsExact DEF IInv, DigestsOK, IsOf
    <2>4. found <=> \E d \in digests : IsOf(d, kind, text)
      BY <2>3, Zenon
    <2> HIDE DEF found
    <2>5. (\E d \in digests : IsOf(d, kind, text))
            <=> (\E d \in digests : IsOf(d, answer.kind, answer.text))'
      BY <2>1, <2>2 DEF IsOf
    <2>6. ~Answered("login")'
      BY <2>2 DEF Answered
    <2>7. QED
      BY <2>2, <2>4, <2>5, <2>6, Zenon DEF RecognisesExactly, IsOf
  <1>3. CASE answer' = None \/ answer'.op \notin {"login", "lookup"}
    BY <1>3 DEF RecognisesExactly, Answered
  <1>4. CASE UNCHANGED vars
    BY <1>4 DEF vars, stored, settings, RecognisesExactly, Answered
  <1>5. QED
    BY <1>1, <1>2, <1>3, <1>4
       DEF Next, Encrypt, Decrypt, Damage, HashPassword, Corrupt, StoreDigest, Restart

\* A stored hash or digest recognises what it was made of and nothing else, for
\* every password, text and key, whatever was stored, damaged and restarted.
THEOREM StoredRecognises == Spec => []RecognisesExactly
  <1>1. Init => RecognisesExactly
    BY DEF Init, RecognisesExactly, Answered
  <1>2. QED
    BY <1>1, RecognisesNext, Invariant, PTL DEF Spec
=============================================================================
