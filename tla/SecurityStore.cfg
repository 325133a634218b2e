SPECIFICATION Spec
CONSTANTS
  None = None
  k1 = k1
  k2 = k2
  half = half
  junk = junk
  s1 = s1
  s2 = s2
  t1 = t1
  t2 = t2
  Texts <- TwoTexts
  Aes256Keys <- TwoKeys
  Aes128Keys <- HalfKey
  NotBase64 <- Junk
  SecretKeys <- TwoSecrets
  MaxBlobs = 2
  MaxHashes = 1
  MaxDigests = 2
  MaxRandom = 4
CONSTRAINT StoredBound
SYMMETRY Symmetry
INVARIANTS
  OpensExactly
  SealedSoundly
  RecognisesExactly
