SPECIFICATION Spec
CONSTANTS
  o1 = o1  u1 = u1  c1 = c1  c2 = c2  g1 = g1  k1 = k1  p1 = p1  a1 = a1
  t1 = t1  t2 = t2  v1 = v1  s1 = s1  n1 = n1  n2 = n2  m1 = m1
  NULL = NULL
  Organizations <- OneOrganization
  Users <- OneUser
  Contests <- TwoContests
  Categories <- OneCategory
  Candidates <- OneCandidate
  VotePackages <- OnePackage
  Subaccounts <- OneSubaccount
  Transactions <- TwoTransactions
  Votes <- OneVote
  Settlements <- OneSettlement
  Names <- TwoNames
  Matrics <- OneMatric
CONSTRAINT Bounds
INVARIANTS
  IdentityCap
PROPERTIES
  LedgerAppendOnly
  EvidenceSurvives
  RecordsOutliveLogins
