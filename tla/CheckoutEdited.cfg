SPECIFICATION CheckoutSpec
CONSTANTS
  o1 = o1  c1 = c1  c2 = c2  g1 = g1  g2 = g2  k1 = k1  p1 = p1  t1 = t1  t2 = t2
  n1 = n1  n2 = n2  m1 = m1
  NULL = NULL
  Organizations <- OneOrganization
  Users <- NoIds
  Contests <- TwoContests
  Categories <- TwoCategories
  Candidates <- OneCandidate
  VotePackages <- OnePackage
  Subaccounts <- NoIds
  Transactions <- TwoTransactions
  Votes <- NoIds
  Settlements <- NoIds
  Names <- TwoNames
  Matrics <- OneMatric
INVARIANTS
  CapCoversContest
