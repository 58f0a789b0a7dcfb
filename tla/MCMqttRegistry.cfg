\* Two session objects, two devices, two push providers.
CONSTANTS
  s1 = s1
  s2 = s2
  p2 = p2
  t1 = t1
  t2 = t2
  p1 = p1
  Sessions <- TwoSessions
  Tokens <- TwoTokens
  Providers <- TwoProviders
  None = None
  MaxQueue = 1
SPECIFICATION Spec
SYMMETRY RegistrySymmetry
INVARIANTS
  EntryIsConnected
  PushReachesOwner
  ConnectedIsReachable
