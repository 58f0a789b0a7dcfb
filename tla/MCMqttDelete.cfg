\* Is a session ever deleted while it can still be found?
CONSTANTS
  s1 = s1
  s2 = s2
  p2 = p2
  t1 = t1
  t2 = t2
  p1 = p1
  Sessions <- TwoSessions
  Tokens <- TwoTokens
  Providers <- TwoProviders
  None = None
  MaxQueue = 1
SPECIFICATION Spec
PROPERTY DeletedOnlyIfNotHeld
