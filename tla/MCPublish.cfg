\* Two publishes, at once or one after the other, with a device of each kind,
\* the same or different redis servers, a connection that breaks once and one
\* token that is marked or unmarked meanwhile.
CONSTANTS
  s1 = s1
  s2 = s2
  ios = ios
  android = android
  redis1 = redis1
  redis2 = redis2
  Sessions <- TwoSessions
  Tokens <- OneOfEach
  IosTokens <- OnlyIos
  NoToken = NoToken
  Servers <- TwoServers
  None = None
  IdMod = 4
  RecMod = 2
  MaxPublishes = 2
  MaxBreaks = 1
  MaxMarks = 1
SPECIFICATION Spec
\* When everything has been sent, the bounded instance stops.
CHECK_DEADLOCK FALSE
SYMMETRY SessionSymmetry
INVARIANTS
  AnswerTellsTruth
  TokensRespected
  LookUpReaches
  AuditNamesItsPush
