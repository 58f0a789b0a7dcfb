\* Two sessions, three messages, three sockets.
CONSTANTS
  s1 = s1
  s2 = s2
  m1 = m1
  m2 = m2
  m3 = m3
  None = None
  Sessions <- TwoSessions
  Messages <- ThreeMessages
  MaxSockets = 3
SPECIFICATION Spec
\* The process may call exit(-1) or fail an assertion.
CHECK_DEADLOCK FALSE
SYMMETRY C2dmSymmetry
INVARIANTS
  SocketUsable
  OwnMessage
  OnlyFailedSocketsLose
  StrandedByInitOnly
  ListedIsAwaited
PROPERTY MailSpec
