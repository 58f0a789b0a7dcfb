\* Two sessions, two applications, two seconds, three requests.
CONSTANTS
  s1 = s1
  s2 = s2
  a1 = a1
  a2 = a2
  None = None
  Sessions <- TwoSessions
  Apps <- TwoApps
  MaxTime = 1
  MaxRequests = 3
SPECIFICATION Spec
\* When every session has ended the bounded instance stops.
CHECK_DEADLOCK FALSE
SYMMETRY AppSymmetry
INVARIANTS
  AuditSettles
  MarkedByOwnRequest
  OneConnectDocument
  ClosedByItsApplication
