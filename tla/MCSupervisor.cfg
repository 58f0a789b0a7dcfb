\* Three process ids; signals, failed starts and crashes at any time.
CONSTANTS
  p1 = p1
  p2 = p2
  p3 = p3
  Parent = Parent
  None = None
  Pids <- ThreePids
SPECIFICATION FairSpec
CHECK_DEADLOCK FALSE
INVARIANTS
  OneServer
  ForwardsToPresentChild
PROPERTY
  ServerComesBack
