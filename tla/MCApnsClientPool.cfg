\* One session, ids wrap after two values: every interleaving of a publish
\* with the client's task, the pool's task, the timers and the peers.
CONSTANTS
  s1 = s1
  Sessions <- OneSession
  IdMod = 2
  MaxList = 2
  Unstable <- AdvanceOnly
SPECIFICATION Spec
INVARIANTS
  HealthyConnectionWakes
  StrandedCanRecover
  AdvanceSocketHasParameters
PROPERTIES
  ChannelSpec
