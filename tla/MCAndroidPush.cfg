\* Three packets of the provider, in batches of up to three, two commands of
\* the device and one send that meets a full socket.
CONSTANTS
  Lengths <- SomeLengths
  Appid = 30
  RequestBuffer = 2047
  SendBuffer = 2048
  UIntMod = 65536
  MaxRecord = 16384
  MaxBatch = 3
  MaxPackets = 3
  MaxCommands = 2
  MaxBlocks = 1
SPECIFICATION Spec
\* When everything has been sent, the bounded instance stops.
CHECK_DEADLOCK FALSE
INVARIANTS
  ProviderInStep
  SmallBatchesAreSafe
  CommandsObeyed
  PushesArrive
