\* One session that publishes for ever, disturbances of the advance client.
CONSTANTS
  s1 = s1
  Sessions <- OneSession
  IdMod = 1
  MaxList = 1
  Unstable <- AdvanceOnly
SPECIFICATION FairSpec
PROPERTY SendListMoves
