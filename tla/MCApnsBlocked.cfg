\* A full kernel buffer: does the message that could not be written stay?
CONSTANTS
  s1 = s1
  Sessions <- OneSession
  IdMod = 2
  MaxList = 2
  Unstable <- AdvanceOnly
SPECIFICATION Spec
PROPERTY BlockedMessageStaysListed
