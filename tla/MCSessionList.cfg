CONSTANTS
  Manners = {TRUE}
  CanSquit = TRUE
  IdMod = 4
  MaxLines = 5
  MaxServers = 2
  MaxSent = 5
  MaxInFlight = 2
  RudeLines = 0
  RudeSent = 0
SPECIFICATION Spec
INVARIANT
  EveryPacketEncoded
