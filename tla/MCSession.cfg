\* session: servers that follow the protocol and servers that do not.
CONSTANTS
  Manners = {TRUE, FALSE}
  CanSquit = TRUE
  IdMod = 4
  MaxLines = 6
  MaxServers = 2
  MaxSent = 5
  MaxInFlight = 2
  RudeLines = 4
  RudeSent = 2
SPECIFICATION FairSpec
INVARIANTS
  TypeOK
  LoginGates
  ExecutedInOrder
  PacketsKeyed
  PacketIds
  CommandsAfterWelcome
PROPERTIES
  ImplementsInOrderExec
  LoginDecided
  KeptIsServed
