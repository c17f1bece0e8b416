CONSTANTS
  MaxByte = 2
  Valid = 1
  HeadSize = 2
  BufSize = 3
  MaxPackets = 2
SPECIFICATION PacketSpec
INVARIANTS
  PacketTypeOK
  PacketsAsSent
PROPERTY
  ImplementsPacketStream
