CONSTANTS
  Room <- MCRoom
  Channel <- MCChannel
  NewName <- MCNewName
  Nick = {n1}
  MaxRequests = 3
  MaxMoves = 2
  MaxSent = 3
SPECIFICATION Spec
INVARIANTS
  TypeOK
  PendingInOrder
  ViewIsChans
  ChansAreServersPast
PROPERTY
  RequestsSettle
