CONSTANTS
  Room <- MCRoom
  Channel <- MCChannel
  NewName <- MCNewName
  Nick = {n1}
  MaxRequests = 2
  MaxMoves = 1
  MaxSent = 2
SPECIFICATION Spec
INVARIANTS
  AnswersTold
