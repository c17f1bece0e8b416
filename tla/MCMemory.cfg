\* memory: the areas of a connection over its events, with its table.
CONSTANTS
  Area = {a1, a2, a3}
  nmemb = 2
  Piece = {p1, p2, p3, p4}
  Node <- MCNode
  Block <- MCBlock
  None = None
  MaxRooms = 2
SYMMETRY PlaceSymmetry
SPECIFICATION MemorySpec
INVARIANTS
  MemoryTypeOK
  HeldIsMemory
  OneAreaIsEnough
  NothingLost
