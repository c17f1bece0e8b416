CONSTANTS
  Char = {"a", "b", "r", "n"}
  CR = "r"
  Ends = {"n"}
  BufSize = 3
  MaxBytes = 6
SPECIFICATION LineSpec
INVARIANTS
  LineTypeOK
  BufferIsStream
PROPERTY
  ImplementsLineStream
