CONSTANTS
  Key = {"a", "b", "c", "d", "e"}
  Arg = {1}
  Node = {n1, n2, n3}
  CacheSize = 2
  FnvHash <- MCFnvHash
  OatHash <- MCOatHash
SYMMETRY NodeSymmetry
SPECIFICATION Spec
INVARIANTS
  TypeOK
  TraversalOnce
PROPERTY
  ImplementsDictionary
