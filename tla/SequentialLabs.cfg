SPECIFICATION Spec
CHECK_DEADLOCK FALSE
CONSTANTS
  Var = {x, y}
  Block = {m1, m2, m3, m4}
  N = 2
  MaxId = 3
  MaxDim = 4
  None = none
  Node = {m1, m2, m3, m4}
  Name = {"a", "b"}
  Handle = {x, y}
  Null = null
SYMMETRY Interchangeable
INVARIANTS
  TextsAreOwned
  TreeIsSound
PROPERTIES
  ImplementsDictionary
  ImplementsPathTree
