SPECIFICATION Spec
CONSTANTS
  Producer = {p1, p2}
  Consumer = {c1, c2}
  Main = main
  File <- MCFile
  TxtFile <- MCTxtFile
  Content <- MCContent
  access = access
  notes = notes
  empty = empty
  image = image
  QueueSize = 2
  None = none
INVARIANTS
  MatchesPrintedOnce
  NoPutOnClosedQueue
PROPERTIES
  LinesTakenInOrder
  Terminates
CHECK_DEADLOCK FALSE
