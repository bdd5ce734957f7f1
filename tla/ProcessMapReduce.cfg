SPECIFICATION SpecOf
CONSTANTS
  Process <- MCProcess
  Pipe <- MCPipe
  Selector = "coordinator"
  Capacity = 2
  Line <- MCLine
  Key = {"400", "404"}
  Value = {1, 2, 3, 4}
  Inputs <- MCInputs
  Fatal = {"fatal"}
  Endless = {"endless"}
  MapFun <- MCMapFun
  SizeT = 8
  Text <- MCText
INVARIANTS
  FlagsAreTrue
  NoBrokenPipe
  BytesAreReadBack
PROPERTIES
  ImplementsMapReduce
  ChildrenEnd
CHECK_DEADLOCK FALSE
