SPECIFICATION SpecOf
CONSTANTS
  Process <- MCProcess
  Pipe <- MCPipe
  Selector = "coordinator"
  Capacity = 2
  Line <- MCLine
  Key = {"400", "404"}
  Value = {1, 2, 3, 4}
  Inputs <- MCOneInput
  Fatal = {"fatal"}
  Endless = {"endless"}
  MapFun <- MCMapFun
  SizeT = 8
  Text <- MCText
PROPERTIES
  ChildrenExit
CHECK_DEADLOCK FALSE
