SPECIFICATION Spec
CONSTANTS
  MaxMessages = 2
  Script <- MCScript
  Nickname = "ann"
  Char = {"/quit", "/private", "bob", ""}
  MaxKeys = 4
  None = none
INVARIANTS
  NoLostRefresh
  ServerLinesInOrder
  ShownAsSent
PROPERTIES
  NothingSentAfterEnd
  Ends
CHECK_DEADLOCK FALSE
