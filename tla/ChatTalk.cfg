SPECIFICATION Spec
CONSTANTS
  c1 = c1
  c2 = c2
  c3 = c3
  c4 = c4
  c5 = c5
  ann = ann
  bob = bob
  cal = cal
  dan = dan
  eve = eve
  None = none
  Conn = {c1, c2}
  Nick = {ann, bob}
  NickOf <- OwnNicks
  NotLogin = {}
  Spaced = {}
  Says <- Talk
  MaxLines <- TwoLines
  Leaver = {c1}
  Resetter = {c1}
  Slow = {c1}
  NLogin = 1
  NLogout = 1
  MaxClients = 3
  MaxInbox = 2
  MaxMessages = 2
INVARIANTS
  InOrder
PROPERTIES
  LoginResolves
  LogoutCompletes
CHECK_DEADLOCK FALSE
