SPECIFICATION Spec
CONSTANTS
  c1 = c1
  c2 = c2
  c3 = c3
  c4 = c4
  c5 = c5
  ann = ann
  bob = bob
  cal = cal
  dan = dan
  eve = eve
  None = none
  Conn = {c1, c2, c3, c4}
  Nick = {ann, bob, cal, dan}
  NickOf <- OwnNicks
  NotLogin = {}
  Spaced = {}
  Says <- Silent
  MaxLines <- NoLines
  Leaver = {}
  Resetter = {}
  Slow = {}
  NLogin = 1
  NLogout = 1
  MaxClients = 2
  MaxInbox = 2
  MaxMessages = 1
PROPERTIES
  LoginResolves
CHECK_DEADLOCK FALSE
