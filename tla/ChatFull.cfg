SPECIFICATION Spec
CONSTANTS
  c1 = c1
  c2 = c2
  c3 = c3
  c4 = c4
  c5 = c5
  ann = ann
  bob = bob
  cal = cal
  dan = dan
  eve = eve
  None = none
  Conn = {c1, c2, c3, c4, c5}
  Nick = {c1, c2, c3, c4, c5}
  NickOf <- OwnName
  NotLogin = {}
  Spaced = {c4, c5}
  Says <- Silent
  MaxLines <- NoLines
  Leaver = {}
  Resetter = {}
  Slow = {}
  NLogin = 2
  NLogout = 1
  MaxClients = 2
  MaxInbox = 1
  MaxMessages = 1
SYMMETRY Interchangeable
INVARIANTS
  WithinCapacity
CHECK_DEADLOCK FALSE
