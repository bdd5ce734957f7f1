SPECIFICATION Spec
CONSTANTS
  c1 = c1
  c2 = c2
  c3 = c3
  c4 = c4
  c5 = c5
  ann = ann
  bob = bob
  cal = cal
  dan = dan
  eve = eve
  None = none
  Conn = {c1, c2, c3}
  Nick = {ann, bob}
  NickOf <- SharedNicks
  NotLogin = {c2}
  Spaced = {}
  Says <- Correspondence
  MaxLines <- OneLetter
  Leaver = {}
  Resetter = {}
  Slow = {}
  NLogin = 2
  NLogout = 1
  MaxClients = 3
  MaxInbox = 2
  MaxMessages = 1
SYMMETRY Twins
INVARIANTS
  PrivateStaysPrivate
  LogoutNeverThrows
  ViewsAgree
PROPERTIES
  NicknameKept
CHECK_DEADLOCK FALSE
