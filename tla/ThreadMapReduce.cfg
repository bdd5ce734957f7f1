SPECIFICATION Spec
CONSTANTS
  Mapper = {m1, m2}
  Reducer = {r1, r2}
  Main = main
  Key <- MCKey
  NoKey = nokey
  home = home
  page = page
  notfound = notfound
  ok = ok
  BadCode = {notfound}
  Calls <- MCCalls
  Input <- MCInput
  QueueSize = 1
  None = none
PROPERTIES
  ClosedInOrder
  ImplementsUnordered
CHECK_DEADLOCK FALSE
