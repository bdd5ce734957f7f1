SPECIFICATION Spec
CHECK_DEADLOCK FALSE
CONSTANTS
  s1 = s1
  s2 = s2
  Writer = {s1, s2}
  Messages <- MCMessages
  Capacity = 2
  Timeout = 2
  MaxSignals = 2
INVARIANTS
  LinesAreWhole
  BytesAreKept
  OneByteLate
PROPERTIES
  ReceiveEnds
