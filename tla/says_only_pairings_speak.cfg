SPECIFICATION Spec
CONSTANTS
  Peer = {p1, p2}
  Name = {"a", "b"}
  NoName = ""
  MaxRecords = 2
  MaxStarts = 3
  MaxOps = 4
  MaxOutages = 1
  MaxLosses = 1
INVARIANT OnlyPairingsSpeak
CHECK_DEADLOCK FALSE
