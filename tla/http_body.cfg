SPECIFICATION Spec
CONSTANTS
  MaxHeadSize = 9
  MaxBufferedBody = 6
  Symbol <- MCSymbol
  Stream <- MCStream
INVARIANTS DecodesTheBody SplitDoesNotMatter MemoryIsBounded
CHECK_DEADLOCK FALSE
