SPECIFICATION Spec
CONSTANTS
  Address = {"x", "y"}
  FreeAttempts = 1
  BaseBackoff = 2
  MaxBackoff = 7
  ForgetAfter = 8
  MaxEntries = 1
  Second = 2
  MaxTime = 34
INVARIANTS TableCounts RetryAfterIsHonest
PROPERTIES GuessesAreSpaced
