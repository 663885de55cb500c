SPECIFICATION FairSpec
CONSTANTS
  FileId = {1, 2, 3}
  FileName = {"a", "b", "c"}
  MaxSize = 2
  Path = {"a", "b", "c"}
  NoPath = NoPath
  Receiver = {"p", "q"}
  NoReceiver = NoReceiver
  Blocked = {"q"}
  Selections <- MCSelections
  SourceOf <- MCSourceOf
  MaxSends = 2
INVARIANTS BusyIsBacked EachFileOnce SentMeansAnswered PairingIsEarned
PROPERTY SendEnds
