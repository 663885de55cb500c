SPECIFICATION FairSpec
CONSTANTS
  Conn = {c1}
  NoConn = NoConn
  Address = {"x"}
  Peer = {"p"}
  NoPeer = NoPeer
  FileId = {1, 2, 3}
  FileName = {"a"}
  MaxSize = 2
  Path <- MCPath
  NoPath = NoPath
  Offers <- TwoOfTheirs
  MaxFilesPerSession = 2
  Lengths = {1, Chunked}
  Chunked = Chunked
  Candidates <- MCCandidates
  PartOf <- MCPartOf
  ProbePath = "probe"
  QuickSaveModes = {TRUE, FALSE}
  MaxSessions = 1
  MaxForeign = 0
  Selections <- OneOfOurs
  SourceOf <- MCSourceOf
  MaxSends = 1
INVARIANT NeverMoreThanAgreed
PROPERTIES PromptEnds SessionEnds SendEnds OnlySendingHolds
