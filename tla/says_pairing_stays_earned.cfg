SPECIFICATION Spec
CONSTANTS
  Conn = {c1, c2}
  NoConn = NoConn
  Address = {"x"}
  Peer = {"p", "q"}
  NoPeer = NoPeer
  FileId = {1, 2, 3, 4}
  FileName = {"a", "b"}
  MaxSize = 2
  Path <- MCPath
  NoPath = NoPath
  Offers <- TheirFiles
  MaxFilesPerSession = 2
  Lengths = {1}
  Chunked = Chunked
  Candidates <- MCCandidates
  PartOf <- MCPartOf
  ProbePath = "probe"
  QuickSaveModes = {TRUE}
  MaxSessions = 1
  MaxForeign = 0
  Selections <- OurFiles
  SourceOf <- MCSourceOf
  MaxSends = 1
INVARIANT PairingStaysEarned
