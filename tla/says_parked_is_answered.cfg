SPECIFICATION QuietSpec
CONSTANTS
  Conn = {c1, c2}
  NoConn = NoConn
  Address = {"x"}
  Peer = {"p"}
  NoPeer = NoPeer
  FileId = {1}
  FileName = {"a"}
  MaxSize = 1
  Path <- MCPath
  NoPath = NoPath
  Offers <- OneFile
  MaxFilesPerSession = 2
  Lengths = {1}
  Chunked = Chunked
  Candidates <- MCCandidates
  PartOf <- MCPartOf
  ProbePath = "probe"
  QuickSaveModes = {FALSE}
  MaxSessions = 0
  MaxRestarts = 0
  MaxForeign = 0
PROPERTY ParkedIsAnswered
