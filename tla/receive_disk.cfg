SPECIFICATION Spec
CONSTANTS
  Conn = {c1, c2}
  NoConn = NoConn
  Address = {"x"}
  Peer = {"p"}
  NoPeer = NoPeer
  FileId = {1, 2}
  FileName = {"a", "a.part"}
  MaxSize = 2
  Path <- MCPath
  NoPath = NoPath
  Offers <- Rivals
  MaxFilesPerSession = 2
  Lengths = {2, Chunked}
  Chunked = Chunked
  Candidates <- MCCandidates
  PartOf <- MCPartOf
  ProbePath = "probe"
  QuickSaveModes = {TRUE}
  MaxSessions = 1
  MaxRestarts = 1
  MaxForeign = 1
SYMMETRY Slots
INVARIANTS SingleWriter NoLitter DoneIsOnDisk FinishedMeansAll ProgressAddsUp
PROPERTY SettledFilesStay
