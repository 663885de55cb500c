SPECIFICATION Spec
CONSTANTS
  Conn = {c1, c2}
  NoConn = NoConn
  Address = {"x", "y"}
  Peer = {"p", "q"}
  NoPeer = NoPeer
  FileId = {1}
  FileName = {"a"}
  MaxSize = 1
  Path <- MCPath
  NoPath = NoPath
  Offers <- OneFile
  MaxFilesPerSession = 2
  Lengths = {0, 1, Chunked}
  Chunked = Chunked
  Candidates <- MCCandidates
  PartOf <- MCPartOf
  ProbePath = "probe"
  QuickSaveModes = {TRUE, FALSE}
  MaxSessions = 2
  MaxRestarts = 0
  MaxForeign = 0
SYMMETRY Slots
INVARIANTS PromptIsBacked SessionIsBacked UploadsBelong SpinnerIsBacked RecordsAreEarned AckedIsKept
PROPERTY KeepsPromise
