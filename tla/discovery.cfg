SPECIFICATION FairSpec
CONSTANTS
  Fingerprint = {0, 1, 2}
  Alias = {"a", "A", "b"}
  Fold <- MCFold
  MaxDevices = 2
  MaxAge = 0
  Address = {"x", "y"}
  Cooldown = 1
  MaxTracked = 1
  ScanWindow = 2
  Endpoint = {"e", "f"}
  NoEndpoint = NoEndpoint
  Networks <- MCNetworks
INVARIANTS ListIsSound AnswersAreSpaced ScanAddsUp LookupIsOwn
PROPERTIES ScanEnds LookupEnds
