SPECIFICATION FairSpec
CONSTANTS
  r1 = r1  r2 = r2  NoRequest = NoRequest
  Requests = {r1, r2}
  KindOf <- SyncText
  MaxSerial = 65535
  NumSessions = 2
  MaxSyncs = 1
  MaxStoreFailures = 1
CHECK_DEADLOCK FALSE
INVARIANTS
  NoResponseTooEarly
  AnswersAreOwn
PROPERTIES
  CallsEnd
