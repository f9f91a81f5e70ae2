SPECIFICATION Spec
CONSTANTS
  k1 = k1  k2 = k2  a = a  b = b
  NoKey = NoKey  NoCommand = NoCommand  NoReply = NoReply
  Keys = {k1, k2}
  InitialKeys = {NoKey, k1, k2}
  Commands = {a, b}
  NumSessions = 2
  Overlap = FALSE
  MaxFailures = 1
  MaxLocal = 2
SYMMETRY Symmetry
CHECK_DEADLOCK FALSE
INVARIANTS
  SealUnbroken
  KeyIsOnRecord
  StoredIsSealKey
