SPECIFICATION Spec
CONSTANTS
  s1 = s1  s2 = s2  c1 = c1  c2 = c2  c3 = c3  c4 = c4
  Factory = Factory  NoCode = NoCode  NoMsg = NoMsg
  Slots = {s1, s2}
  Codes = {c1, c2, c3, c4}
  Configs <- Platforms
  ForceRegister = {FALSE, TRUE}
  MaxFaults = 3
  MaxStoreFailures = 1
CHECK_DEADLOCK FALSE
INVARIANTS
  OnlyKnownCodes
  RowAgrees
  NotTurnedAway
