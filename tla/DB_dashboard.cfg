SPECIFICATION Spec
CONSTANTS
  d1 = d1  d2 = d2  l1 = l1  l2 = l2
  None = None  NoRequest = NoRequest  Nothing = Nothing
  Devices = {d1, d2}
  First = d1
  LockIds = {l1, l2}
  Formats = {"rf10", "ascii6"}
  StartRows <- Rows
  Requests = {1, 2}
  Patches <- Bodies
  Seals <- SomeSeals
  Edits <- SomeEdits
  Keys = {None, "ascii6"}
  MaxWrites = 2
  Polls = {1, 2}
  MaxSelects = 1
  MaxFailures = 1
CHECK_DEADLOCK FALSE
INVARIANTS
  StoredKeyFits
PROPERTIES
  LockIdsAreTheirs
  ViewConverges
