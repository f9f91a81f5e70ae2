SPECIFICATION Spec
CONSTANTS
  c1 = c1  c2 = c2  s1 = s1  s2 = s2
  NoCommand = NoCommand
  NoSession = NoSession
  Commands = {c1, c2}
  Sessions = {s1, s2}
  Types = {"seal", "unseal"}
  TypeOf <- SealAndUnseal
  MaxSerial = 2
  StartSerials = {1}
  Waits = {}
  AckResults = {TRUE, FALSE}
  LockResults = {TRUE, FALSE}
  EchoSerial = TRUE
  InstantStore = FALSE
  PromptCalls = FALSE
  MaxKeypad = 1
  MaxRetransmit = 1
  MaxDisconnects = 1
  MaxRestarts = 1
  MaxDays = 1
  MaxStoreFailures = 1
SYMMETRY Symmetry
CONSTRAINT Scope
CHECK_DEADLOCK FALSE
INVARIANTS
  SendFailedNeverSent
  RepliesFindTheirCommand
  SuccessMeansExecuted
  KeyOfAnExecutedSeal
  KeypadNeverCompletes
  PendingHasTimer
  SuccessRestsOnOperation
