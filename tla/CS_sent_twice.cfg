SPECIFICATION Spec
CONSTANTS
  c1 = c1  c2 = c2  s1 = s1  s2 = s2
  NoCommand = NoCommand
  NoSession = NoSession
  Commands = {c1, c2}
  Sessions = {s1}
  Types = {"seal"}
  TypeOf <- TwoSeals
  MaxSerial = 3
  StartSerials = {0}
  Waits = {}
  AckResults = {TRUE}
  LockResults = {TRUE, FALSE}
  EchoSerial = TRUE
  InstantStore = FALSE
  PromptCalls = TRUE
  MaxKeypad = 0
  MaxRetransmit = 1
  MaxDisconnects = 0
  MaxRestarts = 0
  MaxDays = 0
  MaxStoreFailures = 0
SYMMETRY Symmetry
CHECK_DEADLOCK FALSE
INVARIANTS
  SuccessIsTheCommandsOwn
