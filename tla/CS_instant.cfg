SPECIFICATION FairSpec
CONSTANTS
  c1 = c1  c2 = c2  s1 = s1  s2 = s2
  NoCommand = NoCommand
  NoSession = NoSession
  Commands = {c1, c2}
  Sessions = {s1, s2}
  Types = {"seal"}
  TypeOf <- TwoSeals
  MaxSerial = 3
  StartSerials = {0}
  Waits = {c1, c2}
  AckResults = {TRUE, FALSE}
  LockResults = {TRUE, FALSE}
  EchoSerial = TRUE
  InstantStore = TRUE
  PromptCalls = FALSE
  MaxKeypad = 0
  MaxRetransmit = 0
  MaxDisconnects = 0
  MaxRestarts = 0
  MaxDays = 0
  MaxStoreFailures = 0
CHECK_DEADLOCK FALSE
INVARIANTS
  SettledIsFinal
  NobodyWaitsInVain
PROPERTIES
  ImplementsLifecycle
  EntriesLeave
