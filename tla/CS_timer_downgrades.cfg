SPECIFICATION Spec
CONSTANTS
  c1 = c1  c2 = c2  s1 = s1  s2 = s2
  NoCommand = NoCommand
  NoSession = NoSession
  Commands = {c1}
  Sessions = {s1}
  Types = {"seal"}
  TypeOf <- OneSeal
  MaxSerial = 3
  StartSerials = {0}
  Waits = {c1}
  AckResults = {TRUE}
  LockResults = {TRUE}
  EchoSerial = TRUE
  InstantStore = FALSE
  PromptCalls = TRUE
  MaxKeypad = 0
  MaxRetransmit = 0
  MaxDisconnects = 0
  MaxRestarts = 0
  MaxDays = 0
  MaxStoreFailures = 0
CHECK_DEADLOCK FALSE
PROPERTIES
  TimerNeverDowngrades
