SPECIFICATION FairSpec
CONSTANTS
  d1 = d1  d2 = d2  NoDevice = NoDevice
  Devices = {d1, d2}
  NumSessions = 2
  Setups <- AllSetups
  MayStop = TRUE
  SlowStop = FALSE
  MaxFrames = 2
CHECK_DEADLOCK FALSE
INVARIANTS
  OpenIsBound
  FramesGoToTheirDevice
  OnlineIsConnected
PROPERTIES
  SessionsFinish
