SPECIFICATION CodecsSpec
CONSTANTS
  Packets <- SomePackets
  Noise <- SomeNoise
  MaxFrameLength = 4
  MaxSends = 2
  MaxNoise = 2
  MaxChunk = 8
  DataLengths <- Data
  ExtraLengths <- Extra
  Items <- SomeItems
  Params <- SomeParams
  MaxElements = 3
  Fixes <- SomeFixes
  Offsets <- SomeOffsets
CHECK_DEADLOCK FALSE
INVARIANTS
  NothingLost
  DataRecovered
  NoSilentMisread
  ElementsRecovered
  FixRecovered
