SPECIFICATION FairSpec
CONSTANTS
  FrameBytes = 2
  StreamBytes = 10
  ResponseSizes = {1, 2}
  ReadChunk = 3
  MaxFrames = 2
  LowWater = 1
  HighWater = 3
  OutputMax = 5
  KernelBytes = 2
  MayGarble = TRUE
  MayBreak = TRUE
CHECK_DEADLOCK FALSE
INVARIANTS
  OutputSound
PROPERTIES
  
  OutputDrains
