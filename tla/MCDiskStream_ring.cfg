CONSTANTS
  PlaybackSize = 7
  CaptureSize = 4
  Chunk = 3
  Block = 3
  CaptureOffset = 1
  OutputLatency = 4
  Targets <- SomeTargets
  LastFrame = 8
  MaxFrames = 99
  MaxCommands = 2
  Commands <- AllCommands
SPECIFICATION FairSpec
PROPERTY DiskIsServed
INVARIANTS TypeOK ReadAhead CapturedInOrder StopKeepsTake
CHECK_DEADLOCK FALSE
