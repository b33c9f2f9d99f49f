CONSTANTS
  PlaybackSize = 5
  CaptureSize = 4
  Chunk = 2
  Block = 2
  CaptureOffset = 0
  OutputLatency = 1
  Targets <- SomeTargets
  LastFrame = 6
  MaxFrames = 99
  MaxCommands = 3
  Commands <- AllCommands
SPECIFICATION Spec
INVARIANT TakeIsKept
CHECK_DEADLOCK FALSE
