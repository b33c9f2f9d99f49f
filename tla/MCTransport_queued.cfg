CONSTANTS
  Cells <- SevenCells
  Requests <- QueueRequests
  MaxRequests = 3
  Block = 2
  Latency = 3
  SessionEnd = 7
  LastFrame = 9
  LoopStart = 1
  LoopEnd = 4
  Ranges <- OneRange
  AutoReturn = FALSE
  PunchIns = {TRUE}
  MayArm = TRUE
  ArmRolling = FALSE
SPECIFICATION Spec
INVARIANT QueuedEventsLive

CHECK_DEADLOCK FALSE
