CONSTANTS
  Cells <- SevenCells
  Requests <- AllRequests
  MaxRequests = 3
  Block = 2
  Latency = 3
  SessionEnd = 7
  LastFrame = 9
  LoopStart = 1
  LoopEnd = 4
  Ranges <- TwoRanges
  AutoReturn = FALSE
  PunchIns = {TRUE, FALSE}
  MayArm = TRUE
  ArmRolling = TRUE
SPECIFICATION FairSpec
INVARIANTS TypeOK EventListSound NoStaleDeclick PlaysFromPosition LocateLands
PROPERTIES NoEventPassed StopLands
CHECK_DEADLOCK FALSE
