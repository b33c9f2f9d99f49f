CONSTANTS
  Requests <- SomeRequests
  Anytime <- Locates
  WhileRolling <- StopsAndLocates
  MaxRequests = 3
  Callers = {}
SPECIFICATION FairSpec
INVARIANTS TypeOK PostAfterWork WorkIsCounted CountCoversWork
PROPERTIES WorkGetsDone TerminateReturns
CHECK_DEADLOCK FALSE
