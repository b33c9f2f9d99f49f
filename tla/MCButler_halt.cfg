CONSTANTS
  Requests <- FewRequests
  Anytime <- Locates
  WhileRolling <- StopsAndLocates
  MaxRequests = 1
  Callers = {"halt"}
SPECIFICATION FairSpec
PROPERTY HaltReturns
CHECK_DEADLOCK FALSE
