CONSTANTS
  Requests <- FewRequests
  Anytime <- Locates
  WhileRolling <- StopsAndLocates
  MaxRequests = 2
  Callers = {"halt", "export"}
SPECIFICATION Spec
INVARIANTS WaiterIsServed StoppedIsQuiet
CHECK_DEADLOCK FALSE
