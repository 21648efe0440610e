CONSTANTS
  Processes = {p1}
  Steps = {"e1", "c1", "r1", "l1"}
  Tool <- ToolOf
  Bounds <- StepsOrMoves
SPECIFICATION Spec
INVARIANTS TypeOK 
 
CHECK_DEADLOCK FALSE
