CONSTANTS
  Processes = {p1}
  Steps = {"c1"}
  Tool <- ToolOf
  Bounds <- OneCommand
SPECIFICATION Spec
INVARIANTS NotStartedIsTrue
CHECK_DEADLOCK FALSE
