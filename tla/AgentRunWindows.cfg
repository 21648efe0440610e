CONSTANTS
  Processes = {p1, p2}
  Steps = {"c1"}
  Tool <- ToolOf
  Bounds <- TwoWindows
SPECIFICATION Spec
INVARIANTS LeasesHaveWindows
PROPERTIES StopEnds
CHECK_DEADLOCK FALSE
