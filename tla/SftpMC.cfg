CONSTANTS
  Ids = {x, y}
  NoId = none
  Calls = {c1, c2}
  MarkLimit = 1
  Budget = 1
  Jobs = {1, 2, 3}
  JobMarks = 3
  Servers = {"s1"}
  Panes = {"t1", "t2"}
  MaxRunning = 2
  Hosts = {"a", "b"}
  Names = {"u", "v"}
  Ops = {"list", "change"}
  MaxConns = 2
SPECIFICATION Spec
INVARIANTS TypesOK NothingIsLeft ChangesHappenOnce
PROPERTIES CancelledIsFinal OperationsEnd
CHECK_DEADLOCK FALSE
