CONSTANTS
  Ids = {x}
  NoId = none
  Calls = {c1}
  MarkLimit = 1
  Budget = 1
SPECIFICATION Spec
INVARIANT EveryCallIsAnswered
CHECK_DEADLOCK FALSE
