CONSTANTS
  MaxWorkers = 2
  MinFiles = 2
  Capacity = 1
  Messages = {"m", "n", "o"}
  Retention = 2
  MaxVersion = 4
  MaxQueued = 2
SPECIFICATION Spec
INVARIANTS TypesOK ProgramRunsAreTrue
PROPERTIES CompleteIsWhole ConversationsAreKept WorkEnds
CHECK_DEADLOCK FALSE
