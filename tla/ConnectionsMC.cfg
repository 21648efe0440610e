CONSTANTS
  MaxAttempts = 2
  Opened = {"local", "direct"}
  Keys <- OneKey
  Codes = {0, 1, 7}
SPECIFICATION Spec
INVARIANTS TypesOK OutcomesAreTrue 
PROPERTIES SessionsFollowPanes 
CHECK_DEADLOCK FALSE
