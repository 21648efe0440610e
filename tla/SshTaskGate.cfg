CONSTANTS
  Sessions = {s1}
  Contexts = {unknown}
  UnknownContext = unknown
  Profiles = {p1}
  ProfileOf <- MCProfileOf
  Routes = {old, new}
  Secrets = {gone}
  NoSecret = gone
  Tasks = {t1, t2}
  Callers = {c1, c2}
  MaxPending = 1
  MaxRunning = 1
  MaxKept = 1
  MaxInstance = 1
  MaxVersion = 1
  MaxEdits = 1
SPECIFICATION Spec
INVARIANTS TypeOK RunsAreOwned ReplacedRoutesAreLeft
PROPERTY ReplacedRoutesEnd
CHECK_DEADLOCK FALSE
