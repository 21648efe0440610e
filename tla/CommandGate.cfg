CONSTANTS
  Sessions = {s1}
  Profiles = {p1}
  Clients = {c1}
  Intents = {i1, i2}
  ls = ls rm = rm fork = fork probe = probe hook = hook
  home = home
  Sources = {ls, fork}
  Probes = {probe, hook}
  IntegrationProbe = hook
  UnknownContext = unknown
  Contexts = {unknown, home}
  Complete = {home}
  ScriptShells = {home}
  Verdicts <- MCVerdicts
  ScriptVerdicts <- MCScriptVerdicts
  ProfileOf <- MCProfileOf
  MaxPending = 1
  MaxInstance = 2
  MaxRoute = 1
  MaxVersion = 2
SYMMETRY Symmetric
SPECIFICATION Spec
INVARIANTS IInv WrittenAsReviewed WrittenInReviewedShell
PROPERTY KeepsPromise
CHECK_DEADLOCK FALSE
