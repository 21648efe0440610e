CONSTANTS
  Conns = {c1, c2}
  Hosts = {"a", "b"}
  HostKeys = {"k", "l"}
  Changes = 1
  Connections = {"p", "q"}
  Configs = {"c"}
  Passwords = {"s", "t"}
  MaxSaves = 2
  Targets = {"here", "there"}
  Drafts = {"mine", "mine too"}
  Others = {"theirs"}
  Steps = 2
  Window = 2
  MaxDepth = 4
  MaxNodes = 6
  AccountNames = {"u"}
SPECIFICATION Spec
INVARIANTS TypesOK SecretsAreDue RoutesAreBound  CommandsAreJudged
PROPERTIES ChangedKeysAreRefused OthersTextIsKept
CHECK_DEADLOCK FALSE
