CONSTANTS
  User = {u1}
  Steam = {s1}
  Server = {main}
  Entry = {e1}
  Call = {c1}
  Protected = {}
  SecretaryDb = FALSE
  Expiries = {"never"}
  BulkMax = 2
  All = All
  None = None
  Job = {j1, j2}
  Env = Env
  EnvCreds = FALSE
  EnvSync = FALSE
  Kinds = {"on"}
  Reconfigure = FALSE
  MaxVersion = 2
  MaxFail = 1
SPECIFICATION SysSpec
INVARIANT PulledRowsLeaveTheGame
PROPERTY WhitelistReachesServers
CHECK_DEADLOCK FALSE
