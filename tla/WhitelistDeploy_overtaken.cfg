CONSTANTS
  User = {u1}
  Steam = {s1}
  Server = {main}
  Entry = {e1}
  Call = {c1}
  Protected = {}
  SecretaryDb = FALSE
  Expiries = {"never"}
  BulkMax = 2
  All = All
  None = None
  Job = {j1, j2}
  Env = Env
  EnvCreds = FALSE
  EnvSync = FALSE
  Kinds = {"on"}
  Reconfigure = FALSE
  MaxVersion = 3
  MaxFail = 0
SPECIFICATION SysSafety
SYMMETRY Symmetry
INVARIANT DisabledOutOfGame
