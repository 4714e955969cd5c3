CONSTANTS
  main = main
  Server = {main, battle}
  Item = {s1}
  Job = {j1, j2}
  All = All
  Env = Env
  None = None
  EnvCreds = TRUE
  EnvSync = TRUE
  Kinds = {"none", "off", "on", "bare"}
  Reconfigure = TRUE
  MaxVersion = 2
  MaxFail = 1
SPECIFICATION MCSpec
SYMMETRY JobSymmetry
INVARIANTS StaleIsAccounted CarriesItsChange FileIsLive
