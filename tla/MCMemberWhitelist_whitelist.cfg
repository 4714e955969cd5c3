CONSTANTS
  None = None
  All = All
  \* two handlers at once
  User = {m1, m2}
  Steam = {t1, t2}
  Server = {live}
  Entry = {r1}
  Call = {h1, h2}
  Protected = {}
  SecretaryDb = TRUE
  Expiries = {"never", "ahead"}
  BulkMax = 1
  MaxAtOnce = 3
  \* one at a time
  SerialUser = {u1, u2}
  SerialSteam = {s1, s2}
  SerialServer = {main, battle}
  SerialEntry = {e1, e2}
  SerialCall = {c1}
  SerialProtected = {u2}
  SerialExpiries = {"never"}
  SerialBulkMax = 2
SPECIFICATION WSpec
SYMMETRY IdSymmetry
INVARIANTS OwnerHeldSteamId DisabledOwnsOnlyLateRows EveryListChangeIsDeployed RestoresItsOwn
PROPERTIES OnlyEnableRevives RowsFollowMembers
