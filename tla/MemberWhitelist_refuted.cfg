\* One of four properties the rows do not have; uncomment another to see it refuted.
CONSTANTS
  User = {u1, u2}
  Steam = {s1, s2}
  Server = {main, battle}
  Entry = {e1, e2}
  Call = {c1}
  Protected = {}
  SecretaryDb = FALSE
  Expiries = {"past"}
  BulkMax = 2
  All = All
  None = None
SPECIFICATION Spec
CHECK_DEADLOCK FALSE
INVARIANT SafeToRestore
\* INVARIANT NothingSkipped
\* With SecretaryDb = TRUE:
\* INVARIANT LinksInSync
\* With Call = {c1, c2}, Server = {main} and Entry = {e1}:
\* INVARIANT OwnerAlwaysHeld
