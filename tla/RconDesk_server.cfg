CONSTANTS
  m1 = m1
  m2 = m2
  Admin = {a1}
  Server = {main, battle}
  Command = {m1, m2}
  Squad <- OnePlayer
  Call = {c1, c2}
  None = None
  Window = 2
  Keep = 2
  Patience = 2
  CleanAt = 1
  MaxTime = 1
  MaxRequests = 2
  MaxDrops = 0
SPECIFICATION Safety
INVARIANT AuditNamesServer
CHECK_DEADLOCK FALSE
