CONSTANTS
  None = None
  \* RconDesk
  m1 = m1
  m2 = m2
  Admin = {a1}
  Server = {main, battle}
  Command = {m1, m2}
  Squad <- OnePlayer
  Call = {c1, c2}
  Window = 1
  Keep = 1
  Patience = 2
  CleanAt = 0
  MaxTime = 2
  MaxRequests = 2
  MaxDrops = 1
  \* SquadInfo
  Fields = 3
  MaxConn = 4
  \* LivePage
  Page = {p1}
  First = main
  MaxRoster = 1
  MaxNews = 3
  MaxSwitches = 1
  MaxPageDrops = 1
  MaxInbox = 4
SPECIFICATION LiveSpec
INVARIANTS AuditedWasSent PageMirrors SwitchesArrive
PROPERTIES SpacedOut HandlersEnd SamplesAgain PagesCatchUp
CHECK_DEADLOCK FALSE
