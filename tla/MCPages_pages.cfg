CONSTANTS
  None = None
  Server = {main, battle}
  First = main
  Fallback = battle
  \* WhitelistRequests
  Person = {u1}
  Fetch = {f1, f2}
  Count = {k1}
  MaxMoves = 2
  \* EntriesTab
  Id = {e1, e2}
  AskId = {c1, c2}
  MaxClicks = 3
  \* MemberDesk
  User = {u1, u2}
  MaxSteps = 2
  \* PluginEditor
  Env = {staging, production}
  FirstEnv = staging
  Plugin = {p1}
  MaxEdits = 3
  \* RoleDesk
  Role = {r1, r2}
  Perm = {p1}
  Gone = Gone
  MaxToggles = 2
  \* ListPages
  Line = {1, 2}
  Slim = {1}
  PageSize = 1
  New = New
  MaxTurns = 2
CHECK_DEADLOCK FALSE
SPECIFICATION PagesSpec
INVARIANT PagesMatch
PROPERTIES RequestsSettle ActsPerServer ShownIsTrue
