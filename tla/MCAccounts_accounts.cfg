CONSTANTS
  None = None
  \* Sessions
  Member = {u1}
  Role = {r1}
  Perm = {p1}
  Call = {c1, c2}
  TTL = 1
  Life = 2
  Patience = 1
  MaxTrouble = 2
  \* RoleRows
  User = {u1, u2}
  Job = {j1, j2}
  \* Presence
  Developers = {u1}
  Path = {dashboard, members}
  MaxMoves = 2
CHECK_DEADLOCK FALSE
SPECIFICATION AccountsSpec
INVARIANTS RightsExpire RosterIsTrue
PROPERTIES AnswersAreRecent PagesSettle RolesSettle
