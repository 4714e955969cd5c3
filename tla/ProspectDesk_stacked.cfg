SPECIFICATION Spec
CONSTANTS
  Prospect = {p1}
  User = {u1}
  Row = {r1, r2}
  Call = {c1}
  Hours = {0, 1, 2}
  StartDefault = 1
  AcceptDefault = 2
  Days = {1}
  None = None
  MaxCalls = 3
  MaxFails = 0
INVARIANT OneActiveCooldown
CHECK_DEADLOCK FALSE
