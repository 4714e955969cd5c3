CONSTANTS
  None = None
  Gone = Gone
  \* MatchDetail
  Player = {p1, p2}
  Lead = p1
  Nobody = Nobody
  SquadNo = {1, 2}
  Name = {"Alpha", "Squad N"}
  MaxSteps = 3
  \* TempVoice
  Text = {name}
  Flag = {lock}
  Channel = {c1, c2}
  Request = {q1, q2}
  MaxRequests = 2
  MaxBot = 2
  \* Giveaway
  Person = {p1}
  Gives = {1}
  Takes = {2}
  Req = {r1, r2}
  Last = 2
  MaxEarned = 2
  MaxAdjustments = 4
  \* ProspectDesk
  Prospect = {p1}
  Recruit = {u1}
  Row = {w1, w2}
  Slot = {k1, k2}
  Hours = {0, 1, 2}
  StartDefault = 1
  AcceptDefault = 2
  Days = {1}
  MaxCalls = 3
  MaxFails = 1
SYMMETRY CallSymmetry
SPECIFICATION RecordsSpec
INVARIANTS DetailIsTrue LiveFollows BonusAddsUp ConfigIsValid ExtensionsAddUp
PROPERTY SettingsKept
CHECK_DEADLOCK FALSE
