CONSTANTS
  \* SquadLink
  Server = {main}
  MaxRoster = 2
  MaxFlips = 2
  MaxDrops = 2
  MaxWire = 2
  \* LobbyService
  Region = {s1}
  Login = {1, 2}
  Client = {1, 2}
  Loop = {d1}
  Lobby = {l1}
  Life = 2
  MaxErrors = 0
  MaxConnDrops = 1
  MaxFails = 1
  MaxChanges = 1
  MaxPosts = 1
  \* MatchSync
  Faction = {1, 2, 3}
  Last = 2
  Pass = {s1, s2}
  Kinds = {"played", "broken"}
  MaxStaff = 1
CHECK_DEADLOCK FALSE
SPECIFICATION BSpec
INVARIANTS QueueInSync ResultIsOwn
PROPERTIES ImplementsMirror LinkConverges ServersFollow EditsStay MatchesAreListed
