SPECIFICATION Spec
CONSTANTS
  Server = {s1}
  Login = {1, 2, 3}
  Client = {1, 2, 3}
  Loop = {d1}
  Lobby = {l1}
  Life = 2
  MaxErrors = 0
  MaxDrops = 0
  MaxFails = 0
  MaxChanges = 0
  MaxPosts = 2
CHECK_DEADLOCK FALSE
PROPERTY WillReconnect
