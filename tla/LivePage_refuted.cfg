\* One of two properties the page does not have; uncomment the other to see it refuted.
CONSTANTS
  None = None
  Page = {p1}
  Server = {main, battle}
  First = main
  MaxRoster = 1
  MaxNews = 3
  MaxSwitches = 1
  MaxPageDrops = 1
  MaxInbox = 4
SPECIFICATION Spec
INVARIANT TabIsSubscribed
\* INVARIANT PillHasCause
CHECK_DEADLOCK FALSE
