SPECIFICATION FairSpec
CONSTANTS
  p1 = p1 p2 = p2 p3 = p3
  Ping = Ping
  Empty = Empty
  MinListed = 2
  Peers = {p1, p2}
  NotifyCap = 2
  MaxPings = 0
PROPERTY NotifiersEnd
CHECK_DEADLOCK FALSE
