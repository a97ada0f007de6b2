SPECIFICATION Spec
CONSTANTS
  p1 = p1 p2 = p2 p3 = p3
  Ping = Ping
  Empty = Empty
  MinListed = 3
  Peers = {p1, p2, p3}
  NotifyCap = 16
  MaxPings = 0
INVARIANT ViewsAgree
SYMMETRY Symmetry
CHECK_DEADLOCK FALSE
