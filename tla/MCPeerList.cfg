SPECIFICATION Spec
CONSTANTS
  p1 = p1 p2 = p2 p3 = p3
  Ping = Ping
  Empty = Empty
  MinListed = 2
  Peers = {p1, p2, p3}
  NotifyCap = 2
  MaxPings = 1
INVARIANTS TypeOK SerialChangesAgree RoomsStayListable BroadcastsNeverWait
SYMMETRY Symmetry
CHECK_DEADLOCK FALSE
VIEW View
