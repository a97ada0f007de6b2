SPECIFICATION FwSpec
CONSTANTS
  h1 = h1 h2 = h2 h3 = h3 a = a b = b c = c
  r1 = r1 r2 = r2 r3 = r3
  mA = mA mB = mB mG = mG
  Null = Null
  Handlers = {h1, h2}
  Names = {a}
  RoomIds = {r1, r2}
  MACs = {mA, mB, mG}
  ValidMACs = {mA, mB}
  RandomMACs = {mA, mB}
  RequestMACs = {}
  GroupMACs = {mG}
  PoolNet <- PoolNet10
  MaxRooms = 1
  FirstHost = 2
  LastHost = 254
  QueueCap = 1
  MaxSent = 2
  MaxJoins = 3
INVARIANT NoPanic
CHECK_DEADLOCK FALSE
