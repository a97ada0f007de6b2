SPECIFICATION MCSpec
CONSTANTS
  h1 = h1 h2 = h2 h3 = h3 a = a b = b c = c
  r1 = r1 r2 = r2 r3 = r3
  mA = mA mB = mB mG = mG
  Null = Null
  Handlers = {h1, h2, h3}
  Names = {a, b, c}
  RoomIds = {r1, r2, r3}
  MACs = {mA, mB, mG}
  ValidMACs = {mA, mB}
  RandomMACs = {mA}
  RequestMACs = {mB}
  GroupMACs = {mG}
  PoolNet <- PoolNet10
  MaxRooms = 2
  FirstHost = 2
  LastHost = 254
  QueueCap = 2
  MaxSent = 3
  MaxJoins = 3
INVARIANTS IndexPartition RoomIsolation SenderOrder
SYMMETRY Symmetry
VIEW View
CHECK_DEADLOCK FALSE
