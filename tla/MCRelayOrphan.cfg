SPECIFICATION Spec
CONSTANTS
  h1 = h1 h2 = h2 h3 = h3 a = a b = b
  r1 = r1 r2 = r2 r3 = r3
  mA = mA mR = mR mBad = mBad
  Null = Null
  Handlers = {h1, h2}
  Names = {a, b}
  RoomIds = {r1, r2, r3}
  MACs = {mA, mR, mBad}
  ValidMACs = {mA, mR}
  RandomMACs = {mR}
  RequestMACs = {mA, mBad}
  PoolNet <- PoolNet10
  MaxRooms = 2
  FirstHost = 253
  LastHost = 254
INVARIANT EmptyRoomsAreTended
