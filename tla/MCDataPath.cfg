SPECIFICATION Spec
CONSTANTS
  x = x y = y z = z i1 = i1 i2 = i2 i3 = i3 i4 = i4
  m1 = m1 m2 = m2 m3 = m3 m4 = m4
  Clients = {x, y, z}
  Peers = {x, y, z}
  Recorders = {x, y, z}
  Guests = {z}
  Nobody = Nobody
  Group = Group
  BroadcastMAC = BroadcastMAC
  IPs = {i1, i2, i3, i4}
  MACs = {m1, m2, m3, m4}
  HeaderSize = 1
  ARPSize = 2
  MaxFrameSize = 4
  Window = 2
  MaxPeerFrames = 2
  MaxPeerBytes = 6
  Limit = 2
  HomeIP <- Home3IP
  HomeMAC <- Home3MAC
  Scenarios <- SevenScenarios
INVARIANTS FramingIntact FramesFit BurstBounded RefusalsJustified RingIsTail DisableIsPrompt PacketsReachOwners OneARPAnswer
CHECK_DEADLOCK FALSE
