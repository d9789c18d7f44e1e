SPECIFICATION Spec
CONSTANTS
  Conns = {c1, c2, c3}
  NoConn = NoConn
  Requests = {"BROKER_ATTACH"}
  Capacity = 1
  TokenMod = 4
  SocketCap = 1
  PtyCap = 1
  MaxRead = 1
  MaxFrames = 1
  MaxOutput = 1
  Events = {}
PROPERTIES
  SecondAttachRefused
SYMMETRY ConnSymmetry
CHECK_DEADLOCK FALSE
