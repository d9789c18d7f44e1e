SPECIFICATION ServedSpec
CONSTANTS
  Conns = {c1, c2}
  NoConn = NoConn
  Requests = {"CAPABILITIES", "BROKER_ATTACH", "PTY_DATA"}
  Capacity = 1
  TokenMod = 3
  SocketCap = 1
  PtyCap = 1
  MaxRead = 1
  MaxFrames = 2
  MaxOutput = 1
  Events = {}
PROPERTIES
  DrainsPty
  OutputFreesDeadBroker
  MutexesReleased
CHECK_DEADLOCK FALSE
