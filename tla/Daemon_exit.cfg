SPECIFICATION ExitSpec
CONSTANTS
  Conns = {c1, c2}
  NoConn = NoConn
  Requests = {"CAPABILITIES", "BROKER_ATTACH"}
  Capacity = 1
  TokenMod = 3
  SocketCap = 1
  PtyCap = 1
  MaxRead = 1
  MaxFrames = 2
  MaxOutput = 0
  Events = {"shell_exit"}
PROPERTIES
  ShellExitEndsDaemon
CHECK_DEADLOCK FALSE
