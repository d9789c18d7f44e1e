SPECIFICATION Spec
CONSTANTS
  Conns = {c1}
  NoConn = NoConn
  Requests = {"CAPABILITIES", "INITIAL_WINDOW_SIZE", "DAEMON_INFO_REQUEST", "DETACH", "BROKER_ATTACH", "PTY_DATA", "WINDOW_SIZE", "UNKNOWN", "OTHER"}
  Capacity = 2
  TokenMod = 2
  SocketCap = 1
  PtyCap = 2
  MaxRead = 2
  MaxFrames = 3
  MaxOutput = 3
  Events = {"shell_exit", "half_close", "accept_error"}
INVARIANTS
  ReplayIsRecentOutput
CHECK_DEADLOCK FALSE
