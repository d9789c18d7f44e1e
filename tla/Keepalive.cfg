SPECIFICATION Spec
CONSTANTS
  Interval = 2
  PongTimeout = 3
  PingTimeout = 5
  Latency = 1
  UpCap = 1
  DownCap = 1
  SocketCap = 1
  NonceMod = 2
  MaxFaults = 2
INVARIANTS
  TypeOK
  NoFalseAlarm
  ReleasedInTime
  NoticedInTime
  PongMatches
