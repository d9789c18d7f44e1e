SPECIFICATION Spec
CONSTANTS
  Conns = {c1, c2, c3}
  NoConn = NoConn
  Requests = {"BROKER_ATTACH", "DETACH"}
  Capacity = 2
  TokenMod = 4
  SocketCap = 1
  PtyCap = 1
  MaxRead = 1
  MaxFrames = 1
  MaxOutput = 2
  Events = {}
INVARIANTS
  TypeOK
  TokensDistinct
  RegistrationIsServed
  LiveStreamExact
  ToldClientNotRegistered
PROPERTIES
  OnlyOwnRegistrationUndone
  ImplementsSession
SYMMETRY ConnSymmetry
CHECK_DEADLOCK FALSE
