SPECIFICATION Spec
CONSTANTS
  c1 = c1
  c2 = c2
  c3 = c3
  Clients = {c1, c2, c3}
  Nobody = Nobody
  Stale = Stale
  Mode <- AllModes
  Width = 2
  InitialDelay = 1
  MaxDelay = 3
  AttemptMax = 2
  MaxFaults = 2
  DetachLag = FALSE
  Exits = TRUE
INVARIANTS
  TypeOK
  SettledClientHolds
  NotAllEvicted
CHECK_DEADLOCK FALSE
