SPECIFICATION FairSpec
CONSTANTS
  c1 = c1
  c2 = c2
  c3 = c3
  Clients = {c1}
  Nobody = Nobody
  Stale = Stale
  Mode <- OneSession
  Width = 2
  InitialDelay = 1
  MaxDelay = 3
  AttemptMax = 2
  MaxFaults = 0
  DetachLag = FALSE
  Exits = TRUE
PROPERTIES
  SessionGoneReported
CHECK_DEADLOCK FALSE
