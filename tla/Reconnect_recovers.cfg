SPECIFICATION FairSpec
CONSTANTS
  c1 = c1
  c2 = c2
  c3 = c3
  Clients = {c1, c2}
  Nobody = Nobody
  Stale = Stale
  Mode <- SessionPick
  Width = 2
  InitialDelay = 1
  MaxDelay = 3
  AttemptMax = 4
  MaxFaults = 2
  DetachLag = TRUE
  Exits = TRUE
INVARIANTS
  DelayIsCappedDoubling
PROPERTIES
  RecoversOrEnds
CHECK_DEADLOCK FALSE
