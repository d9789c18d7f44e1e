SPECIFICATION Spec
CONSTANTS
  Procs = {p1, p2}
  Commands = {"list", "attach", "detach-connect", "detach", "new"}
  MaxId = 2
INVARIANTS
  TypeOK
  ListingComplete
  StaleRemoved
  PromptTruthful
PROPERTIES
  ServingSocketKept
CHECK_DEADLOCK FALSE
SYMMETRY ProcSymmetry
