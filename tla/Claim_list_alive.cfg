SPECIFICATION Spec
CONSTANTS
  Procs = {p1, p2}
  Commands = {"list"}
  MaxId = 2
PROPERTIES
  AliveListed
SYMMETRY ProcSymmetry
CHECK_DEADLOCK FALSE
