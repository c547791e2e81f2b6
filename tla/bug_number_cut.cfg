SPECIFICATION Spec
CONSTANTS
  Tree <- SmallTree
  Client <- Numbers
  Block <- Pool7
  AllocMayFail = FALSE
INVARIANTS
  NumbersComplete
