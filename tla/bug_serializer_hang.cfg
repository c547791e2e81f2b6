SPECIFICATION LiveSpec
CONSTANTS
  Tree <- SmallTree
  Client <- Reliable
  Block <- Pool7
  AllocMayFail = FALSE
PROPERTIES
  CallReturns
