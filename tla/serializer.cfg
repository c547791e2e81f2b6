SPECIFICATION LiveSpec
CONSTANTS
  Tree <- SmallTree
  Client <- AllClients
  Block <- Pool7
  AllocMayFail = TRUE
INVARIANTS
  TypeOK
  ExactlyHeld
  KeyAlive
PROPERTIES
  WritesTheDocument
  ReturnsOrSpins
