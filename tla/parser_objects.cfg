SPECIFICATION Spec
CONSTANTS
  Byte <- ObjectBytes
  Block <- Pool8
  Config <- OneShotOnly
  CallbackResult = {"Ok"}
  AllocMayFail = TRUE
  StringPage = 3
  ArrayPage = 1
  MaxString = 1
INVARIANTS
  NoImplementationError
  KeyHeld
  NoDangling
PROPERTIES
  LeakFree
