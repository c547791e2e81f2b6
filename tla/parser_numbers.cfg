SPECIFICATION Spec
CONSTANTS
  Byte <- NumberBytes
  Block <- Pool6
  Config <- CallbackConfigs
  CallbackResult = {"Ok", "UserError"}
  AllocMayFail = TRUE
  StringPage = 3
  ArrayPage = 1
  MaxString = 1
INVARIANTS
  AtMostOneRoot
  NumberStarts
