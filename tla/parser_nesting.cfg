SPECIFICATION LiveSpec
CONSTANTS
  Byte <- NestBytes
  Block <- Pool6
  Config <- AllConfigs
  CallbackResult = {"Ok", "UserError"}
  AllocMayFail = TRUE
  StringPage = 3
  ArrayPage = 2
  MaxString = 1
INVARIANTS
  WellNested
  NoDangling
PROPERTIES
  CallReturns
  AllocFailureReported
