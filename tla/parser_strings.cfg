SPECIFICATION Spec
CONSTANTS
  Byte <- StringBytes
  Block <- Pool5
  Config <- StreamingOnly
  CallbackResult = {"Ok"}
  AllocMayFail = TRUE
  StringPage = 3
  ArrayPage = 1
  MaxString = 3
INVARIANTS
  TypeOK
  CodepointBounded
  PagesExact
