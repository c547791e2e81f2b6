SPECIFICATION Spec
CONSTANTS
  Byte <- Bytes
  Width = 6
  MaxNumeral = 6
INVARIANTS Faithful NeverWraps IntegersStayIntegers
CHECK_DEADLOCK FALSE
