SPECIFICATION Spec
CONSTANTS
  Byte <- Bytes
  Width = 6
  MaxNumeral = 6
INVARIANT ExponentsFaithful
CHECK_DEADLOCK FALSE
