SPECIFICATION Spec
CONSTANTS
  Block = {b1, b2, b3, b4}
  NULL = NULL
  MaxCells = 3
  Key = {k1, k2}
  BucketCount = 2
  PageSize = 2
  Created <- Calls
  MaxOwned = 2
  MaxContainers = 2
  MaxLength = 3
  AllocMayFail = FALSE
SYMMETRY Symmetry
INVARIANTS TypeOK Ownership ReadsAgree AllocatorsMatchButArrays
PROPERTY Implements
CHECK_DEADLOCK FALSE
