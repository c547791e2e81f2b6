SPECIFICATION Spec
CONSTANTS
  Tree <- Documents
  Client <- Clients
  WriterBlock <- Pool8
  ReaderBlock <- Pool40
  StringPage = 3
  ArrayPage = 2
  AllocMayFail = TRUE
INVARIANTS Understood StringsArrive InStep
CHECK_DEADLOCK FALSE
