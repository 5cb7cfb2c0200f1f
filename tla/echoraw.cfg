SPECIFICATION Spec
CONSTANTS
  a = a
  b = b
  Nul = Nul
  Bytes <- RawBytes
  BufLen = 3
  EchoLimit = 3
  MaxBytes = 7
  Junk <- StackJunk
INVARIANTS
  NothingInvented
  EchoedUpToNul
PROPERTIES
  LeavesTheGone
CHECK_DEADLOCK FALSE
