SPECIFICATION Spec
CONSTANTS
  a = a
  b = b
  Space = Space
  Cr = Cr
  Lf = Lf
  Nul = Nul
  Bytes <- AllBytes
  BufLen = 5
  EchoLimit = 2
  Junk <- StackJunk
  Arguments <- SomeArguments
INVARIANTS
  TypeOK
  PrintsOwnLine
PROPERTIES
  PingEnds
CHECK_DEADLOCK FALSE
