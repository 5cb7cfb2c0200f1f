SPECIFICATION Spec
CONSTANTS
  a = a
  b = b
  Nul = Nul
  Bytes <- PlainBytes
  BufLen = 6
  EchoLimit = 2
  MaxBytes = 5
  Junk <- NoJunk
INVARIANTS
  TypeOK
  EchoesAll
PROPERTIES
  EchoesAsPromised
CHECK_DEADLOCK FALSE
