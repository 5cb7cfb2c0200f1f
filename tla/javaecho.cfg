SPECIFICATION Spec
CONSTANTS
  v4 = v4
  v6 = v6
  e = e
  r = r
  silent = silent
  None = None
  Addresses <- BothAddresses
  Clients <- AllClients
  EchoClients <- OnlyEchoClient
  Cooperative <- HangsUp
  Address <- AddressOf
  MaxChars = 2
  Backlog = 0
  MaxMessage = 3
  MaxRaw = 1
INVARIANTS
  TypeOK
  AnswersTheLine
  LessCause
PROPERTIES
  AddressesIndependent
CHECK_DEADLOCK FALSE
