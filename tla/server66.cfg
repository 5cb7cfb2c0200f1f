SPECIFICATION FairSpec
CONSTANTS
  NoClient = NoClient
  Clients = {c1, c2, c3}
  Reaps = FALSE
  MaxFds = 2
  MaxProcs = 2
  Backlog = 1
  EchoLimit = 0
  BufLen = 1
  MaxSend = 1
  MaxStops = 0
INVARIANTS
  ExitCause
PROPERTIES
  QueueDrains
  PortFreed
CONSTRAINT InOrder
CHECK_DEADLOCK FALSE
