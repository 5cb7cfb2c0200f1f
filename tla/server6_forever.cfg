SPECIFICATION Spec
CONSTANTS
  NoClient = NoClient
  Clients = {c1, c2, c3}
  Reaps = TRUE
  MaxFds = 2
  MaxProcs = 1
  Backlog = 1
  EchoLimit = 1
  BufLen = 2
  MaxSend = 2
  MaxStops = 0
INVARIANTS
  RunsForever
CHECK_DEADLOCK FALSE
