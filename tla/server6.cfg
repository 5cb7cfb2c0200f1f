SPECIFICATION CooperativeSpec
CONSTANTS
  NoClient = NoClient
  Clients = {c1, c2}
  Reaps = TRUE
  MaxFds = 2
  MaxProcs = 1
  Backlog = 1
  EchoLimit = 1
  BufLen = 2
  MaxSend = 2
  MaxStops = 1
INVARIANTS
  TypeOK
  OneChildAtATime
  DescriptorAccount
  ForkedReleased
  CleanExit
  ExitCause
PROPERTIES
  QueueDrains
  ChildrenEnd
CHECK_DEADLOCK FALSE
