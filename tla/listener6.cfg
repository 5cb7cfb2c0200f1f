SPECIFICATION FairSpec
CONSTANTS
  None = None
  Clients = {c1, c2}
  Backlog = 1
INVARIANTS
  TypeOK
  AloneServedRight
  AnswersForward
  CrashCause
  LeakCause
PROPERTIES
  QueueDrains
CHECK_DEADLOCK FALSE
