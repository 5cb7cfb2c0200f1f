SPECIFICATION Spec
CONSTANTS
  s1 = s1
  s2 = s2
  Hosts <- HostNames
  Guarded <- GuardedNames
  Servers = {s1, s2}
  Loopback = Loopback
  Locals = {l1, l2}
  Answers <- SomeAnswers
  None = None
INVARIANT ServesFirstReached
PROPERTY ComesUp
CHECK_DEADLOCK FALSE
