CONSTANTS
  A = A
  B = B
  Routes <- OneWay
  Modules = {A, B}
  Callers = {c1}
  Republishers = {B}
  Fds = {f1, f2}
  NoThread = NoThread
  NoFd = NoFd
  MaxPublish = 2
  MaxRemove = 0
  RcvBuf = 2
  StrayPublish = FALSE
  Faults = FALSE
  JoinFails = FALSE
SPECIFICATION Spec
INVARIANTS OnlyLinkedReceived
CHECK_DEADLOCK FALSE
