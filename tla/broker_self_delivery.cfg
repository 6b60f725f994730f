CONSTANTS
  A = A
  B = B
  Routes <- ToItself
  Modules = {A, B}
  Callers = {c1}
  Republishers = {B}
  Fds = {f1, f2}
  NoThread = NoThread
  NoFd = NoFd
  MaxPublish = 2
  MaxRemove = 0
  RcvBuf = 2
  StrayPublish = FALSE
  Faults = FALSE
  JoinFails = TRUE
SPECIFICATION Spec
PROPERTIES NoSelfDelivery
CHECK_DEADLOCK FALSE
