CONSTANTS
  A = A
  B = B
  Routes <- BothWays
  Modules = {A, B}
  Callers = {c1, c2}
  Republishers = {B}
  Fds = {f1, f2}
  NoThread = NoThread
  NoFd = NoFd
  MaxPublish = 2
  MaxRemove = 2
  RcvBuf = 3
  StrayPublish = FALSE
  Faults = FALSE
  JoinFails = FALSE
SPECIFICATION Spec
SYMMETRY Symmetry
INVARIANTS TypeOK ModulesLockReleased InfoOutlivesWorker WorkerOwnsSocket LinkedIsSubscribed
PROPERTIES NoCloseDuringRecv OneOrder BusSpec
CHECK_DEADLOCK FALSE
