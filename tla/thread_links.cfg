CONSTANTS
  A = A
  B = B
  C = C
  D = D
  Modules = {A, B}
  Callers = {c1}
  Republishers = {B}
  InitLinks <- Loop
  Routes <- LoopRoutes
  Twice <- Tangled
  Fragile <- Tangled
  Nodes = {1, 2, 3, 4, 5}
  NoNode = NoNode
  NoThread = NoThread
  MaxPublish = 2
  MaxAdd = 2
  MaxRemove = 1
SPECIFICATION FairSpec
CHECK_DEADLOCK FALSE
INVARIANTS LinksInv NoCrashUnless NothingTakenIsDropped
PROPERTIES QueueSpec EventuallyHandled CallsReturnUnlessKept
