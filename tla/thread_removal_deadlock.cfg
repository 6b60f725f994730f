CONSTANTS
  A = A
  B = B
  C = C
  D = D
  Modules = {A, B}
  Callers = {c1}
  Republishers = {B}
  InitLinks <- Loop
  Routes <- LoopRoutes
  Twice <- NoRoutes
  Fragile <- NoRoutes
  Nodes = {1, 2, 3}
  NoNode = NoNode
  NoThread = NoThread
  MaxPublish = 2
  MaxAdd = 2
  MaxRemove = 1
SPECIFICATION FairSpec
CHECK_DEADLOCK FALSE
PROPERTY RemovalReturns
