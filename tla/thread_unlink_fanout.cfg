CONSTANTS
  A = A
  B = B
  C = C
  D = D
  Modules = {A, B, C}
  Callers = {c1}
  Republishers = {}
  InitLinks <- FanOut
  Routes <- FanOutRoutes
  Twice <- NoRoutes
  Fragile <- NoRoutes
  Nodes = {1, 2, 3}
  NoNode = NoNode
  NoThread = NoThread
  MaxPublish = 1
  MaxAdd = 2
  MaxRemove = 0
SPECIFICATION Spec
INVARIANTS NoCrash
CHECK_DEADLOCK FALSE
