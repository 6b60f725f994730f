CONSTANTS
  A = A
  B = B
  C = C
  D = D
  Modules = {A, B, C, D}
  Callers = {c1}
  Republishers = {}
  InitLinks <- FanIn3
  Routes <- NoRoutes
  Twice <- NoRoutes
  Fragile <- NoRoutes
  Nodes = {1, 2, 3}
  NoNode = NoNode
  NoThread = NoThread
  MaxPublish = 1
  MaxAdd = 2
  MaxRemove = 0
SPECIFICATION Spec
INVARIANTS NoCrash
CHECK_DEADLOCK FALSE
