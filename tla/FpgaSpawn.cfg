\* Two accelerators run two parents (or one after the other on one), three children.
SPECIFICATION FairSpec
CONSTANTS
  Accs = {a1, a2}
  Parents = {p1, p2}
  NoTask = NoTask
  Shapes <- MCShapes
  Capacity = 1
  MaxTasks = 3
INVARIANTS TypeOK CountsAgree ChildNumbers PacketsFramed DialogueInv
PROPERTIES ImplementsForkJoin CreationEnds WaitEnds
\* The user code of every parent may be over.
CHECK_DEADLOCK FALSE
