\* A child with dependences answered FINAL: one accelerator is enough.
SPECIFICATION Spec
CONSTANTS
  Accs = {a1}
  Parents = {p1}
  NoTask = NoTask
  Shapes <- MCShapes
  Capacity = 1
  MaxTasks = 2
PROPERTY FinalWaited
CHECK_DEADLOCK FALSE
