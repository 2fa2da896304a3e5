\* Five tasks over three regions on two accelerators, arguments in order.
SPECIFICATION FairSpec
CONSTANTS
  Accs = {a1, a2}
  x = x
  y = y
  z = z
  Addrs = {x, y, z}
  NParams = 3
  Cached = {1, 2}
  ConstElem = {}
  Unordered = FALSE
  Forever = 7
  Tasks <- MCTasks
INVARIANTS TypeOK ArgsArrive MemoryInOrder CompletionsMatch
PROPERTY EveryTaskEnds
\* The program ends.
CHECK_DEADLOCK FALSE
