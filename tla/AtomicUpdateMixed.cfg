CONSTANTS
  Threads = {t1, t2}
  Locations <- Mixed
  Values <- MCValues
  NoValue = NoValue
  One = 1
  Apply <- MCApply
  NoThread = NoThread
  NoStatement = NoStatement
  Idle = Idle
  MaxUpdates = 2
SPECIFICATION Spec
PROPERTY ImplementsAtomicLocation
CHECK_DEADLOCK FALSE
