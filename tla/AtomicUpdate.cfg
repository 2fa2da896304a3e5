CONSTANTS
  Threads = {t1, t2, t3}
  Locations <- Apart
  Values <- MCValues
  NoValue = NoValue
  One = 1
  Apply <- MCApply
  NoThread = NoThread
  NoStatement = NoStatement
  Idle = Idle
  MaxUpdates = 1
SPECIFICATION Spec
PROPERTIES ImplementsAtomicLocation UpdatesEnd
CHECK_DEADLOCK FALSE
