CONSTANTS
  Others = {object}
  NoFile = NoFile
  MaxFiles = 2
  MaxChildren = 2
SPECIFICATION Spec
INVARIANTS NeverMisused CleanExit LeftBySignal
PROPERTY Ends
CHECK_DEADLOCK FALSE
