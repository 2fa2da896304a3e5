\* The same, and exit still counts as not called in the driver.
CONSTANTS
  Others = {object}
  NoFile = NoFile
  MaxFiles = 2
  MaxChildren = 1
SPECIFICATION Spec
INVARIANT Sound
CHECK_DEADLOCK FALSE
