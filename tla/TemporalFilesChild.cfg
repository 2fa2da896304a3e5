\* A child is killed between two nodes of its cleanup in the memory of the driver.
CONSTANTS
  Others = {object}
  NoFile = NoFile
  MaxFiles = 2
  MaxChildren = 1
SPECIFICATION Spec
INVARIANT AllRemoved
CHECK_DEADLOCK FALSE
