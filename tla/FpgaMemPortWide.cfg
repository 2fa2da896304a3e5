\* One wrapper copies elements wider than the integer they go through.
SPECIFICATION Spec
CONSTANTS
  Accs = {a1}
  WordBytes = 4
  RawBytes = 2
  ElemSizes = {4}
  MemBytes = 8
  MaxLen = 2
INVARIANT Moved
CHECK_DEADLOCK FALSE
