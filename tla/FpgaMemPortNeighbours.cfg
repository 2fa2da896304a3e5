\* Two wrappers copy out to arrays that share a word.
SPECIFICATION Spec
CONSTANTS
  Accs = {a1, a2}
  WordBytes = 4
  RawBytes = 4
  ElemSizes = {1, 2}
  MemBytes = 8
  MaxLen = 6
INVARIANT Moved
CHECK_DEADLOCK FALSE
