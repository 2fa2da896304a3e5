\* Two wrappers, words of four bytes, elements of one and two bytes and of more than the
\* integer they go through, memory of three words.
SPECIFICATION Spec
CONSTANTS
  Accs = {a1, a2}
  WordBytes = 4
  RawBytes = 2
  ElemSizes = {1, 2, 4}
  MemBytes = 12
  MaxLen = 6
INVARIANTS TypeOK CopyComplete NothingElse
\* Copies end.
CHECK_DEADLOCK FALSE
