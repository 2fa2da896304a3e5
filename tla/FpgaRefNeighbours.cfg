\* Two accelerators assign to the two elements of a word.
SPECIFICATION Spec
CONSTANTS
  Accs = {a1, a2}
  WordBytes = 4
  ElemSize = 2
  NumWords = 1
  NumElems = 2
  ByteValues = {0, 1}
  Computed <- MCComputed
  NoValue = NoValue
  NoElem = NoElem
  MaxOpen = 2
  Indexes = {0}
PROPERTY OnlyTheNamed
