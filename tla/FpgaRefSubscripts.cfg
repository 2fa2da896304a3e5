\* A program that writes p[1].
SPECIFICATION Spec
CONSTANTS
  Accs = {a1, a2}
  WordBytes = 4
  ElemSize = 2
  NumWords = 2
  NumElems = 3
  ByteValues = {0, 1}
  Computed <- MCComputed
  NoValue = NoValue
  NoElem = NoElem
  MaxOpen = 1
  Indexes = {1}
PROPERTY OnlyTheNamed
