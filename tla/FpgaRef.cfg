\* Two accelerators and an array of three elements of two bytes, two in a word.
SPECIFICATION Spec
CONSTANTS
  Accs = {a1, a2}
  WordBytes = 4
  ElemSize = 2
  NumWords = 2
  NumElems = 3
  ByteValues = {0, 1}
  Computed <- MCComputed
  NoValue = NoValue
  NoElem = NoElem
  MaxOpen = 2
  Indexes = {0}
SYMMETRY Alike
INVARIANT LastKept
PROPERTY ImplementsElementStore
