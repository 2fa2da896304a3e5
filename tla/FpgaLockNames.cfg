\* Two accelerators, two critical regions of different names.
SPECIFICATION Spec
CONSTANTS
  Accs = {a1, a2}
  Locks = {l1, l2}
  NoAcc = NoAcc
  Nested = FALSE
PROPERTY RefusedForItsLock
