\* One task, its arguments in any order (fpga_unordered_args).
SPECIFICATION Spec
CONSTANTS
  Accs = {a1, a2}
  x = x
  y = y
  z = z
  Addrs = {x, y, z}
  NParams = 3
  Cached = {1, 2}
  ConstElem = {}
  Unordered = TRUE
  Forever = 7
  Tasks <- MCOneTask
INVARIANT ArgsArrive
\* The program ends.
CHECK_DEADLOCK FALSE
