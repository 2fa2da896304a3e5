\* Unsigned ints of three bits, frequencies with which some periods wrap and others not,
\* and both ends of the numbers of repetitions.
SPECIFICATION TimeSpec
CONSTANTS
  Limit = 8
  Freqs = {1, 3}
  Periods = {0, 2, 5}
  Reps = {0, 1, 3, 6, 7}
  Sleeps = {1, 3}
INVARIANTS TimeTypeOK WaitsForTheNext
PROPERTIES OnTime Ends
