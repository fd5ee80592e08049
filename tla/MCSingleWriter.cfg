SPECIFICATION Spec
CONSTANTS
  Workers = {w1, w2}
  NoWorker = NoWorker
  MaxGeneration = 2
SYMMETRY Symmetry
INVARIANT SingleWriter
CHECK_DEADLOCK FALSE
