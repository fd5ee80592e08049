SPECIFICATION Spec
CONSTANTS
  Workers = {w1, w2}
  MaxAttempts = 1
  MaxEvents = 2
SYMMETRY Symmetry
INVARIANTS TypeOK DeletedIsGone CascadeWindsDown NoOrphan
PROPERTIES ArchiveStays
CHECK_DEADLOCK FALSE
