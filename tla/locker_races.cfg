CONSTANTS
  Readers = {r1, r2, r3}
  Writers = {w1, w2}
  EvictEarly = {w2}
  Silent = {w2}
  RetryCount = 2
  Nothing = Nothing
SPECIFICATION Spec
INVARIANTS
  IInv
  LoneWorker
  ReadsSeeWrites
PROPERTIES
  EntriesAdvance
SYMMETRY Symmetry
CHECK_DEADLOCK FALSE
