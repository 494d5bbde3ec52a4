\* Two writers, one token: each writer can block with its row in the buffer.
\* MaxPending below MaxRows: with rows of size 1 no threshold is reached and
\* only the ticker frees a blocked writer; two of the larger rows pass MaxBytes.
SPECIFICATION FairSpec
CONSTANTS
  Writers = {w1, w2}
  MaxRows = 3
  MaxBytes = 4
  MaxPending = 1
  RowSizes = {1, 2}
  RowLimit = 7
INVARIANTS
  TypeOK
  TokenConservation
  NoLostWakeup
  HeldBounded
  InOrder
PROPERTIES
  RefinesSink
  WriteReturns
  ShutdownCompletes
