\* Two entries of two messages, two runs of the tool, two faults.
SPECIFICATION FairSpec
CONSTANTS
  m1 = m1
  m2 = m2
  Messages <- TwoMessages
  QueueLimit = 2
  MaxRuns = 2
  MaxFaults = 2
CHECK_DEADLOCK FALSE
INVARIANTS
  TypeOK
  NotMultiplied
  ReadsBounded
PROPERTY Recovers
