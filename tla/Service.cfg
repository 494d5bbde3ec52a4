\* Two runs of the process; the dependencies come and go while it starts, the
\* broker, the registry and the bucket fail later, the group rebalances, and a
\* signal or a kill comes at any moment.  A round of checks can take half an
\* interval, so that an attempt can fall on the deadline and past it.
SPECIFICATION ServiceSpec
CONSTANTS
  LogLimit = 2
  MaxLives = 2
  MaxRejoins = 2
  Poison <- SecondIsPoison
  Large <- FirstIsLarge
  RetryLimits <- ZeroOrTwo
  Faults <- AllFaults
  MaxAttempts = 3
  Interval = 2
  CheckTime = 1
  OpenLimit = 2
CHECK_DEADLOCK FALSE
INVARIANTS
  ServiceTypeOK
  GivesUpOnTime
  DuplicatesBounded
  DLQNeedsRejoins
  DroppedLeavesEntry
  DropsEndALife
PROPERTIES
  StartIsChecked
  CommitMonotone
  EventuallyStarts
  SignalEndsProcess
