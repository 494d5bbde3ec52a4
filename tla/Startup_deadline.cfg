\* The default interval of 5 s and up to 6 attempts; nothing is produced and
\* nothing fails after the start.
SPECIFICATION ServiceSpec
CONSTANTS
  LogLimit = 0
  MaxLives = 1
  MaxRejoins = 0
  Poison <- NoneOf
  Large <- NoneOf
  RetryLimits <- ZeroRetries
  Faults <- NoneOf
  MaxAttempts = 6
  Interval = 5
  CheckTime = 2
  OpenLimit = 1
CHECK_DEADLOCK FALSE
INVARIANT WithinDeadline
