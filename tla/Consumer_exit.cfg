\* A signal, and uploads that succeed.
SPECIFICATION Spec
CONSTANTS
  LogLimit = 3
  MaxLives = 1
  MaxRejoins = 0
  Poison <- NoPoison
  Large <- NoneIsLarge
  RetryLimits <- DefaultRetries
  Faults <- SignalOnly
CHECK_DEADLOCK FALSE
INVARIANT ExitFlushesAll
