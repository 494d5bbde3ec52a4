\* No fault at all: the second message does not decode, and goes to the DLQ
\* branch at once.
SPECIFICATION Spec
CONSTANTS
  LogLimit = 2
  MaxLives = 1
  MaxRejoins = 0
  Poison <- SecondIsPoison
  Large <- NoneIsLarge
  RetryLimits <- ZeroRetries
  Faults <- NoFaults
CHECK_DEADLOCK FALSE
INVARIANT AtLeastOnce
