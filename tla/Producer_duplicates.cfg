\* One event of one line, and an answer of the broker that is lost.
SPECIFICATION FairSpec
CONSTANTS
  EventLimit = 1
  Parts = 1
  MaxAttempts = 2
  Bad <- NoneBad
INVARIANT PublishedOnce
