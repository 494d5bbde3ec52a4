\* Two events, two days, -prefix "" and both days asked for.
SPECIFICATION FairSpec
CONSTANTS
  EventLimit = 2
  DayLimit = 2
  MaxRuns = 1
  HasDates = TRUE
  From = 1
  To = 2
  Base <- EmptyPrefix
  Faults <- AllFaults
CHECK_DEADLOCK FALSE
INVARIANTS
  TypeOK
  CopiesBounded
  CountedIsCopied
  DatesReplayed
PROPERTY ReplayEnds
