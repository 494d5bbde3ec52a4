\* The same days with the default -prefix; nothing fails.
SPECIFICATION Spec
CONSTANTS
  EventLimit = 1
  DayLimit = 1
  MaxRuns = 1
  HasDates = TRUE
  From = 1
  To = 1
  Base <- DefaultPrefix
  Faults <- NoFaults
CHECK_DEADLOCK FALSE
INVARIANT DatesReplayed
