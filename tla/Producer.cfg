\* Three events of two data lines, one of them bad; connections break and are
\* refused, publishes time out, the broker's answers are lost; a signal comes
\* at any moment.
SPECIFICATION FairSpec
CONSTANTS
  EventLimit = 3
  Parts = 2
  MaxAttempts = 2
  Bad <- SecondIsBad
INVARIANTS
  TypeOK
  WholeEvents
  InStreamOrder
  CountsAreTrue
  StopIsPrompt
PROPERTY SignalEndsProcess
