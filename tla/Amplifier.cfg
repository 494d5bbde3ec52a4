\* Three events through two, one or no producer.
SPECIFICATION FairSpec
CONSTANTS
  EventLimit = 3
  Rates <- SomeRates
  Concurrencies <- SomeConcurrencies
  Second = 2
CHECK_DEADLOCK FALSE
INVARIANTS
  TypeOK
  ReportIsTrue
PROPERTY AmplifierEnds
