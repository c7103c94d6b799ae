\* Two signals, with and without a watched parent.
CONSTANTS
  SignalId <- TwoSignals
SPECIFICATION FairSpec
INVARIANTS
  TypeOK
  EndsOnlyWhenAsked
PROPERTIES
  ShutdownHonoured
  ImplementsCore
\* A process that has ended takes no more steps.
CHECK_DEADLOCK FALSE
