CONSTANTS
  Intervals <- AllIntervals
  OverflowPanics = TRUE
  NoPeriod = NoPeriod

SPECIFICATION Spec
\* A connection task ends for good once closed.
CHECK_DEADLOCK FALSE

INVARIANT TypeOK
INVARIANT PeriodAsRequested
INVARIANT OneWantHeartbeat
