CONSTANTS
  Intervals <- AllIntervals
  OverflowPanics = FALSE
  NoPeriod = NoPeriod

SPECIFICATION Spec
CHECK_DEADLOCK FALSE

INVARIANT PeriodAsRequested
