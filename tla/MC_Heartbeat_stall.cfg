CONSTANTS
  Intervals <- SafeIntervals
  OverflowPanics = TRUE
  NoPeriod = NoPeriod

SPECIFICATION Spec
CHECK_DEADLOCK FALSE

PROPERTY HeartbeatDueIsSent
