CONSTANTS
  Timestamps <- MCTimestamps
  Prices <- MCPrices
  QueryTimes <- MCQueryTimes
  NoAnswer = NoAnswer

SPECIFICATION Spec
\* run returns once the session has ended.
CHECK_DEADLOCK FALSE

INVARIANT TypeOK
INVARIANT MeanCorrect
