CONSTANTS
  Pollables = {q1, q2, q3}
  MaxSlots = 3
  NoResult = NoResult

SPECIFICATION Spec

INVARIANT KeyNamesItsTarget
PROPERTY ResultIsReadyKeys
