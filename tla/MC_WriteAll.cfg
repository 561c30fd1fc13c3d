CONSTANTS
  Bytes = {b1, b2}
  MaxLen = 4

SPECIFICATION Spec
\* write_all has returned (or panicked), and the Vec has been read to its
\* end, in every final state.
CHECK_DEADLOCK FALSE

INVARIANT WrittenExactly
INVARIANT ReadBackExact
