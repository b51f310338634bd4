SPECIFICATION Spec
CONSTANTS
  ShortBodies <- Refusals
  Counts = {0, 1, 2, 3}
  Parts = {0, 1, 2, 3, 4}
  Nested = {8, 100}
INVARIANTS
  NeverPanics
CHECK_DEADLOCK FALSE
