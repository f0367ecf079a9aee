SPECIFICATION Spec
CONSTANTS
  NULL = NULL
  Bufs = {b1, b2, b3, b4}
  MaxPooled = 2
  Sizes = {1, 2}
  MaxMsgs = 4
SYMMETRY Symmetry
CHECK_DEADLOCK FALSE
INVARIANTS TypeOK ListsWellFormed NoLeakNoDangling PoolBounded
PROPERTY StreamSpec
