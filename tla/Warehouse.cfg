SPECIFICATION Spec
CONSTANTS
  Keys = {k1, k2}
  TTL = 1
  MaxRetries = 2
  MaxTime = 2
  MaxFlushes = 2
  MaxFaults = 2
SYMMETRY KeySymmetry
INVARIANTS TypeOK ColumnMatchesSource OneRowPerKey LiveTempSurvives LeftoversAreSwept
PROPERTY MergeIsAtomic
CHECK_DEADLOCK FALSE
