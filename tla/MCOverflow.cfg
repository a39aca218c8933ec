\* A sound backend fails validation when the arithmetic overflows.
CONSTANTS
  Val <- SatVal
  Finite <- SatFinite
  Infinite <- SatInfinite
  P = 97
  Huge = 7
  Plus <- SatPlus
  Times <- SatTimes
  SumOf <- SatSum
  OfInt <- SatOfInt
  Sizes = {1, 2}
  startA = 1
  startB = 2
  startC = 0
  startScalar = 1
  Args <- MCArgs
  MaxArgs = 2
  Missing = Missing
  DefaultSize = 2
  DefaultTimes = 2
  WordMax = 16
  MaxLength = 7
  Within <- MCWithin
  MayBreak = FALSE
SPECIFICATION HSpec
INVARIANTS CorrectBackendPasses
CHECK_DEADLOCK FALSE
