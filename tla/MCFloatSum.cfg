\* With --float no wrong dot product fails the validation.
CONSTANTS
  Val <- SatVal
  Finite <- SatFinite
  Infinite <- SatInfinite
  P = 97
  Huge = 30
  Plus <- SatPlus
  Times <- SatTimes
  SumOf <- SatSum
  OfInt <- SatOfInt
  Sizes = {1, 2}
  startA = 1
  startB = 2
  startC = 0
  startScalar = 1
  Args <- MCArgs
  MaxArgs = 2
  Missing = Missing
  DefaultSize = 2
  DefaultTimes = 2
  WordMax = 16
  MaxLength = 7
  Within <- MCWithin
  MayBreak = TRUE
SPECIFICATION HSpec
INVARIANTS CertifiesSum
CHECK_DEADLOCK FALSE
