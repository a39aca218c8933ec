\* Integers that overflow at Huge, wide command lines, a backend that may miss an element.
CONSTANTS
  Val <- SatVal
  Finite <- SatFinite
  Infinite <- SatInfinite
  P = 97
  Huge = 30
  Plus <- SatPlus
  Times <- SatTimes
  SumOf <- SatSum
  OfInt <- SatOfInt
  Sizes = {1, 2}
  startA = 1
  startB = 2
  startC = 0
  startScalar = 1
  Args <- MCArgs
  MaxArgs = 3
  Missing = Missing
  DefaultSize = 2
  DefaultTimes = 2
  WordMax = 16
  MaxLength = 7
  Within <- MCWithin
  MayBreak = TRUE
SPECIFICATION FairSpec
INVARIANTS
  TypeOK
  TimingsReportable
  RejectsOnlyOverflow
  CertifiesIdeal
  IInv
PROPERTIES Termination
CHECK_DEADLOCK FALSE
