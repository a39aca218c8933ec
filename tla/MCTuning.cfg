\* Devices that accept all, some and none of the candidates, and every kind of
\* override.
CONSTANTS
  Val <- ModVal
  Finite <- ModVal
  Infinite = {}
  P = 7
  Huge = 0
  Plus <- ModPlus
  Times <- ModTimes
  SumOf <- ModSum
  OfInt <- ModOfInt
  Sizes = {1}
  startA <- MCStartA
  startB <- MCStartB
  startC <- MCStartC
  startScalar <- MCScalar
  Systems <- SmallSystems
  DefaultOf <- Defaults
  StreamSizes <- TwoFour
  DotSizes <- Four
  GroupsPerUnit <- Gpc
  Unrolls <- OneTwo
  SumsPerUnit = 4
  Word = 16
  Averages = {1, 2, 3}
  Never = 3
SPECIFICATION Spec
INVARIANTS
  TypeOK
  SizesAccepted
  StartsFresh
PROPERTIES KeepsFastest
CHECK_DEADLOCK FALSE
