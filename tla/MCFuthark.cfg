\* Futhark's kernels for float.
CONSTANTS
  Val <- ModVal
  Finite <- ModVal
  Infinite = {}
  P = 7
  Huge = 0
  Plus <- ModPlus
  Times <- ModTimes
  SumOf <- ModSum
  OfInt <- ModOfInt
  Sizes = {1}
  startA <- MCStartA
  startB <- MCStartB
  startC <- MCStartC
  startScalar <- MCScalar
  Backends = {"Futhark-float"}
  Program <- ProgramOf
  Home <- HomeOf
  Thing <- ThingOf
  Machines <- Systems
  InOrder <- InOrderQueue
  Ordered <- OrderedByBuffers
  Callable <- CallableKernels
  Kept <- LeftToProcess
  Asks <- Demands
  Selects <- HonoursDevice
  Garbage = 1
  MaxCalls = 3
SPECIFICATION FairSpec
PROPERTIES Implements
CHECK_DEADLOCK FALSE
