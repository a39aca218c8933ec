\* CUDA cannot launch for fewer elements than the unroll factor.
CONSTANTS
  Val <- ModVal
  Finite <- ModVal
  Infinite = {}
  P = 7
  Huge = 0
  Plus <- ModPlus
  Times <- ModTimes
  SumOf <- ModSum
  OfInt <- ModOfInt
  Sizes = {1, 2}
  startA <- MCStartA
  startB <- MCStartB
  startC <- MCStartC
  startScalar <- MCScalar
  Garbage <- MCGarbage
  Backends = {"CUDA"}
  Work <- IndexSpace
  Launches <- LaunchDefined
  MaxCalls = 1
  TBSIZE = 2
  UNROLL_FACTOR = 2
  threads_per_block = 1
  dot_num_blocks = 1
  dot_elements_per_lane = 1
  dot_unroll = 1
  unrolled_lines = 1
SPECIFICATION Spec
INVARIANTS NeverCrashes
CHECK_DEADLOCK FALSE
