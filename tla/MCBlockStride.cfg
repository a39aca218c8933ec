\* CUDA's block-stride loop visits an index from two blocks.
CONSTANTS
  Val <- ModVal
  Finite <- ModVal
  Infinite = {}
  P = 7
  Huge = 0
  Plus <- ModPlus
  Times <- ModTimes
  SumOf <- ModSum
  OfInt <- ModOfInt
  Sizes = {5}
  startA <- MCStartA
  startB <- MCStartB
  startC <- MCStartC
  startScalar <- MCScalar
  Garbage <- MCGarbage
  Backends = {"CUDA"}
  Work <- BlockStride
  Launches <- LaunchDefined
  MaxCalls = 1
  TBSIZE = 2
  UNROLL_FACTOR = 2
  threads_per_block = 1
  dot_num_blocks = 1
  dot_elements_per_lane = 1
  dot_unroll = 1
  unrolled_lines = 1
SPECIFICATION FairSpec
PROPERTIES Implements
CHECK_DEADLOCK FALSE
