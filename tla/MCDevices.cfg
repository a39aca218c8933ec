\* The index spaces of four backends: CUDA runs fewer threads than there are
\* indices, HIP and sycl-ai more, OpenCL as many.
CONSTANTS
  Val <- ModVal
  Finite <- ModVal
  Infinite = {}
  P = 7
  Huge = 0
  Plus <- ModPlus
  Times <- ModTimes
  SumOf <- ModSum
  OfInt <- ModOfInt
  Sizes = {3, 5}
  startA <- MCStartA
  startB <- MCStartB
  startC <- MCStartC
  startScalar <- MCScalar
  Garbage <- MCGarbage
  Backends = {"CUDA", "HIP", "OpenCL", "sycl-ai"}
  Work <- IndexSpace
  Launches <- LaunchDefined
  MaxCalls = 3
  TBSIZE = 2
  UNROLL_FACTOR = 2
  threads_per_block = 1
  dot_num_blocks = 1
  dot_elements_per_lane = 1
  dot_unroll = 1
  unrolled_lines = 1
SPECIFICATION FairSpec
INVARIANTS
  TypeOK
  Blocking
PROPERTIES
  Implements
  CallsReturn
CHECK_DEADLOCK FALSE
