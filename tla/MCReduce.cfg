\* Blocks of four threads, on arrays that do not fill the grid or exceed it.
\* sycl-ai takes a complete turn of the unrolled loop and a rest (17); HIP
\* needs one block or two.
CONSTANTS
  Backends = {"CUDA", "HIP", "sycl-ai"}
  Blocks <- DotBlocks
  Width = 4
  Sizes = {3, 9, 17}
  Visits <- DotSpace
  TBSIZE = 4
  UNROLL_FACTOR = 1
  threads_per_block = 1
  dot_num_blocks = 2
  dot_elements_per_lane = 4
  dot_unroll = 2
  unrolled_lines = 2
SPECIFICATION FairSpec
INVARIANTS
  TypeOK
  RaceFree
  ReducesAll
PROPERTIES
  Returns
CHECK_DEADLOCK FALSE
