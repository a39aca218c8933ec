---------------------------- MODULE IndexSpaces ----------------------------
(***************************************************************************)
(* How the backends that write their own loops divide the indices of an    *)
(* array among the threads of a launch.  A thread is <<block, thread>>,    *)
(* and its share is the set of indices its loop visits.                    *)
(***************************************************************************)
EXTENDS Integers

CONSTANTS
  TBSIZE,           \* threads of a block, or work-items of a work-group
  UNROLL_FACTOR,    \* the divisor of the size in CUDA's number of blocks
  threads_per_block,\* the block size the CUDA occupancy query suggests
  dot_num_blocks,    \* blocks of the dot kernel (CUDA, OpenCL, SYCL)
  dot_elements_per_lane, \* of HIP's dot kernel
  dot_unroll,        \* of sycl-ai's dot kernel, set in the environment
  unrolled_lines     \* how many additions its unrolled loop writes out: 8

ASSUME BlockSizes ==
  {TBSIZE, UNROLL_FACTOR, threads_per_block, dot_num_blocks, dot_elements_per_lane,
   dot_unroll, unrolled_lines} \subseteq Nat \ {0}

ceil_div(a, b) == (a + b - 1) \div b

\* The indices visited by: for (i = first; i < end; i += step)
Strided(first, end, step) == {i \in first .. end - 1 : (i - first) % step = 0}

AtMost(x, y) == IF x < y THEN x ELSE y

GridLanes(blocks, width) == (0 .. blocks - 1) \X (0 .. width - 1)
----------------------------------------------------------------------------
(* CUDA: for_each clamps the suggested block size for the number of blocks *)
(* and launches blocks of TBSIZE all the same.  For an array smaller than  *)
(* the unroll factor there is no block and ceil_div divides by zero.       *)

CudaBlocks(n) == ceil_div(n \div UNROLL_FACTOR, AtMost(TBSIZE, threads_per_block))

CudaLaunches(n) == CudaBlocks(n) > 0

CudaStart(n) == ceil_div(n, CudaBlocks(n))

\* Mutant of GridStrideShare: the stride counts the threads of one block.
BlockStepShare(n, blocks, lane) == Strided(lane[2] + TBSIZE * lane[1], n, TBSIZE)

GridStrideShare(n, blocks, lane) == Strided(lane[2] + TBSIZE * lane[1], n, blocks * TBSIZE)

BlockStrideShare(n, start, lane) ==
  Strided(start * lane[1] + lane[2], AtMost(n, start * (lane[1] + 1) + lane[2]), TBSIZE)

CudaGridStride(n) ==
  [lane \in GridLanes(CudaBlocks(n), TBSIZE) |-> GridStrideShare(n, CudaBlocks(n), lane)]

CudaBlockStride(n) ==
  [lane \in GridLanes(CudaBlocks(n), TBSIZE) |-> BlockStrideShare(n, CudaStart(n), lane)]
----------------------------------------------------------------------------
(* HIP: the same grid-stride loop, on enough blocks for every index.       *)

HipBlocks(n) == ceil_div(n, TBSIZE)

HipGridStride(n) ==
  [lane \in GridLanes(HipBlocks(n), TBSIZE) |-> GridStrideShare(n, HipBlocks(n), lane)]
----------------------------------------------------------------------------
(* SYCL with work-groups: the global size is rounded up to a multiple of   *)
(* the work-group size and the items beyond the array do nothing.          *)

round_up(value, multiple) ==
  IF value % multiple = 0 THEN value ELSE value + (multiple - (value % multiple))

\* Mutant of GuardedShare: the items beyond the array are not sent away.
UnguardedShare(n, lane) == {lane[1] * TBSIZE + lane[2]}

GuardedShare(n, lane) == {i \in {lane[1] * TBSIZE + lane[2]} : i < n}

SyclGroups(n) == round_up(n, TBSIZE) \div TBSIZE

SyclNdRange(n) ==
  [lane \in GridLanes(SyclGroups(n), TBSIZE) |-> GuardedShare(n, lane)]
----------------------------------------------------------------------------
(* OpenCL: one work-item per element, the runtime picks the work-groups.   *)

OclNdRange(n) == [lane \in GridLanes(n, 1) |-> {lane[1]}]
----------------------------------------------------------------------------
(* The dot kernels                                                         *)

\* CUDA and OpenCL run a number of blocks that depends on the device only.
DotGridStride(n) ==
  [lane \in GridLanes(dot_num_blocks, TBSIZE) |-> GridStrideShare(n, dot_num_blocks, lane)]

\* HIP's number depends on the size of the array.
HipDotBlocks(n) == (n + TBSIZE * dot_elements_per_lane - 1) \div (TBSIZE * dot_elements_per_lane)

HipDotGridStride(n) ==
  [lane \in GridLanes(HipDotBlocks(n), TBSIZE) |-> GridStrideShare(n, HipDotBlocks(n), lane)]

\* Mutant of UnrolledShare: there is no second loop.
UnrolledWithoutRest(n, lane) ==
  LET global_size == dot_num_blocks * TBSIZE
      first == lane[2] + TBSIZE * lane[1]
      step  == global_size * dot_unroll
  IN {i \in Strided(first, n, global_size) :
        LET turn == (i - first) \div step IN first + (turn + 1) * step - global_size < n}

\* sycl-ai: a turn of the first loop takes dot_unroll indices, if all of them
\* are in the array, and writes out the additions of eight (unrolled_lines);
\* the second loop takes the indices of the last, incomplete turn one by one.
UnrolledShare(n, lane) ==
  LET global_size == dot_num_blocks * TBSIZE
      first == lane[2] + TBSIZE * lane[1]
      step  == global_size * dot_unroll
      Turn(i) == (i - first) \div step
      Line(i) == ((i - first) % step) \div global_size
      Complete(turn) == first + (turn + 1) * step - global_size < n
  IN {i \in Strided(first, n, global_size) : Complete(Turn(i)) => Line(i) < unrolled_lines}

UnrolledDot(n) ==
  [lane \in GridLanes(dot_num_blocks, TBSIZE) |-> UnrolledShare(n, lane)]
----------------------------------------------------------------------------
(* What each backend is built with, by default                             *)

IndexBackends == {"CUDA", "HIP", "OpenCL", "sycl-ai"}

IndexSpace(b, n) == CASE b = "CUDA"    -> CudaGridStride(n)
                      [] b = "HIP"     -> HipGridStride(n)
                      [] b = "OpenCL"  -> OclNdRange(n)
                      [] b = "sycl-ai" -> SyclNdRange(n)

LaunchDefined(b, n) == b = "CUDA" => CudaLaunches(n)

DotSpace(b, n) == CASE b \in {"CUDA", "OpenCL"} -> DotGridStride(n)
                    [] b = "HIP"                -> HipDotGridStride(n)
                    [] b = "sycl-ai"            -> UnrolledDot(n)

DotBlocks(b, n) == IF b = "HIP" THEN HipDotBlocks(n) ELSE dot_num_blocks
----------------------------------------------------------------------------
\* Every index below n belongs to the share of exactly one thread.
Partitions(work, n) ==
  /\ \A lane \in DOMAIN work : work[lane] \subseteq 0 .. n - 1
  /\ \A i \in 0 .. n - 1 : \E lane \in DOMAIN work :
        \A other \in DOMAIN work : i \in work[other] <=> other = lane
=============================================================================
