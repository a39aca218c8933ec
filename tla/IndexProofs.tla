----------------------------- MODULE IndexProofs -----------------------------
(***************************************************************************)
(* The shares of IndexSpaces partition an array of any size among any      *)
(* number of blocks: the fact every backend's kernels rest on.             *)
(***************************************************************************)
EXTENDS IndexSpaces, TLAPS

LEMMA DivMod ==
  ASSUME NEW x \in Nat, NEW m \in Nat \ {0}
  PROVE  /\ x \div m \in Nat /\ x % m \in 0 .. m - 1
         /\ x = m * (x \div m) + (x % m)
OBVIOUS

LEMMA Division ==
  ASSUME NEW x \in Nat, NEW m \in Nat \ {0}
  PROVE  \E q \in Nat : \E r \in 0 .. m - 1 : /\ q = x \div m /\ r = x % m
                                            /\ x = m * q + r
BY DivMod

LEMMA DivisionUnique ==
  ASSUME NEW x \in Nat, NEW m \in Nat \ {0}, NEW q \in Int, NEW r \in 0 .. m - 1,
         x = m * q + r
  PROVE  x \div m = q /\ x % m = r
OBVIOUS

LEMMA DivBounded ==
  ASSUME NEW x \in Nat, NEW m \in Nat \ {0}, NEW b \in Nat, x < b * m
  PROVE  x \div m < b
OBVIOUS

\* A strided loop that starts below its stride visits i exactly if it starts
\* at the remainder of i.
LEMMA StridedIsRemainder ==
  ASSUME NEW n \in Nat, NEW i \in 0 .. n - 1, NEW m \in Nat \ {0}, NEW first \in 0 .. m - 1
  PROVE  i \in Strided(first, n, m) <=> first = i % m
<1>1. CASE first > i
  <2>1. i % m <= i
    BY DivMod
  <2>2. QED
    BY <1>1, <2>1, DivMod DEF Strided
<1>2. CASE first <= i
  <2>1. ASSUME (i - first) % m = 0 PROVE first = i % m
    <3>1. i - first \in Nat
      BY <1>2
    <3>2. PICK q \in Nat : \E r \in 0 .. m - 1 :
            r = (i - first) % m /\ i - first = m * q + r
      BY <3>1, Division
    <3>3. i = m * q + first
      BY <2>1, <3>2
    <3>4. QED
      BY <3>3, DivisionUnique
  <2>2. ASSUME first = i % m PROVE (i - first) % m = 0
    <3>1. i \in Nat
      OBVIOUS
    <3>2. PICK q \in Nat : \E r \in 0 .. m - 1 : r = i % m /\ i = m * q + r
      BY <3>1, Division, ZenonT(30)
    <3>3. i - first = m * q + 0 /\ i - first \in Nat /\ 0 \in 0 .. m - 1
      BY <1>2, <2>2, <3>2
    <3>4. QED
      BY <3>3, DivisionUnique
  <2>3. QED
    BY <1>2, <2>1, <2>2 DEF Strided
<1>3. QED
  BY <1>1, <1>2

\* The threads of a grid are numbered from 0 to blocks * TBSIZE - 1, each
\* number once.
LEMMA LaneNumber ==
  ASSUME NEW blocks \in Nat \ {0}, NEW lane \in GridLanes(blocks, TBSIZE)
  PROVE  /\ lane[2] + TBSIZE * lane[1] \in 0 .. blocks * TBSIZE - 1
         /\ lane[2] \in 0 .. TBSIZE - 1 /\ lane[1] \in 0 .. blocks - 1
<1>1. TBSIZE \in Nat \ {0} /\ lane[1] \in 0 .. blocks - 1 /\ lane[2] \in 0 .. TBSIZE - 1
  BY BlockSizes DEF GridLanes
<1>2. TBSIZE * lane[1] <= TBSIZE * (blocks - 1)
  BY <1>1
<1>3. TBSIZE * (blocks - 1) = blocks * TBSIZE - TBSIZE /\ TBSIZE * lane[1] \in Nat
  BY <1>1
<1>4. blocks * TBSIZE \in Nat
  BY <1>1
<1>5. QED
  BY <1>1, <1>2, <1>3, <1>4

LEMMA LaneOfNumber ==
  ASSUME NEW blocks \in Nat \ {0}, NEW r \in 0 .. blocks * TBSIZE - 1
  PROVE  \E lane \in GridLanes(blocks, TBSIZE) :
           \A other \in GridLanes(blocks, TBSIZE) :
             other[2] + TBSIZE * other[1] = r <=> other = lane
<1> DEFINE lane == <<r \div TBSIZE, r % TBSIZE>>
<1>1. TBSIZE \in Nat \ {0} /\ r \in Nat /\ r < blocks * TBSIZE
  BY BlockSizes
<1>2. /\ r \div TBSIZE \in Nat /\ r % TBSIZE \in 0 .. TBSIZE - 1
      /\ r = TBSIZE * (r \div TBSIZE) + (r % TBSIZE)
      /\ r \div TBSIZE < blocks
  BY <1>1, DivMod, DivBounded
<1>3. lane \in GridLanes(blocks, TBSIZE)
  BY <1>2 DEF GridLanes
<1>4. ASSUME NEW other \in GridLanes(blocks, TBSIZE)
      PROVE  other[2] + TBSIZE * other[1] = r <=> other = lane
  <2>1. other[1] \in 0 .. blocks - 1 /\ other[2] \in 0 .. TBSIZE - 1 /\ other = <<other[1], other[2]>>
    BY LaneNumber DEF GridLanes
  <2>2. ASSUME other[2] + TBSIZE * other[1] = r
        PROVE  other[1] = r \div TBSIZE /\ other[2] = r % TBSIZE
    <3>1. r = TBSIZE * other[1] + other[2]
      BY <1>1, <2>1, <2>2
    <3>2. QED
      BY <1>1, <2>1, <3>1, DivisionUnique
  <2>3. ASSUME other = lane PROVE other[2] + TBSIZE * other[1] = r
    BY <1>1, <1>2, <2>3
  <2>4. QED
    BY <2>1, <2>2, <2>3
<1>5. QED
  BY <1>3, <1>4

\* A grid-stride loop, as in CUDA's for_each_kernel and in HIP's kernels,
\* visits every index of an array of any size from exactly one thread,
\* whatever the number of blocks.
THEOREM GridStridePartitions ==
  ASSUME NEW n \in Nat, NEW blocks \in Nat \ {0}
  PROVE  Partitions([lane \in GridLanes(blocks, TBSIZE) |-> GridStrideShare(n, blocks, lane)], n)
<1> DEFINE work == [lane \in GridLanes(blocks, TBSIZE) |-> GridStrideShare(n, blocks, lane)]
<1> DEFINE m == blocks * TBSIZE
<1>1. m \in Nat \ {0}
  BY BlockSizes
<1>2. ASSUME NEW lane \in DOMAIN work PROVE work[lane] \subseteq 0 .. n - 1
  BY <1>2, LaneNumber DEF GridStrideShare, Strided
<1>3. ASSUME NEW i \in 0 .. n - 1
      PROVE  \E lane \in DOMAIN work : \A other \in DOMAIN work : i \in work[other] <=> other = lane
  <2>1. i % m \in 0 .. m - 1
    BY <1>1, DivMod, SMTT(20)
  <2>2. PICK lane \in GridLanes(blocks, TBSIZE) :
          \A other \in GridLanes(blocks, TBSIZE) :
            other[2] + TBSIZE * other[1] = i % m <=> other = lane
    BY <2>1, LaneOfNumber
  <2>3. ASSUME NEW other \in GridLanes(blocks, TBSIZE)
        PROVE  i \in work[other] <=> other[2] + TBSIZE * other[1] = i % m
    <3>1. other[2] + TBSIZE * other[1] \in 0 .. m - 1
      BY LaneNumber
    <3>2. QED
      BY <1>1, <3>1, StridedIsRemainder DEF GridStrideShare
  <2>4. QED
    BY <2>2, <2>3
<1>4. QED
  BY <1>2, <1>3 DEF Partitions

LEMMA CeilDivPositive ==
  ASSUME NEW x \in Nat \ {0}, NEW y \in Nat \ {0}
  PROVE  ceil_div(x, y) \in Nat \ {0}
<1>1. x + y - 1 \in Nat /\ x + y - 1 >= y
  OBVIOUS
<1>2. PICK q \in Nat : \E r \in 0 .. y - 1 :
        q = (x + y - 1) \div y /\ x + y - 1 = y * q + r
  BY <1>1, Division
<1>3. q # 0
  BY <1>1, <1>2
<1>4. QED
  BY <1>2, <1>3 DEF ceil_div

\* CUDA's default index space covers every array of at least as many elements
\* as the unroll factor, whatever block size the occupancy query suggests.
THEOREM CudaPartitions ==
  ASSUME NEW n \in Nat, n >= UNROLL_FACTOR
  PROVE  CudaLaunches(n) /\ Partitions(CudaGridStride(n), n)
<1>1. UNROLL_FACTOR \in Nat \ {0} /\ AtMost(TBSIZE, threads_per_block) \in Nat \ {0}
  BY BlockSizes DEF AtMost
<1>2. n \div UNROLL_FACTOR \in Nat \ {0}
  <2>1. PICK q \in Nat : \E r \in 0 .. UNROLL_FACTOR - 1 :
          q = n \div UNROLL_FACTOR /\ n = UNROLL_FACTOR * q + r
    BY <1>1, Division
  <2>2. q # 0
    BY <1>1, <2>1
  <2>3. QED
    BY <2>1, <2>2
<1>3. CudaBlocks(n) \in Nat \ {0}
  BY <1>1, <1>2, CeilDivPositive DEF CudaBlocks
<1>4. CudaLaunches(n)
  BY <1>3 DEF CudaLaunches
<1>5. Partitions(CudaGridStride(n), n)
  BY <1>3, GridStridePartitions DEF CudaGridStride
<1>6. QED
  BY <1>4, <1>5

\* HIP's index space covers an array of any size.
THEOREM HipPartitions ==
  ASSUME NEW n \in Nat \ {0}
  PROVE  Partitions(HipGridStride(n), n)
<1>1. TBSIZE \in Nat \ {0}
  BY BlockSizes
<1>2. HipBlocks(n) \in Nat \ {0}
  BY <1>1, CeilDivPositive DEF HipBlocks
<1>3. QED
  BY <1>2, GridStridePartitions DEF HipGridStride

\* OpenCL's work-items are the indices.
THEOREM OclPartitions ==
  ASSUME NEW n \in Nat \ {0}
  PROVE  Partitions(OclNdRange(n), n)
<1>1. DOMAIN OclNdRange(n) = GridLanes(n, 1) /\ 0 .. 1 - 1 = {0}
  BY DEF OclNdRange
<1>2. ASSUME NEW lane \in GridLanes(n, 1)
      PROVE  /\ lane[1] \in 0 .. n - 1 /\ lane = <<lane[1], 0>>
             /\ OclNdRange(n)[lane] = {lane[1]}
  BY <1>1 DEF GridLanes, OclNdRange
<1>3. ASSUME NEW i \in 0 .. n - 1
      PROVE  /\ <<i, 0>> \in GridLanes(n, 1)
             /\ \A other \in GridLanes(n, 1) : i \in OclNdRange(n)[other] <=> other = <<i, 0>>
  <2>1. <<i, 0>> \in GridLanes(n, 1)
    BY <1>1 DEF GridLanes
  <2>2. QED
    BY <1>2, <2>1
<1>4. ASSUME NEW i \in 0 .. n - 1
      PROVE  \E lane \in GridLanes(n, 1) : \A other \in GridLanes(n, 1) :
               i \in OclNdRange(n)[other] <=> other = lane
  BY <1>3
<1>5. \A lane \in GridLanes(n, 1) : OclNdRange(n)[lane] \subseteq 0 .. n - 1
  BY <1>2
<1>6. QED
  BY <1>1, <1>4, <1>5 DEF Partitions

\* The work-items of SYCL's rounded-up nd_range that survive the guard visit
\* every index of an array of any size exactly once.
THEOREM SyclPartitions ==
  ASSUME NEW n \in Nat \ {0}
  PROVE  Partitions(SyclNdRange(n), n)
<1> DEFINE groups == SyclGroups(n)
<1>1. TBSIZE \in Nat \ {0}
  BY BlockSizes
<1>2. groups \in Nat /\ n <= groups * TBSIZE
  <2>1. PICK q \in Nat, r \in 0 .. TBSIZE - 1 :
          n = TBSIZE * q + r /\ r = n % TBSIZE
    BY <1>1, Division
  <2>2. PICK p \in Nat : round_up(n, TBSIZE) = TBSIZE * p + 0 /\ n <= TBSIZE * p
    <3>1. CASE r = 0
      <4>1. round_up(n, TBSIZE) = TBSIZE * q + 0
        BY <1>1, <2>1, <3>1 DEF round_up
      <4>2. n <= TBSIZE * q
        BY <1>1, <2>1, <3>1
      <4>3. QED
        BY <4>1, <4>2, Zenon
    <3>2. CASE r # 0
      <4>1. round_up(n, TBSIZE) = n + (TBSIZE - r)
        BY <1>1, <2>1, <3>2 DEF round_up
      <4>2. TBSIZE * (q + 1) = TBSIZE * q + TBSIZE /\ TBSIZE * q \in Nat
        BY <1>1
      <4>3. round_up(n, TBSIZE) = TBSIZE * (q + 1) + 0 /\ n <= TBSIZE * (q + 1)
        BY <1>1, <2>1, <4>1, <4>2
      <4>4. q + 1 \in Nat
        OBVIOUS
      <4>5. QED
        BY <4>3, <4>4, Zenon
    <3>3. QED
      BY <3>1, <3>2
  <2>3. round_up(n, TBSIZE) \in Nat /\ 0 \in 0 .. TBSIZE - 1
    BY <1>1, <2>2
  <2>4. groups = p
    BY <1>1, <2>2, <2>3, DivisionUnique DEF SyclGroups
  <2>5. QED
    BY <1>1, <2>2, <2>4
<1>3. groups \in Nat \ {0}
  BY <1>1, <1>2
<1>4. ASSUME NEW i \in 0 .. n - 1
      PROVE  \E lane \in GridLanes(groups, TBSIZE) :
               \A other \in GridLanes(groups, TBSIZE) :
                 i \in SyclNdRange(n)[other] <=> other = lane
  <2>1. i \in 0 .. groups * TBSIZE - 1
    BY <1>1, <1>2
  <2>2. PICK lane \in GridLanes(groups, TBSIZE) :
          \A other \in GridLanes(groups, TBSIZE) :
            other[2] + TBSIZE * other[1] = i <=> other = lane
    BY <1>3, <2>1, LaneOfNumber
  <2>3. ASSUME NEW other \in GridLanes(groups, TBSIZE)
        PROVE  i \in SyclNdRange(n)[other] <=> other[2] + TBSIZE * other[1] = i
    <3>1. other[1] * TBSIZE + other[2] = other[2] + TBSIZE * other[1]
      BY <1>1, <1>3, LaneNumber
    <3>2. QED
      BY <3>1 DEF SyclNdRange, GuardedShare
  <2>4. QED
    BY <2>2, <2>3
<1>5. ASSUME NEW lane \in GridLanes(groups, TBSIZE)
      PROVE  SyclNdRange(n)[lane] \subseteq 0 .. n - 1
  <2>1. lane[1] * TBSIZE + lane[2] \in Nat
    BY <1>1, <1>3, LaneNumber
  <2>2. QED
    BY <2>1 DEF SyclNdRange, GuardedShare
<1>6. DOMAIN SyclNdRange(n) = GridLanes(groups, TBSIZE)
  BY DEF SyclNdRange
<1>7. QED
  BY <1>4, <1>5, <1>6 DEF Partitions
----------------------------------------------------------------------------
(* The dot kernels                                                         *)

\* A complete turn of sycl-ai's unrolled loop has dot_unroll lines; if the
\* loop writes out as many, no index is left out.
LEMMA UnrolledIsStrided ==
  ASSUME NEW n \in Nat, NEW lane \in GridLanes(dot_num_blocks, TBSIZE), dot_unroll <= unrolled_lines
  PROVE  UnrolledShare(n, lane) = GridStrideShare(n, dot_num_blocks, lane)
<1> DEFINE global_size == dot_num_blocks * TBSIZE
<1> DEFINE first == lane[2] + TBSIZE * lane[1]
<1> DEFINE step == global_size * dot_unroll
<1>1. /\ dot_num_blocks \in Nat \ {0} /\ TBSIZE \in Nat \ {0} /\ dot_unroll \in Nat \ {0}
      /\ unrolled_lines \in Nat
  BY BlockSizes
<1>2. global_size \in Nat \ {0}
  BY <1>1
<1>3. step \in Nat \ {0} /\ step = dot_unroll * global_size
  BY <1>1, <1>2
<1>4. first \in Nat
  BY <1>1, LaneNumber
<1> HIDE DEF global_size, first, step
<1>5. ASSUME NEW i \in Strided(first, n, global_size)
      PROVE  ((i - first) % step) \div global_size < unrolled_lines
  <2>1. i - first \in Nat
    BY <1>4 DEF Strided
  <2>2. (i - first) % step \in Nat /\ (i - first) % step < dot_unroll * global_size
    <3>1. (i - first) % step \in 0 .. step - 1
      BY <1>3, <2>1, DivMod
    <3>2. QED
      BY <1>3, <3>1
  <2>3. ((i - first) % step) \div global_size < dot_unroll
    BY <1>1, <1>2, <2>2, DivBounded
  <2>4. ((i - first) % step) \div global_size \in Nat
    BY <1>2, <2>2, DivMod
  <2>5. QED
    BY <1>1, <2>3, <2>4
<1> DEFINE Complete(i) == first + (((i - first) \div step) + 1) * step - global_size < n
<1> DEFINE Line(i) == ((i - first) % step) \div global_size
<1>6. UnrolledShare(n, lane) =
        {i \in Strided(first, n, global_size) : Complete(i) => Line(i) < unrolled_lines}
  BY DEF UnrolledShare, global_size, first, step
<1> HIDE DEF Complete
<1>7. UnrolledShare(n, lane) = Strided(first, n, global_size)
  BY <1>5, <1>6
<1>8. QED
  BY <1>7 DEF GridStrideShare, global_size, first

\* The shares of the dot kernels of CUDA, OpenCL, HIP and sycl-ai partition an
\* array of any size among their blocks.
THEOREM DotPartitions ==
  ASSUME NEW b \in IndexBackends, NEW n \in Nat \ {0},
         b = "sycl-ai" => dot_unroll <= unrolled_lines
  PROVE  /\ DotBlocks(b, n) \in Nat \ {0}
         /\ DOMAIN DotSpace(b, n) = GridLanes(DotBlocks(b, n), TBSIZE)
         /\ Partitions(DotSpace(b, n), n)
<1>1. dot_num_blocks \in Nat \ {0} /\ TBSIZE * dot_elements_per_lane \in Nat \ {0}
  BY BlockSizes
<1>2. CASE b \in {"CUDA", "OpenCL"}
  <2>1. DotSpace(b, n) = DotGridStride(n) /\ DotBlocks(b, n) = dot_num_blocks
    BY <1>2 DEF DotSpace, DotBlocks
  <2>2. QED
    BY <1>1, <2>1, GridStridePartitions DEF DotGridStride
<1>3. CASE b = "HIP"
  <2>1. DotSpace(b, n) = HipDotGridStride(n) /\ DotBlocks(b, n) = HipDotBlocks(n)
    BY <1>3 DEF DotSpace, DotBlocks
  <2>2. HipDotBlocks(n) \in Nat \ {0}
    BY <1>1, CeilDivPositive DEF HipDotBlocks, ceil_div
  <2>3. QED
    BY <2>1, <2>2, GridStridePartitions DEF HipDotGridStride
<1>4. CASE b = "sycl-ai"
  <2>1. DotSpace(b, n) = UnrolledDot(n) /\ DotBlocks(b, n) = dot_num_blocks
    BY <1>4 DEF DotSpace, DotBlocks
  <2>2. UnrolledDot(n) = DotGridStride(n)
    BY <1>4, UnrolledIsStrided DEF UnrolledDot, DotGridStride
  <2>3. QED
    BY <1>1, <2>1, <2>2, GridStridePartitions DEF DotGridStride
<1>5. QED
  BY <1>2, <1>3, <1>4 DEF IndexBackends
=============================================================================
