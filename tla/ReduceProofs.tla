---------------------------- MODULE ReduceProofs ----------------------------
(***************************************************************************)
(* The tree of the dot kernels has no data race, for any number of threads *)
(* and blocks and any share of the array: the barriers keep the threads of *)
(* a block within one round of each other.  For widths that are powers of  *)
(* two and shares that partition the array it counts every product once.   *)
(***************************************************************************)
EXTENDS BlockReduce, IndexProofs

Places == {"gather", "barrier", "add", "last", "done"}

\* A thread that has entered the loop with offset o.
Entered(m, o) ==
  /\ offset[m] = o
  /\ o > 0 => pc[m] = "barrier"
  /\ o = 0 => pc[m] \in {"last", "done"}

\* Where the thread m of a block may be when the thread l of it is where it is.
Near(l, m) ==
  /\ pc[l] = "gather" => pc[m] = "gather" \/ Entered(m, FirstOffset(Width))
  /\ pc[l] = "add" => \/ pc[m] = "add" /\ offset[m] = offset[l]
                      \/ Entered(m, NextOffset(offset[l]))
  /\ pc[l] = "barrier" /\ pc[m] = "barrier" => offset[m] = offset[l]
  /\ pc[l] = "barrier" => pc[m] \notin {"last", "done"}

\* The invariant of the barriers.
InStep ==
  /\ pc \in [Lane -> Places] /\ offset \in [Lane -> Nat]
  /\ \A l \in Lane : /\ pc[l] \in {"barrier", "add"} => offset[l] > 0
                     /\ pc[l] \in {"last", "done"} => offset[l] = 0
  /\ \A l, m \in Lane : l[1] = m[1] => Near(l, m)

LEMMA Halves ==
  /\ FirstOffset(Width) \in Nat
  /\ \A o \in Nat : NextOffset(o) \in Nat
BY WidthPositive DEF FirstOffset, NextOffset

LEMMA Lanes ==
  ASSUME NEW l \in Lane
  PROVE  l = <<l[1], l[2]>> /\ l[1] \in Block /\ l[2] \in Thread
BY DEF Lane

LEMMA InStepInit == Init => InStep
BY DEF Init, InStep, Near, Places

\* Of the thread that enters the loop, and of the others, in the next state.
LEMMA Enters ==
  ASSUME InStep, NEW l \in Lane, NEW o \in Nat, EnterLoop(l, o)
  PROVE  /\ pc' \in [Lane -> Places] /\ offset' \in [Lane -> Nat]
         /\ offset'[l] = o /\ pc'[l] = IF o > 0 THEN "barrier" ELSE "last"
         /\ Entered(l, o)'
         /\ \A m \in Lane : m # l => pc'[m] = pc[m] /\ offset'[m] = offset[m]
BY DEF InStep, EnterLoop, Entered, Places

LEMMA GatherInStep ==
  ASSUME InStep, NEW l \in Lane, Gather(l)
  PROVE  InStep'
<1> DEFINE o == FirstOffset(Width)
<1>1. pc[l] = "gather" /\ EnterLoop(l, o) /\ UNCHANGED config
  BY DEF Gather
<1>2. o \in Nat /\ FirstOffset(Width)' = o
  BY Halves DEF FirstOffset
<1>3. Lane' = Lane
  BY <1>1 DEF Lane, Block, Thread, config
<1> HIDE DEF o
<1>4. /\ pc' \in [Lane -> Places] /\ offset' \in [Lane -> Nat]
      /\ offset'[l] = o /\ pc'[l] = IF o > 0 THEN "barrier" ELSE "last"
      /\ \A m \in Lane : m # l => pc'[m] = pc[m] /\ offset'[m] = offset[m]
  BY <1>1, <1>2, Enters
<1>5. \A m \in Lane : m[1] = l[1] => pc[m] = "gather" \/ Entered(m, o)
  BY <1>1 DEF InStep, Near, o
<1>6. \A m \in Lane : m[1] = l[1] => pc'[m] = "gather" \/ Entered(m, o)'
  BY <1>2, <1>4, <1>5 DEF Entered
<1>7. \A m, k \in Lane : m[1] = k[1] => Near(m, k)'
  <2>1. SUFFICES ASSUME NEW m \in Lane, NEW k \in Lane, m[1] = k[1] PROVE Near(m, k)'
    OBVIOUS
  <2>2. CASE m[1] = l[1]
    <3>1. (pc'[m] = "gather" \/ Entered(m, o)') /\ (pc'[k] = "gather" \/ Entered(k, o)')
      BY <1>6, <2>1, <2>2
    <3>2. QED
      BY <1>2, <3>1 DEF Near, Entered, o
  <2>3. CASE m[1] # l[1]
    <3>1. m # l /\ k # l
      BY <2>1, <2>3
    <3>2. Near(m, k)
      BY <2>1 DEF InStep
    <3>3. QED
      BY <1>2, <1>4, <3>1, <3>2 DEF Near, Entered, o, NextOffset
  <2>4. QED
    BY <2>2, <2>3
<1>8. \A m \in Lane : /\ pc'[m] \in {"barrier", "add"} => offset'[m] > 0
                      /\ pc'[m] \in {"last", "done"} => offset'[m] = 0
  BY <1>2, <1>4 DEF InStep
<1>9. QED
  BY <1>3, <1>4, <1>7, <1>8 DEF InStep

LEMMA AddInStep ==
  ASSUME InStep, NEW l \in Lane, Add(l)
  PROVE  InStep'
<1>0. PICK o \in Nat : o = NextOffset(offset[l])
  BY Halves DEF InStep
<1>1. pc[l] = "add" /\ EnterLoop(l, o) /\ UNCHANGED config
  BY <1>0 DEF Add
<1>2. o \in Nat
  OBVIOUS
<1>3. Lane' = Lane /\ FirstOffset(Width)' = FirstOffset(Width)
  BY <1>1 DEF Lane, Block, Thread, config, FirstOffset
<1>4. \A m \in Lane : m[1] = l[1] => (pc[m] = "add" /\ offset[m] = offset[l]) \/ Entered(m, o)
  BY <1>0, <1>1 DEF InStep, Near
<1>5. /\ pc' \in [Lane -> Places] /\ offset' \in [Lane -> Nat]
      /\ offset'[l] = o /\ pc'[l] = IF o > 0 THEN "barrier" ELSE "last"
      /\ \A m \in Lane : m # l => pc'[m] = pc[m] /\ offset'[m] = offset[m]
  BY <1>1, <1>2, Enters
<1>6. \A m \in Lane : m[1] = l[1] =>
        \/ pc'[m] = "add" /\ m # l /\ offset'[m] = offset[l]
        \/ Entered(m, o)'
  <2>1. SUFFICES ASSUME NEW m \in Lane, m[1] = l[1]
                 PROVE  (pc'[m] = "add" /\ m # l /\ offset'[m] = offset[l]) \/ Entered(m, o)'
    OBVIOUS
  <2>2. CASE m = l
    BY <1>2, <1>5, <2>2 DEF Entered
  <2>3. CASE m # l
    <3>1. pc'[m] = pc[m] /\ offset'[m] = offset[m]
      BY <1>5, <2>3
    <3>2. (pc[m] = "add" /\ offset[m] = offset[l]) \/ Entered(m, o)
      BY <1>4, <2>1
    <3>3. QED
      BY <2>3, <3>1, <3>2 DEF Entered
  <2>4. QED
    BY <2>2, <2>3
<1>7. \A m, k \in Lane : m[1] = k[1] => Near(m, k)'
  <2>1. SUFFICES ASSUME NEW m \in Lane, NEW k \in Lane, m[1] = k[1] PROVE Near(m, k)'
    OBVIOUS
  <2>2. CASE m[1] = l[1]
    <3>1. /\ (pc'[m] = "add" /\ m # l /\ offset'[m] = offset[l]) \/ Entered(m, o)'
          /\ (pc'[k] = "add" /\ k # l /\ offset'[k] = offset[l]) \/ Entered(k, o)'
      BY <1>6, <2>1, <2>2
    <3>2. offset'[m] = offset[l] => NextOffset(offset[m])' = o
      BY <1>0 DEF NextOffset
    <3>3. (o > 0 \/ o = 0) /\ ~(o > 0 /\ o = 0)
      BY <1>2
    <3>4. pc'[m] # "gather"
      BY <3>1, <3>3 DEF Entered
    <3>5. pc'[m] = "add" =>
            (pc'[k] = "add" /\ offset'[k] = offset'[m]) \/ Entered(k, NextOffset(offset[m]))'
      BY <3>1, <3>2, <3>3 DEF Entered
    <3>6. pc'[m] = "barrier" => /\ pc'[k] = "barrier" => offset'[k] = offset'[m]
                                /\ pc'[k] \notin {"last", "done"}
      BY <3>1, <3>3 DEF Entered
    <3>7. QED
      BY <3>4, <3>5, <3>6 DEF Near
  <2>3. CASE m[1] # l[1]
    <3>1. m # l /\ k # l
      BY <2>1, <2>3
    <3>2. Near(m, k)
      BY <2>1 DEF InStep
    <3>3. QED
      BY <1>3, <1>5, <3>1, <3>2 DEF Near, Entered, NextOffset
  <2>4. QED
    BY <2>2, <2>3
<1>8. \A m \in Lane : /\ pc'[m] \in {"barrier", "add"} => offset'[m] > 0
                      /\ pc'[m] \in {"last", "done"} => offset'[m] = 0
  BY <1>2, <1>5 DEF InStep
<1>9. QED
  BY <1>3, <1>5, <1>7, <1>8 DEF InStep

LEMMA LastInStep ==
  ASSUME InStep, NEW l \in Lane, Last(l)
  PROVE  InStep'
<1>1. /\ pc[l] = "last" /\ pc' = [pc EXCEPT ![l] = "done"] /\ offset' = offset
      /\ UNCHANGED config
  BY DEF Last
<1>2. Lane' = Lane /\ FirstOffset(Width)' = FirstOffset(Width)
  BY <1>1 DEF Lane, Block, Thread, config, FirstOffset
<1>3. /\ pc' \in [Lane -> Places] /\ pc'[l] = "done"
      /\ \A m \in Lane : m # l => pc'[m] = pc[m]
  BY <1>1 DEF InStep, Places
<1>4. \A m, k \in Lane : m[1] = k[1] => Near(m, k)'
  BY <1>1, <1>2, <1>3 DEF InStep, Near, Entered, NextOffset
<1>5. QED
  BY <1>1, <1>2, <1>3, <1>4 DEF InStep

\* All threads of the block are at the same barrier.
LEMMA ReleaseInStep ==
  ASSUME InStep, NEW g \in Block, Release(g)
  PROVE  InStep'
<1>1. /\ pc' = [l \in Lane |-> IF l[1] = g /\ pc[l] = "barrier" THEN "add" ELSE pc[l]]
      /\ offset' = offset /\ UNCHANGED config /\ Arrived(g)
  BY DEF Release
<1>2. Lane' = Lane /\ FirstOffset(Width)' = FirstOffset(Width)
  BY <1>1 DEF Lane, Block, Thread, config, FirstOffset
<1>3. \A l \in Lane : l[1] = g => pc[l] = "barrier"
  BY <1>1, Lanes DEF Arrived
<1>4. pc' \in [Lane -> Places]
  BY <1>1 DEF InStep, Places
<1>5. \A l \in Lane : IF l[1] = g THEN pc'[l] = "add" ELSE pc'[l] = pc[l]
  BY <1>1, <1>3
<1>6. \A m, k \in Lane : m[1] = k[1] => Near(m, k)'
  <2>1. SUFFICES ASSUME NEW m \in Lane, NEW k \in Lane, m[1] = k[1] PROVE Near(m, k)'
    OBVIOUS
  <2>2. Near(m, k)
    BY <2>1 DEF InStep
  <2>3. CASE m[1] = g
    <3>1. offset[m] = offset[k] /\ pc'[m] = "add" /\ pc'[k] = "add"
      BY <1>3, <1>5, <2>1, <2>2, <2>3 DEF Near
    <3>2. QED
      BY <1>1, <3>1 DEF Near
  <2>4. CASE m[1] # g
    BY <1>1, <1>2, <1>5, <2>1, <2>2, <2>4 DEF Near, Entered, NextOffset
  <2>5. QED
    BY <2>3, <2>4
<1>7. QED
  BY <1>1, <1>2, <1>3, <1>4, <1>5, <1>6 DEF InStep

LEMMA InStepNext == ASSUME InStep, [Next]_vars PROVE InStep'
<1>1. CASE AddBlock \/ Return \/ UNCHANGED vars
  <2>1. pc' = pc /\ offset' = offset /\ Lane' = Lane
    BY <1>1 DEF AddBlock, Return, vars, config, Lane, Block, Thread
  <2>2. \A l, m \in Lane : Near(l, m) => Near(l, m)'
    BY <2>1 DEF Near, Entered, FirstOffset, NextOffset
  <2>3. QED
    BY <2>1, <2>2 DEF InStep
<1>2. QED
  BY <1>1, GatherInStep, AddInStep, LastInStep, ReleaseInStep DEF Next

\* In step, two threads that add in the same round use different cells: one
\* writes below the offset, and reads from the offset on.
LEMMA InStepRaceFree == InStep => RaceFree
<1>1. SUFFICES ASSUME InStep, NEW l \in Lane, NEW m \in Lane, l # m,
                      NEW cell \in Writes(l), cell \in Reads(m) \cup Writes(m)
               PROVE  FALSE
  BY DEF RaceFree
<1>2. cell = l /\ (Adds(l) \/ pc[l] = "gather")
  BY <1>1 DEF Writes
<1>3. l \in Reads(m) /\ l \notin Writes(m)
  BY <1>1, <1>2 DEF Writes
<1>4. Adds(m) /\ l = Partner(m)
  BY <1>1, <1>3 DEF Reads
<1>5. /\ l = <<m[1], m[2] + offset[m]>> /\ l[1] = m[1] /\ l[2] = m[2] + offset[m]
      /\ pc[m] = "add"
  BY <1>4 DEF Partner, Adds
<1>6. Near(m, l) /\ Near(l, m) /\ offset[m] \in Nat /\ m[2] \in Nat
  BY <1>1, <1>5, Lanes DEF InStep, Thread
<1>7. pc[l] = "add" /\ offset[l] = offset[m]
  BY <1>2, <1>5, <1>6 DEF Near, Entered, Adds
<1>8. l[2] < offset[l]
  BY <1>2, <1>7 DEF Adds
<1>9. QED
  BY <1>5, <1>6, <1>7, <1>8
----------------------------------------------------------------------------
\* No thread writes a cell of shared memory that another is about to use, in
\* the dot kernels of CUDA, HIP, OpenCL and sycl-ai.
THEOREM ReductionRaceFree == Spec => []RaceFree
<1>1. Init => InStep
  BY InStepInit
<1>2. InStep /\ [Next]_vars => InStep'
  BY InStepNext
<1>3. InStep => RaceFree
  BY InStepRaceFree
<1>4. QED
  BY <1>1, <1>2, <1>3, PTL DEF Spec
----------------------------------------------------------------------------
(* Types                                                                   *)

LEMMA PlusType ==
  ASSUME NEW x \in [Idx(size) -> Nat], NEW y \in [Idx(size) -> Nat]
  PROVE  Plus(x, y) \in [Idx(size) -> Nat]
BY DEF Plus

\* The loop never leaves the offsets below half the width.
LEMMA EntersType ==
  ASSUME TypeOK, NEW l \in Lane, NEW o \in 0 .. Width \div 2, EnterLoop(l, o)
  PROVE  /\ pc' \in [Lane -> Places]
         /\ offset' \in [Lane -> 0 .. Width \div 2]
BY DEF TypeOK, EnterLoop, Places

LEMMA ConfigFixed == ASSUME [Next]_vars PROVE UNCHANGED config
BY DEF Next, Gather, Add, Last, Release, AddBlock, Return, vars, config

LEMMA SamePlaces ==
  ASSUME UNCHANGED config
  PROVE  Lane' = Lane /\ Block' = Block /\ Thread' = Thread /\ backend' = backend /\ size' = size
BY DEF config, Lane, Block, Thread

LEMMA Halved == ASSUME NEW o \in 0 .. Width \div 2 PROVE NextOffset(o) \in 0 .. Width \div 2
BY WidthPositive DEF NextOffset

\* A thread adds a cell of its own block.
LEMMA PartnerLane ==
  ASSUME NEW l \in Lane, Adds(l), offset[l] \in 0 .. Width \div 2
  PROVE  Partner(l) \in Lane
<1>1. l[1] \in Block /\ l[2] \in 0 .. Width - 1 /\ l[2] < offset[l]
  BY Lanes DEF Adds, Thread
<1>2. l[2] + offset[l] \in 0 .. Width - 1
  BY <1>1, WidthPositive
<1>3. QED
  BY <1>1, <1>2 DEF Partner, Lane, Thread

LEMMA TypeInit == Init => TypeOK
<1>1. SUFFICES ASSUME Init PROVE TypeOK
  OBVIOUS
<1>2. 0 \in 0 .. Width \div 2 /\ 0 \in 0 .. Blocks(backend, size)
  BY <1>1, WidthPositive, BlocksNatural DEF Init
<1>3. Zero \in [Idx(size) -> Nat]
  BY DEF Zero
<1>4. QED
  BY <1>1, <1>2, <1>3 DEF Init, TypeOK

LEMMA TypeNext == ASSUME TypeOK, [Next]_vars PROVE TypeOK'
<1> USE DEF Places
<1>1. UNCHANGED config /\ Lane' = Lane /\ Block' = Block /\ backend' = backend /\ size' = size
  BY ConfigFixed, SamePlaces
<1>2. ASSUME NEW l \in Lane, Gather(l) PROVE TypeOK'
  <2>1. FirstOffset(Width) \in 0 .. Width \div 2 /\ EnterLoop(l, FirstOffset(Width))
    BY <1>2, WidthPositive DEF Gather, FirstOffset
  <2>2. Products(Visits(backend, size)[l]) \in [Idx(size) -> Nat]
    BY DEF Products
  <2>3. wg_sum' \in [Lane -> [Idx(size) -> Nat]]
    BY <1>2, <2>2 DEF Gather, TypeOK
  <2>4. QED
    BY <1>1, <1>2, <2>1, <2>3, EntersType DEF Gather, TypeOK, host
<1>3. ASSUME NEW l \in Lane, Add(l) PROVE TypeOK'
  <2>1. NextOffset(offset[l]) \in 0 .. Width \div 2 /\ EnterLoop(l, NextOffset(offset[l]))
    BY <1>3, Halved DEF Add, TypeOK
  <2>2. wg_sum' \in [Lane -> [Idx(size) -> Nat]]
    <3>1. CASE Adds(l)
      <4>1. Plus(wg_sum[l], wg_sum[Partner(l)]) \in [Idx(size) -> Nat]
        BY <3>1, PartnerLane, PlusType DEF TypeOK
      <4>2. QED
        BY <1>3, <3>1, <4>1 DEF Add, TypeOK
    <3>2. QED
      BY <1>3, <3>1 DEF Add, TypeOK
  <2>3. QED
    BY <1>1, <1>3, <2>1, <2>2, EntersType DEF Add, TypeOK, host
<1>4. ASSUME NEW l \in Lane, Last(l) PROVE TypeOK'
  BY <1>1, <1>4, Lanes DEF Last, TypeOK, host
<1>5. ASSUME NEW g \in Block, Release(g) PROVE TypeOK'
  BY <1>1, <1>5 DEF Release, TypeOK, host
<1>6. CASE AddBlock
  <2>1. sum' \in [Idx(size) -> Nat]
    BY <1>6, PlusType DEF AddBlock, TypeOK
  <2>2. added' \in 0 .. Blocks(backend, size)
    BY <1>6, BlocksNatural DEF AddBlock, TypeOK, Block
  <2>3. QED
    BY <1>1, <1>6, <2>1, <2>2 DEF AddBlock, TypeOK
<1>7. CASE Return \/ UNCHANGED vars
  BY <1>1, <1>7 DEF Return, TypeOK, vars, host
<1>8. QED
  BY <1>2, <1>3, <1>4, <1>5, <1>6, <1>7 DEF Next

\* Every variable of the dot kernels has its type.
THEOREM ReductionTypes == Spec => []TypeOK
BY TypeInit, TypeNext, PTL DEF Spec
----------------------------------------------------------------------------
(* Every product is counted once                                           *)

\* Every divisor but 1 is even.
PowerOfTwo(w) == \A d, e \in Nat : w = d * e => d = 1 \/ \E h \in Nat : d = 2 * h

\* Every index belongs to the share of exactly one thread.
SharesPartition ==
  \A b \in Backends, n \in Sizes :
    DOMAIN Visits(b, n) = GridLanes(Blocks(b, n), Width) /\ Partitions(Visits(b, n), n)

\* What the threads of block g whose number is t modulo s add up.
Gathered(g, t, s) ==
  {i \in Idx(size) : \E u \in Thread : u % s = t /\ i \in Visits(backend, size)[<<g, u>>]}

\* What the first k blocks add up.
UpTo(k) == {i \in Idx(size) : \E l \in Lane : l[1] < k /\ i \in Visits(backend, size)[l]}

\* The cells of its block that are in use where thread l is.
Span(l) == IF pc[l] \in {"barrier", "add"} THEN 2 * offset[l] ELSE 1

\* A cell in use holds the products of the threads it stands for; one that the
\* last round has put out of use still holds what that round has read.
CellHolds(l) ==
  /\ l[2] < Span(l) => wg_sum[l] = Products(Gathered(l[1], l[2], Span(l)))
  /\ (Span(l) <= l[2] /\ l[2] < 2 * Span(l)) =>
       wg_sum[l] = Products(Gathered(l[1], l[2], 2 * Span(l)))

OffsetsDivide == \A l \in Lane : offset[l] > 0 => \E e \in Nat : Width = offset[l] * e

CellsHold == \A l \in Lane : pc[l] # "gather" => CellHolds(l)

BlocksHold ==
  \A l \in Lane : (pc[l] = "done" /\ l[2] = 0) => sums[l[1]] = Products(Gathered(l[1], 0, 1))

HostHolds == sum = Products(UpTo(added)) /\ (returned => added \notin Block)

\* The invariant of the tree.
Counted == OffsetsDivide /\ CellsHold /\ BlocksHold /\ HostHolds

LEMMA SplitRemainder ==
  ASSUME NEW o \in Nat \ {0}, NEW t \in 0 .. o - 1, NEW u \in Nat
  PROVE  u % o = t <=> (u % (2 * o) = t \/ u % (2 * o) = t + o)
<1>1. 2 * o \in Nat \ {0}
  OBVIOUS
<1>2. PICK q \in Nat : \E r \in 0 .. 2 * o - 1 :
        q = u \div (2 * o) /\ r = u % (2 * o) /\ u = (2 * o) * q + r
  BY <1>1, Division
<1>3. PICK r \in 0 .. 2 * o - 1 : r = u % (2 * o) /\ u = (2 * o) * q + r
  BY <1>2
<1>4. CASE r < o
  <2>1. u = o * (2 * q) + r /\ r \in 0 .. o - 1 /\ 2 * q \in Int
    BY <1>3, <1>4
  <2>2. u % o = r
    BY <2>1, DivisionUnique
  <2>3. QED
    BY <1>3, <1>4, <2>2
<1>5. CASE r >= o
  <2>1. u = o * (2 * q + 1) + (r - o)
    <3>1. (2 * o) * q = o * (2 * q) /\ o * (2 * q) \in Nat
      OBVIOUS
    <3>2. o * (2 * q + 1) = o * (2 * q) + o
      OBVIOUS
    <3>3. QED
      BY <1>3, <3>1, <3>2
  <2>2. r - o \in 0 .. o - 1 /\ 2 * q + 1 \in Int
    BY <1>5
  <2>3. u % o = r - o
    BY <2>1, <2>2, DivisionUnique
  <2>4. QED
    BY <1>3, <1>5, <2>3
<1>6. QED
  BY <1>4, <1>5

\* The products of disjoint sets of indices add up to those of their union.
LEMMA PlusProducts ==
  ASSUME NEW A, NEW B, NEW C, \A i \in Idx(size) : ~(i \in A /\ i \in B),
         \A i \in Idx(size) : i \in C <=> (i \in A \/ i \in B)
  PROVE  Plus(Products(A), Products(B)) = Products(C)
BY DEF Plus, Products

LEMMA OneOwner ==
  ASSUME SharesPartition, backend \in Backends, size \in Sizes, NEW i \in Idx(size)
  PROVE  /\ \E l \in Lane : i \in Visits(backend, size)[l]
         /\ \A l, m \in Lane : (/\ i \in Visits(backend, size)[l]
                                /\ i \in Visits(backend, size)[m]) => l = m
<1>1. Lane = DOMAIN Visits(backend, size) /\ Partitions(Visits(backend, size), size)
  BY DEF SharesPartition, Lane, Block, Thread, GridLanes
<1>2. QED
  BY <1>1 DEF Partitions, Idx

\* A round halves the number of cells in use.
LEMMA GatheredSplit ==
  ASSUME SharesPartition, backend \in Backends, size \in Sizes,
         NEW g \in Block, NEW o \in Nat \ {0}, NEW t \in 0 .. o - 1
  PROVE  Plus(Products(Gathered(g, t, 2 * o)), Products(Gathered(g, t + o, 2 * o)))
           = Products(Gathered(g, t, o))
<1>1. \A u \in Thread : u \in Nat /\ <<g, u>> \in Lane
  BY DEF Thread, Lane
<1>2. \A u \in Thread : u % o = t <=> (u % (2 * o) = t \/ u % (2 * o) = t + o)
  BY <1>1, SplitRemainder
<1>3. ASSUME NEW i \in Idx(size), i \in Gathered(g, t, 2 * o), i \in Gathered(g, t + o, 2 * o)
      PROVE  FALSE
  <2>1. PICK u \in Thread : u % (2 * o) = t /\ i \in Visits(backend, size)[<<g, u>>]
    BY <1>3 DEF Gathered
  <2>2. PICK v \in Thread : v % (2 * o) = t + o /\ i \in Visits(backend, size)[<<g, v>>]
    BY <1>3 DEF Gathered
  <2>3. u = v
    BY <1>1, <2>1, <2>2, OneOwner
  <2>4. QED
    BY <2>1, <2>2, <2>3
<1>4. \A i \in Idx(size) : i \in Gathered(g, t, o) <=>
        (i \in Gathered(g, t, 2 * o) \/ i \in Gathered(g, t + o, 2 * o))
  BY <1>2 DEF Gathered
<1>5. QED
  BY <1>3, <1>4, PlusProducts

LEMMA SameSets ==
  ASSUME UNCHANGED config
  PROVE  /\ \A g, t, s : Gathered(g, t, s)' = Gathered(g, t, s)
         /\ \A k : UpTo(k)' = UpTo(k)
         /\ \A S : Products(S)' = Products(S)
         /\ Lane' = Lane /\ Block' = Block
BY DEF config, Gathered, UpTo, Products, Idx, Thread, Lane, Block

\* A thread alone has its own share.
LEMMA GatheredAlone ==
  ASSUME NEW g \in Block, NEW t \in Thread
  PROVE  Products(Gathered(g, t, Width)) = Products(Visits(backend, size)[<<g, t>>])
<1>1. \A u \in Thread : u % Width = u
  <2>1. ASSUME NEW u \in Thread PROVE u % Width = u
    <3>1. u \in Nat /\ u \in 0 .. Width - 1 /\ u = Width * 0 + u /\ 0 \in Int
      BY WidthPositive DEF Thread
    <3>2. QED
      BY <3>1, WidthPositive, DivisionUnique
  <2>2. QED
    BY <2>1
<1>2. QED
  BY <1>1 DEF Products, Gathered

LEMMA CountedInit == ASSUME Init PROVE Counted
<1>1. \A l \in Lane : l[1] \in Nat /\ pc[l] = "gather" /\ offset[l] = 0
  BY Lanes DEF Init, Block
<1>2. \A i \in Idx(size) : i \notin UpTo(0)
  BY <1>1 DEF UpTo
<1>3. Zero = Products(UpTo(0))
  BY <1>2 DEF Zero, Products
<1>4. QED
  BY <1>1, <1>3 DEF Init, Counted, OffsetsDivide, CellsHold, BlocksHold, HostHolds

\* A thread that enters the loop: its own cell is all that changes.
LEMMA CountedEnters ==
  ASSUME InStep, Counted, UNCHANGED config, NEW l \in Lane, NEW o \in Nat, EnterLoop(l, o),
         UNCHANGED <<sums, host>>,
         pc[l] \in {"gather", "add"},
         \A m \in Lane : m # l => wg_sum'[m] = wg_sum[m],
         o > 0 => \E e \in Nat : Width = o * e,
         CellHolds(l)'
  PROVE  Counted'
<1>1. /\ offset'[l] = o /\ pc'[l] \in {"barrier", "last"}
      /\ \A m \in Lane : m # l => pc'[m] = pc[m] /\ offset'[m] = offset[m]
  BY Enters
<1>2. /\ \A g, t, s : Gathered(g, t, s)' = Gathered(g, t, s)
      /\ \A k : UpTo(k)' = UpTo(k)
      /\ \A S : Products(S)' = Products(S)
      /\ Lane' = Lane /\ Block' = Block
  BY SameSets
<1>3. OffsetsDivide'
  BY <1>1, <1>2 DEF Counted, OffsetsDivide
<1>4. CellsHold'
  <2>1. SUFFICES ASSUME NEW m \in Lane, (pc[m] # "gather")' PROVE CellHolds(m)'
    BY <1>2 DEF CellsHold
  <2>2. CASE m # l
    <3>1. CellHolds(m) /\ Span(m)' = Span(m) /\ wg_sum'[m] = wg_sum[m]
      BY <1>1, <2>1, <2>2 DEF Counted, CellsHold, Span
    <3>2. QED
      BY <1>2, <3>1 DEF CellHolds
  <2>3. QED
    BY <2>2
<1>5. BlocksHold'
  BY <1>1, <1>2 DEF Counted, BlocksHold
<1>6. HostHolds'
  BY <1>2 DEF Counted, HostHolds, host
<1>7. QED
  BY <1>3, <1>4, <1>5, <1>6 DEF Counted

LEMMA CountedGather ==
  ASSUME InStep, TypeOK, Counted, PowerOfTwo(Width), NEW l \in Lane, Gather(l)
  PROVE  Counted'
<1> DEFINE o == FirstOffset(Width)
<1>1. /\ pc[l] = "gather" /\ EnterLoop(l, o) /\ UNCHANGED <<config, sums, host>>
      /\ wg_sum' = [wg_sum EXCEPT ![l] = Products(Visits(backend, size)[l])]
  BY DEF Gather
<1>2. Width = 1 \/ \E h \in Nat : Width = 2 * h
  <2>1. Width \in Nat /\ 1 \in Nat /\ Width = Width * 1
    BY WidthPositive
  <2>2. QED
    BY <2>1 DEF PowerOfTwo
<1>3. /\ o \in Nat /\ IF o > 0 THEN Width = 2 * o ELSE Width = 1
      /\ o > 0 => \E e \in Nat : Width = o * e
  <2>1. CASE Width = 1
    BY <2>1 DEF FirstOffset
  <2>2. CASE \E h \in Nat : Width = 2 * h
    <3>1. PICK h \in Nat : Width = 2 * h
      BY <2>2
    <3>2. h = o /\ h > 0 /\ Width = h * 2 /\ 2 \in Nat
      BY <3>1, WidthPositive DEF FirstOffset
    <3>3. QED
      BY <3>1, <3>2
  <2>3. QED
    BY <1>2, <2>1, <2>2
<1> HIDE DEF o
<1>4. l = <<l[1], l[2]>> /\ l[1] \in Block /\ l[2] \in Thread
  BY Lanes
<1>5. CellHolds(l)'
  <2>1. offset'[l] = o /\ pc'[l] = IF o > 0 THEN "barrier" ELSE "last"
    BY <1>1, <1>3, Enters
  <2>2. Span(l)' = Width
    BY <1>3, <2>1 DEF Span
  <2>3. l[2] < Width /\ ~(Width <= l[2])
    BY <1>4, WidthPositive DEF Thread
  <2>4. wg_sum'[l] = Products(Gathered(l[1], l[2], Width))
    BY <1>1, <1>4, GatheredAlone DEF TypeOK
  <2>5. (Products(Gathered(l[1], l[2], Width)))' = Products(Gathered(l[1], l[2], Width))
    BY <1>1 DEF config, Products, Gathered, Idx, Thread
  <2>6. QED
    BY <2>2, <2>3, <2>4, <2>5, WidthPositive DEF CellHolds
<1>6. \A m \in Lane : m # l => wg_sum'[m] = wg_sum[m]
  BY <1>1 DEF TypeOK
<1>7. QED
  BY <1>1, <1>3, <1>5, <1>6, CountedEnters

\* The cell a thread adds in the round with offset o is one its owner has not
\* touched since the barrier.
LEMMA PartnerHolds ==
  ASSUME InStep, Counted, NEW l \in Lane, Adds(l), offset[l] \in Nat \ {0}, Partner(l) \in Lane,
         offset[l] = 1 \/ \E h \in Nat : offset[l] = 2 * h
  PROVE  wg_sum[Partner(l)] = Products(Gathered(l[1], l[2] + offset[l], 2 * offset[l]))
<1> DEFINE m == Partner(l)
<1> DEFINE o == offset[l]
<1>1. m[1] = l[1] /\ m[2] = l[2] + o /\ l[2] \in Nat /\ l[2] < o /\ pc[l] = "add"
  BY Lanes DEF Partner, Adds, Thread
<1>2. (pc[m] = "add" /\ offset[m] = o) \/ Entered(m, NextOffset(o))
  BY <1>1 DEF InStep, Near
<1>3. CASE pc[m] = "add" /\ offset[m] = o
  BY <1>1, <1>3 DEF Counted, CellsHold, CellHolds, Span
<1>4. CASE Entered(m, NextOffset(o))
  <2>1. /\ NextOffset(o) \in Nat
        /\ IF NextOffset(o) > 0 THEN o = 2 * NextOffset(o) ELSE o = 1
    <3>1. CASE o = 1
      BY <3>1 DEF NextOffset
    <3>2. CASE \E h \in Nat : o = 2 * h
      BY <3>2 DEF NextOffset
    <3>3. QED
      BY <3>1, <3>2
  <2>2. Span(m) = o /\ pc[m] # "gather"
    BY <1>4, <2>1 DEF Entered, Span
  <2>3. QED
    BY <1>1, <2>2 DEF Counted, CellsHold, CellHolds
<1>5. QED
  BY <1>2, <1>3, <1>4

LEMMA CountedAdd ==
  ASSUME InStep, TypeOK, Counted, PowerOfTwo(Width), SharesPartition, NEW l \in Lane, Add(l)
  PROVE  Counted'
<1> DEFINE o == offset[l]
<1> DEFINE n == NextOffset(o)
<1>1. /\ pc[l] = "add" /\ EnterLoop(l, n) /\ UNCHANGED <<config, sums, host>>
      /\ wg_sum' = IF Adds(l) THEN [wg_sum EXCEPT ![l] = Plus(@, wg_sum[Partner(l)])] ELSE wg_sum
  BY DEF Add
<1>2. o \in Nat \ {0} /\ o \in 0 .. Width \div 2
  BY <1>1 DEF InStep, TypeOK
<1>3. PICK e \in Nat : Width = o * e
  BY <1>2 DEF Counted, OffsetsDivide
<1>4. o = 1 \/ \E h \in Nat : o = 2 * h
  BY <1>2, <1>3 DEF PowerOfTwo
<1>5. /\ n \in Nat /\ IF n > 0 THEN o = 2 * n ELSE o = 1
      /\ n > 0 => \E f \in Nat : Width = n * f
  <2>1. CASE o = 1
    BY <2>1 DEF NextOffset
  <2>2. CASE \E h \in Nat : o = 2 * h
    <3>1. PICK h \in Nat : o = 2 * h
      BY <2>2
    <3>2. h = n /\ h > 0
      BY <1>2, <3>1 DEF NextOffset
    <3>3. Width = h * (2 * e) /\ 2 * e \in Nat
      BY <1>3, <3>1
    <3>4. QED
      BY <3>1, <3>2, <3>3
  <2>3. QED
    BY <1>4, <2>1, <2>2
<1>6. l[1] \in Block /\ l[2] \in Nat /\ CellHolds(l) /\ Span(l) = 2 * o
  BY <1>1, <1>2, Lanes DEF Thread, Counted, CellsHold, Span
<1> HIDE DEF n
<1>7. CellHolds(l)'
  <2>1. offset'[l] = n /\ pc'[l] = IF n > 0 THEN "barrier" ELSE "last"
    BY <1>1, <1>5, Enters
  <2>2. Span(l)' = o
    BY <1>5, <2>1 DEF Span
  <2>3. \A g, t, s : (Products(Gathered(g, t, s)))' = Products(Gathered(g, t, s))
    BY <1>1 DEF config, Products, Gathered, Idx, Thread
  <2>4. ASSUME l[2] < o PROVE wg_sum'[l] = Products(Gathered(l[1], l[2], o))
    <3>1. Adds(l) /\ Partner(l) \in Lane
      BY <1>1, <1>2, <2>4, PartnerLane DEF Adds
    <3>2. wg_sum[Partner(l)] = Products(Gathered(l[1], l[2] + o, 2 * o))
      BY <1>2, <1>4, <3>1, PartnerHolds
    <3>3. wg_sum[l] = Products(Gathered(l[1], l[2], 2 * o))
      BY <1>2, <1>6, <2>4 DEF CellHolds
    <3>4. wg_sum'[l] = Plus(wg_sum[l], wg_sum[Partner(l)])
      BY <1>1, <3>1 DEF TypeOK
    <3>5. l[2] \in 0 .. o - 1
      BY <1>2, <1>6, <2>4
    <3>6. Plus(Products(Gathered(l[1], l[2], 2 * o)), Products(Gathered(l[1], l[2] + o, 2 * o)))
            = Products(Gathered(l[1], l[2], o))
      BY <1>2, <1>6, <3>5, GatheredSplit DEF TypeOK
    <3>7. QED
      BY <3>2, <3>3, <3>4, <3>6
  <2>5. ASSUME o <= l[2], l[2] < 2 * o PROVE wg_sum'[l] = Products(Gathered(l[1], l[2], 2 * o))
    BY <1>1, <1>2, <1>6, <2>5 DEF CellHolds, Adds
  <2>6. QED
    BY <2>2, <2>3, <2>4, <2>5 DEF CellHolds
<1>8. \A m \in Lane : m # l => wg_sum'[m] = wg_sum[m]
  BY <1>1 DEF TypeOK
<1>9. QED
  BY <1>1, <1>5, <1>7, <1>8, CountedEnters

LEMMA CountedLast ==
  ASSUME TypeOK, Counted, NEW l \in Lane, Last(l)
  PROVE  Counted'
<1>1. /\ pc[l] = "last" /\ pc' = [pc EXCEPT ![l] = "done"] /\ UNCHANGED <<config, offset, wg_sum, host>>
      /\ sums' = IF l[2] = 0 THEN [sums EXCEPT ![l[1]] = wg_sum[l]] ELSE sums
  BY DEF Last
<1>2. /\ pc'[l] = "done" /\ \A m \in Lane : m # l => pc'[m] = pc[m]
  BY <1>1 DEF TypeOK
<1>3. /\ \A g, t, s : Gathered(g, t, s)' = Gathered(g, t, s)
      /\ \A k : UpTo(k)' = UpTo(k)
      /\ \A S : Products(S)' = Products(S)
      /\ Lane' = Lane /\ Block' = Block
  BY <1>1, SameSets
<1>4. \A m \in Lane : Span(m)' = Span(m)
  BY <1>1, <1>2 DEF Span
<1>5. OffsetsDivide'
  BY <1>1, <1>3 DEF Counted, OffsetsDivide
<1>6. CellsHold'
  BY <1>1, <1>2, <1>3, <1>4 DEF Counted, CellsHold, CellHolds
<1>7. BlocksHold'
  <2>1. SUFFICES ASSUME NEW m \in Lane, pc'[m] = "done", m[2] = 0
                 PROVE  sums'[m[1]] = Products(Gathered(m[1], 0, 1))
    BY <1>3 DEF BlocksHold
  <2>2. CASE m = l
    <3>1. CellHolds(l) /\ Span(l) = 1
      BY <1>1 DEF Counted, CellsHold, Span
    <3>2. wg_sum[l] = Products(Gathered(l[1], 0, 1))
      BY <2>1, <2>2, <3>1 DEF CellHolds
    <3>3. l[1] \in Block
      BY Lanes
    <3>4. QED
      BY <1>1, <2>1, <2>2, <3>2, <3>3 DEF TypeOK
  <2>3. CASE m # l
    <3>1. sums[m[1]] = Products(Gathered(m[1], 0, 1))
      BY <1>2, <2>1, <2>3 DEF Counted, BlocksHold
    <3>2. l[2] = 0 => m[1] # l[1]
      BY <2>1, <2>3, Lanes
    <3>3. m[1] \in Block
      BY Lanes
    <3>4. QED
      BY <1>1, <3>1, <3>2, <3>3 DEF TypeOK
  <2>4. QED
    BY <2>2, <2>3
<1>8. HostHolds'
  BY <1>1, <1>3 DEF Counted, HostHolds, host
<1>9. QED
  BY <1>5, <1>6, <1>7, <1>8 DEF Counted

LEMMA CountedRelease ==
  ASSUME TypeOK, Counted, NEW g \in Block, Release(g)
  PROVE  Counted'
<1>1. /\ pc' = [l \in Lane |-> IF l[1] = g /\ pc[l] = "barrier" THEN "add" ELSE pc[l]]
      /\ UNCHANGED <<config, offset, wg_sum, sums, host>>
  BY DEF Release
<1>2. /\ \A h, t, s : Gathered(h, t, s)' = Gathered(h, t, s)
      /\ \A k : UpTo(k)' = UpTo(k)
      /\ \A S : Products(S)' = Products(S)
      /\ Lane' = Lane /\ Block' = Block
  BY <1>1, SameSets
<1>3. \A m \in Lane : /\ Span(m)' = Span(m)
                      /\ pc'[m] = "gather" => pc[m] = "gather"
                      /\ pc'[m] = "done" => pc[m] = "done"
                      /\ pc[m] = "gather" => pc'[m] = "gather"
  BY <1>1 DEF Span
<1>4. OffsetsDivide'
  BY <1>1, <1>2 DEF Counted, OffsetsDivide
<1>5. CellsHold'
  BY <1>1, <1>2, <1>3 DEF Counted, CellsHold, CellHolds
<1>6. BlocksHold'
  BY <1>1, <1>2, <1>3 DEF Counted, BlocksHold
<1>7. HostHolds'
  BY <1>1, <1>2 DEF Counted, HostHolds, host
<1>8. QED
  BY <1>4, <1>5, <1>6, <1>7 DEF Counted

\* The first blocks and the next one.
LEMMA NextBlock ==
  ASSUME TypeOK, SharesPartition, NEW k \in Block
  PROVE  Plus(Products(UpTo(k)), Products(Gathered(k, 0, 1))) = Products(UpTo(k + 1))
<1>1. \A l \in Lane : /\ l[1] \in Nat /\ l[2] \in Thread /\ l = <<l[1], l[2]>>
                      /\ l[1] < k + 1 <=> (l[1] < k \/ l[1] = k)
  BY Lanes DEF Block
<1>2. \A u \in Thread : u % 1 = 0 /\ <<k, u>> \in Lane /\ <<k, u>>[1] = k /\ k \in Nat
  BY DEF Thread, Lane, Block
<1>3. \A i \in Idx(size) :
        i \in Gathered(k, 0, 1) <=> \E l \in Lane : l[1] = k /\ i \in Visits(backend, size)[l]
  BY <1>1, <1>2 DEF Gathered
<1>4. ASSUME NEW i \in Idx(size), i \in UpTo(k), i \in Gathered(k, 0, 1)
      PROVE  FALSE
  <2>1. PICK l \in Lane : l[1] < k /\ i \in Visits(backend, size)[l]
    BY <1>4 DEF UpTo
  <2>2. PICK m \in Lane : m[1] = k /\ i \in Visits(backend, size)[m]
    BY <1>3, <1>4
  <2>3. l = m
    BY <2>1, <2>2, OneOwner DEF TypeOK
  <2>4. QED
    BY <2>1, <2>2, <2>3 DEF Block
<1>5. \A i \in Idx(size) : i \in UpTo(k + 1) <=> (i \in UpTo(k) \/ i \in Gathered(k, 0, 1))
  BY <1>1, <1>3 DEF UpTo
<1>6. QED
  BY <1>4, <1>5, PlusProducts

LEMMA CountedHost ==
  ASSUME TypeOK, Counted, SharesPartition, AddBlock \/ Return \/ UNCHANGED vars
  PROVE  Counted'
<1>1. UNCHANGED <<config, pc, offset, wg_sum, sums>>
  BY DEF AddBlock, Return, vars
<1>2. /\ \A h, t, s : Gathered(h, t, s)' = Gathered(h, t, s)
      /\ \A k : UpTo(k)' = UpTo(k)
      /\ \A S : Products(S)' = Products(S)
      /\ Lane' = Lane /\ Block' = Block
  BY <1>1, SameSets
<1>3. OffsetsDivide' /\ BlocksHold'
  BY <1>1, <1>2 DEF Counted, OffsetsDivide, BlocksHold
<1>4. CellsHold'
  BY <1>1, <1>2 DEF Counted, CellsHold, CellHolds, Span
<1>5. HostHolds'
  <2>1. CASE AddBlock
    <3>1. /\ added \in Block /\ added' = added + 1 /\ returned' = returned
          /\ sum' = Plus(Products(UpTo(added)), sums[added])
      BY <2>1 DEF AddBlock, Counted, HostHolds
    <3>2. <<added, 0>> \in Lane /\ <<added, 0>>[1] = added /\ <<added, 0>>[2] = 0
      BY <3>1, WidthPositive DEF Lane, Thread
    <3>3. sums[added] = Products(Gathered(added, 0, 1))
      BY <2>1, <3>2 DEF AddBlock, Counted, BlocksHold
    <3>4. sum' = Products(UpTo(added + 1))
      BY <3>1, <3>3, NextBlock
    <3>5. ~returned
      BY <3>1 DEF Counted, HostHolds
    <3>6. QED
      BY <1>2, <3>1, <3>4, <3>5 DEF HostHolds
  <2>2. CASE Return
    BY <1>2, <2>2 DEF Return, Counted, HostHolds
  <2>3. CASE UNCHANGED vars
    BY <1>2, <2>3 DEF vars, host, Counted, HostHolds
  <2>4. QED
    BY <2>1, <2>2, <2>3
<1>6. QED
  BY <1>3, <1>4, <1>5 DEF Counted

LEMMA CountedNext ==
  ASSUME InStep, TypeOK, Counted, PowerOfTwo(Width), SharesPartition, [Next]_vars
  PROVE  Counted'
BY CountedGather, CountedAdd, CountedLast, CountedRelease, CountedHost DEF Next

\* Once the host has added up all blocks, no thread is left.
LEMMA CountedReducesAll ==
  ASSUME TypeOK, Counted, SharesPartition
  PROVE  ReducesAll
<1>1. SUFFICES ASSUME returned, NEW i \in Idx(size) PROVE sum[i] = 1
  BY DEF ReducesAll
<1>2. added \notin Block /\ sum = Products(UpTo(added))
  BY <1>1 DEF Counted, HostHolds
<1>3. Blocks(backend, size) \in Nat /\ added = Blocks(backend, size)
  BY <1>2, BlocksNatural DEF TypeOK, Block
<1>4. PICK l \in Lane : i \in Visits(backend, size)[l]
  BY <1>1, OneOwner DEF TypeOK
<1>5. l[1] < added
  BY <1>3, Lanes DEF Block
<1>6. QED
  BY <1>2, <1>4, <1>5 DEF UpTo, Products
----------------------------------------------------------------------------
\* dot() counts every product once, for any number of blocks, any width that
\* is a power of two and any shares that partition the array.
THEOREM ReductionComplete ==
  ASSUME PowerOfTwo(Width), SharesPartition
  PROVE  Spec => []ReducesAll
<1>1. Init => InStep /\ TypeOK /\ Counted
  BY InStepInit, TypeInit, CountedInit
<1>2. InStep /\ TypeOK /\ Counted /\ [Next]_vars => (InStep /\ TypeOK /\ Counted)'
  BY InStepNext, TypeNext, CountedNext
<1>3. InStep /\ TypeOK /\ Counted => ReducesAll
  BY CountedReducesAll
<1>4. QED
  BY <1>1, <1>2, <1>3, PTL DEF Spec

\* The dot kernels of CUDA, HIP, OpenCL and sycl-ai, as the backends launch
\* them, count every product once; sycl-ai's if dot_unroll is at most the
\* number of additions its unrolled loop writes out.
THEOREM DotKernelsReduce ==
  ASSUME PowerOfTwo(Width), Width = TBSIZE, Backends \subseteq IndexBackends,
         "sycl-ai" \in Backends => dot_unroll <= unrolled_lines,
         \A b \in Backends, n \in Sizes : /\ Visits(b, n) = DotSpace(b, n)
                                          /\ Blocks(b, n) = DotBlocks(b, n)
  PROVE  Spec => []ReducesAll
<1>1. SharesPartition
  <2>1. SUFFICES ASSUME NEW b \in Backends, NEW n \in Sizes
                 PROVE  /\ DOMAIN Visits(b, n) = GridLanes(Blocks(b, n), Width)
                        /\ Partitions(Visits(b, n), n)
    BY DEF SharesPartition
  <2>2. b \in IndexBackends /\ n \in Nat \ {0} /\ (b = "sycl-ai" => dot_unroll <= unrolled_lines)
    BY SizesPositive
  <2>3. QED
    BY <2>2, DotPartitions
<1>2. QED
  BY <1>1, ReductionComplete
=============================================================================
