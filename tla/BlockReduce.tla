----------------------------- MODULE BlockReduce -----------------------------
(***************************************************************************)
(* The dot kernel of the device backends.  Every thread of a block adds up *)
(* the products of its share in its own cell of the memory the block       *)
(* shares; the block then halves the number of cells in use, with a        *)
(* barrier before each round, until cell 0 holds the sum of the block; the *)
(* host adds up the blocks.  CUDA, HIP, OpenCL and the manual reduction of *)
(* sycl-ai are this kernel with different shares (Visits).                 *)
(*                                                                         *)
(* What a sum holds is how often it counts the product of each index.      *)
(***************************************************************************)
EXTENDS Integers

CONSTANTS
  Backends,     \* the backends the program may have been compiled for
  Blocks(_, _), \* dot_num_blocks, dot_num_groups: of backend b for size n
  Width,        \* TBSIZE_DOT, dot_wgsize: threads of a block
  Sizes,        \* array sizes
  Visits(_, _)  \* Visits(b, n)[lane]: the indices whose products a thread adds up

ASSUME WidthPositive == Width \in Nat \ {0}

ASSUME SizesPositive == Sizes \subseteq Nat \ {0}

ASSUME BlocksNatural == \A b \in Backends, n \in Sizes : Blocks(b, n) \in Nat

VARIABLES
  backend,   \* which one it is
  size,      \* array_size
  pc,        \* where each thread is
  offset,    \* its loop variable
  wg_sum,    \* shared memory: one cell for each thread of each block
  sums,      \* the sums of the blocks
  added,     \* the blocks the host has added up
  sum,       \* their sum
  returned   \* dot() has returned

config == <<backend, size>>
host == <<added, sum, returned>>
vars == <<config, pc, offset, wg_sum, sums, host>>

Block  == 0 .. Blocks(backend, size) - 1
Thread == 0 .. Width - 1
Lane   == Block \X Thread

Idx(n) == 0 .. n - 1
Zero   == [i \in Idx(size) |-> 0]

Products(indices) == [i \in Idx(size) |-> IF i \in indices THEN 1 ELSE 0]

Plus(x, y) == [i \in Idx(size) |-> x[i] + y[i]]

Init == /\ backend \in Backends /\ size \in Sizes
        /\ pc = [l \in Lane |-> "gather"]
        /\ offset = [l \in Lane |-> 0]
        /\ wg_sum = [l \in Lane |-> Zero]
        /\ sums = [g \in Block |-> Zero]
        /\ added = 0 /\ sum = Zero /\ returned = FALSE
----------------------------------------------------------------------------
(* A thread                                                                *)

\* Mutant of FirstOffset: the loop starts a round too early.
EarlyOffset(n) == n

FirstOffset(n) == n \div 2

\* Mutant of NextOffset: the division rounds up.
RoundedUpOffset(o) == (o + 1) \div 2

NextOffset(o) == o \div 2

\* A round begins at a barrier, and there is one while the offset is positive.
EnterLoop(l, o) ==
  /\ offset' = [offset EXCEPT ![l] = o]
  /\ pc' = [pc EXCEPT ![l] = IF o > 0 THEN "barrier" ELSE "last"]

Gather(l) ==
  /\ pc[l] = "gather"
  /\ wg_sum' = [wg_sum EXCEPT ![l] = Products(Visits(backend, size)[l])]
  /\ EnterLoop(l, FirstOffset(Width))
  /\ UNCHANGED <<config, sums, host>>

Partner(l) == <<l[1], l[2] + offset[l]>>

Adds(l) == pc[l] = "add" /\ l[2] < offset[l]

Add(l) ==
  /\ pc[l] = "add"
  /\ wg_sum' = IF Adds(l) THEN [wg_sum EXCEPT ![l] = Plus(@, wg_sum[Partner(l)])] ELSE wg_sum
  /\ EnterLoop(l, NextOffset(offset[l]))
  /\ UNCHANGED <<config, sums, host>>

\* The first thread writes the sum of the block.
Last(l) ==
  /\ pc[l] = "last"
  /\ sums' = IF l[2] = 0 THEN [sums EXCEPT ![l[1]] = wg_sum[l]] ELSE sums
  /\ pc' = [pc EXCEPT ![l] = "done"]
  /\ UNCHANGED <<config, offset, wg_sum, host>>
----------------------------------------------------------------------------
\* Mutant of Arrived: the loop has no barrier.
SomeArrived(g) == \E t \in Thread : pc[<<g, t>>] = "barrier"

Arrived(g) == \A t \in Thread : pc[<<g, t>>] = "barrier"

\* __syncthreads, barrier(CLK_LOCAL_MEM_FENCE), item.barrier
Release(g) ==
  /\ Arrived(g)
  /\ pc' = [l \in Lane |-> IF l[1] = g /\ pc[l] = "barrier" THEN "add" ELSE pc[l]]
  /\ UNCHANGED <<config, offset, wg_sum, sums, host>>

\* The host adds up the sums of the blocks once the kernel has ended.
AddBlock ==
  /\ \A l \in Lane : pc[l] = "done"
  /\ added \in Block
  /\ sum' = Plus(sum, sums[added])
  /\ added' = added + 1
  /\ UNCHANGED <<config, pc, offset, wg_sum, sums, returned>>

Return ==
  /\ \A l \in Lane : pc[l] = "done"
  /\ added \notin Block
  /\ ~returned /\ returned' = TRUE
  /\ UNCHANGED <<config, pc, offset, wg_sum, sums, added, sum>>

Next == \/ \E l \in Lane : Gather(l) \/ Add(l) \/ Last(l)
        \/ \E g \in Block : Release(g)
        \/ AddBlock \/ Return

Spec == Init /\ [][Next]_vars

\* A launched kernel keeps running and the host is woken up at its end.
FairSpec == Spec /\ WF_vars(Next)
----------------------------------------------------------------------------
(* Properties                                                              *)

\* Every variable has its type.
TypeOK ==
  /\ backend \in Backends /\ size \in Sizes
  /\ pc \in [Lane -> {"gather", "barrier", "add", "last", "done"}]
  /\ offset \in [Lane -> 0 .. Width \div 2]
  /\ wg_sum \in [Lane -> [Idx(size) -> Nat]]
  /\ sums \in [Block -> [Idx(size) -> Nat]]
  /\ added \in 0 .. Blocks(backend, size) /\ sum \in [Idx(size) -> Nat]
  /\ returned \in BOOLEAN

\* The cells of shared memory a thread reads and writes in its next step.
Reads(l) == IF Adds(l) THEN {l, Partner(l)}
            ELSE IF pc[l] = "last" /\ l[2] = 0 THEN {l} ELSE {}

Writes(l) == IF Adds(l) \/ pc[l] = "gather" THEN {l} ELSE {}

\* The barriers keep a thread from writing a cell of shared memory that
\* another one is about to use (tree loop of the dot kernels).
RaceFree ==
  \A l, m \in Lane : l # m => Writes(l) \cap (Reads(m) \cup Writes(m)) = {}

\* dot() returns the sum of all products, each counted once.
ReducesAll == returned => \A i \in Idx(size) : sum[i] = 1

\* No thread waits at a barrier for ever, and dot() returns.
Returns == <>returned
=============================================================================
