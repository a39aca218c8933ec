--------------------------- MODULE BlockingStream ---------------------------
(***************************************************************************)
(* The contract of src/Stream.h that every backend must implement: a       *)
(* Stream owns three arrays and offers six kernels that "must be blocking  *)
(* calls", so to the caller a kernel is one atomic step on all elements,   *)
(* and get_arrays hands out what the kernels called before have written.   *)
(***************************************************************************)
EXTENDS Kernels

VARIABLES
  mem,    \* the arrays a, b, c: a function from indices to cells
  sum,    \* what the last call of dot() returned
  host    \* the arrays the last call of get_arrays returned

streamVars == <<mem, sum, host>>

NoArrays == [i \in {} |-> StartCell]

StartArrays(n) == [i \in Idx(n) |-> StartCell]

Process(k) == [i \in DOMAIN mem |-> Apply(k, mem[i])]

\* copy, mul, add, triad, nstream
ArrayCall(k) == /\ k \in ArrayKernels
                /\ mem' = Process(k)
                /\ UNCHANGED <<sum, host>>

dot == /\ sum' = DotOf(mem)
       /\ UNCHANGED <<mem, host>>

get_arrays == /\ host' = mem
              /\ UNCHANGED <<mem, sum>>

StreamInit == /\ \E n \in Sizes : mem = StartArrays(n)
              /\ host = NoArrays
              /\ sum = OfInt(0)

StreamNext == (\E k \in ArrayKernels : ArrayCall(k)) \/ dot \/ get_arrays

StreamSpec == StreamInit /\ [][StreamNext]_streamVars
=============================================================================
