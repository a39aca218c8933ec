------------------------------ MODULE MCDevice ------------------------------
(***************************************************************************)
(* DeviceStream with the index spaces of the backends.                     *)
(***************************************************************************)
EXTENDS DeviceStream, IndexSpaces, MCAlgebra

\* What the allocation happens to hold is no start value of an array.
MCGarbage == [a |-> 1, b |-> 1, c |-> 1]

\* CUDA as it is built with STRIDE=BLOCK_STRIDE.
BlockStride(b, n) == CudaBlockStride(n)
=============================================================================
