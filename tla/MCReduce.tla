------------------------------ MODULE MCReduce ------------------------------
(***************************************************************************)
(* BlockReduce with the shares of the backends' dot kernels.               *)
(***************************************************************************)
EXTENDS BlockReduce, IndexSpaces
=============================================================================
