----------------------------- MODULE MCSession -----------------------------
(***************************************************************************)
(* StreamSession with the C++ backends of the repository, each in the      *)
(* configurations its build offers.                                        *)
(***************************************************************************)
EXTENDS StreamSession, CppBackends, MCAlgebra

\* HIP's memory of the host is freed by hipFree, SYCL 2020's twice, Futhark's
\* triad for float is another kernel, and with AdaptiveCpp dot adds to the last
\* result.
SoundBuilds == AllBuilds \ {"HIP-pagefault", "SYCL2020-pagefault", "Futhark-float",
                            "SYCL2020-AdaptiveCpp"}

InHostArrays(b) == b \in {"OMP", "OMP-pagefault"} \cup TbbBuilds \cup StdBuilds

HomeOf(b) == IF InHostArrays(b) THEN Here ELSE Device

ThingOf(b) ==
  IF b \in ClBuilds THEN ClThing
  ELSE Objects(Here) \cup Objects(Device) \cup Objects(Host)
       \cup {"sum", "sums", "d_sum", "d_dot", "h_sum", "partial", "h_partial",
             "stream", "queue", "cfg", "ctx", "d"}

InOrderQueue(b) == b \notin SyclBuilds

OrderedByBuffers(b) == b = "SYCL"

LeftToProcess(b) == CASE b = "TBB"    -> Objects(Here)
                      [] b = "Kokkos" -> Objects(Device) \cup Objects(Host)
                      [] OTHER        -> {}

\* Futhark's nstream replaces c, and HC has none: their benchmarks are Classic.
CallableKernels(b) == IF b \in FutharkBuilds \cup {"HC"} THEN Kernel \ {"Nstream"} ELSE Kernel
----------------------------------------------------------------------------
(* Systems: n devices, and --device i.  A build finds itself on systems     *)
(* with and without what it asks for; what a runtime does with a device it *)
(* has not, or memory that is too small, when nobody asks, is not in the   *)
(* code, and the build is not put on such a system.                        *)

System(n, i) == [devices |-> n, index |-> i, fits |-> [d \in 0 .. 2 |-> TRUE],
                 fp64 |-> TRUE, build |-> "built", tiled |-> TRUE]

\* Thrust and HC allocate before they set the device.
FirstOnly(b) == b \in ThrustBuilds \cup {"HC"}

WithoutFp64 == [System(1, 0) EXCEPT !.fp64 = FALSE]
TooSmall(m) == [System(2, 1) EXCEPT !.fits = m @@ @]
Untiled     == [System(1, 0) EXCEPT !.tiled = FALSE]
Unbuilt(e)  == [System(1, 0) EXCEPT !.build = e]

\* Systems that lack something, for builds that ask.
Lacking(what) ==
  CASE what \in {"device", "first"} -> {System(1, 1), System(0, 0)}
    [] what = "fp64"               -> {WithoutFp64}
    [] what = "memory"             -> {TooSmall(0 :> FALSE), TooSmall(1 :> FALSE)}
    [] what = "memory0"            -> {TooSmall(0 :> FALSE), TooSmall(0 :> FALSE @@ 1 :> FALSE)}
    [] what = "program"            -> {Unbuilt("failure"), Unbuilt("other")}
    [] what = "tiles"              -> {Untiled}

Systems(b) == {System(1, 0)} \cup (IF FirstOnly(b) THEN {} ELSE {System(2, 1)})
              \cup UNION {Lacking(what) : what \in Demands(b)}
=============================================================================
