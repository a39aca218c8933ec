----------------------------- MODULE CppBackends -----------------------------
(***************************************************************************)
(* The C++ backends: make_stream of StreamModels.h, where the build says   *)
(* which one the program has, each with its methods.                       *)
(***************************************************************************)
EXTENDS LoopBackends, QueueBackends, ClObjects

SyclBuilds == {"SYCL"} \cup UsmBuilds \cup AiBuilds

LoopBuilds  == OmpBuilds \cup RajaBuilds \cup TbbBuilds \cup StdBuilds \cup FutharkBuilds
               \cup {"ACC", "Kokkos"}
QueueBuilds == CudaBuilds \cup HipBuilds \cup ThrustBuilds \cup SyclBuilds \cup {"HC"}

AllBuilds == LoopBuilds \cup QueueBuilds \cup ClBuilds

StreamOf(b) ==
  CASE b \in OmpBuilds     -> OmpStream(b)
    [] b \in RajaBuilds    -> RajaStream(b)
    [] b \in TbbBuilds     -> TbbStream(b)
    [] b \in StdBuilds     -> StdStream(b)
    [] b \in FutharkBuilds -> FutharkStream(b)
    [] b = "ACC"           -> AccStream
    [] b = "Kokkos"        -> KokkosStream
    [] b \in CudaBuilds    -> CudaStream(b)
    [] b \in HipBuilds     -> HipStream(b)
    [] b \in ThrustBuilds  -> ThrustStream(b)
    [] b = "SYCL"          -> SyclStream
    [] b \in UsmBuilds     -> UsmStream(b)
    [] b \in AiBuilds      -> AiStream(b)
    [] b = "HC"            -> HcStream
    [] b \in ClBuilds      -> ClStream(b)

ProgramOf(b, c) == Method(StreamOf(b), c)

\* Their constructors select the device they are given; the others ignore it.
HonoursDevice(b) == b \notin {"OMP"} \cup TbbBuilds \cup RajaBuilds \cup StdBuilds

\* What they ask of the system before they go on.  HIP asks for the memory of
\* the first device, whichever it uses, and TBB to be given the number 0.
Demands(b) ==
  CASE b \in CudaBuilds   -> {"device", "memory"}
    [] b \in HipBuilds    -> {"device", "memory0"}
    [] b \in TbbBuilds    -> {"first"}
    [] b \in SyclBuilds   -> {"device", "fp64"}
    [] b = "OpenCL"       -> {"device", "fp64", "memory", "program"}
    [] b = "OpenCL-float" -> {"device", "memory", "program"}
    [] b = "HC"           -> {"device", "tiles"}
    [] OTHER              -> {}
==============================================================================
