---------------------------- MODULE LoopBackends ----------------------------
(***************************************************************************)
(* The backends whose kernels are parallel loops of a language or library: *)
(* OpenMP, OpenACC, Kokkos, RAJA, TBB, the C++ parallel algorithms, and    *)
(* Futhark.  Most libraries return when a loop is done (Blockingly).       *)
(***************************************************************************)
EXTENDS SessionSteps

\* The methods of a backend by name; the five array kernels are one function.
Method(stream, c) == IF c \in ArrayKernels THEN stream.kernel[c] ELSE stream[c]
----------------------------------------------------------------------------
(* OpenMP, on the host or offloading to a device; built for the device with *)
(* PAGEFAULT it maps nothing, and with Cray's compiler kernels return early *)

OmpBuilds == {"OMP", "OMP-target", "OMP-Cray", "OMP-pagefault"}

OmpMaps(b) == b \in {"OMP-target", "OMP-Cray"}

OmpArrays(b) == IF OmpMaps(b) THEN Device ELSE Here

\* #pragma omp target update from
OmpUpdate(op) == Blockingly(op)

\* Mutant of OmpLoop: no copy that would make the compiler wait.
OmpLoopNoUpdate(b, op) == IF b = "OMP-Cray" THEN <<Submit(op)>> ELSE Blockingly(op)

\* The update of no elements "forces a small copy to ensure blocking".
OmpLoop(b, op) == IF b = "OMP-Cray" THEN <<Submit(op)>> \o OmpUpdate([x \in {} |-> op])
                                    ELSE Blockingly(op)

OmpInit(b) == OmpLoop(b, StartLoop(OmpArrays(b)))

OmpConstruct(b) ==
  <<Acquire(Objects(Here), "malloc")>>
  \o (IF b # "OMP" THEN <<Select>> ELSE <<>>)
  \o (IF OmpMaps(b) THEN <<AcquireOn(Objects(Device), "map")>> ELSE <<>>)
  \o OmpInit(b)

OmpKernel(b, k) == OmpLoop(b, Loop(k, OmpArrays(b)))

\* The reduction variable is copied back, so the region has ended.
OmpDot(b) == WithLocal("sum", Blockingly(Products(OmpArrays(b), "sum")) \o <<ReturnSum("sum")>>)

OmpGetArrays(b) == (IF OmpMaps(b) THEN OmpUpdate(MoveArrays(Device, Here)) ELSE <<>>)
                   \o <<HandOut(Here)>>

OmpDestroy(b) == (IF OmpMaps(b) THEN <<Release(Objects(Device), "map")>> ELSE <<>>)
                 \o <<Release(Objects(Here), "malloc")>>

OmpListDevices == <<>>    \* it only prints, like the others of this module

OmpStream(b) ==
  [construct |-> OmpConstruct(b), destroy |-> OmpDestroy(b), list |-> OmpListDevices,
   kernel |-> [k \in ArrayKernels |-> OmpKernel(b, k)], Dot |-> OmpDot(b),
   get_arrays |-> OmpGetArrays(b)]
----------------------------------------------------------------------------
(* OpenACC: loops without async, on arrays that are present on the device  *)

AccInit == Blockingly(StartLoop(Device))

AccConstruct == <<Select, Acquire(Objects(Here), "new"), AcquireOn(Objects(Device), "data")>>
                \o AccInit

AccKernel(k) == Blockingly(Loop(k, Device))

AccDot == WithLocal("sum", Blockingly(Products(Device, "sum")) \o <<ReturnSum("sum")>>)

AccGetArrays == Blockingly(MoveArrays(Device, Here)) \o <<HandOut(Here)>>

AccDestroy == <<Release(Objects(Device), "data"), Release(Objects(Here), "new")>>

AccListDevices == <<>>

AccStream ==
  [construct |-> AccConstruct, destroy |-> AccDestroy, list |-> AccListDevices,
   kernel |-> [k \in ArrayKernels |-> AccKernel(k)], Dot |-> AccDot,
   get_arrays |-> AccGetArrays]
----------------------------------------------------------------------------
(* Kokkos: views and their mirrors are allocated and never deleted         *)

\* parallel_for, fence
KokkosFenced(op) == <<Submit(op), Wait>>

KokkosInit == KokkosFenced(StartLoop(Device))

KokkosConstruct ==
  <<Select, AcquireOn(Objects(Device), "new"), Acquire(Objects(Host), "new")>> \o KokkosInit

KokkosKernel(k) == KokkosFenced(Loop(k, Device))

KokkosDot == WithLocal("sum", Blockingly(Products(Device, "sum")) \o <<ReturnSum("sum")>>)

\* deep_copy fences before and after.
KokkosGetArrays == Blockingly(MoveArrays(Device, Host)) \o <<HandOut(Host)>>

KokkosDestroy == <<Wait>>    \* finalize

KokkosStream ==
  [construct |-> KokkosConstruct, destroy |-> KokkosDestroy, list |-> <<>>,
   kernel |-> [k \in ArrayKernels |-> KokkosKernel(k)], Dot |-> KokkosDot,
   get_arrays |-> KokkosGetArrays]
----------------------------------------------------------------------------
(* RAJA, for the host or for CUDA with managed memory                      *)

RajaBuilds == {"RAJA", "RAJA-CUDA"}

RajaAllocator(b) == IF b = "RAJA" THEN "malloc" ELSE "cuda"

RajaInit == Blockingly(StartLoop(Device))

RajaConstruct(b) ==
  (IF b = "RAJA" THEN <<Acquire(Objects(Device), "malloc")>>
                 ELSE <<AcquireOn(Objects(Device), "cuda"), Wait>>) \o RajaInit

RajaKernel(k) == Blockingly(Loop(k, Device))

RajaDot == WithLocal("sum", Blockingly(Products(Device, "sum")) \o <<ReturnSum("sum")>>)

RajaGetArrays == <<HandOut(Device)>>

RajaDestroy(b) == <<Release(Objects(Device), RajaAllocator(b))>>

RajaStream(b) ==
  [construct |-> RajaConstruct(b), destroy |-> RajaDestroy(b), list |-> <<>>,
   kernel |-> [k \in ArrayKernels |-> RajaKernel(k)], Dot |-> RajaDot,
   get_arrays |-> RajaGetArrays]
----------------------------------------------------------------------------
(* TBB, on plain memory or, with USE_VECTOR, on vectors; the destructor is *)
(* the default one                                                         *)

TbbBuilds == {"TBB", "TBB-vector"}

TbbInit == Blockingly(StartLoop(Here))

TbbConstruct(b) ==
  <<Acquire(Objects(Here), IF b = "TBB" THEN "malloc" ELSE "vector"), Check("first")>> \o TbbInit

TbbKernel(k) == Blockingly(Loop(k, Here))

TbbDot == WithLocal("sum", Blockingly(Products(Here, "sum")) \o <<ReturnSum("sum")>>)

TbbGetArrays == <<HandOut(Here)>>

TbbDestroy(b) == IF b = "TBB" THEN <<>> ELSE <<Release(Objects(Here), "vector")>>

TbbStream(b) ==
  [construct |-> TbbConstruct(b), destroy |-> TbbDestroy(b), list |-> <<>>,
   kernel |-> [k \in ArrayKernels |-> TbbKernel(k)], Dot |-> TbbDot,
   get_arrays |-> TbbGetArrays]
----------------------------------------------------------------------------
(* The C++ parallel algorithms: with DATA17 an algorithm has at most two    *)
(* input ranges, so nstream takes two of them; with oneDPL for DPC++ the    *)
(* arrays are shared memory of the queue of the execution policy, which is  *)
(* one for the default device                                              *)

StdBuilds == {"STD", "STD-DATA17", "STD-DPCPP"}

alloc_raw(b) == IF b = "STD-DPCPP" THEN <<AcquireOn(Objects(Here), "usm")>>
                                   ELSE <<Acquire(Objects(Here), "malloc")>>

dealloc_raw(b) == <<Release(Objects(Here), IF b = "STD-DPCPP" THEN "usm" ELSE "malloc")>>

StdInit == Blockingly(StartArray("a", Here)) \o Blockingly(StartArray("b", Here))
           \o Blockingly(StartArray("c", Here))

StdConstruct(b) == alloc_raw(b) \o StdInit

StdKernel(k) == Blockingly(Loop(k, Here))

\* a[i] += b[i], then a[i] += scalar * c[i]
StdNstream(b) ==
  IF b # "STD-DATA17" THEN StdKernel("Nstream")
  ELSE Blockingly([x \in {"a"} |-> Value("Add", Here)])
       \o Blockingly([x \in {"a"} |-> Value("Triad", Arrays("a", "a", "c"))])

StdDot == WithLocal("sum", Blockingly(Products(Here, "sum")) \o <<ReturnSum("sum")>>)

StdGetArrays == <<HandOut(Here)>>

StdDestroy(b) == dealloc_raw(b)

StdStream(b) ==
  [construct |-> StdConstruct(b), destroy |-> StdDestroy(b), list |-> <<>>,
   kernel |-> [k \in ArrayKernels |-> IF k = "Nstream" THEN StdNstream(b) ELSE StdKernel(k)],
   Dot |-> StdDot, get_arrays |-> StdGetArrays]
----------------------------------------------------------------------------
(* Futhark: an entry point allocates its result, so the array it replaces  *)
(* is freed first                                                          *)

FutharkBuilds == {"Futhark-float", "Futhark-double"}

FutharkInit ==
  <<Acquire(Objects(Here), "new"), Run(StartLoop(Here)),
    AcquireOn(Objects(Device), "futhark"), Submit(MoveArrays(Here, Device)), Wait,
    Release(Objects(Here), "new")>>

FutharkConstruct == <<Acquire({"cfg"}, "config"), Select, Acquire({"ctx"}, "context")>>
                    \o FutharkInit

\* copy, mul and add free the array they are about to write.
FutharkEntry(x, value) ==
  <<Release({x}, "futhark"), AcquireOn({x}, "futhark"), Submit([y \in {x} |-> value]), Wait>>

FutharkKernel(k) == FutharkEntry(Device[Target(k)], Value(k, Device))

\* For float, triad writes c, and from a and b.
FutharkTriad(b) ==
  IF b = "Futhark-double" THEN FutharkKernel("Triad")
  ELSE FutharkEntry("d_c", Value("Triad", Arrays("d_c", "d_a", "d_b")))

\* nstream calls the entry point of triad, and its result replaces c.
FutharkNstream ==
  <<AcquireOn({"d"}, "futhark"),
    Submit([x \in {"d"} |-> Value("Triad", Arrays("d", "d_a", "d_b"))]),
    Release({"d_c"}, "futhark"), Rename("d", "d_c"), Wait>>

FutharkDot == WithLocal("sum", Blockingly(Products(Device, "sum")) \o <<ReturnSum("sum")>>)

FutharkGetArrays ==
  <<Acquire(Objects(Host), "vector"), Submit(MoveArrays(Device, Host)), Wait, HandOut(Host)>>

FutharkDestroy ==
  <<Release(Objects(Device), "futhark"), Release({"ctx"}, "context"), Release({"cfg"}, "config"),
    Release(Objects(Host), "vector")>>

FutharkStream(b) ==
  [construct |-> FutharkConstruct, destroy |-> FutharkDestroy, list |-> <<>>,
   kernel |-> [k \in ArrayKernels |-> CASE k = "Triad"   -> FutharkTriad(b)
                                        [] k = "Nstream" -> FutharkNstream
                                        [] OTHER         -> FutharkKernel(k)],
   Dot |-> FutharkDot, get_arrays |-> FutharkGetArrays]
=============================================================================
