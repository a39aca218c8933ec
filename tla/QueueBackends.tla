--------------------------- MODULE QueueBackends ----------------------------
(***************************************************************************)
(* The backends that submit work to a queue of the device and wait for it: *)
(* CUDA, HIP, Thrust, SYCL 1.2.1, SYCL 2020 (USM), sycl-ai and the legacy   *)
(* HC.  CUDA and HIP come with device memory, managed memory, or memory of *)
(* the host the device faults in.                                          *)
(***************************************************************************)
EXTENDS SessionSteps

CudaBuilds == {"CUDA", "CUDA-managed", "CUDA-pagefault"}
HipBuilds  == {"HIP", "HIP-managed", "HIP-pagefault"}

Unified(b) == b \in (CudaBuilds \cup HipBuilds \cup {"Thrust-managed"}) \ {"CUDA", "HIP"}

OwnVectors(b) == IF Unified(b) THEN <<>> ELSE <<Release(Objects(Host), "vector")>>
----------------------------------------------------------------------------
(* CUDA: one non-blocking stream for all kernels, which the copies of      *)
(* cudaMemcpy do not wait for                                              *)

alloc_device(b, xs) == IF b = "CUDA-pagefault" THEN <<Acquire(xs, "malloc")>>
                                               ELSE <<AcquireOn(xs, "cuda")>>

alloc_host(b, xs) == <<Acquire(xs, IF b = "CUDA-pagefault" THEN "malloc" ELSE "cudaHost")>>

free_device(b, xs) == <<Release(xs, IF b = "CUDA-pagefault" THEN "malloc" ELSE "cuda")>>

\* Mutant of free_host: pageable memory is given to cudaFreeHost.
free_host_always_pinned(b, xs) == <<Release(xs, "cudaHost")>>

free_host(b, xs) == <<Release(xs, IF b = "CUDA-pagefault" THEN "malloc" ELSE "cudaHost")>>

\* A launch on the stream, and cudaStreamSynchronize.
for_each(op) == <<Submit(op), Wait>>

CudaInit == for_each(StartLoop(Device))

\* getDeviceDriver sets the device it is asked about; listDevices only prints.
CudaDeviceDriver == <<Select>>

CudaListDevices == <<>>

\* Mutant of CudaConstruct: the stream and the arrays before cudaSetDevice.
CudaConstructEarly(b) ==
  <<Check("count"), AcquireOn({"stream"}, "stream"), Check("memory")>>
  \o alloc_device(b, Objects(Device)) \o <<Select>> \o alloc_host(b, {"sums"}) \o CudaInit

CudaConstruct(b) ==
  <<Check("count"), Select, AcquireOn({"stream"}, "stream")>> \o CudaDeviceDriver
  \o <<Check("memory")>> \o alloc_device(b, Objects(Device)) \o alloc_host(b, {"sums"}) \o CudaInit

CudaKernel(k) == for_each(Loop(k, Device))

CudaDot == <<Submit(Products(Device, "sums")), Wait, ReturnSum("sums")>>

CudaGetArrays(b) ==
  <<Wait>> \o (IF Unified(b) THEN <<HandOut(Device)>>
               ELSE <<Acquire(Objects(Host), "vector"), HandOut(Host), Run(Move("d_a", "h_a")),
                      Run(Move("d_b", "h_b")), Run(Move("d_c", "h_c"))>>)

CudaDestroy(b) == <<Release({"stream"}, "stream")>> \o free_device(b, Objects(Device))
                  \o free_host(b, {"sums"}) \o OwnVectors(b)

CudaStream(b) ==
  [construct |-> CudaConstruct(b), destroy |-> CudaDestroy(b), list |-> CudaListDevices,
   kernel |-> [k \in ArrayKernels |-> CudaKernel(k)], Dot |-> CudaDot,
   get_arrays |-> CudaGetArrays(b)]
----------------------------------------------------------------------------
(* HIP: the default stream, in whose order hipMemcpy copies too; the       *)
(* partial sums of dot are host memory the device sees                     *)

HipLaunch(op) == <<Submit(op), Wait>>

HipInit == HipLaunch(StartLoop(Device))

HipDeviceDriver == <<Select>>

HipListDevices == <<>>

\* The memory check asks for the properties of device 0.
HipConstruct(b) ==
  <<Check("count"), Select>> \o HipDeviceDriver
  \o <<Acquire({"sums"}, "hipHost"), Check("memory0"),
    IF b = "HIP-pagefault" THEN Acquire(Objects(Device), "malloc")
                           ELSE AcquireOn(Objects(Device), "hip")>> \o HipInit

HipKernel(k) == HipLaunch(Loop(k, Device))

HipDot == <<Submit(Products(Device, "sums")), Wait, ReturnSum("sums")>>

HipGetArrays(b) ==
  <<Wait>> \o (IF Unified(b) THEN <<HandOut(Device)>>
               ELSE <<Acquire(Objects(Host), "vector"), HandOut(Host)>>
                    \o Blockingly(Move("d_a", "h_a")) \o Blockingly(Move("d_b", "h_b"))
                    \o Blockingly(Move("d_c", "h_c")))

\* hipFree, whatever the arrays were allocated with
HipDestroy(b) == <<Release({"sums"}, "hipHost"), Release(Objects(Device), "hip")>> \o OwnVectors(b)

HipStream(b) ==
  [construct |-> HipConstruct(b), destroy |-> HipDestroy(b), list |-> HipListDevices,
   kernel |-> [k \in ArrayKernels |-> HipKernel(k)], Dot |-> HipDot,
   get_arrays |-> HipGetArrays(b)]
----------------------------------------------------------------------------
(* Thrust: algorithms return when they are done, except rocThrust's; the   *)
(* vectors are members, constructed before the device is set               *)

ThrustBuilds == {"Thrust", "Thrust-managed", "Thrust-HIP"}

synchronise(b) == IF b = "Thrust-HIP" THEN <<Wait>> ELSE <<>>

Algorithm(b, op) == IF b = "Thrust-HIP" THEN <<Submit(op)>> ELSE Blockingly(op)

ThrustInit(b) == Algorithm(b, StartArray("a", Device)) \o Algorithm(b, StartArray("b", Device))
                 \o Algorithm(b, StartArray("c", Device)) \o synchronise(b)

\* getDeviceDriver is what calls SetDevice.
ThrustDeviceDriver == <<Select>>

ThrustListDevices == <<>>

ThrustConstruct(b) ==
  <<AcquireOn(Objects(Device), "vector")>> \o ThrustDeviceDriver \o ThrustInit(b)

ThrustKernel(b, k) == Algorithm(b, Loop(k, Device)) \o synchronise(b)

\* inner_product returns a value, so it has waited for it.
ThrustDot == WithLocal("sum", Blockingly(Products(Device, "sum")) \o <<ReturnSum("sum")>>)

ThrustGetArrays(b) ==
  IF Unified(b) THEN <<HandOut(Device)>>
  ELSE <<Acquire(Objects(Host), "vector")>>
       \o Blockingly(MoveArrays(Device, Host)) \o <<HandOut(Host)>>

ThrustDestroy(b) == OwnVectors(b) \o <<Release(Objects(Device), "vector")>>

ThrustStream(b) ==
  [construct |-> ThrustConstruct(b), destroy |-> ThrustDestroy(b), list |-> ThrustListDevices,
   kernel |-> [k \in ArrayKernels |-> ThrustKernel(b, k)], Dot |-> ThrustDot,
   get_arrays |-> ThrustGetArrays(b)]
----------------------------------------------------------------------------
(* SYCL 1.2.1: buffers, whose accessors order the work and make the host    *)
(* wait for what it reads                                                  *)

SyclBuffers == Objects(Device) \cup {"d_sum"}

\* Mutant of getDeviceList: it marks the list as cached and leaves it empty.
ForgottenDeviceList(how) == <<List("clear")>>

\* getDeviceList, when nothing is cached or from listDevices
getDeviceList(how) == <<List(how)>>

getDeviceName == getDeviceList("once") \o <<Check("listed")>>

getDeviceDriver == getDeviceList("once") \o <<Check("listed")>>

SyclInit == <<Submit(StartLoop(Device)), Wait>>

SyclConstruct ==
  getDeviceList("once") \o <<Check("listed"), Check("fp64"), Select>>
  \o getDeviceName \o getDeviceDriver
  \o <<Acquire({"queue"}, "new"), Acquire(SyclBuffers, "new")>> \o SyclInit

SyclKernel(k) == <<Submit(Loop(k, Device)), Wait>>

SyclReduce == Submit(Products(Device, "d_sum"))

\* Mutant of SyclDot: the accessor lives as long as the stream.
SyclDotHoldingOn == <<SyclReduce, Access({"d_sum"}), ReturnSum("d_sum")>>

\* No wait here: the host accessor waits for the work that writes d_sum.
SyclDot == <<SyclReduce, Access({"d_sum"}), ReturnSum("d_sum"), Leave({"d_sum"})>>

\* The pointers outlive the accessors they come from.
SyclGetArrays == <<Access(Objects(Device)), HandOut(Device), Leave(Objects(Device))>>

SyclDestroy == <<Release(SyclBuffers, "new"), Release({"queue"}, "new"), List("clear")>>

SyclListDevices == getDeviceList("always") \o getDeviceList("once")

SyclStream ==
  [construct |-> SyclConstruct, destroy |-> SyclDestroy, list |-> SyclListDevices,
   kernel |-> [k \in ArrayKernels |-> SyclKernel(k)], Dot |-> SyclDot,
   get_arrays |-> SyclGetArrays]
----------------------------------------------------------------------------
(* SYCL 2020 with unified shared memory, or with memory of the host the     *)
(* device faults in: an out-of-order queue, and the host reads the memory  *)
(* of the kernels                                                          *)

UsmBuilds == {"SYCL2020-USM", "SYCL2020-AdaptiveCpp", "SYCL2020-pagefault"}

Usm == Objects(Device) \cup {"sum"}

UsmAllocate(b) == IF b = "SYCL2020-pagefault" THEN <<Acquire(Usm, "malloc")>>
                                              ELSE <<AcquireOn(Usm, "usm")>>

UsmInit(b) == IF b = "SYCL2020-pagefault" THEN <<Run(StartLoop(Device))>>
                                          ELSE <<Submit(StartLoop(Device)), Wait>>

\* The list is emptied, and stays marked as cached.
UsmConstruct(b) ==
  getDeviceList("once") \o <<Check("listed")>> \o getDeviceName \o getDeviceDriver
  \o <<Check("fp64"), Select, Acquire({"queue"}, "new")>> \o UsmAllocate(b)
  \o <<List("clear")>> \o UsmInit(b)

UsmKernel(k) == <<Submit(Loop(k, Device)), Wait>>

\* initialize_to_identity, which AdaptiveCpp does not have: the reduction
\* then adds to what the result holds.
UsmReduction(b) == IF b = "SYCL2020-AdaptiveCpp" THEN ProductsOnto(Device, "sum")
                                                 ELSE Products(Device, "sum")

UsmDot(b) == <<Submit(UsmReduction(b)), Wait, ReturnSum("sum")>>

UsmGetArrays == <<HandOut(Device)>>

\* The arrays of the host are freed, and then those of the queue, which have
\* the same names: nothing separates the two but the end of a condition.
UsmDestroy(b) ==
  (IF b = "SYCL2020-pagefault" THEN <<Release(Usm, "malloc")>> ELSE <<>>)
  \o <<Release(Usm, "usm"), Release({"queue"}, "new")>>

UsmListDevices == getDeviceList("always") \o getDeviceList("once")

UsmStream(b) ==
  [construct |-> UsmConstruct(b), destroy |-> UsmDestroy(b), list |-> UsmListDevices,
   kernel |-> [k \in ArrayKernels |-> UsmKernel(k)], Dot |-> UsmDot(b),
   get_arrays |-> UsmGetArrays]
----------------------------------------------------------------------------
(* sycl-ai: device memory and an out-of-order queue.  The tuning between   *)
(* the two calls of init_arrays is the subject of SyclTuning.              *)

AiBuilds == {"sycl-ai", "sycl-ai-manual"}

AiMemory == Objects(Device) \cup {"d_sum", "d_dot"}

AiInit == <<Submit(StartLoop(Device)), Wait>>

AiConstruct ==
  getDeviceList("once")
  \o <<Check("listed"), Check("fp64"), Select, Acquire({"queue"}, "new"),
       AcquireOn(AiMemory, "usm"), Acquire({"h_sum"}, "new")>>
  \o AiInit \o AiInit \o getDeviceName \o getDeviceDriver

AiKernel(k) == <<Submit(Loop(k, Device)), Wait>>

\* Mutant of AiDot: the copy of the result does not wait for the reduction.
AiDotUnordered(b) ==
  IF b = "sycl-ai-manual"
  THEN <<Submit(Products(Device, "d_sum")), Submit(Move("d_sum", "h_sum")), Wait, ReturnSum("h_sum")>>
  ELSE WithLocal("sum", <<Submit(Products(Device, "d_dot")), Wait, Submit(Move("d_dot", "sum")),
                          Wait, ReturnSum("sum")>>)

\* The manual reduction through d_sum and h_sum, or the native one through
\* d_dot, which is set to zero first.
AiDot(b) ==
  IF b = "sycl-ai-manual"
  THEN <<Submit(Products(Device, "d_sum")), Wait, Submit(Move("d_sum", "h_sum")), Wait,
         ReturnSum("h_sum")>>
  ELSE <<Submit(Zero("d_dot")), Wait, Submit(Products(Device, "d_dot")), Wait>>
       \o WithLocal("sum", <<Submit(Move("d_dot", "sum")), Wait, ReturnSum("sum")>>)

AiGetArrays ==
  <<Acquire(Objects(Host), "vector"), Submit(Move("d_a", "h_a")), Submit(Move("d_b", "h_b")),
    Submit(Move("d_c", "h_c")), Wait, HandOut(Host)>>

AiDestroy ==
  <<Release(AiMemory, "usm"), Release({"h_sum"}, "new"), List("clear"),
    Release(Objects(Host), "vector"), Release({"queue"}, "new")>>

AiListDevices == getDeviceList("always") \o getDeviceList("once")

AiStream(b) ==
  [construct |-> AiConstruct, destroy |-> AiDestroy, list |-> AiListDevices,
   kernel |-> [k \in ArrayKernels |-> AiKernel(k)], Dot |-> AiDot(b),
   get_arrays |-> AiGetArrays]
----------------------------------------------------------------------------
(* HC, of the legacy directory: its driver called init_arrays itself and   *)
(* gave read_arrays the vectors to fill; there is no nstream               *)

HcInit == <<Submit(StartArray("a", Device)), Submit(StartArray("b", Device)),
            Submit(StartArray("c", Device)), Wait>>

HcConstruct ==
  <<AcquireOn(Objects(Device), "array"), Check("size"), Check("count"), Select>> \o HcInit

HcKernel(k) == <<Submit(Loop(k, Device)), Wait>>

HcDot ==
  <<AcquireOn({"partial"}, "array"), Submit(Products(Device, "partial")), Wait>>
  \o WithLocal("h_partial", Blockingly(Move("partial", "h_partial")) \o <<ReturnSum("h_partial")>>)
  \o <<Release({"partial"}, "array")>>

HcReadArrays == <<Acquire(Objects(Host), "vector")>> \o Blockingly(Move("d_a", "h_a"))
                \o Blockingly(Move("d_b", "h_b")) \o Blockingly(Move("d_c", "h_c"))
                \o <<HandOut(Host)>>

HcDestroy == <<Release(Objects(Device), "array"), Release(Objects(Host), "vector")>>

HcListDevices == <<>>

HcStream ==
  [construct |-> HcConstruct, destroy |-> HcDestroy, list |-> HcListDevices,
   kernel |-> [k \in ArrayKernels |-> HcKernel(k)], Dot |-> HcDot,
   get_arrays |-> HcReadArrays]
=============================================================================
