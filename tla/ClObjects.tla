------------------------------ MODULE ClObjects ------------------------------
(***************************************************************************)
(* OpenCL: the stream of OCLStream.cpp and the part of the C++ bindings it *)
(* uses (CL/cl2.hpp).  Every object of the API is counted; a wrapper owns  *)
(* one reference, which it retains when it is copied, gives away when it   *)
(* is moved from, and releases when it dies.  An object is named after the *)
(* wrapper that got it first.                                              *)
(***************************************************************************)
EXTENDS SessionSteps

ClBuilds == {"OpenCL", "OpenCL-float"}

\* The seven functors, and the four buffers.
Functors  == {"init_kernel", "copy_kernel", "mul_kernel", "add_kernel", "triad_kernel",
              "nstream_kernel", "dot_kernel"}
ClBuffers == Objects(Device) \cup {"d_sum"}
----------------------------------------------------------------------------
(* cl2.hpp: the wrappers                                                   *)

\* Mutant of Copied: a copy that does not retain.
CopiedShallow(xs) == <<>>

\* Wrapper(const Wrapper&)
Copied(xs) == <<Retain(xs)>>

\* ~Wrapper
Dropped(xs) == <<Release(xs, "cl")>>

\* operator=(Wrapper&&): the wrapper x was empty, and takes the reference.
Moved(from, x) == <<Rename(from, x)>>

\* x = T(...), where the constructor of T is create.
Assigned(x, create) == create \o Moved("temporary", x)

\* Device(id, true) in a list of its own, copied into devices, and the list dies.
getDevices(x) == Assigned(x, <<Acquire({"temporary"}, "cl")>>)

Context == <<Acquire({"temporary"}, "cl")>>

\* context.getInfo(CL_CONTEXT_DEVICES) hands out retained devices.
ContextDevices == Copied({"device"})

CommandQueue == ContextDevices \o <<Acquire({"temporary"}, "cl")>> \o Dropped({"device"})

Buffer == <<AcquireOn({"temporary"}, "cl")>>

ClProgram(x) == <<Acquire({x}, "cl")>>

\* The functor of a kernel; it throws when the program has no executable.
KernelFunctor == <<Check("kernel"), Acquire(Functors, "cl")>>

\* EnqueueArgs keeps a copy of the queue.
EnqueueArgs == Copied({"queue"})

enqueueNDRangeKernel(op) == <<Submit(op), Acquire({"event"}, "cl")>>

\* Call of a functor: the buffers are passed by value, and nobody keeps the event.
Functor(op, buffers) ==
  EnqueueArgs \o Copied(buffers) \o enqueueNDRangeKernel(op)
  \o Dropped({"event"}) \o Dropped(buffers) \o Dropped({"queue"})

enqueueMapBuffer == <<Wait>>

enqueueUnmapMemObject == <<Submit([x \in {} |-> <<>>]), Acquire({"event"}, "cl")>>

\* cl::copy from a buffer to iterators
cl_copy(from, to) ==
  enqueueMapBuffer \o <<Run(Move(from, to))>> \o enqueueUnmapMemObject \o <<Wait>>
  \o Dropped({"event"})
----------------------------------------------------------------------------
(* OCLStream.cpp                                                           *)

\* The list keeps what each platform has.
ClDeviceList(how) ==
  <<List(how)>> \o getDevices("device") \o Copied({"device"}) \o Dropped({"device"})

ClDeviceName == <<List("once"), Check("listed")>>

ClDeviceDriver == <<List("once"), Check("listed")>>

ClLaunch(op, buffers) == Functor(op, buffers) \o <<Wait>>    \* queue.finish

ClInit == ClLaunch(StartLoop(Device), Objects(Device))

\* A build that fails is reported and thrown again; for double, any other
\* error of the build is not, and shows when the kernels are created.
ClBuild(b) == IF b = "OpenCL" THEN <<Check("fp64"), Check("build")>> ELSE <<Check("kernel")>>

ClConstruct(b) ==
  ClDeviceList("once") \o <<Check("listed")>> \o Copied({"device"})
  \o ClDeviceName \o ClDeviceDriver \o <<Select>>
  \o Assigned("context", Context) \o Assigned("queue", CommandQueue)
  \o ClProgram("program") \o ClBuild(b) \o KernelFunctor \o <<Check("memory")>>
  \o Assigned("d_a", Buffer) \o Assigned("d_b", Buffer) \o Assigned("d_c", Buffer)
  \o Assigned("d_sum", Buffer) \o <<Acquire({"sums"}, "vector")>>
  \o ClInit \o Dropped({"program"})

\* The buffers a kernel is given.
Arguments(k) == IF k = "Copy" THEN {"d_a", "d_c"} ELSE IF k = "Mul" THEN {"d_b", "d_c"}
                ELSE Objects(Device)

ClKernel(k) == ClLaunch(Loop(k, Device), Arguments(k))

\* The copy waits for the kernel; the partial sums are added on the host.
ClDot == Functor(Products(Device, "d_sum"), {"d_a", "d_b", "d_sum"})
         \o cl_copy("d_sum", "sums") \o <<ReturnSum("sums")>>

ClGetArrays == <<Acquire(Objects(Host), "vector"), HandOut(Host)>>
               \o cl_copy("d_a", "h_a") \o cl_copy("d_b", "h_b") \o cl_copy("d_c", "h_c")

\* delete the functors, clear the list; the members release themselves.
ClDestroy ==
  Dropped(Functors) \o <<List("clear")>> \o Dropped({"device"})
  \o <<Release(Objects(Host) \cup {"sums"}, "vector")>>
  \o Dropped(ClBuffers) \o Dropped({"queue"}) \o Dropped({"context"}) \o Dropped({"device"})

ClListDevices == ClDeviceList("append") \o <<List("once")>>

ClStream(b) ==
  [construct |-> ClConstruct(b), destroy |-> ClDestroy, list |-> ClListDevices,
   kernel |-> [k \in ArrayKernels |-> ClKernel(k)], Dot |-> ClDot, get_arrays |-> ClGetArrays]

ClThing == {"temporary", "device", "context", "queue", "program", "event", "sums"}
           \cup Functors \cup ClBuffers \cup Objects(Host)
=============================================================================
