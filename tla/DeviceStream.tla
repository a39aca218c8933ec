---------------------------- MODULE DeviceStream ----------------------------
(***************************************************************************)
(* A backend that offloads: the host submits a kernel, the threads of the  *)
(* device load and store the elements of their shares in any interleaving, *)
(* and the host waits for all of them before the call returns.  CUDA, HIP, *)
(* OpenCL and SYCL follow this pattern and differ in the shares (Work).    *)
(*                                                                         *)
(* The promise is BlockingStream: a call is one atomic step.  The dot      *)
(* kernel is one step here, its threads are the subject of BlockReduce.    *)
(* The memory mode is the default one, where get_arrays copies.            *)
(***************************************************************************)
EXTENDS Kernels

CONSTANTS
  Backends,       \* the backends the program may have been compiled for
  Work(_, _),     \* Work(b, n)[lane]: the share of a thread in an array of size n
  Launches(_, _), \* the launch configuration for size n can be computed
  Garbage,        \* what an element of a fresh allocation holds
  MaxCalls        \* bound: calls the host makes

ASSUME GarbageIsCell == Garbage \in Cell

ASSUME CallsBounded == MaxCalls \in Nat

VARIABLES
  backend,  \* which one it is
  size,     \* array_size
  mem,      \* the arrays in device memory
  call,     \* where the host is: in which call, or outside of all
  calls,    \* how many calls it has made
  kernel,   \* the kernel launched last
  todo,     \* the indices each thread has not loaded yet
  reg,      \* what each thread has loaded and not stored
  copied,   \* the arrays get_arrays has copied so far
  buffer,   \* h_a, h_b, h_c: the host's own copies
  sum, host \* what dot and get_arrays returned

hostVars   == <<call, calls, kernel, copied, buffer, sum, host>>
deviceVars == <<mem, todo, reg>>
config     == <<backend, size>>
vars       == <<config, hostVars, deviceVars>>

Calls   == {"idle", "kernel", "Dot", "get_arrays", "crashed"}
Arrays  == {"a", "b", "c"}
NoArrays == [i \in {} |-> StartCell]

\* The constructor allocates and launches the kernel of init_arrays.
Init ==
  /\ backend \in Backends /\ size \in Sizes
  /\ mem = [i \in Idx(size) |-> Garbage]
  /\ call = IF Launches(backend, size) THEN "kernel" ELSE "crashed"
  /\ calls = 0 /\ kernel = "Init"
  /\ todo = IF Launches(backend, size) THEN Work(backend, size) ELSE [lane \in {} |-> {}]
  /\ reg = [lane \in DOMAIN todo |-> {}]
  /\ copied = {} /\ buffer = [i \in Idx(size) |-> Garbage]
  /\ sum = OfInt(0) /\ host = NoArrays
----------------------------------------------------------------------------
(* The host                                                                *)

Calling == call = "idle" /\ calls < MaxCalls /\ calls' = calls + 1

Launch(k) ==
  /\ Calling
  /\ call' = "kernel" /\ kernel' = k /\ todo' = Work(backend, size)
  /\ UNCHANGED <<config, mem, reg, copied, buffer, sum, host>>

Busy == \E lane \in DOMAIN todo : todo[lane] # {} \/ reg[lane] # {}

\* Mutant of Waited: the host does not wait for stores on their way.
WaitedForLoads == \A lane \in DOMAIN todo : todo[lane] = {}

\* cudaStreamSynchronize, hipDeviceSynchronize, queue.finish, queue->wait
Waited == ~Busy

Synchronize ==
  /\ call = "kernel" /\ Waited
  /\ call' = "idle"
  /\ UNCHANGED <<config, deviceVars, calls, kernel, copied, buffer, sum, host>>

CallDot ==
  /\ Calling
  /\ call' = "Dot"
  /\ UNCHANGED <<config, deviceVars, kernel, copied, buffer, sum, host>>

ReturnDot ==
  /\ call = "Dot"
  /\ sum' = DotOf(mem) /\ call' = "idle"
  /\ UNCHANGED <<config, deviceVars, calls, kernel, copied, buffer, host>>

CallGetArrays ==
  /\ Calling
  /\ call' = "get_arrays" /\ copied' = {}
  /\ UNCHANGED <<config, deviceVars, kernel, buffer, sum, host>>

\* One of the three copies to the host.
CopyToHost(f) ==
  /\ call = "get_arrays" /\ f \notin copied
  /\ copied' = copied \cup {f}
  /\ buffer' = [i \in Idx(size) |-> [buffer[i] EXCEPT ![f] = mem[i][f]]]
  /\ UNCHANGED <<config, deviceVars, call, calls, kernel, sum, host>>

ReturnArrays ==
  /\ call = "get_arrays" /\ copied = Arrays
  /\ call' = "idle" /\ host' = buffer
  /\ UNCHANGED <<config, deviceVars, calls, kernel, copied, buffer, sum>>

Host == \/ \E k \in ArrayKernels : Launch(k)
        \/ Synchronize
        \/ CallDot
        \/ ReturnDot
        \/ CallGetArrays
        \/ \E f \in Arrays : CopyToHost(f)
        \/ ReturnArrays
----------------------------------------------------------------------------
(* A thread of the device                                                  *)

\* Mutant of Load: the loop of a thread does not advance.
StuckLoad(lane) ==
  /\ reg[lane] = {}
  /\ \E i \in todo[lane] : reg' = [reg EXCEPT ![lane] = {[at |-> i, cell |-> mem[i]]}]
  /\ UNCHANGED <<config, hostVars, mem, todo>>

\* The loop reaches the next index of the share and reads its operands.  The
\* order of the indices is left to the compiler, which unrolls the loop.
Load(lane) ==
  /\ reg[lane] = {}
  /\ \E i \in todo[lane] :
       /\ todo' = [todo EXCEPT ![lane] = @ \ {i}]
       /\ reg' = [reg EXCEPT ![lane] = {[at |-> i, cell |-> mem[i]]}]
  /\ UNCHANGED <<config, hostVars, mem>>

\* A kernel stores to the one array it writes, init to all three.
Stored(old, loaded) ==
  IF kernel = "Init" THEN StartCell
                     ELSE [old EXCEPT ![Target(kernel)] = Written(kernel, loaded)]

Store(lane) ==
  /\ \E r \in reg[lane] : mem' = [mem EXCEPT ![r.at] = Stored(@, r.cell)]
  /\ reg' = [reg EXCEPT ![lane] = {}]
  /\ UNCHANGED <<config, hostVars, todo>>

Device == \E lane \in DOMAIN todo : Load(lane) \/ Store(lane)

Next == Host \/ Device

Spec == Init /\ [][Next]_vars

\* The device runs what was launched, and a call that need not wait returns.
Returning == \/ Synchronize
             \/ ReturnDot
             \/ \E f \in Arrays : CopyToHost(f)
             \/ ReturnArrays

FairSpec == Spec /\ WF_vars(Device) /\ WF_vars(Returning)
----------------------------------------------------------------------------
(* Properties                                                              *)

\* Every variable has its type.
TypeOK ==
  /\ backend \in Backends /\ size \in Sizes
  /\ mem \in [Idx(size) -> Cell] /\ buffer \in [Idx(size) -> Cell]
  /\ \E n \in Sizes \cup {0} : host \in [Idx(n) -> Cell]
  /\ call \in Calls /\ calls \in 0 .. MaxCalls
  /\ kernel \in ArrayKernels \cup {"Init"}
  /\ copied \subseteq Arrays /\ sum \in Val
  /\ \A lane \in DOMAIN todo : todo[lane] \subseteq Idx(size)
  /\ DOMAIN reg = DOMAIN todo
  /\ \A lane \in DOMAIN reg : reg[lane] \subseteq [at : Idx(size), cell : Cell]

\* "These must be blocking calls" (Stream.h:33): outside of a kernel call no
\* thread of the device has anything left to load or to store.
Blocking == call # "kernel" => ~Busy

\* The program gets past the launch of the first kernel for every array size
\* the driver accepts (for_each in CUDAStream.cu divides by the block count).
NeverCrashes == call # "crashed"

\* The host comes back from every call it makes.
CallsReturn == call \notin {"idle", "crashed"} ~> call = "idle"

\* To its caller, a launched kernel has processed the indices that some
\* thread still has to load or to store.
Pending(i) ==
  \E lane \in DOMAIN todo : i \in todo[lane] \/ \E r \in reg[lane] : r.at = i

Promised(x) == IF kernel = "Init" THEN StartCell ELSE Apply(kernel, x)

PromisedMem == [i \in Idx(size) |-> IF Pending(i) THEN Promised(mem[i]) ELSE mem[i]]

\* Every interleaving of the threads looks like one atomic kernel, and dot and
\* get_arrays see the arrays of exactly the calls made before them.
Contract == INSTANCE BlockingStream WITH mem <- PromisedMem
Implements == Contract!StreamSpec
=============================================================================
