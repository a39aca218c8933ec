---------------------------- MODULE DeviceProofs ----------------------------
(***************************************************************************)
(* A backend whose launch is defined and whose shares partition the array  *)
(* for every size implements the blocking contract of Stream.h, whatever   *)
(* the interleaving of its threads.  With IndexProofs: so do CUDA with its *)
(* default stride, HIP, and SYCL.                                          *)
(***************************************************************************)
EXTENDS DeviceStream, IndexProofs

SoundShares ==
  \A b \in Backends, n \in Sizes : Launches(b, n) /\ Partitions(Work(b, n), n)

\* A thread has its indices to itself, and what it has loaded is still what
\* the arrays hold.
LanesOK ==
  /\ DOMAIN todo = DOMAIN Work(backend, size)
  /\ \A lane \in DOMAIN todo :
       /\ todo[lane] \subseteq Work(backend, size)[lane]
       /\ \A r \in reg[lane] : /\ r.at \in Work(backend, size)[lane] \ todo[lane]
                               /\ r.cell = mem[r.at]
                               /\ reg[lane] = {r}

CopiesOK ==
  call = "get_arrays" => \A f \in copied : \A i \in Idx(size) : buffer[i][f] = mem[i][f]

IInv == TypeOK /\ LanesOK /\ CopiesOK /\ Blocking /\ NeverCrashes
USE DEF config
----------------------------------------------------------------------------
LEMMA CellUpdate ==
  ASSUME NEW x \in Cell, NEW k \in ArrayKernels
  PROVE  Apply(k, x) \in Cell /\ Written(k, x) \in Val /\ Target(k) \in Arrays
BY ValuesClosed DEF Apply, Written, Target, ArrayKernels, Cell, Arrays

LEMMA StoredIsPromised ==
  ASSUME NEW x \in Cell, kernel \in ArrayKernels \cup {"Init"}
  PROVE  Stored(x, x) = Promised(x) /\ Promised(x) \in Cell
<1>1. CASE kernel = "Init"
  BY <1>1, ValuesClosed DEF Stored, Promised, StartCell, Cell
<1>2. CASE kernel # "Init"
  BY <1>2, CellUpdate DEF Stored, Promised, Apply, ArrayKernels
<1>3. QED
  BY <1>1, <1>2

LEMMA StartCellType == StartCell \in Cell
BY ValuesClosed DEF StartCell, Cell

LEMMA DotType ==
  ASSUME NEW n \in Sizes, NEW m \in [Idx(n) -> Cell]
  PROVE  DotOf(m) \in Val
<1>1. [i \in DOMAIN m |-> Times(m[i].a, m[i].b)] \in [Idx(n) -> Val]
  BY ValuesClosed DEF Cell
<1>2. QED
  BY <1>1, SumOfClosed DEF DotOf

\* In a partition the thread of an index is the only one that has it.
LEMMA OwnIndex ==
  ASSUME SoundShares, backend \in Backends, size \in Sizes, LanesOK,
         NEW lane \in DOMAIN todo, NEW r \in reg[lane]
  PROVE  /\ r.at \in Idx(size)
         /\ \A other \in DOMAIN todo :
              other # lane => /\ r.at \notin todo[other]
                              /\ \A s \in reg[other] : s.at # r.at
<1>1. Partitions(Work(backend, size), size)
  BY DEF SoundShares
<1>2. r.at \in Work(backend, size)[lane] /\ DOMAIN todo = DOMAIN Work(backend, size)
  BY DEF LanesOK
<1>3. r.at \in Idx(size)
  BY <1>1, <1>2 DEF Partitions, Idx
<1>4. \A other \in DOMAIN todo : r.at \in Work(backend, size)[other] => other = lane
  BY <1>1, <1>2, <1>3 DEF Partitions, Idx
<1>5. QED
  BY <1>3, <1>4 DEF LanesOK
----------------------------------------------------------------------------
(* The invariant                                                           *)

LEMMA InitOK == SoundShares /\ Init => IInv
<1> SUFFICES ASSUME SoundShares, Init PROVE IInv
  OBVIOUS
<1>1. /\ backend \in Backends /\ size \in Sizes
      /\ Launches(backend, size) /\ Partitions(Work(backend, size), size)
  BY DEF Init, SoundShares
<1>2. todo = Work(backend, size) /\ reg = [lane \in DOMAIN todo |-> {}] /\ call = "kernel"
  BY <1>1 DEF Init
<1>3. \A lane \in DOMAIN todo : todo[lane] \subseteq Idx(size)
  BY <1>1, <1>2 DEF Partitions, Idx
<1>4. host \in [Idx(0) -> Cell]
  BY DEF Init, NoArrays, Idx
<1>5. mem \in [Idx(size) -> Cell] /\ buffer \in [Idx(size) -> Cell]
  BY GarbageIsCell DEF Init
<1>6. sum \in Val /\ calls \in 0 .. MaxCalls /\ copied = {} /\ kernel = "Init"
  BY ValuesClosed, CallsBounded DEF Init
<1>7. TypeOK
  BY <1>1, <1>2, <1>3, <1>4, <1>5, <1>6 DEF TypeOK, Calls
<1>8. LanesOK
  BY <1>2 DEF LanesOK
<1>9. QED
  BY <1>2, <1>7, <1>8 DEF IInv, CopiesOK, Blocking, NeverCrashes

LEMMA LoadOK ==
  ASSUME SoundShares, IInv, NEW lane \in DOMAIN todo, Load(lane)
  PROVE  IInv'
<1>1. PICK i \in todo[lane] :
        /\ todo' = [todo EXCEPT ![lane] = @ \ {i}]
        /\ reg' = [reg EXCEPT ![lane] = {[at |-> i, cell |-> mem[i]]}]
  BY DEF Load
<1>2. TypeOK /\ LanesOK /\ UNCHANGED <<config, hostVars, mem>>
  BY DEF Load, IInv
<1>3. call = "kernel"
  BY <1>1 DEF IInv, Blocking, Busy
<1>4. i \in Idx(size) /\ mem[i] \in Cell
  BY <1>1, <1>2 DEF TypeOK
<1>5. TypeOK'
  <2>1. \A l \in DOMAIN reg' : reg'[l] \subseteq [at : Idx(size), cell : Cell]
    BY <1>1, <1>2, <1>4 DEF TypeOK
  <2>2. \A l \in DOMAIN todo' : todo'[l] \subseteq Idx(size)
    BY <1>1, <1>2 DEF TypeOK
  <2>3. DOMAIN reg' = DOMAIN todo'
    BY <1>1, <1>2 DEF TypeOK
  <2>4. QED
    BY <1>2, <2>1, <2>2, <2>3 DEF TypeOK, hostVars
<1>6. LanesOK'
  <2>1. DOMAIN todo' = DOMAIN Work(backend, size) /\ DOMAIN reg = DOMAIN todo
    BY <1>1, <1>2 DEF LanesOK, TypeOK
  <2>2. ASSUME NEW l \in DOMAIN todo'
        PROVE  /\ todo'[l] \subseteq Work(backend, size)[l]
               /\ \A r \in reg'[l] : /\ r.at \in Work(backend, size)[l] \ todo'[l]
                                    /\ r.cell = mem[r.at]
                                    /\ reg'[l] = {r}
    <3>1. CASE l = lane
      BY <1>1, <1>2, <2>1, <3>1 DEF LanesOK
    <3>2. CASE l # lane
      BY <1>1, <1>2, <2>1, <3>2 DEF LanesOK
    <3>3. QED
      BY <3>1, <3>2
  <2>3. QED
    BY <1>2, <2>1, <2>2 DEF LanesOK
<1>7. QED
  BY <1>2, <1>3, <1>5, <1>6 DEF IInv, CopiesOK, Blocking, NeverCrashes, hostVars

LEMMA StoreOK ==
  ASSUME SoundShares, IInv, NEW lane \in DOMAIN todo, Store(lane)
  PROVE  IInv'
<1>1. PICK r \in reg[lane] : mem' = [mem EXCEPT ![r.at] = Stored(@, r.cell)]
  BY DEF Store
<1>2. /\ TypeOK /\ LanesOK /\ UNCHANGED <<config, hostVars, todo>>
      /\ reg' = [reg EXCEPT ![lane] = {}]
  BY DEF Store, IInv
<1>3. call = "kernel"
  BY <1>1 DEF IInv, Blocking, Busy
<1>4. /\ r.at \in Idx(size)
      /\ \A other \in DOMAIN todo : other # lane => \A s \in reg[other] : s.at # r.at
  BY <1>2, OwnIndex DEF TypeOK
<1>5. mem \in [Idx(size) -> Cell] /\ kernel \in ArrayKernels \cup {"Init"}
  BY <1>2 DEF TypeOK
<1>6. Stored(mem[r.at], r.cell) \in Cell
  BY <1>2, <1>4, <1>5, StoredIsPromised DEF LanesOK
<1>7. TypeOK'
  <2>1. mem' \in [Idx(size) -> Cell]
    BY <1>1, <1>4, <1>5, <1>6
  <2>2. /\ DOMAIN reg' = DOMAIN todo
        /\ \A l \in DOMAIN reg' : reg'[l] \subseteq [at : Idx(size), cell : Cell]
    BY <1>2 DEF TypeOK
  <2>3. QED
    BY <1>2, <2>1, <2>2 DEF TypeOK, hostVars
<1>8. LanesOK'
  <2>1. ASSUME NEW l \in DOMAIN todo, NEW s \in reg'[l]
        PROVE  /\ s.at \in Work(backend, size)[l] \ todo[l]
               /\ s.cell = mem'[s.at]
               /\ reg'[l] = {s}
    <3>1. l # lane /\ reg'[l] = reg[l]
      BY <1>2 DEF TypeOK
    <3>2. s.at # r.at /\ s.at \in Idx(size)
      BY <1>2, <1>4, <3>1 DEF TypeOK
    <3>3. mem'[s.at] = mem[s.at]
      BY <1>1, <1>5, <3>2
    <3>4. QED
      BY <1>2, <3>1, <3>3 DEF LanesOK
  <2>2. QED
    BY <1>2, <2>1 DEF LanesOK
<1>9. QED
  BY <1>2, <1>3, <1>7, <1>8 DEF IInv, CopiesOK, Blocking, NeverCrashes, hostVars

LEMMA HostOK == SoundShares /\ IInv /\ Host => IInv'
<1> SUFFICES ASSUME SoundShares, IInv, Host PROVE IInv'
  OBVIOUS
<1> USE DEF vars, hostVars, deviceVars, IInv
<1>1. ASSUME NEW k \in ArrayKernels, Launch(k) PROVE IInv'
  <2>1. backend \in Backends /\ size \in Sizes /\ Partitions(Work(backend, size), size)
    BY DEF TypeOK, SoundShares
  <2>2. call = "idle" /\ UNCHANGED <<config, mem, reg>> /\ todo' = Work(backend, size) /\ call' = "kernel"
    BY <1>1 DEF Launch, Calling
  <2>3. \A lane \in DOMAIN todo : reg[lane] = {}
    BY <2>2 DEF Blocking, Busy
  <2>4. \A lane \in DOMAIN todo' : todo'[lane] \subseteq Idx(size)
    BY <2>1, <2>2 DEF Partitions, Idx
  <2>5. LanesOK'
    BY <2>2, <2>3 DEF LanesOK
  <2>6. calls' \in 0 .. MaxCalls
    BY <1>1, CallsBounded DEF Launch, Calling, TypeOK
  <2>7. TypeOK'
    BY <1>1, <2>2, <2>4, <2>5, <2>6 DEF TypeOK, Launch, LanesOK, Calls
  <2>8. QED
    BY <2>2, <2>5, <2>7 DEF CopiesOK, Blocking, NeverCrashes
<1>2. ASSUME Synchronize PROVE IInv'
  BY <1>2 DEF Synchronize, Waited, TypeOK, LanesOK, CopiesOK, Blocking, Busy, NeverCrashes, Calls
<1>3. ASSUME CallDot PROVE IInv'
  BY <1>3, CallsBounded DEF CallDot, Calling, TypeOK, LanesOK, CopiesOK, Blocking, Busy, NeverCrashes, Calls
<1>4. ASSUME ReturnDot PROVE IInv'
  <2>1. sum' \in Val
    BY <1>4, DotType DEF ReturnDot, TypeOK
  <2>2. QED
    BY <1>4, <2>1 DEF ReturnDot, TypeOK, LanesOK, CopiesOK, Blocking, Busy, NeverCrashes, Calls
<1>5. ASSUME CallGetArrays PROVE IInv'
  BY <1>5, CallsBounded
     DEF CallGetArrays, Calling, TypeOK, LanesOK, CopiesOK, Blocking, Busy, NeverCrashes, Calls
<1>6. ASSUME NEW f \in Arrays, CopyToHost(f) PROVE IInv'
  <2>1. /\ mem \in [Idx(size) -> Cell] /\ buffer \in [Idx(size) -> Cell] /\ copied \subseteq Arrays
        /\ buffer' = [i \in Idx(size) |-> [buffer[i] EXCEPT ![f] = mem[i][f]]]
    BY <1>6 DEF TypeOK, CopyToHost
  <2>2. \A i \in Idx(size) : /\ buffer'[i] \in Cell /\ buffer'[i][f] = mem[i][f]
                            /\ \A g \in Arrays \ {f} : buffer'[i][g] = buffer[i][g]
    BY <2>1 DEF Cell, Arrays
  <2>3. TypeOK'
    BY <1>6, <2>1, <2>2 DEF TypeOK, CopyToHost
  <2>4. CopiesOK'
    BY <1>6, <2>1, <2>2 DEF CopiesOK, CopyToHost
  <2>5. QED
    BY <1>6, <2>3, <2>4 DEF CopyToHost, LanesOK, Blocking, Busy, NeverCrashes
<1>7. ASSUME ReturnArrays PROVE IInv'
  <2>1. TypeOK'
    BY <1>7 DEF ReturnArrays, TypeOK, Calls
  <2>2. QED
    BY <1>7, <2>1 DEF ReturnArrays, LanesOK, CopiesOK, Blocking, Busy, NeverCrashes
<1>8. QED
  BY <1>1, <1>2, <1>3, <1>4, <1>5, <1>6, <1>7 DEF Host

\* Every thread works on its own indices, the host never leaves a kernel call
\* early, and the copies of get_arrays are up to date.
THEOREM InductiveInvariant ==
  ASSUME SoundShares
  PROVE  Spec => []IInv
<1>1. Init => IInv
  BY InitOK
<1>2. IInv /\ [Next]_vars => IInv'
  <2> SUFFICES ASSUME IInv, [Next]_vars PROVE IInv'
    OBVIOUS
  <2>1. CASE Host
    BY <2>1, HostOK
  <2>2. CASE Device
    BY <2>2, LoadOK, StoreOK DEF Device
  <2>3. CASE UNCHANGED vars
    BY <2>3 DEF IInv, TypeOK, LanesOK, CopiesOK, Blocking, Busy, NeverCrashes,
                vars, hostVars, deviceVars
  <2>4. QED
    BY <2>1, <2>2, <2>3 DEF Next
<1>3. QED
  BY <1>1, <1>2, PTL DEF Spec

\* Every variable keeps its type.
THEOREM TypeCorrect ==
  ASSUME SoundShares
  PROVE  Spec => []TypeOK
<1>1. IInv => TypeOK
  BY DEF IInv
<1>2. QED
  BY <1>1, InductiveInvariant, PTL

\* "These must be blocking calls": no thread has work left when a call returns.
THEOREM CallsBlock ==
  ASSUME SoundShares
  PROVE  Spec => []Blocking
<1>1. IInv => Blocking
  BY DEF IInv
<1>2. QED
  BY <1>1, InductiveInvariant, PTL
----------------------------------------------------------------------------
(* The refinement                                                          *)

LEMMA NothingPending ==
  ASSUME mem \in [Idx(size) -> Cell], ~Busy
  PROVE  PromisedMem = mem
BY DEF PromisedMem, Pending, Busy

LEMMA EverythingPending ==
  ASSUME Partitions(Work(backend, size), size), todo = Work(backend, size)
  PROVE  PromisedMem = [i \in Idx(size) |-> Promised(mem[i])]
<1>1. ASSUME NEW i \in Idx(size) PROVE Pending(i)
  BY DEF Partitions, Pending, Idx
<1>2. QED
  BY <1>1 DEF PromisedMem

LEMMA LoadStutters ==
  ASSUME SoundShares, IInv, NEW lane \in DOMAIN todo, Load(lane)
  PROVE  UNCHANGED <<PromisedMem, sum, host>>
<1>1. PICK i \in todo[lane] :
        /\ todo' = [todo EXCEPT ![lane] = @ \ {i}]
        /\ reg' = [reg EXCEPT ![lane] = {[at |-> i, cell |-> mem[i]]}]
  BY DEF Load
<1>2. /\ UNCHANGED <<config, mem, kernel, sum, host>> /\ reg[lane] = {}
      /\ DOMAIN reg = DOMAIN todo /\ DOMAIN todo' = DOMAIN todo
  BY <1>1 DEF Load, IInv, TypeOK, hostVars
<1>3. ASSUME NEW j PROVE Pending(j)' <=> Pending(j)
  <2>1. ASSUME NEW l \in DOMAIN todo
        PROVE  (j \in todo'[l] \/ \E r \in reg'[l] : r.at = j)
                 <=> (j \in todo[l] \/ \E r \in reg[l] : r.at = j)
    <3>1. CASE l = lane
      <4>1. todo'[l] = todo[l] \ {i} /\ reg[l] = {} /\ i \in todo[l]
        BY <1>1, <1>2, <3>1
      <4>2. reg'[l] = {[at |-> i, cell |-> mem[i]]}
        BY <1>1, <1>2, <3>1
      <4>3. (\E r \in reg'[l] : r.at = j) <=> i = j
        BY <4>2
      <4>4. QED
        BY <4>1, <4>3
    <3>2. CASE l # lane
      BY <1>1, <1>2, <3>2
    <3>3. QED
      BY <3>1, <3>2
  <2>2. QED
    BY <1>2, <2>1 DEF Pending
<1>4. ASSUME NEW x PROVE Promised(x)' = Promised(x)
  BY <1>2 DEF Promised
<1>5. QED
  BY <1>2, <1>3, <1>4 DEF PromisedMem

LEMMA StoreStutters ==
  ASSUME SoundShares, IInv, NEW lane \in DOMAIN todo, Store(lane)
  PROVE  UNCHANGED <<PromisedMem, sum, host>>
<1>1. PICK r \in reg[lane] : mem' = [mem EXCEPT ![r.at] = Stored(@, r.cell)]
  BY DEF Store
<1>2. /\ UNCHANGED <<config, todo, kernel, sum, host>> /\ reg' = [reg EXCEPT ![lane] = {}]
      /\ DOMAIN reg = DOMAIN todo /\ LanesOK /\ TypeOK
  BY DEF Store, IInv, TypeOK, hostVars
<1>3. /\ r.at \in Idx(size)
      /\ \A other \in DOMAIN todo :
           other # lane => r.at \notin todo[other] /\ \A s \in reg[other] : s.at # r.at
  BY <1>2, OwnIndex DEF TypeOK
<1>4. r.at \notin todo[lane] /\ r.cell = mem[r.at] /\ reg[lane] = {r}
  BY <1>2 DEF LanesOK
<1>5. mem[r.at] \in Cell /\ mem \in [Idx(size) -> Cell] /\ kernel \in ArrayKernels \cup {"Init"}
  BY <1>2, <1>3 DEF TypeOK
<1>6. mem'[r.at] = Promised(mem[r.at]) /\ \A j \in Idx(size) \ {r.at} : mem'[j] = mem[j]
  BY <1>1, <1>3, <1>4, <1>5, StoredIsPromised
<1>7. Pending(r.at) /\ ~Pending(r.at)'
  BY <1>2, <1>3, <1>4 DEF Pending
<1>8. ASSUME NEW j \in Idx(size) \ {r.at} PROVE Pending(j)' <=> Pending(j)
  <2>1. ASSUME NEW l \in DOMAIN todo
        PROVE  (\E s \in reg'[l] : s.at = j) <=> (\E s \in reg[l] : s.at = j)
    <3>1. CASE l = lane
      BY <1>2, <1>4, <3>1
    <3>2. CASE l # lane
      BY <1>2, <3>2
    <3>3. QED
      BY <3>1, <3>2
  <2>2. QED
    BY <1>2, <2>1 DEF Pending
<1>9. ASSUME NEW j \in Idx(size)
      PROVE  (IF Pending(j) THEN Promised(mem[j]) ELSE mem[j])'
                = (IF Pending(j) THEN Promised(mem[j]) ELSE mem[j])
  <2>1. CASE j = r.at
    BY <1>6, <1>7, <2>1
  <2>2. CASE j # r.at
    BY <1>2, <1>6, <1>8, <2>2 DEF Promised
  <2>3. QED
    BY <2>1, <2>2
<1>10. PromisedMem' = PromisedMem
  BY <1>2, <1>9 DEF PromisedMem
<1>11. QED
  BY <1>2, <1>10

\* Contract reads Kernels with the same constants.
LEMMA SameKernels ==
  /\ Contract!ArrayKernels = ArrayKernels /\ Contract!StartCell = StartCell
  /\ Contract!NoArrays = NoArrays
  /\ \A n : Contract!Idx(n) = Idx(n)
  /\ \A k, x : Contract!Apply(k, x) = Apply(k, x)
  /\ \A m : Contract!DotOf(m) = DotOf(m)
<1>1. Contract!ArrayKernels = ArrayKernels /\ Contract!StartCell = StartCell
  BY DEF Contract!ArrayKernels, ArrayKernels, Contract!StartCell, StartCell
<1>2. ASSUME NEW k, NEW x PROVE Contract!Apply(k, x) = Apply(k, x)
  BY <1>1 DEF Contract!Apply, Apply, Contract!Target, Target, Contract!Written, Written
<1>3. QED
  BY <1>1, <1>2 DEF Contract!NoArrays, NoArrays, Contract!Idx, Idx, Contract!DotOf, DotOf

LEMMA HostRefines ==
  ASSUME SoundShares, IInv, Host
  PROVE  [Contract!StreamNext]_(Contract!streamVars)
<1> USE DEF IInv, hostVars, deviceVars
<1> DEFINE AbstractVars == <<PromisedMem, sum, host>>
<1>1. mem \in [Idx(size) -> Cell] /\ Blocking /\ backend \in Backends /\ size \in Sizes
  BY DEF TypeOK
<1>2. ASSUME call # "kernel" PROVE PromisedMem = mem
  BY <1>1, <1>2, NothingPending DEF Blocking
<1>3. ASSUME NEW k \in ArrayKernels, Launch(k) PROVE Contract!ArrayCall(k)
  <2>1. /\ call = "idle" /\ kernel' = k /\ todo' = Work(backend, size) /\ UNCHANGED <<config, mem, sum, host>>
    BY <1>3 DEF Launch, Calling
  <2>2. Partitions(Work(backend, size), size)
    BY <1>1 DEF SoundShares
  <2>3. ASSUME NEW i \in Idx(size) PROVE Pending(i)'
    BY <2>1, <2>2 DEF Partitions, Pending, Idx
  <2>4. PromisedMem' = [i \in Idx(size) |-> Promised(mem[i])']
    BY <2>1, <2>3 DEF PromisedMem
  <2>5. ASSUME NEW x PROVE Promised(x)' = Apply(k, x)
    BY <2>1 DEF Promised, ArrayKernels
  <2>6. PromisedMem' = [i \in Idx(size) |-> Apply(k, mem[i])]
    BY <2>1, <2>4, <2>5 DEF Promised
  <2>7. QED
    BY <1>1, <1>2, <2>1, <2>6, SameKernels DEF Contract!ArrayCall, Contract!Process
<1>4. ASSUME UNCHANGED <<config, mem, todo, reg, kernel>> PROVE PromisedMem' = PromisedMem
  BY <1>4 DEF PromisedMem, Pending, Promised
<1>5. ASSUME Synchronize \/ CallDot \/ CallGetArrays \/ \E f \in Arrays : CopyToHost(f)
      PROVE  UNCHANGED AbstractVars
  BY <1>4, <1>5 DEF Synchronize, CallDot, CallGetArrays, CopyToHost
<1>6. ASSUME ReturnDot PROVE Contract!dot
  BY <1>2, <1>4, <1>6, SameKernels DEF ReturnDot, Contract!dot
<1>7. ASSUME ReturnArrays PROVE Contract!get_arrays
  <2>1. /\ call = "get_arrays" /\ copied = Arrays /\ host' = buffer
        /\ UNCHANGED <<config, mem, todo, reg, kernel, sum>>
    BY <1>7 DEF ReturnArrays
  <2>2. ASSUME NEW i \in Idx(size) PROVE buffer[i] = mem[i]
    <3>1. buffer[i] \in Cell /\ mem[i] \in Cell
      BY DEF TypeOK
    <3>2. buffer[i].a = mem[i].a /\ buffer[i].b = mem[i].b /\ buffer[i].c = mem[i].c
      BY <2>1 DEF CopiesOK, Arrays
    <3>3. QED
      BY <3>1, <3>2 DEF Cell
  <2>3. buffer = mem
    BY <2>2 DEF TypeOK
  <2>4. QED
    BY <1>2, <1>4, <2>1, <2>3 DEF Contract!get_arrays
<1>8. QED
  BY <1>3, <1>5, <1>6, <1>7, SameKernels DEF Host, Contract!StreamNext, Contract!streamVars

\* Every interleaving of the threads of a device implements the blocking
\* contract of Stream.h, if the launch is defined and the shares partition the
\* array for every size the driver may ask for.
THEOREM DeviceImplementsContract ==
  ASSUME SoundShares
  PROVE  Spec => Implements
<1>1. Init => Contract!StreamInit
  <2> SUFFICES ASSUME Init PROVE Contract!StreamInit
    OBVIOUS
  <2>1. /\ backend \in Backends /\ size \in Sizes /\ Partitions(Work(backend, size), size)
        /\ todo = Work(backend, size) /\ kernel = "Init"
    BY DEF Init, SoundShares
  <2>2. PromisedMem = [i \in Idx(size) |-> StartCell]
    BY <2>1, EverythingPending DEF Promised
  <2>3. QED
    BY <2>1, <2>2, SameKernels DEF Init, Contract!StreamInit, Contract!StartArrays
<1>2. IInv /\ [Next]_vars => [Contract!StreamNext]_(Contract!streamVars)
  <2> SUFFICES ASSUME IInv, [Next]_vars PROVE [Contract!StreamNext]_(Contract!streamVars)
    OBVIOUS
  <2>1. CASE Host
    BY <2>1, HostRefines
  <2>2. CASE Device
    BY <2>2, LoadStutters, StoreStutters DEF Device, Contract!streamVars
  <2>3. CASE UNCHANGED vars
    BY <2>3 DEF vars, hostVars, deviceVars, Contract!streamVars, PromisedMem, Pending, Promised
  <2>4. QED
    BY <2>1, <2>2, <2>3 DEF Next
<1>3. QED
  BY <1>1, <1>2, InductiveInvariant, PTL DEF Spec, Implements, Contract!StreamSpec

\* CUDA with its default stride, HIP, OpenCL and sycl-ai keep the contract for
\* every array size (of at least the unroll factor on CUDA), block size and
\* number of blocks.
COROLLARY BackendsImplementContract ==
  ASSUME Backends \subseteq IndexBackends,
         \A b \in Backends, n \in Sizes :
           /\ Work(b, n) = IndexSpace(b, n) /\ Launches(b, n) = LaunchDefined(b, n)
           /\ b = "CUDA" => n >= UNROLL_FACTOR
  PROVE  Spec => Implements
<1>1. SoundShares
  BY CudaPartitions, HipPartitions, OclPartitions, SyclPartitions, SizesPositive
     DEF SoundShares, IndexBackends, IndexSpace, LaunchDefined
<1>2. QED
  BY <1>1, DeviceImplementsContract
=============================================================================
