--------------------------- MODULE StreamSession ----------------------------
(***************************************************************************)
(* The life of a stream object, as main.cpp drives it: list the devices    *)
(* and stop, or construct a stream, call kernels, take the arrays, compare *)
(* them, destroy the stream.  Every method is a sequence of calls into the *)
(* runtime (SessionSteps), and what was submitted to the runtime runs      *)
(* later, in an order that depends on the kind of queue.                   *)
(***************************************************************************)
EXTENDS SessionSteps, SequencesExt

CONSTANTS
  Backends,
  Program(_, _),   \* Program(b, call): the steps of a method
  Home(_),         \* Home(b): the objects that hold the three arrays
  Thing(_),        \* Thing(b): all objects the backend ever has
  Machines(_),     \* Machines(b): the systems it may find itself on
  InOrder(_),      \* the queue runs its work in the order of submission
  Ordered(_),      \* or at least work on the same objects (SYCL buffers)
  Callable(_),     \* Callable(b): the kernels the selected benchmarks call
  Kept(_),         \* Kept(b): objects the destructor leaves to the end of the process
  Asks(_),         \* Asks(b): what the constructor asks of the system
  Selects(_),      \* the constructor selects the device of --device
  Garbage,         \* what fresh memory holds
  MaxCalls         \* bound: kernels the driver calls

ASSUME OneElement == 1 \in Sizes /\ Garbage \in Val /\ MaxCalls \in Nat

ASSUME MachinesCounted ==
  \A b \in Backends : \A m \in Machines(b) : m.index \in Nat /\ m.devices \in Nat

\* The methods are sequences of steps on objects of the backend, and
\* get_arrays hands out three of them.
ASSUME ProgramsTyped ==
  \A b \in Backends :
    /\ Callable(b) \subseteq Kernel /\ Home(b) \in [Field -> Thing(b)]
    /\ \A c \in Call : /\ Program(b, c) \in Seq(Range(Program(b, c)))
                      /\ \A i \in DOMAIN Program(b, c) : IsStep(Program(b, c)[i], Thing(b))
    /\ \E i \in DOMAIN Program(b, "get_arrays") : Program(b, "get_arrays")[i].do = "arrays"

VARIABLES
  backend, machine,  \* the build and the system it runs on
  phase,             \* how far the driver is
  call, code,        \* the method it is in, and the steps left of it
  calls,             \* how many kernels it has called
  held,              \* the objects: references, allocator and place
  data,              \* and what they contain
  current,           \* the device the runtime uses for this thread
  cached, devices,   \* the cached list of devices
  queue,             \* work submitted and not done yet
  given,             \* where the pointers of get_arrays point
  locked,            \* what host accessors hold
  arrays, sum, seen  \* the arrays after the last call, and what the caller got

stable == <<backend, machine>>
driver == <<phase, call, calls, arrays, seen>>
store  == <<held, data, queue>>
choice == <<current, cached, devices>>
result == <<sum, given, locked>>
vars   == <<stable, driver, code, store, choice, result>>

\* A place is the host or the number of a device.
HostPlace == -1

NotHeld == [refs |-> 0, by |-> "nobody", on |-> HostPlace]

Held(x) == held[x].refs > 0

Contents == [f \in Field |-> data[Home(backend)[f]]]

Init ==
  /\ backend \in Backends /\ machine \in Machines(backend)
  /\ phase = "start" /\ call = "none" /\ code = <<>> /\ calls = 0
  /\ held = [x \in Thing(backend) |-> NotHeld]
  /\ data = [x \in Thing(backend) |-> Garbage]
  /\ current = 0 /\ cached = FALSE /\ devices = <<>> /\ queue = <<>>
  /\ given = [f \in {} |-> "nothing"] /\ locked = {}
  /\ arrays = [i \in Idx(1) |-> StartCell] /\ sum = OfInt(0)
  /\ seen = [i \in {} |-> StartCell]
----------------------------------------------------------------------------
(* The driver: parseArguments, run, run_all, check_solution                *)

Enter(c, from) ==
  /\ phase = from /\ call = "none"
  /\ call' = c /\ code' = Program(backend, c)
  /\ UNCHANGED <<stable, phase, arrays, seen, store, choice, result>>

Enumerate == Enter("list", "start") /\ UNCHANGED calls

Construct == Enter("construct", "start") /\ UNCHANGED calls

CallKernel(k) == calls < MaxCalls /\ Enter(k, "ready") /\ calls' = calls + 1

TakeArrays == Enter("get_arrays", "ready") /\ UNCHANGED calls

\* check_solution reads the arrays through the pointers.
Compare ==
  /\ phase = "given" /\ call = "none"
  /\ seen' = [i \in Idx(1) |-> [f \in Field |-> data[given[f]]]]
  /\ phase' = "compared"
  /\ UNCHANGED <<stable, call, calls, arrays, code, store, choice, result>>

Destroy == Enter("destroy", "compared") /\ UNCHANGED calls

PhaseAfter(c) == CASE c = "list"       -> "listed"
                   [] c = "get_arrays" -> "given"
                   [] c = "destroy"    -> "gone"
                   [] OTHER            -> "ready"

\* The end of the method.
Return ==
  /\ call # "none" /\ code = <<>>
  /\ call' = "none" /\ phase' = PhaseAfter(call)
  /\ arrays' = IF call \in ArrayKernels \cup {"construct"}
               THEN [i \in Idx(1) |-> Contents] ELSE arrays
  /\ UNCHANGED <<stable, calls, seen, code, store, choice, result>>
----------------------------------------------------------------------------
(* The steps of a method                                                   *)

AtStep(kind) == call # "none" /\ code # <<>> /\ Head(code).do = kind

Advance == code' = Tail(code) /\ UNCHANGED <<stable, driver>>

DoAcquire ==
  /\ AtStep("acquire") /\ Advance
  /\ LET s == Head(code) IN
       held' = [x \in DOMAIN held |->
                  IF x \in s.what
                  THEN [refs |-> held[x].refs + 1, by |-> s.by,
                        on |-> IF s.host THEN HostPlace ELSE current]
                  ELSE held[x]]
  /\ UNCHANGED <<data, queue, choice, result>>

DoRetain ==
  /\ AtStep("retain") /\ Advance
  /\ held' = [x \in DOMAIN held |->
                IF x \in Head(code).what THEN [held[x] EXCEPT !.refs = @ + 1] ELSE held[x]]
  /\ UNCHANGED <<data, queue, choice, result>>

\* With its last reference an object and its contents are gone.
DoRelease ==
  /\ AtStep("release") /\ Advance
  /\ LET gone == {x \in Head(code).what : held[x].refs <= 1} IN
       /\ held' = [x \in DOMAIN held |->
                     IF x \in gone THEN NotHeld
                     ELSE IF x \in Head(code).what THEN [held[x] EXCEPT !.refs = @ - 1]
                     ELSE held[x]]
       /\ data' = [x \in DOMAIN data |-> IF x \in gone THEN Garbage ELSE data[x]]
  /\ UNCHANGED <<queue, choice, result>>

Renamed(op, x, y) ==
  LET New(z) == IF z = x THEN y ELSE z
      Old(z) == IF z = y /\ x \in DOMAIN op THEN x ELSE z
  IN [z \in {New(w) : w \in DOMAIN op} |->
        Value(op[Old(z)].k, [f \in Field |-> New(op[Old(z)].of[f])])]

\* A pointer is assigned to another that points nowhere.
DoRename ==
  /\ AtStep("rename") /\ Advance
  /\ LET x == Head(code).from  y == Head(code).to IN
       /\ held' = [held EXCEPT ![y] = held[x], ![x] = NotHeld]
       /\ data' = [data EXCEPT ![y] = data[x], ![x] = Garbage]
       /\ queue' = [i \in DOMAIN queue |-> [queue[i] EXCEPT !.op = Renamed(@, x, y)]]
  /\ UNCHANGED <<choice, result>>

DoSelect ==
  /\ AtStep("select") /\ Advance
  /\ current' = machine.index
  /\ UNCHANGED <<store, cached, devices, result>>

\* Mutant of Present: devices are numbered from one.
FromOne == [i \in 1 .. machine.devices |-> i]

Present == [i \in 1 .. machine.devices |-> i - 1]

DoList ==
  /\ AtStep("list") /\ Advance
  /\ devices' = CASE Head(code).how = "clear"             -> <<>>
                  [] Head(code).how = "once" /\ cached    -> devices
                  [] Head(code).how = "append"            -> devices \o Present
                  [] OTHER                                -> Present
  /\ cached' = (cached \/ Head(code).how # "clear")
  /\ UNCHANGED <<store, current, result>>

\* What makes a check of the constructor throw.
Fails(why) == CASE why = "count"   -> machine.index >= machine.devices
                [] why = "first"   -> machine.index # 0
                [] why = "listed"  -> machine.index >= Len(devices)
                [] why = "size"    -> ~machine.tiled
                [] why = "fp64"    -> ~machine.fp64
                [] why = "memory"  -> ~machine.fits[machine.index]
                [] why = "memory0" -> ~machine.fits[0]
                [] why = "build"   -> machine.build = "failure"
                [] why = "kernel"  -> machine.build # "built"

Passes ==
  /\ AtStep("check") /\ ~Fails(Head(code).why) /\ Advance
  /\ UNCHANGED <<store, choice, result>>

\* The exception is not caught: the program is over.
Refuse ==
  /\ AtStep("check") /\ Fails(Head(code).why)
  /\ phase' = "refused" /\ call' = "none" /\ code' = <<>>
  /\ UNCHANGED <<stable, calls, arrays, seen, store, choice, result>>

DoSubmit ==
  /\ AtStep("submit") /\ Advance
  /\ queue' = Append(queue, [op |-> Head(code).op, on |-> current])
  /\ UNCHANGED <<held, data, choice, result>>

Drained == queue = <<>>

DoWait ==
  /\ AtStep("wait") /\ Drained /\ Advance
  /\ UNCHANGED <<store, choice, result>>

DoAccess ==
  /\ AtStep("access") /\ Advance
  /\ \A i \in DOMAIN queue : Writes(queue[i].op) \cap Head(code).what = {}
  /\ locked' = locked \cup Head(code).what
  /\ UNCHANGED <<store, choice, sum, given>>

DoLeave ==
  /\ AtStep("leave") /\ Advance
  /\ locked' = locked \ Head(code).what
  /\ UNCHANGED <<store, choice, sum, given>>

Effect(op) == [x \in DOMAIN data |-> IF x \in Writes(op) THEN Evaluate(op[x], data) ELSE data[x]]

DoRun ==
  /\ AtStep("run") /\ Advance
  /\ data' = Effect(Head(code).op)
  /\ UNCHANGED <<held, queue, choice, result>>

DoSum ==
  /\ AtStep("sum") /\ Advance
  /\ sum' = data[Head(code).from]
  /\ UNCHANGED <<store, choice, given, locked>>

DoHandOut ==
  /\ AtStep("arrays") /\ Advance
  /\ given' = Head(code).from
  /\ UNCHANGED <<store, choice, sum, locked>>

Step == \/ DoAcquire \/ DoRetain \/ DoRelease \/ DoRename
        \/ DoSelect \/ DoList \/ Passes \/ Refuse
        \/ DoSubmit \/ DoWait \/ DoAccess \/ DoLeave \/ DoRun \/ DoSum \/ DoHandOut
----------------------------------------------------------------------------
(* The device                                                              *)

Conflict(p, q) == \/ Writes(p) \cap Touches(q) # {}
                  \/ Writes(q) \cap Touches(p) # {}

MayRun(i) == /\ InOrder(backend) => i = 1
             /\ Touches(queue[i].op) \cap locked = {}
             /\ Ordered(backend) => \A j \in 1 .. i - 1 : ~Conflict(queue[j].op, queue[i].op)

Execute ==
  /\ \E i \in DOMAIN queue :
       /\ MayRun(i)
       /\ data' = Effect(queue[i].op)
       /\ queue' = RemoveAt(queue, i)
  /\ UNCHANGED <<stable, driver, code, held, choice, result>>

Driver == \/ Enumerate \/ Construct \/ TakeArrays \/ Compare \/ Destroy
          \/ \E k \in Callable(backend) : CallKernel(k)

Next == Driver \/ Step \/ Return \/ Execute

Spec == Init /\ [][Next]_vars

\* The host goes on unless it has to wait, and the device works.
FairSpec == Spec /\ WF_vars(Step \/ Return) /\ WF_vars(Execute)
----------------------------------------------------------------------------
(* Properties                                                              *)

\* Every variable has its type, and no list names a device that is not there.
TypeOK ==
  /\ backend \in Backends /\ machine \in Machines(backend)
  /\ phase \in {"start", "ready", "given", "compared", "gone", "listed", "refused"}
  /\ call \in Call \cup {"none"} /\ calls \in 0 .. MaxCalls
  /\ held \in [Thing(backend) -> [refs : Nat, by : Allocator \cup {"nobody"}, on : Int]]
  /\ data \in [Thing(backend) -> Val]
  /\ current \in Nat /\ cached \in BOOLEAN
  /\ \A i \in DOMAIN devices : devices[i] \in 0 .. machine.devices - 1
  /\ \A i \in DOMAIN queue : queue[i].on \in Nat
  /\ locked \subseteq Thing(backend)
  /\ arrays \in [Idx(1) -> Cell] /\ sum \in Val
  /\ \E n \in {0, 1} : seen \in [Idx(n) -> Cell]

\* "These must be blocking calls" (Stream.h:33): between two calls nothing that
\* was submitted is left to run.
Blocking == call = "none" => queue = <<>>

\* The rest of a method waits for op, or for what op writes (nothing then gives
\* the memory another name before the host looks at it), before it may throw.
AwaitedFrom(op, steps, i) ==
  \E j \in DOMAIN steps :
    /\ i <= j
    /\ \/ steps[j].do = "wait"
       \/ /\ steps[j].do = "access" /\ Writes(op) \cap steps[j].what # {}
          /\ \A k \in DOMAIN steps : steps[k].do # "rename"
    /\ \A k \in DOMAIN steps : i <= k /\ k < j => steps[k].do # "check"

\* All that a method submits it waits for.
Drains(steps) ==
  \A i \in DOMAIN steps : steps[i].do = "submit" => AwaitedFrom(steps[i].op, steps, i + 1)

\* What makes Blocking inductive: the method the host is in waits for what is
\* pending and for what it will still submit.
Settles ==
  /\ backend \in Backends
  /\ call = "none" => code = <<>>
  /\ code \in Seq(Range(code)) /\ queue \in Seq(Range(queue))
  /\ Drains(code)
  /\ \A i \in DOMAIN queue : AwaitedFrom(queue[i].op, code, 1)

\* Work that is pending, the host, and the pointers the caller was given only
\* ever touch memory that has been allocated and not freed.
UsesOnlyLive ==
  /\ \A i \in DOMAIN queue : \A x \in Touches(queue[i].op) : Held(x)
  /\ AtStep("run") => \A x \in Touches(Head(code).op) : Held(x)
  /\ AtStep("sum") => Held(Head(code).from)
  /\ phase = "given" => \A f \in Field : Held(given[f])

\* Memory is freed once, by the function that belongs to its allocator; no
\* pointer to memory that is in use is overwritten; and when the stream is
\* gone so is all it held, but for what its class never frees.
FreesItsOwn ==
  /\ AtStep("release") => \A x \in Head(code).what : Held(x) /\ held[x].by = Head(code).by
  /\ AtStep("acquire") => \A x \in Head(code).what : ~Held(x)
  /\ AtStep("rename") => Held(Head(code).from) /\ ~Held(Head(code).to)
  /\ phase = "gone" => \A x \in Thing(backend) : Held(x) <=> x \in Kept(backend)

\* Work runs on the device of --device, and on memory of that device.
SameDevice ==
  \A i \in DOMAIN queue :
    /\ Selects(backend) => queue[i].on = machine.index
    /\ \A x \in Touches(queue[i].op) : held[x].on \in {HostPlace, queue[i].on}

\* What a constructor may ask of the system m it runs on.
Offers(m, what) == CASE what = "device"  -> m.index < m.devices
                     [] what = "first"   -> m.index = 0
                     [] what = "tiles"   -> m.tiled
                     [] what = "fp64"    -> m.fp64
                     [] what = "memory"  -> m.fits[m.index]
                     [] what = "memory0" -> m.fits[0]
                     [] what = "program" -> m.build = "built"

\* The constructor throws if, and only if, the system lacks something that the
\* build asks of it: whenever the list of devices was made, wherever among the
\* allocations the checks are, and whatever errors are caught on the way.
Usable(b, m) == \A what \in Asks(b) : Offers(m, what)

RefusesTheUnusable ==
  /\ phase = "refused" => ~Usable(backend, machine)
  /\ phase \notin {"start", "refused", "listed"} => Usable(backend, machine)

\* The host comes back from every method it calls.
CallsReturn == call # "none" ~> call = "none"

\* A session is a behaviour of the contract: the arrays after each call are
\* those of the atomic kernels, dot returns their product, and what the
\* validation reads through the pointers is what the kernels have written.
Contract == INSTANCE BlockingStream WITH mem <- arrays, host <- seen
Implements == Contract!StreamSpec
=============================================================================
