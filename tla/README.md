# BabelStream in TLA+

BabelStream measures memory bandwidth: a driver runs six array kernels on a
backend, many times, validates what the backend computed, and reports timings.
Three things have to be right for its numbers to mean anything: the driver runs
and times exactly what was asked for, the validation accepts a sound backend
and rejects an unsound one, and a kernel call returns only when the whole array
has been processed, each index once.  The modules here state these promises,
check them on small instances with TLC, and prove the central ones with TLAPS.

Paths are relative to the repository root; the code is in `src/`.

## The system

| part | state | operations | who it talks to | what makes it correct |
| --- | --- | --- | --- | --- |
| driver, `src/main.cpp` | options, `timings`, `sum`, host arrays, the replayed scalars | `parseArguments`, `run_all` (two orders), `check_solution`, report | constructs one stream, calls its kernels in a loop, reads its arrays once, destroys it | both loops run what was selected; the replay follows them; the verdict; every timing that is reported was taken |
| benchmark table, `src/benchmark.h` | constant | `run_benchmark` | driver, twice: for the run and for the replay | the replayed kernels are the kernels |
| contract, `src/Stream.h` | arrays a, b, c | `copy`, `mul`, `add`, `triad`, `nstream`, `dot`, `get_arrays`, all blocking; `listDevices` | driver above, backends below | a call is one step on all elements |
| serial backend, `src/serial` | the arrays | the same, as loops | | is the contract |
| CUDA, HIP, `src/cuda`, `src/hip` | device arrays (three kinds of memory), a stream, pinned `sums` | constructor with device choice and memory check, launches, `dot`, destructor | driver; device runtime | the shares of the threads partition the array; the host waits; the reduction; memory is freed by its own allocator |
| OpenCL, `src/ocl` | context, program, kernels, buffers, a queue, a cached device list | build, launches, `dot` in work-groups, `cl::copy` | the wrapper objects of `CL/cl2.hpp`, which count references | as CUDA, and no object is used after its last reference or leaked |
| sycl-ai, `src/sycl-ai` | USM arrays, tuned work-group sizes | `nd_range` kernels with a guard, three reductions for `dot`, tuning at construction | environment variables, out-of-order queue | as CUDA, and the tuning keeps what was fastest, respects limits and overrides, leaves the initial values |
| SYCL 1.2.1 and 2020, `src/sycl`, `src/sycl2020` | buffers with host accessors, or USM; a cached device list | as OpenCL | out-of-order queue | as OpenCL |
| OpenMP, OpenACC, Kokkos, RAJA, TBB, C++ std, Thrust, HC | arrays on the host, on the device or on both | one call of a parallel loop, algorithm or reduction for each kernel, and whatever makes it wait | the library | the call has ended when the method returns; what is handed out is what was computed |
| Futhark, `src/futhark` | arrays of the generated library | frees, calls of generated entry points, pointer assignments | | the entry point called is the kernel meant; a freed array is not read |
| Rust, Scala, Java, Julia, Fortran ports | a driver each, and devices with threads of their own | as above | | as above |
| `Unit.h`, `StreamModels.h`, build files, results | none | formatting, selection at compile time | | |

What is hard about it, and out of the reach of a unit test:

- **Threads.** The threads of a launch run in any order, load and store
  separately, and share memory in the dot kernel, where barriers order them.
  The host waits for them and then copies on a different stream.
- **Index arithmetic.** Every backend divides the array in its own way, with
  rounding, guards, strides and unrolled loops; sizes that do not fill the
  grid, exceed it, or are smaller than a divisor are the ones that matter.
- **Two programs in one.** `check_solution` is a second implementation of
  `run_all` on three scalars; the two must agree for 8 selections in 2 orders.
- **Numbers.** Relative comparison of infinities and NaN, a tolerance that is a
  multiple of epsilon, a wrapping `strtoull`.
- **State that outlives its use.** Cached device lists, managed memory,
  accessors, reference counts, values left behind by the tuning.
- **Order without a lock.** Out-of-order queues, loops that return early: a
  method is right only if it waits for all that it submits.

The list `hazards` in `PROJECT.json` gives each of them a line in the code and
names the properties that would notice it going wrong.

## The modules

```
Kernels -- BlockingStream -- BabelStream -- BabelStreamHistory -- MCBabelStream
   |          ^   ^              '------------------ BabelStreamProofs
   |          |   | implements
   |-- DeviceStream ---.-- MCDevice
   |      IndexSpaces -'-- IndexProofs -- DeviceProofs
   |      BlockReduce -- MCReduce (with IndexSpaces);  ReduceProofs (with IndexProofs)
   |
   |-- SessionSteps -- StreamSession (implements BlockingStream) -- SessionProofs --.
   |        |                 '-- MCSession                                         |
   |        '-- LoopBackends, QueueBackends, ClObjects -- CppBackends -- BackendProofs
   |                                                      (and MCSession)       |
   |                                                                   OwnershipProofs
   |
   '-- SyclTuning -- MCTuning;  TuningProofs
```

**Kernels** (`src/benchmark.h`, and the element-wise effect of the kernels).
The arithmetic is a set of values with a sum, a product, a reduction and a
conversion of integers.  Rounding stays below the tolerance of the validation
and is left out; overflow is not: a value is finite, infinite or neither (NaN).
`MCAlgebra` gives TLC two arithmetics.  The integers modulo a prime are a
homomorphic image of the decimal fractions the kernels produce (0.1, 0.2, 0.4
under sums and products), so whatever equality holds of the exact values is
checked there, and the values of different kernel sequences stay apart.  The
saturating integers keep magnitudes and overflow after a few kernels.

**BlockingStream** is the promise of `src/Stream.h`: *"These must be blocking
calls"*.  A stream has three arrays `mem`; each kernel is one step on all
elements, and `get_arrays` hands out what the calls before it have written.
This is at the same time the serial backend as its caller sees it.

**BabelStream** is `src/main.cpp` on top of that contract.  A command line is a
sequence of option and value; `pc` follows `main` through `parseArguments`, the
construction of the stream, `run_all`, `get_arrays`, `check_solution` with its
replay, and the report.  One action per branch of the parser and per loop
iteration; `at` holds the counters `k` and `i` of either order; `timings[i]` is
the length of the vector of benchmark `i`.  An unsound backend is modelled by
`RunBrokenKernel`: once in a run, a kernel misses an element or processes it
twice (`MayBreak`).  `check_solution` compares as the code does, with a relative
tolerance: `Within(x, y, t)` is a constant, with four tolerances `t`, those of
the arrays (`max_rel`) and of the sum (`max_rel_dot`) in each precision, and of
it only `WithinAssumption` is known: a value is within every tolerance of
itself.  What is not finite the code does not compare by tolerance, although it
writes it so, and `Same` spells out what it does.  `BabelStreamHistory` adds `ideal`, the value a correct
backend holds at each position of the loops, so that the verdict is judged by
something other than the replay itself.

**DeviceStream** is a backend that offloads, at the granularity of one thread's
load and store of one element.  The host launches a kernel (`todo` becomes the
shares of the threads), waits until nothing is left (`Synchronize`) and
returns; `get_arrays` makes three copies.  The order of the indices within a
share is free, since the compiler unrolls the loops.  The constructor's
`init_arrays` is the first launch.  Where an array smaller than the unroll
factor makes the launch divide by zero, the program is `"crashed"`.
`Contract == INSTANCE BlockingStream WITH mem <- PromisedMem` is the refinement
mapping: to the caller an element that some thread still has to load or store
is already processed, so that a kernel happens at its launch, and each load and
store stutters.

**IndexSpaces** holds the shares, as sets of indices: CUDA's grid-stride and
block-stride loops with their launch configuration, HIP's grid, sycl-ai's
rounded-up `nd_range` with its guard, OpenCL's one item per index, and those of
the dot kernels, among them sycl-ai's unrolled loop and the loop for the rest.
`Partitions` is what they are for.

**BlockReduce** is the dot kernel of CUDA, HIP, OpenCL, SYCL 1.2.1 and sycl-ai:
a thread sums the products of its share in its own cell of shared memory, the
block halves the cells in use in rounds that begin with a barrier, thread 0
writes the sum of the block, the host adds up the blocks.  A sum is represented
by how often it counts each index.

**StreamSession** is the other view of a backend: the life of the whole object.
The driver lists the devices and stops, or constructs a stream, calls any
kernels (`CallKernel`), takes the arrays, compares them through the pointers it
got (`Compare`), and destroys the stream.  A method is a sequence of calls into
the runtime, written with the vocabulary of **SessionSteps**: acquire, retain
and release memory or handles; list, select and check devices; submit an
operation, run one on the host, wait; take and leave a host accessor; return
the sum, hand out pointers.  The step machine keeps for each object its
reference count, allocator and place (`held`) and its content (`data`); what is
submitted goes to `queue` and runs later (`Execute`), first in first out, in an
order that respects conflicts on the same buffers, or in any order, as the
backend's queue does.  A check of the constructor that fails ends the session
(`Refuse`).  An array is one element here: how threads divide it is the subject
of the modules above.  `Contract` maps `arrays`, the contents after the last
call, and `seen`, what `check_solution` read, to `BlockingStream`.

The methods themselves are in three modules, one group of definitions for each
backend, named after it (`HipConstruct`, `UsmDot`, ...), with the variants its
build offers as names of builds:

- **LoopBackends**: OpenMP (host, target, Cray, page-fault), OpenACC, Kokkos,
  RAJA (host, CUDA), TBB (vectors, raw arrays), C++ std with the two kinds
  of allocation of `dpl_shim.h` (memory of `malloc`, and with oneDPL for DPC++
  shared memory of the queue of the execution policy), and Futhark for both
  types.
- **QueueBackends**: CUDA and HIP with default, managed and page-fault memory,
  Thrust, SYCL 1.2.1, SYCL 2020, sycl-ai, HC.
- **ClObjects**: OpenCL on its C++ wrapper.  Copying, moving, assigning and
  destroying a wrapper are sequences of `Retain` and `Release`, and a context,
  queue, program, buffer or kernel functor is made of them as `cl2.hpp` does.

**CppBackends** is `make_stream` of `StreamModels.h`: which of them a build has
(`StreamOf`, `ProgramOf`), which take the device they are given
(`HonoursDevice`), and what each asks of the system before it goes on
(`Demands`): a device of the given number, double precision, memory on the
selected device (for HIP on device 0, `HIPStream.cpp:68`), a program that can
be built, a size the tiles divide, or, for TBB, the number 0
(`TBBStream.cpp:35`).

**SyclTuning** is the constructor of sycl-ai: defaults by kind of device,
overrides from the environment, then the two tuning runs, each a search over
candidates that writes the candidate into the setting, times it (`Measure`: any
element of `Averages`), and puts the best one back; then the arrays are
restored.  `fastest` is history: the least time measured, and all that had it.

The `MC` modules only supply values for constants.  Definitions marked *Mutant
of* are plausible wrong versions of the definition that follows them; each
shows that some property notices the mistake.

## What TLC checks

Passing runs:

| run | instance | properties |
| --- | --- | --- |
| `MCDriver` | all command lines of up to 3 of 23 options, sizes 1 and 2, 2 or 3 repetitions, a 4-bit `size_t`, integers that overflow, four tolerances from none to all, one unsound kernel call | `TypeOK`, `TimingsReportable`, `RejectsOnlyOverflow`, `CertifiesIdeal`, `IInv`, `Termination` |
| `MCDevices` | CUDA, HIP, OpenCL, sycl-ai; sizes 3 and 5, blocks of 2 threads, 3 calls | `TypeOK`, `Blocking`, `Implements`, `CallsReturn` |
| `MCReduce` | CUDA (OpenCL and SYCL 1.2.1 have the same shares), HIP, sycl-ai; sizes 3, 9, 17; up to 2 blocks of 4 threads | `TypeOK`, `RaceFree`, `ReducesAll`, `Returns` |
| `MCSession` | the builds of all backends but the two of the refuted runs and the two page-fault builds of the notes below; systems with one or two devices that have what the build asks for, and for each thing it asks for systems that lack it; 3 kernels | `TypeOK`, `Blocking`, `Settles`, `UsesOnlyLive`, `FreesItsOwn`, `SameDevice`, `RefusesTheUnusable`, `Implements`, `CallsReturn` |
| `MCTuning` | devices that accept all, some and none of the candidates, 13 sets of overrides with 4 of the flags, 3 averages of which one is not usable | `TypeOK`, `SizesAccepted`, `StartsFresh`, `KeepsFastest` |

- `RejectsOnlyOverflow`: a run on a sound backend fails validation only if a
  correct value overflowed; otherwise the replay agrees with the run for every
  selection and order.
- `CertifiesIdeal`: a successful run that was not told to ignore errors has
  handed out, *within the tolerance of the comparison*, the arrays and, if the
  dot kernel was among those run, the sum of a correct backend wherever both are
  finite, although a kernel may have missed or repeated an element; nothing that
  is not a number passes.  A later kernel can overwrite the damage; then the
  arrays are right and acceptance is right.  And the damage can be too small:
  with `--float --only Nstream -n 100000` one missed repetition changes an
  element by 1e-5 of its value, where 1.19e-5 is allowed, and in double
  precision a `dot` over more than about 4.5e8 elements may miss a product
  (2.2e-9 is allowed).  The property does not exclude those, and the run has
  them: with `--float --only Nstream` it validates an element that a call has
  missed.
- `TimingsReportable`: in both orders every selected benchmark has exactly
  `num_times` timings when the report skips the first and averages the others.
- `Implements`, in both places: every interleaving of the threads of a device,
  and every order in which a queue may run what a session submits, looks to the
  host like atomic kernels.  `Blocking`: nothing is pending when a call returns.
- `Settles`: the rest of the method the host is in waits for all that is
  pending and all that it will still submit, *before* it may throw.  It is what
  makes `Blocking` inductive, and what has to be looked at in each backend: the
  copy of no elements in OpenMP for Cray, the host accessor of SYCL 1.2.1, the
  blocking read of OpenCL, the fences and synchronisations of the others.
- `UsesOnlyLive`, `FreesItsOwn`: neither the host, nor pending work, nor the
  caller of `get_arrays` touches memory that is not allocated; memory is freed
  once, by the function of its allocator, and nothing is left when the stream
  is gone, except what Kokkos and the raw arrays of TBB leave to the process
  (`Kept`).  For OpenCL this is the reference counting of `cl2.hpp`.
- `SameDevice`: work runs on the device of `--device` and on its memory.
- `RefusesTheUnusable`: the constructor throws exactly on systems that lack
  something the build asks for (`Asks`, which is `Demands` in the runs).  The
  checks are wherever the code has them: before or after allocations, on a list
  of devices that is made and cached and emptied on the way, after errors that
  were caught.  An OpenCL build error that is swallowed is still refused, by the
  creation of the kernels.  The table says what the code asks for and not what
  it ought to: for HIP the run has a system whose device 0 is too small and
  whose selected device is large enough, and HIP refuses it, as the code does.
- `SizesAccepted`: no kernel is launched, while tuning or after it, with a
  work-group the device does not accept or with more groups than there is room
  for partial sums.  `KeepsFastest`: what is kept was measured *as a whole* and
  nothing was faster, or it is what was configured if nothing was measured.
  `StartsFresh`: the benchmark starts from the initial arrays.
- `RaceFree`: no thread writes a cell of shared memory that another is about to
  use.  `ReducesAll`: `dot` counts every product exactly once.
- `Termination`, `CallsReturn`, `Returns`: the program ends, every call comes
  back, no barrier waits for ever.

Runs that TLC refutes, each against a sentence of the documentation or of a
comment:

| run | what happens |
| --- | --- |
| `MCOverflow` | once a correct value is infinite its difference to itself is NaN and the validation fails (`--float --only All` with the default 100 repetitions: the sum overflows) |
| `MCFloatSum` | in single precision the tolerance of the sum is 1.19, which no two values that are not negative exceed: a `dot` that counted nothing and returned zero passes |
| `MCBlockStride` | CUDA built with `STRIDE=BLOCK_STRIDE`: unless the start of a block is a multiple of its width, two threads visit an index and `nstream` may add twice |
| `MCFewElements` | CUDA with fewer elements than `UNROLL_FACTOR` divides by zero in the constructor |
| `MCFuthark` | for float Futhark's triad writes c from a and b |
| `MCAdaptiveCpp` | with AdaptiveCpp the SYCL 2020 reduction is not reset: a second `dot` adds to the first |
| `MCPinned` | sizes the user has set for a kernel are replaced by the stream tuning |

`CertifiesIdeal` compares finite values only because the comparison
`diff <= largest * mrel` reads `inf <= inf` when exactly one side is infinite,
so such an element passes.

Other disagreements, which the models show but no run states:

- `--numtimes -1` is wrapped by `strtoull` and accepted, although `--help` says
  NUM >= 2; the reserve of the timings then throws (`Construct`: `"abort"`).
- `--order Classic` after `--order Isolated` has no effect, and unknown orders
  are ignored (`ParseOrder`).
- sycl-ai's manual reduction loses sums when the work-group size is no power of
  two (`Width` = 3 in `MCReduce`), and products when `dot_unroll` exceeds the
  eight additions the kernel writes out (`dot_unroll > unrolled_lines`).
- Both `nstream`s of Futhark call the triad entry and replace c; HC has none.
  `CallableKernels` leaves `Nstream` out for the two.
- HIP's page-fault build gives memory of `malloc` to `hipFree` (`FreesItsOwn`
  fails; the build is not in `SoundBuilds`).
- The memory check of HIP always looks at device 0 (`HIPStream.cpp:68`): it
  refuses a selected device that fits if device 0 does not, and accepts one that
  does not fit if device 0 does.  `Demands` says so (`"memory0"`).
- SYCL 2020's page-fault build frees its arrays with `free` and then again with
  `sycl::free` (`SYCLStream2020.cpp:97-111`, `UsmDestroy`; `FreesItsOwn` fails;
  the build is not in `SoundBuilds`).  The file opens one condition more than it
  closes there, so no build gets through the preprocessor as it stands; it is
  read with the missing `#endif` before the `#ifdef SYCL2020USM` that follows the
  calls of `free`.  With it at the end, the USM build would free nothing.
- `#elseif` (`SYCLStream2020.cpp:73`) is no directive: the USM build skips it,
  the page-fault build would stop there, and what it begins, the variant with
  accessors, is out of reach.  It is read as `#elif`.
- Thrust and HC allocate before they select a device, so `SameDevice` is
  checked for the first one; RAJA and C++ std ignore the index (`HonoursDevice`).

### Bounds

- `MaxArgs`: options act independently or override each other, so pairs show
  every override and triples put an order, a selection and a size or count in
  one command line.  The values include a missing one, zero, a negative and an
  unknown name.
- `Sizes`, `DefaultTimes`: size 1 has only a last element, size 2 also another;
  two repetitions are the least the parser accepts, three tell `num_times` from
  it.  `WordMax` 16 and `MaxLength` 7 keep the order of the real bounds: a
  wrapped negative number exceeds what a vector can hold.
- `Huge`: at 30 some selections overflow within the run and others do not, so
  both sides of `RejectsOnlyOverflow` and of `CertifiesIdeal` occur; at 7
  (`MCOverflow`) two repetitions are enough.  `P` = 7 in the runs that compare
  values of devices: values that must differ do, which the mutants confirm.
- `MCWithin`: the tolerances keep their order and are coarse, so that numbers
  below `Huge` fall on either side of them: that of the arrays in double
  precision accepts no difference, those of the arrays in single and of the sum
  in double precision half the larger value, and that of the sum in single
  precision everything, which is what 1.19 does.
- Systems: a build that does not ask for something is not put on a system that
  lacks it: what the runtime does there is not in the code.  Nor are sound
  systems short of anything later: allocations succeed.
- `MaxCalls` = 3 lets a kernel's result be read by a second kernel and by
  `get_arrays`, and two `dot`s follow a kernel.  Size 5 with 4 CUDA threads
  makes the grid-stride loop iterate; size 5 with 6 threads makes guards matter
  on HIP and sycl-ai.
- Four threads are the least for two rounds of the reduction, where a barrier
  between rounds is needed; two blocks show that they do not interfere.  Size
  17 gives sycl-ai a complete unrolled turn (8 threads by 2) and a rest.  The
  constant `unrolled_lines`, 8 in the code, is 2.
- Sessions need one element, one stream and at most two devices: no step of a
  method looks at another index, the driver makes one stream, and the second
  device is the one a forgotten selection would miss.  `Garbage` is none of the
  start values, so that a missing initialisation or a missing zero shows.
- Tuning: sizes 1, 2, 4 stand for 256, 512, 1024; `max_wg` 4, 3 and 1 accept
  all, some and none of the candidates; `SumsPerUnit` (32 in the code) is 4, so
  that a number of groups exceeds it; `Word` 16 lets units times groups wrap.

### Fairness

`BabelStreamHistory!FairSpec` is weak fairness of the whole next-state
relation: the driver is one thread and the operating system keeps running it.
`DeviceStream!FairSpec` lets the device run what was launched and the host
return when nothing holds it (`Returning`); it does *not* make the host call
anything, and it is fair to the device as a whole, since every enabled thread
step brings the launch nearer to its end.  `BlockReduce!FairSpec` is the same
for one call of `dot`; a step of any thread is progress, so no fairness between
threads is assumed.  `StreamSession!FairSpec` is weak fairness of the host
inside a method and of the queue, not of the driver's choice of the next call:
a host that waits for work the queue can never run (because of an accessor that
is still alive) waits for ever, and `CallsReturn` fails.  Deadlock checking is
off because all the systems stop: the process exits, the bounded host makes no
further call, `dot` has returned, the constructor is done.

## What TLAPS proves

For every value of the constants, under the assumptions next to them
(`WithinAssumption`; `ValuesClosed`, `SumOfClosed`, `SumOfUniform`: the reduction of n equal values
is n times the value; `DriverAssumption`: the types of what can be typed;
`BlockSizes`, `WidthPositive`: positive sizes; `OneElement`; `TuningConstants`:
averages are numbers, devices have a positive limit):

**The driver.** `BabelStreamProofs!TypeCorrect`: `Spec => []TypeOK`, which
includes that no run starts with a size or a count the parser must refuse.

**The validation.** `BabelStreamProofs!InductiveInvariant`: `HSpec => []IInv`.
That replay and run agree is not inductive: while the run goes on nothing is
known about the replay, and at the end the position is the same for both but
nothing relates the values on the way.  `IInv` therefore keeps the values of a
correct backend as one chain: `ideal` maps every position of the loops visited
so far to a cell and a sum, and each is obtained from the one before by
`IdealStep`.  During the run, a backend that kept its contract holds the last
value of the chain (`BackendInv`), and all positions lie before the current one
in the order of the loops, so that a new one never disturbs the chain.  During
the replay, the scalars are the value of the chain at the replay's own position
(`ReplayInv`); since the two loops advance alike (`SameLoops`), both arrive at
`EndPosition` with `Final`.  That a uniform array stays uniform, and that the
sum of n equal products is n times the product, connect the arrays to the
scalars.  From it follow `ValidationSound` (`RejectsOnlyOverflow`),
`ValidationComplete` (`CertifiesIdeal`, for every choice of tolerances that
`WithinAssumption` allows) and `ReportSound` (`TimingsReportable`).  `HistoryOnly` shows `HSpec => Spec`.

**The index spaces.** `GridStridePartitions`, `CudaPartitions`,
`HipPartitions`, `OclPartitions`, `SyclPartitions`: the shares of the default
launches partition every array, from the division lemmas at the head of
`IndexProofs`; for CUDA, of at least `UNROLL_FACTOR` elements.  `DotPartitions`
says the same of the shares of the dot kernels, sycl-ai's unrolled loop and its
loop for the rest among them, if `dot_unroll` is at most the number of
additions the kernel writes out.

**The devices.** `DeviceImplementsContract`: if the launch is defined and the
shares partition the array for every size (`SoundShares`), then
`Spec => Implements`.  The invariant adds to the types that a loaded index
belongs to the thread's share and is no longer on its list, that the loaded
cell is *still* what the arrays hold (no other thread can have stored to that
index: this is where the partition is needed), that the copies made so far are
up to date, and `Blocking`.  Then a load does not change `PromisedMem` because
its index was pending and stays so, a store does not because it writes exactly
what was promised, and `dot` and `get_arrays` read `mem = PromisedMem` because
nothing is pending.  `TypeCorrect` and `CallsBlock` (`Blocking`) come with it.
`BackendsImplementContract` combines it with the index spaces.

**The reduction.** `ReductionRaceFree`: `Spec => []RaceFree` for every number
of threads and blocks, power of two or not.  What a thread writes, no other of
its block may read in its next step; this needs how far apart two threads can
be, which is `InStep`: for every pair of a block, given where one is, the other
is in the same round, or has just entered the next one and waits at its barrier
(`Entered`).  A barrier opens only when all wait at it, so nobody gets further.
`ReductionTypes` (`TypeOK`) comes with it.

`ReductionComplete`: `Spec => []ReducesAll` if the width is a power of two
(`PowerOfTwo`: every divisor but 1 is even) and every index is in one share.  A
sum is a count for each index, so that no fold needs an induction: `Counted`
says of every cell in use which indices it counts, at every point of the tree.
When thread l is in a round with offset s its cell holds the products of all
threads of the block congruent to it modulo 2s (`Span`, `Gathered`); a cell that
this round has put out of use still holds what the round reads.  The sum of the
block is then `Gathered` modulo 1, and the host's is that of the blocks added so
far (`UpTo`).  Halving is where the power of two is needed (`GatheredSplit`),
and `InStep` where a thread reads its partner's cell (`PartnerHolds`).
`DotKernelsReduce` combines it with `DotPartitions`: the hypothesis on the
shares holds of CUDA, HIP, OpenCL and sycl-ai as they launch the kernel.

**The sessions.** `SessionTypes` (`TypeOK`) needs no assumption about the
methods beyond the types of `ProgramsTyped`.  The others ask something of the
methods, for any set of backends, systems, kinds of queue and number of calls:

- `SessionsSettle` and `SessionsBlock`: if every method waits for what it
  submits (`ProgramsDrain`), nothing is pending between two calls.  `Blocking`
  alone is not inductive; `Settles` follows the rest of the current method, and
  each kind of step has its lemma: a submission is covered by the wait that
  `Drains` promises further on, a wait or an accessor removes only what has run,
  a renamed pointer keeps its work (which is why an accessor cannot stand for a
  wait in a method that renames), a refusal has nothing pending.
- `SessionsStayOnDevice` (`SameDevice`): if the constructor selects the device
  before it allocates there or submits, or the machine has only the first one to
  offer, or the constructor refuses before it submits (`ProgramsSelect`).  The
  invariant `Placed` knows which of these three is the case at every point:
  nothing placed yet, placed on the device of `--device`, or about to refuse.
- `SessionsRefuse` (`RefusesTheUnusable`): if on every machine of the session a
  check of the constructor throws exactly when something is missing that the
  build asks for, and it lists the devices before it looks
  at the list, which nothing empties or extends in between (`ProgramsCheck`).
  `Judged`: the checks that are left decide as the machine does, and those that
  look at the list will find it complete.
- `SessionsFreeOwn` and `SessionsUseLive` (`FreesItsOwn`, `UsesOnlyLive`): if
  the methods keep a book (`ProgramsOwn`).  A book says of each object how often
  it is held and which allocator gave it; there is one for each phase of the
  driver, and every method leads, step by step, from the book of the phase it
  is called in to that of the phase it leaves behind, touches only what is in
  the book at that step, frees with the right call, and does not free what
  pending work may touch (`Careful`, `Leads`, `Accounts`).  The invariant
  `Owning` says that the book at the current step is `held`, that pending work
  is covered by the book's own account of it (`Covers`), and that the pointers
  of `get_arrays` point to what is held until the destructor begins (`Points`).
- `SessionsImplement` (`Implements`): if, besides, the methods compute the right
  thing (`ProgramsCompute`).  That is asked of each method by itself, read one
  step after the other and as if all work were done when it is submitted: a step
  reads only what is known and touches nothing that pending work touches
  (`Sure`), and what is known at the end is the arrays the kernel promises,
  wherever the backend keeps them; the sum that is returned is the product, and
  the pointers handed out lead to the arrays (`Teaches`, `Computes`).  The
  invariant `Following` says what that means while the device lags behind: what
  is known of an object is its contents, or, if pending work writes it, the
  value that work will give it; no two pieces of pending work touch the same
  object, so that running one changes the value of no other and the order does
  not matter; and an object that pending work still writes is among those the
  method has yet to wait for (`Knows`).  At the return nothing is pending
  (`Settles`), so what is known is what the memory holds.

**The C++ backends.** `BackendProofs` and `OwnershipProofs` prove those
hypotheses of the methods of all C++ backends in all builds, so that these hold
without looking at a particular one, for any number of calls:

| theorem | property | of the session it is assumed that |
| --- | --- | --- |
| `CppBackendsBlock` | `Blocking` | `CppPrograms`: the backends are those of `CppBackends` |
| `CppBackendsStayOnDevice` | `SameDevice` | also `CppDevices`: Thrust is asked for the first device, HC for that or for one that is not there |
| `CppBackendsRefuse` | `RefusesTheUnusable` | also `CppAsks`: what a build asks of the system is what the table `Demands` says, for HIP the memory of device 0; nothing is assumed of the systems |
| `CppBackendsUseLive`, `CppBackendsFreeOwn` | `UsesOnlyLive`, `FreesItsOwn` | also `CppObjects`: the objects exist, TBB's arrays and Kokkos's views are left to the process, and the build is not the page-fault build of HIP or of SYCL 2020, for which `FreesItsOwn` is false |
| `CppBackendsImplement` | `Implements` | also `CppObjects` and `CppArrays`: the arrays are kept where each backend keeps them, the builds are not the two whose refuting runs show `Implements` false, Futhark's `nstream` is not called, and, for the build with DATA17, addition is associative |

The constants of `MCSession` satisfy all of them.  With DATA17, `nstream` computes
`(a + b) + s * c` where the others compute `a + (b + s * c)`: equal in exact
arithmetic, and up to rounding in the program.  The methods are concatenations,
so the facts are: one lemma that says a fact survives `\o`, one for each step,
and one for each backend.  A book is found for a backend by fixing for each
object the one allocator it ever comes from; it is then a number of references
to each (`Ledger`), and for most backends a set of objects that are held once
(`On`, `Once`).  OpenCL shares its handles: the device is held twice, by the
list and by the stream, a launch retains the kernel and the buffers of its
arguments and drops them, and an assignment moves a temporary (`GoesShared`,
`GoesFunctor`, `GoesAssigned`).  What a method computes is followed in the same
way, with facts in place of a book: pairs of an object and its contents, from
which a step leads to others, whatever else is known (`Facts`, `Tells`, `Gains`).
An operation turns facts into facts (`Turns`: a kernel, the first values, the
products, a copy of one or all arrays), work that is awaited does what its
operation does (`TellsWork`), work submitted together does it if no piece
touches what another does (`TellsTogether`), and a local variable is forgotten
(`TellsLocal`).  Then `Learns` says of a backend where its arrays are and where
`get_arrays` shows them, once for each backend.

**The tuning.** `TuningKeepsFastest` and `TuningStartsFresh`, for any device,
candidates and measurements.  The invariant `Tracks` says that `best` is one of
`fastest` during a search, in spite of ties and of averages that are never
smaller, and that the kernels are tuned in the order of the calls.
`TuningTypes` and `TuningSizesAccepted`: the invariant `Fits` says that every
candidate that is left, and the best so far, is accepted by the device; that
filtering a list keeps only what passes the filter is proved from the library's
facts on sequences.

**Only model-checked.** The liveness properties (`Termination`, `CallsReturn`,
`Returns`): fairness and `ENABLED` are beyond the prover.  `OverridesKept` and
the other refuted properties are refuted by their runs; `CppBackendsImplement`
leaves out the two builds for which `MCFuthark` and `MCAdaptiveCpp` refute
`Implements`.  What repeated kernels compute numerically is not proved either; the
theorems compare two computations and never evaluate one.

## Not modelled

- Rounding, timing values, text output, units, Caliper annotations.
- Errors of the device runtimes other than those a constructor looks for; they
  end the program.
- The division of the work inside a library (OpenMP, Kokkos, RAJA, TBB, C++
  std, Thrust, OpenACC, Futhark, native SYCL reductions): a kernel is one
  operation that is submitted and runs.
- The 32-bit index arithmetic of HIP's dot kernel, and averages of the tuning
  that are negative because the number of trials does not fit an `int`.
- The SYCL 2020 variant with accessors, which does not compile (its `dot` names
  members it does not have).
- Allocations that fail, and a second stream in one process: `main` makes one,
  and the device list that OpenCL's and SYCL 1.2.1's destructors empty while
  they leave it marked as cached is never looked at again.
- What `cl2.hpp` offers beyond its use by the backend: images, samplers, pipes,
  shared virtual memory, events, info queries.
- HC cannot be instantiated through the present `Stream.h`; its methods are
  modelled as they stand, with `read_arrays` for `get_arrays`.
- The Rust, Java, Scala, Julia and Fortran ports: separate programs that share
  no code with the C++ one.  Hazards met in them are listed.
- The preprocessor's choice of a backend, build files, CI, results.

## Plan

Done, the most important first: the driver and its validation; device backends
and their index spaces; the dot kernel and its freedom from races; sessions of
all C++ backends; the tuning of sycl-ai.

What would come next:

1. The Rust devices (`arc_stream.rs`, `unsafe_stream.rs`): chunks, one thread
   per chunk, mutexes, joins, against `BlockingStream`, over sizes up to 6 and
   4 cores, where the length of the last chunk underflows.
2. The ports' drivers as variants of `BabelStream`.
