----------------------------- MODULE SyclTuning -----------------------------
(***************************************************************************)
(* How the constructor of the sycl-ai stream chooses its work-group sizes: *)
(* defaults of the device, overrides from the environment, and two tuning  *)
(* runs that time the kernels themselves, on the arrays of the benchmark.  *)
(***************************************************************************)
EXTENDS Kernels

CONSTANTS
  Systems,            \* devices and environments, see below
  DefaultOf(_),       \* the defaults for a kind of device: wg, gpc, unroll
  StreamSizes,        \* sequence of work-group sizes tried for the kernels
  DotSizes,           \* and for the reduction,
  GroupsPerUnit(_),   \* with these numbers of groups per compute unit
  Unrolls,            \* and these unrollings
  SumsPerUnit,        \* partial sums there is room for, per compute unit
  Word,               \* size_t is a number modulo Word
  Averages, Never     \* averages of a measurement; Never is the limit of double

\* Unset, or not a number ("0" included), or a number; for flags 0 and 1.
Unset == -1
NotANumber == 0

Kinds == {"intel", "gpu", "cpu"}

ASSUME TuningConstants ==
  /\ Averages \subseteq Nat /\ Never \in Nat /\ {OfInt(1), OfInt(2)} \subseteq Val
  /\ \A s \in Systems : s.max_wg \in Nat \ {0} /\ s.units \in Nat /\ s.kind \in Kinds

\* No size, number of groups or unrolling the code tries or falls back to is 0.
ASSUME CandidatesPositive ==
  /\ {StreamSizes, DotSizes, Unrolls} \subseteq Seq(Nat \ {0})
  /\ SumsPerUnit \in Nat /\ Word \in Nat \ {0}
  /\ \A k \in Kinds : /\ GroupsPerUnit(k) \in Seq(Nat \ {0})
                      /\ {DefaultOf(k).wg, DefaultOf(k).gpc, DefaultOf(k).unroll} \subseteq Nat \ {0}

VARIABLES
  device,    \* an element of Systems: kind, max_wg, units and env
  wg,        \* copy_wgsize .. nstream_wgsize
  dot,       \* use_manual_dot_reduction, dot_wgsize, dot_num_groups, dot_unroll
  mem,       \* an element of the arrays
  phase,     \* where the constructor is
  tuned,     \* the array kernels that have been tuned
  left,      \* candidates not tried yet
  best,      \* best_time and what had it
  fastest    \* history: the least time measured, and all that had it

settings == <<wg, dot>>
search   == <<left, best, fastest>>
vars     == <<device, settings, mem, phase, tuned, search>>

Lesser(x, y)  == IF x < y THEN x ELSE y
Greater(x, y) == IF x > y THEN x ELSE y
----------------------------------------------------------------------------
(* The environment                                                         *)

\* Mutant of env_to_size_t: the fallback is forgotten.
env_without_fallback(s, name, fallback) == s.env[name]

env_to_size_t(s, name, fallback) == IF s.env[name] > 0 THEN s.env[name] ELSE fallback

env_to_bool(s, name, fallback) ==
  CASE s.env[name] = 0 -> FALSE [] s.env[name] = 1 -> TRUE [] OTHER -> fallback

env_is_set(s, name) == s.env[name] # Unset

DotNames == {"dot_wg", "gpc", "unroll", "manual"}

Options == {"wg", "stream_autotune", "dot_autotune"} \cup ArrayKernels \cup DotNames

ASSUME EnvironmentsTyped == \A s \in Systems : s.env \in [Options -> Int]

\* A size is at most what the device allows, and at least one.
Size(s, name, fallback) ==
  LET n == Lesser(s.max_wg, env_to_size_t(s, name, fallback))
  IN IF n = 0 THEN Lesser(s.max_wg, 1) ELSE n

stream_wgsize(s) == Size(s, "wg", DefaultOf(s.kind).wg)

kernel_wgsize(s, k) == Size(s, k, stream_wgsize(s))

Groups(s, gpc) == Greater(1, (s.units * gpc) % Word)

FirstDot(s) ==
  [manual |-> env_to_bool(s, "manual", s.kind = "intel"),
   wg     |-> Size(s, "dot_wg", stream_wgsize(s)),
   groups |-> Groups(s, env_to_size_t(s, "gpc", DefaultOf(s.kind).gpc)),
   unroll |-> env_to_size_t(s, "unroll", DefaultOf(s.kind).unroll)]

\* Partial sums the constructor has allocated.
dot_sum_capacity(s) ==
  Greater(FirstDot(s).groups, (Greater(1, s.units) * SumsPerUnit) % Word)

user_pinned_dot(s) == \E name \in DotNames : env_is_set(s, name)

enable_stream_autotune(s) == env_to_bool(s, "stream_autotune", FALSE)

enable_dot_autotune(s) ==
  env_to_bool(s, "dot_autotune", s.kind = "intel" /\ ~user_pinned_dot(s))
----------------------------------------------------------------------------
Init ==
  /\ device \in Systems
  /\ wg = [k \in ArrayKernels |-> kernel_wgsize(device, k)]
  /\ dot = FirstDot(device)
  /\ mem = StartCell
  /\ phase = "configured" /\ tuned = {} /\ left = <<>>
  /\ best = [time |-> Never, what |-> dot]
  /\ fastest = [time |-> Never, what |-> {}]

\* The order of the calls of tune_one.
NextKernel == CASE tuned = {}                             -> "Copy"
                [] tuned = {"Copy"}                       -> "Mul"
                [] tuned = {"Copy", "Mul"}                -> "Add"
                [] tuned = {"Copy", "Mul", "Add"}         -> "Triad"
                [] tuned = {"Copy", "Mul", "Add", "Triad"} -> "Nstream"

\* Mutant of Allowed: candidates the device does not accept are tried too.
AllAllowed(sizes) == sizes

\* The loop that keeps those of the sizes the device accepts
Fitting(sizes) ==
  LET fit[i \in 0 .. Len(sizes)] ==
        IF i = 0 THEN <<>>
        ELSE IF sizes[i] <= device.max_wg THEN Append(fit[i - 1], sizes[i]) ELSE fit[i - 1]
  IN fit[Len(sizes)]

\* or one that it does.
Allowed(sizes) ==
  IF Fitting(sizes) = <<>> THEN <<Lesser(device.max_wg, stream_wgsize(device))>> ELSE Fitting(sizes)

Search(current, candidates) ==
  /\ left' = candidates
  /\ best' = [time |-> Never, what |-> current]
  /\ fastest' = [time |-> Never, what |-> {current}]

\* Mutant of Measure: the best time is not remembered.
ForgetfulMeasure(candidate, t) ==
  /\ left' = Tail(left)
  /\ best' = IF t < best.time THEN [best EXCEPT !.what = candidate] ELSE best
  /\ fastest' = CASE t < fastest.time -> [time |-> t, what |-> {candidate}]
                  [] t = fastest.time /\ t < Never -> [fastest EXCEPT !.what = @ \cup {candidate}]
                  [] OTHER -> fastest

Measure(candidate, t) ==
  /\ left' = Tail(left)
  /\ best' = IF t < best.time THEN [time |-> t, what |-> candidate] ELSE best
  /\ fastest' = CASE t < fastest.time -> [time |-> t, what |-> {candidate}]
                  [] t = fastest.time /\ t < Never -> [fastest EXCEPT !.what = @ \cup {candidate}]
                  [] OTHER -> fastest

Zeros == [f \in {"a", "b", "c"} |-> OfInt(0)]
----------------------------------------------------------------------------
(* autotune_stream_kernels                                                 *)

StartStream ==
  /\ phase = "configured" /\ enable_stream_autotune(device)
  /\ phase' = "stream" /\ mem' = Zeros
  /\ Search(wg[NextKernel], Allowed(StreamSizes))
  /\ UNCHANGED <<device, settings, tuned>>

SkipStream ==
  /\ phase = "configured" /\ ~enable_stream_autotune(device)
  /\ phase' = "between"
  /\ UNCHANGED <<device, settings, mem, tuned, search>>

\* Warm up, and time some calls.
TrySize ==
  /\ phase = "stream" /\ left # <<>>
  /\ wg' = [wg EXCEPT ![NextKernel] = Head(left)]
  /\ mem' = Apply(NextKernel, mem)
  /\ \E t \in Averages : Measure(Head(left), t)
  /\ UNCHANGED <<device, dot, phase, tuned>>

KeepSize ==
  /\ phase = "stream" /\ left = <<>>
  /\ wg' = [wg EXCEPT ![NextKernel] = best.what]
  /\ tuned' = tuned \cup {NextKernel}
  /\ IF tuned' = ArrayKernels
     THEN phase' = "between" /\ UNCHANGED search
     ELSE phase' = phase /\ Search(wg[NextKernel'], Allowed(StreamSizes))
  /\ UNCHANGED <<device, dot, mem>>
----------------------------------------------------------------------------
(* autotune_dot                                                            *)

Ones == [a |-> OfInt(1), b |-> OfInt(2), c |-> OfInt(0)]

\* The native reduction as configured, then the manual one, in nested loops.
DotCandidates ==
  LET W == Allowed(DotSizes)  G == GroupsPerUnit(device.kind)  U == Unrolls
      Manual(i) ==
        [manual |-> TRUE,
         wg     |-> W[(i \div (Len(G) * Len(U))) + 1],
         groups |-> Lesser(dot_sum_capacity(device),
                           Greater(1, (Greater(1, device.units) * G[((i \div Len(U)) % Len(G)) + 1])
                                      % Word)),
         unroll |-> U[(i % Len(U)) + 1]]
  IN <<[dot EXCEPT !.manual = FALSE]>>
     \o [i \in 1 .. Len(W) * Len(G) * Len(U) |-> Manual(i - 1)]

StartDot ==
  /\ phase = "between" /\ enable_dot_autotune(device)
  /\ phase' = "dot" /\ mem' = Ones
  /\ Search(dot, DotCandidates)
  /\ UNCHANGED <<device, settings, tuned>>

SkipDot ==
  /\ phase = "between" /\ ~enable_dot_autotune(device)
  /\ phase' = "tuned"
  /\ UNCHANGED <<device, settings, mem, tuned, search>>

TryDot ==
  /\ phase = "dot" /\ left # <<>>
  /\ dot' = Head(left)
  /\ \E t \in Averages : Measure(Head(left), t)
  /\ UNCHANGED <<device, wg, mem, phase, tuned>>

KeepDot ==
  /\ phase = "dot" /\ left = <<>>
  /\ dot' = best.what /\ phase' = "tuned"
  /\ UNCHANGED <<device, wg, mem, tuned, search>>
----------------------------------------------------------------------------
\* Mutant of RestoredCell: the arrays are left as the tuning used them.
LeftAsTuned == mem

\* "Restore benchmark initial conditions after autotune probes."
RestoredCell == StartCell

Restore ==
  /\ phase = "tuned"
  /\ mem' = RestoredCell /\ phase' = "ready"
  /\ UNCHANGED <<device, settings, tuned, search>>

Next == \/ StartStream \/ SkipStream \/ TrySize \/ KeepSize
        \/ StartDot \/ SkipDot \/ TryDot \/ KeepDot
        \/ Restore

Spec == Init /\ [][Next]_vars
----------------------------------------------------------------------------
(* Properties                                                              *)

Setting == [manual : BOOLEAN, wg : Nat, groups : Nat, unroll : Nat]

\* Every variable has its type.
TypeOK ==
  /\ device \in Systems /\ wg \in [ArrayKernels -> Nat] /\ dot \in Setting
  /\ mem \in Cell /\ tuned \subseteq ArrayKernels
  /\ phase \in {"configured", "stream", "between", "dot", "tuned", "ready"}
  /\ phase = "stream" => best.what \in Nat /\ \A i \in DOMAIN left : left[i] \in Nat
  /\ phase = "dot" => best.what \in Setting /\ \A i \in DOMAIN left : left[i] \in Setting
  /\ best.time \in Nat

\* Whatever kernel is launched, while tuning or after it, its work-group is one
\* the device accepts, and a reduction has room for its partial sums.
SizesAccepted ==
  /\ \A k \in ArrayKernels : wg[k] \in 1 .. device.max_wg
  /\ dot.wg \in 1 .. device.max_wg /\ dot.unroll >= 1
  /\ dot.groups \in 1 .. dot_sum_capacity(device)

\* The benchmark starts from the initial values, whatever the tuning has done
\* to the arrays.
StartsFresh == phase = "ready" => mem = StartCell

\* What a tuning run keeps was measured as a whole, and nothing it measured was
\* faster; if no measurement was usable, it keeps what was configured.
KeepsFastest ==
  [][/\ tuned' # tuned => wg'[NextKernel] \in fastest.what
     /\ phase = "dot" /\ phase' = "tuned" => dot' \in fastest.what]_vars

\* "Manual overrides (disable the corresponding autotune decisions for those
\* kernels)" (README.md:154): sizes the user has set are used.
OverridesKept ==
  phase = "ready" =>
    \A k \in ArrayKernels : device.env[k] > 0 => wg[k] = Lesser(device.max_wg, device.env[k])
=============================================================================
