---------------------------- MODULE TuningProofs ----------------------------
(***************************************************************************)
(* The tuning of the sycl-ai stream, for any device, any candidates and    *)
(* any measurements: it keeps a setting that was measured and that nothing *)
(* beat, only ever uses sizes the device accepts, and leaves the arrays as *)
(* they were.                                                              *)
(***************************************************************************)
EXTENDS SyclTuning, SequenceTheorems, WellFoundedInduction, TLAPS

\* The kernels are tuned one after the other, in the order of the calls.
InOrderOfCalls ==
  tuned \in {{}, {"Copy"}, {"Copy", "Mul"}, {"Copy", "Mul", "Add"},
             {"Copy", "Mul", "Add", "Triad"}, ArrayKernels}

\* best is one of the fastest so far.
Tracks ==
  /\ wg = [k \in ArrayKernels |-> wg[k]]
  /\ best.time \in Nat
  /\ fastest = [time |-> fastest.time, what |-> fastest.what]
  /\ phase \in {"stream", "dot"} => best.time = fastest.time /\ best.what \in fastest.what
  /\ phase = "configured" => tuned = {}
  /\ phase = "stream" => tuned # ArrayKernels
  /\ phase = "ready" => mem = StartCell
  /\ InOrderOfCalls

LEMMA FreshSearch ==
  ASSUME NEW current, NEW candidates, Search(current, candidates)
  PROVE  /\ best'.time \in Nat
         /\ fastest' = [time |-> fastest'.time, what |-> fastest'.what]
         /\ best'.time = fastest'.time /\ best'.what \in fastest'.what
BY TuningConstants DEF Search

\* A measurement changes both alike, however they compare.
LEMMA MeasureTracks ==
  ASSUME NEW candidate, NEW t \in Averages, Measure(candidate, t),
         best.time \in Nat,
         fastest = [time |-> fastest.time, what |-> fastest.what],
         best.time = fastest.time, best.what \in fastest.what
  PROVE  /\ best'.time \in Nat
         /\ fastest' = [time |-> fastest'.time, what |-> fastest'.what]
         /\ best'.time = fastest'.time /\ best'.what \in fastest'.what
<1>1. t \in Nat
  BY TuningConstants
<1>2. CASE t < best.time
  BY <1>1, <1>2 DEF Measure
<1>3. CASE ~(t < best.time) /\ t = fastest.time /\ t < Never
  BY <1>1, <1>3 DEF Measure
<1>4. CASE ~(t < best.time) /\ ~(t = fastest.time /\ t < Never)
  BY <1>1, <1>4 DEF Measure
<1>5. QED
  BY <1>2, <1>3, <1>4

LEMMA NextKernelInOrder ==
  ASSUME InOrderOfCalls, tuned # ArrayKernels
  PROVE  /\ NextKernel \in ArrayKernels
         /\ tuned \cup {NextKernel} # tuned
         /\ tuned \cup {NextKernel} \in {{"Copy"}, {"Copy", "Mul"}, {"Copy", "Mul", "Add"},
                                         {"Copy", "Mul", "Add", "Triad"}, ArrayKernels}
<1>1. CASE tuned = {}
  BY <1>1 DEF NextKernel, ArrayKernels
<1>2. CASE tuned = {"Copy"}
  BY <1>2 DEF NextKernel, ArrayKernels
<1>3. CASE tuned = {"Copy", "Mul"}
  BY <1>3 DEF NextKernel, ArrayKernels
<1>4. CASE tuned = {"Copy", "Mul", "Add"}
  BY <1>4 DEF NextKernel, ArrayKernels
<1>5. CASE tuned = {"Copy", "Mul", "Add", "Triad"}
  BY <1>5 DEF NextKernel, ArrayKernels
<1>6. QED
  BY <1>1, <1>2, <1>3, <1>4, <1>5 DEF InOrderOfCalls

LEMMA TracksInit == Init => Tracks
BY TuningConstants DEF Init, Tracks, InOrderOfCalls, FirstDot

LEMMA TracksNext == ASSUME Tracks, [Next]_vars PROVE Tracks'
<1> USE DEF settings, search
<1>1. CASE StartStream
  <2>1. /\ Search(wg[NextKernel], Allowed(StreamSizes)) /\ phase' = "stream"
        /\ wg' = wg /\ tuned' = {} /\ tuned = {}
    BY <1>1 DEF StartStream, Tracks
  <2>2. {} # ArrayKernels
    BY DEF ArrayKernels
  <2>3. QED
    BY <2>1, <2>2, FreshSearch DEF Tracks, InOrderOfCalls
<1>2. CASE SkipStream \/ SkipDot \/ Restore
  BY <1>2 DEF SkipStream, SkipDot, Restore, RestoredCell, Tracks, InOrderOfCalls
<1>3. CASE TrySize
  <2>1. /\ phase = "stream" /\ phase' = phase /\ tuned' = tuned
        /\ wg' = [wg EXCEPT ![NextKernel] = Head(left)]
        /\ \E t \in Averages : Measure(Head(left), t)
    BY <1>3 DEF TrySize
  <2>2. wg' = [k \in ArrayKernels |-> wg'[k]]
    BY <2>1 DEF Tracks
  <2>3. QED
    BY <2>1, <2>2, MeasureTracks DEF Tracks, InOrderOfCalls
<1>4. CASE KeepSize
  <2>1. /\ phase = "stream" /\ tuned' = tuned \cup {NextKernel}
        /\ wg' = [wg EXCEPT ![NextKernel] = best.what]
    BY <1>4 DEF KeepSize
  <2>2. wg' = [k \in ArrayKernels |-> wg'[k]]
    BY <2>1 DEF Tracks
  <2>3. InOrderOfCalls'
    BY <2>1, NextKernelInOrder DEF Tracks, InOrderOfCalls
  <2>4. CASE tuned' = ArrayKernels
    <3>1. phase' = "between" /\ best' = best /\ fastest' = fastest
      BY <1>4, <2>4 DEF KeepSize
    <3>2. QED
      BY <2>2, <2>3, <3>1 DEF Tracks
  <2>5. CASE tuned' # ArrayKernels
    <3>1. phase' = "stream" /\ Search(wg[NextKernel'], Allowed(StreamSizes))
      BY <1>4, <2>5 DEF KeepSize
    <3>2. QED
      BY <2>2, <2>3, <2>5, <3>1, FreshSearch DEF Tracks
  <2>6. QED
    BY <2>4, <2>5
<1>5. CASE StartDot
  <2>1. Search(dot, DotCandidates) /\ phase' = "dot" /\ wg' = wg /\ tuned' = tuned
    BY <1>5 DEF StartDot
  <2>2. QED
    BY <2>1, FreshSearch DEF Tracks, InOrderOfCalls
<1>6. CASE TryDot
  <2>1. /\ phase = "dot" /\ phase' = phase /\ tuned' = tuned /\ wg' = wg
        /\ \E t \in Averages : Measure(Head(left), t)
    BY <1>6 DEF TryDot
  <2>2. QED
    BY <2>1, MeasureTracks DEF Tracks, InOrderOfCalls
<1>7. CASE KeepDot
  BY <1>7 DEF KeepDot, Tracks, InOrderOfCalls
<1>8. CASE UNCHANGED vars
  BY <1>8 DEF vars, Tracks, InOrderOfCalls
<1>9. QED
  BY <1>1, <1>2, <1>3, <1>4, <1>5, <1>6, <1>7, <1>8 DEF Next

LEMMA TracksKeeps ==
  ASSUME Tracks, [Next]_vars
  PROVE  /\ tuned' # tuned => wg'[NextKernel] \in fastest.what
         /\ phase = "dot" /\ phase' = "tuned" => dot' \in fastest.what
<1> USE DEF settings, search
<1>1. CASE KeepSize
  <2>1. wg' = [wg EXCEPT ![NextKernel] = best.what] /\ phase = "stream"
    BY <1>1 DEF KeepSize
  <2>2. NextKernel \in ArrayKernels
    BY <2>1, NextKernelInOrder DEF Tracks
  <2>3. QED
    BY <2>1, <2>2 DEF Tracks
<1>2. CASE KeepDot
  BY <1>2 DEF KeepDot, Tracks
<1>3. CASE StartStream \/ SkipStream \/ TrySize \/ StartDot \/ SkipDot \/ TryDot \/ Restore
  BY <1>3 DEF StartStream, SkipStream, TrySize, StartDot, SkipDot, TryDot, Restore
<1>4. CASE UNCHANGED vars
  BY <1>4 DEF vars
<1>5. QED
  BY <1>1, <1>2, <1>3, <1>4 DEF Next
----------------------------------------------------------------------------
\* What a tuning run keeps was measured, and nothing it measured was faster
\* (autotune_stream_kernels, autotune_dot).
THEOREM TuningKeepsFastest == Spec => KeepsFastest
<1>1. Init => Tracks
  BY TracksInit
<1>2. Tracks /\ [Next]_vars => Tracks'
  BY TracksNext
<1>3. Tracks /\ [Next]_vars =>
        [/\ tuned' # tuned => wg'[NextKernel] \in fastest.what
         /\ phase = "dot" /\ phase' = "tuned" => dot' \in fastest.what]_vars
  BY TracksKeeps
<1>4. QED
  BY <1>1, <1>2, <1>3, PTL DEF Spec, KeepsFastest

\* Whatever was tuned, the benchmark starts from the initial values.
THEOREM TuningStartsFresh == Spec => []StartsFresh
<1>1. Init => Tracks
  BY TracksInit
<1>2. Tracks /\ [Next]_vars => Tracks'
  BY TracksNext
<1>3. Tracks => StartsFresh
  BY DEF Tracks, StartsFresh
<1>4. QED
  BY <1>1, <1>2, <1>3, PTL DEF Spec
----------------------------------------------------------------------------
(* Candidates                                                              *)

\* Induction, over a set of numbers.
LEMMA Induction ==
  ASSUME NEW T, 0 \in T, \A n \in Nat : n \in T => n + 1 \in T
  PROVE  \A n \in Nat : n \in T
<1> DEFINE R == {ss \in Nat \X Nat : ss[1] < ss[2]}
<1>1. SUFFICES ASSUME Nat \ T # {} PROVE FALSE
  OBVIOUS
<1>2. IsWellFoundedOn(R, Nat)
  <2>1. OpToRel(<, Nat) = R
    BY Zenon DEF OpToRel
  <2>2. QED
    BY <2>1, NatLessThanWellFounded, Zenon
<1>3. PICK x \in Nat \ T : \A y \in Nat \ T : <<y, x>> \notin R
  <2> HIDE DEF R
  <2>1. QED BY <1>1, <1>2, WFMin
<1>4. x # 0 /\ x - 1 \in Nat
  OBVIOUS
<1>5. <<x - 1, x>> \in R
  BY <1>4
<1>6. x - 1 \in T
  BY <1>3, <1>4, <1>5
<1>7. x - 1 + 1 = x
  BY <1>4
<1>8. QED
  BY <1>4, <1>6, <1>7

LEMMA FittingType ==
  ASSUME NEW sizes \in Seq(Nat \ {0}), device.max_wg \in Nat
  PROVE  Fitting(sizes) \in Seq(1 .. device.max_wg)
<1> DEFINE S == Seq(1 .. device.max_wg)
<1> DEFINE N == Len(sizes)
<1> DEFINE Keep(i, s) == IF sizes[i] <= device.max_wg THEN Append(s, sizes[i]) ELSE s
<1> DEFINE Body(f) == [i \in 0 .. N |-> IF i = 0 THEN <<>> ELSE Keep(i, f[i - 1])]
<1> DEFINE fit == CHOOSE f : f = Body(f)
<1>1. N \in Nat /\ \A i \in 1 .. N : sizes[i] \in Nat \ {0}
  BY LenProperties, ElementOfSeq
<1>2. \A i \in 1 .. N, s \in S : Keep(i, s) \in S
  <2>1. SUFFICES ASSUME NEW i \in 1 .. N, NEW s \in S PROVE Keep(i, s) \in S
    OBVIOUS
  <2>2. CASE sizes[i] <= device.max_wg
    <3>1. sizes[i] \in 1 .. device.max_wg
      BY <1>1, <2>2
    <3>2. QED
      BY <2>2, <3>1, AppendProperties
  <2>3. QED
    BY <2>2
<1>3. <<>> \in S
  BY EmptySeq
<1> HIDE DEF S, N, Keep
<1>4. \E f \in [0 .. N -> S] : f = Body(f)
  <2> DEFINE T == {n \in Nat : n > N \/ \E f \in [0 .. n -> S] : f[0] = <<>> /\ \A i \in 1 .. n : f[i] = Keep(i, f[i - 1])}
  <2>1. 0 \in T
    <3> DEFINE f == [i \in 0 .. 0 |-> <<>>]
    <3>1. f \in [0 .. 0 -> S] /\ f[0] = <<>> /\ \A i \in 1 .. 0 : f[i] = Keep(i, f[i - 1])
      BY <1>3
    <3> HIDE DEF f
    <3>2. QED
      BY <3>1
  <2>2. ASSUME NEW n \in Nat, n \in T PROVE n + 1 \in T
    <3>1. CASE n + 1 > N
      BY <3>1
    <3>2. CASE n + 1 <= N
      <4>1. PICK f \in [0 .. n -> S] : f[0] = <<>> /\ \A i \in 1 .. n : f[i] = Keep(i, f[i - 1])
        BY <1>1, <2>2, <3>2
      <4> DEFINE g == [i \in 0 .. n + 1 |-> IF i = n + 1 THEN Keep(n + 1, f[n]) ELSE f[i]]
      <4>2. n + 1 \in 1 .. N /\ f[n] \in S
        BY <1>1, <3>2
      <4>3. g \in [0 .. n + 1 -> S]
        BY <1>2, <4>1, <4>2
      <4>4. g[0] = <<>> /\ \A i \in 1 .. n + 1 : g[i] = Keep(i, g[i - 1])
        BY <4>1
      <4> HIDE DEF g
      <4>5. QED
        BY <4>3, <4>4
    <3>3. QED
      BY <1>1, <3>1, <3>2
  <2>3. N \in T
    <3> HIDE DEF T
    <3>1. QED BY <1>1, <2>1, <2>2, Induction
  <2>4. PICK f \in [0 .. N -> S] : f[0] = <<>> /\ \A i \in 1 .. N : f[i] = Keep(i, f[i - 1])
    BY <1>1, <2>3
  <2>5. f = Body(f)
    BY <1>1, <2>4
  <2>6. QED
    BY <2>5
<1>5. fit = Body(fit)
  BY <1>4
<1> HIDE DEF fit
<1>6. fit[N] \in S
  <2> DEFINE T == {n \in Nat : n > N \/ fit[n] \in S}
  <2>1. 0 \in T
    BY <1>1, <1>3, <1>5
  <2>2. ASSUME NEW n \in Nat, n \in T PROVE n + 1 \in T
    BY <1>1, <1>2, <1>5, <2>2
  <2>3. N \in T
    <3> HIDE DEF T
    <3>1. QED BY <1>1, <2>1, <2>2, Induction
  <2>4. QED
    BY <1>1, <2>3
<1>7. Fitting(sizes) = fit[N]
  BY DEF Fitting, fit, N, Keep
<1>8. QED
  BY <1>6, <1>7 DEF S

\* Settings the device accepts, with room for the partial sums.
Accepted ==
  {d \in Setting : /\ d.wg \in 1 .. device.max_wg /\ d.unroll >= 1
                   /\ d.groups \in 1 .. dot_sum_capacity(device)}

LEMMA EnvNumber ==
  ASSUME NEW s \in Systems, NEW name \in Options, NEW fallback \in Nat \ {0}
  PROVE  env_to_size_t(s, name, fallback) \in Nat \ {0}
BY EnvironmentsTyped DEF env_to_size_t

LEMMA SizeFits ==
  ASSUME NEW s \in Systems, NEW name \in Options, NEW fallback \in Nat \ {0}
  PROVE  Size(s, name, fallback) \in 1 .. s.max_wg
BY EnvNumber, TuningConstants DEF Size, Lesser

LEMMA StreamSizeFits ==
  ASSUME NEW s \in Systems
  PROVE  stream_wgsize(s) \in 1 .. s.max_wg
<1>1. s.kind \in Kinds /\ "wg" \in Options
  BY TuningConstants DEF Options
<1>2. QED
  BY <1>1, SizeFits, CandidatesPositive DEF stream_wgsize

LEMMA AtLeastOne ==
  ASSUME NEW x \in Nat, NEW y \in Nat
  PROVE  Greater(1, (x * y) % Word) \in Nat \ {0}
<1>1. x * y \in Nat /\ Word \in Nat \ {0}
  BY CandidatesPositive
<1> DEFINE z == x * y
<1> HIDE DEF z
<1>2. z \in Nat => z % Word \in Nat
  BY <1>1
<1>3. (x * y) % Word \in Nat
  BY <1>1, <1>2 DEF z
<1>4. QED
  BY <1>3 DEF Greater

\* What the constructor configures is accepted.
LEMMA FirstAccepted ==
  ASSUME device \in Systems
  PROVE  /\ FirstDot(device) \in Accepted
         /\ dot_sum_capacity(device) \in Nat \ {0}
         /\ \A k \in ArrayKernels : kernel_wgsize(device, k) \in 1 .. device.max_wg
<1>1. /\ device.kind \in Kinds /\ device.units \in Nat /\ device.max_wg \in Nat \ {0}
      /\ DefaultOf(device.kind).gpc \in Nat \ {0} /\ DefaultOf(device.kind).unroll \in Nat \ {0}
  BY TuningConstants, CandidatesPositive
<1>2. {"dot_wg", "gpc", "unroll", "manual"} \cup ArrayKernels \subseteq Options
  BY DEF Options, DotNames
<1>3. stream_wgsize(device) \in Nat \ {0} /\ stream_wgsize(device) \in 1 .. device.max_wg
  BY <1>1, StreamSizeFits
<1>4. Size(device, "dot_wg", stream_wgsize(device)) \in 1 .. device.max_wg
  BY <1>2, <1>3, SizeFits
<1>5. \A k \in ArrayKernels : kernel_wgsize(device, k) \in 1 .. device.max_wg
  BY <1>2, <1>3, SizeFits DEF kernel_wgsize
<1>6. FirstDot(device).groups \in Nat \ {0}
  <2>1. env_to_size_t(device, "gpc", DefaultOf(device.kind).gpc) \in Nat
    BY <1>1, <1>2, EnvNumber
  <2>2. QED
    BY <1>1, <2>1, AtLeastOne DEF FirstDot, Groups
<1>7. env_to_size_t(device, "unroll", DefaultOf(device.kind).unroll) \in Nat \ {0}
  BY <1>1, <1>2, EnvNumber
<1>8. env_to_bool(device, "manual", device.kind = "intel") \in BOOLEAN
  BY DEF env_to_bool
<1>9. /\ dot_sum_capacity(device) \in Nat \ {0}
      /\ FirstDot(device).groups \in 1 .. dot_sum_capacity(device)
  <2> DEFINE z == Greater(1, device.units) * SumsPerUnit
  <2>1. Greater(1, device.units) \in Nat /\ SumsPerUnit \in Nat /\ Word \in Nat \ {0}
    BY <1>1, CandidatesPositive DEF Greater
  <2>2. z \in Nat
    BY <2>1
  <2> HIDE DEF z
  <2>3. z % Word \in Nat
    BY <2>1, <2>2
  <2>4. dot_sum_capacity(device) = Greater(FirstDot(device).groups, z % Word)
    BY DEF dot_sum_capacity, z
  <2>5. QED
    BY <1>6, <2>3, <2>4 DEF Greater
<1>10. FirstDot(device) \in Setting
  BY <1>1, <1>4, <1>6, <1>7, <1>8 DEF FirstDot, Setting
<1>11. FirstDot(device).wg \in 1 .. device.max_wg /\ FirstDot(device).unroll >= 1
  BY <1>4, <1>7 DEF FirstDot
<1>12. QED
  BY <1>5, <1>9, <1>10, <1>11 DEF Accepted

LEMMA AllowedFit ==
  ASSUME device \in Systems, NEW sizes \in Seq(Nat \ {0})
  PROVE  /\ Allowed(sizes) \in Seq(1 .. device.max_wg)
         /\ Len(Allowed(sizes)) \in Nat \ {0}
<1>1. device.max_wg \in Nat \ {0}
  BY TuningConstants
<1>2. Fitting(sizes) \in Seq(1 .. device.max_wg)
  BY <1>1, FittingType
<1>3. Lesser(device.max_wg, stream_wgsize(device)) \in 1 .. device.max_wg
  BY <1>1, StreamSizeFits DEF Lesser
<1> DEFINE one == Lesser(device.max_wg, stream_wgsize(device))
<1>4. <<one>> \in Seq(1 .. device.max_wg) /\ <<one>> # <<>>
  <2> HIDE DEF one
  <2>1. one \in 1 .. device.max_wg
    BY <1>3 DEF one
  <2>2. QED
    BY <2>1
<1>5. Allowed(sizes) \in Seq(1 .. device.max_wg) /\ Allowed(sizes) # <<>>
  BY <1>2, <1>4 DEF Allowed
<1>6. QED
  BY <1>5, EmptySeq, LenProperties

\* A number below w * g * u names a position in each of the three sequences.
LEMMA Positions ==
  ASSUME NEW w \in Nat \ {0}, NEW g \in Nat \ {0}, NEW u \in Nat \ {0},
         NEW i \in 0 .. (w * g * u) - 1
  PROVE  /\ (i \div (g * u)) + 1 \in 1 .. w
         /\ ((i \div u) % g) + 1 \in 1 .. g
         /\ (i % u) + 1 \in 1 .. u
<1> DEFINE d == g * u
<1>1. d \in Nat \ {0} /\ i < w * d /\ i \in Nat
  <2>1. w * g * u = w * d /\ d \in Nat \ {0}
    OBVIOUS
  <2>2. QED
    BY <2>1
<1>2. (i \div d) + 1 \in 1 .. w
  <2> HIDE DEF d
  <2>1. \A x \in Nat, m \in Nat \ {0}, b \in Nat : x < b * m => x \div m < b /\ x \div m \in Nat
    OBVIOUS
  <2>2. i \div d < w /\ i \div d \in Nat
    BY <1>1, <2>1
  <2>3. QED
    BY <2>2
<1>3. i \div u \in Nat /\ i % u \in 0 .. u - 1
  BY <1>1
<1>4. \A x \in Nat : x % g \in 0 .. g - 1
  OBVIOUS
<1>5. (i \div u) % g \in 0 .. g - 1
  BY <1>3, <1>4
<1>6. QED
  BY <1>2, <1>3, <1>5

LEMMA DotCandidatesAccepted ==
  ASSUME device \in Systems, dot \in Accepted
  PROVE  DotCandidates \in Seq(Accepted)
<1> DEFINE W == Allowed(DotSizes)
<1> DEFINE G == GroupsPerUnit(device.kind)
<1> DEFINE U == Unrolls
<1> DEFINE Manual(i) ==
        [manual |-> TRUE,
         wg     |-> W[(i \div (Len(G) * Len(U))) + 1],
         groups |-> Lesser(dot_sum_capacity(device),
                           Greater(1, (Greater(1, device.units) * G[((i \div Len(U)) % Len(G)) + 1])
                                      % Word)),
         unroll |-> U[(i % Len(U)) + 1]]
<1> DEFINE native == [dot EXCEPT !.manual = FALSE]
<1> DEFINE n == Len(W) * Len(G) * Len(U)
<1> DEFINE manuals == [i \in 1 .. n |-> Manual(i - 1)]
<1>1. /\ W \in Seq(1 .. device.max_wg) /\ Len(W) \in Nat
      /\ G \in Seq(Nat \ {0}) /\ Len(G) \in Nat /\ U \in Seq(Nat \ {0}) /\ Len(U) \in Nat
      /\ device.units \in Nat /\ device.max_wg \in Nat \ {0}
  BY AllowedFit, CandidatesPositive, TuningConstants, LenProperties
<1>2. native \in Accepted
  BY DEF Accepted, Setting
<1>3. n \in Nat
  BY <1>1
<1>4. ASSUME NEW i \in 0 .. n - 1 PROVE Manual(i) \in Accepted
  <2>1. Len(W) \in Nat \ {0} /\ Len(G) \in Nat \ {0} /\ Len(U) \in Nat \ {0}
    <3> DEFINE w == Len(W)
    <3> DEFINE g == Len(G)
    <3> DEFINE u == Len(U)
    <3>1. w \in Nat /\ g \in Nat /\ u \in Nat /\ n = w * g * u
      BY <1>1
    <3> HIDE DEF w, g, u, n
    <3>2. n # 0
      BY <1>3
    <3>3. w # 0 /\ g # 0 /\ u # 0
      BY <3>1, <3>2
    <3>4. QED
      BY <3>1, <3>3 DEF w, g, u
  <2> DEFINE x == (i \div (Len(G) * Len(U))) + 1
  <2> DEFINE y == ((i \div Len(U)) % Len(G)) + 1
  <2> DEFINE z == (i % Len(U)) + 1
  <2>2. x \in 1 .. Len(W) /\ y \in 1 .. Len(G) /\ z \in 1 .. Len(U)
    BY <2>1, Positions
  <2> DEFINE few == Greater(1, (Greater(1, device.units) * G[y]) % Word)
  <2> HIDE DEF W, G, U, x, y, z
  <2>3. W[x] \in 1 .. device.max_wg /\ G[y] \in Nat \ {0} /\ U[z] \in Nat \ {0}
    BY <1>1, <2>2, ElementOfSeq
  <2>4. few \in Nat \ {0}
    <3>1. Greater(1, device.units) \in Nat
      BY <1>1 DEF Greater
    <3>2. QED
      BY <2>3, <3>1, AtLeastOne
  <2>5. Lesser(dot_sum_capacity(device), few) \in 1 .. dot_sum_capacity(device)
    <3> HIDE DEF few
    <3>1. QED BY <2>4, FirstAccepted DEF Lesser
  <2>6. Manual(i) = [manual |-> TRUE, wg |-> W[x],
                     groups |-> Lesser(dot_sum_capacity(device), few), unroll |-> U[z]]
    BY DEF x, y, z, few
  <2>7. dot_sum_capacity(device) \in Nat /\ device.max_wg \in Nat
    BY <1>1, FirstAccepted
  <2> HIDE DEF few, Manual
  <2>8. Manual(i) \in Setting
    BY <2>3, <2>5, <2>6, <2>7 DEF Setting
  <2>9. QED
    BY <2>3, <2>5, <2>6, <2>8 DEF Accepted
<1>5. manuals \in Seq(Accepted)
  <2> HIDE DEF n, Manual
  <2>1. \A i \in 1 .. n : Manual(i - 1) \in Accepted
    BY <1>3, <1>4
  <2>2. manuals \in [1 .. n -> Accepted]
    BY <2>1
  <2> HIDE DEF manuals
  <2>3. QED BY <1>3, <2>2, SeqDef
<1>6. DotCandidates = <<native>> \o manuals
  BY DEF DotCandidates
<1> HIDE DEF native, manuals
<1>7. <<native>> \in Seq(Accepted)
  BY <1>2
<1>8. QED
  BY <1>5, <1>6, <1>7, ConcatProperties
----------------------------------------------------------------------------
(* The sizes in use                                                        *)

\* What makes TypeOK and SizesAccepted inductive: all candidates that are left,
\* and the best so far, are accepted too.
Fits ==
  /\ device \in Systems /\ wg \in [ArrayKernels -> 1 .. device.max_wg] /\ dot \in Accepted
  /\ mem \in Cell /\ phase \in {"configured", "stream", "between", "dot", "tuned", "ready"}
  /\ phase = "stream" => /\ best.what \in 1 .. device.max_wg
                         /\ left \in Seq(1 .. device.max_wg)
  /\ phase = "dot" => best.what \in Accepted /\ left \in Seq(Accepted)

LEMMA CellValues ==
  /\ StartCell \in Cell /\ Zeros \in Cell /\ Ones \in Cell
  /\ \A k \in ArrayKernels, x \in Cell : Apply(k, x) \in Cell
<1>1. StartCell \in Cell /\ Zeros \in Cell /\ Ones \in Cell
  <2>1. {startA, startB, startC, OfInt(0), OfInt(1), OfInt(2)} \subseteq Val
    BY ValuesClosed, TuningConstants
  <2>2. QED
    BY <2>1 DEF StartCell, Zeros, Ones, Cell
<1>2. ASSUME NEW k \in ArrayKernels, NEW x \in Cell PROVE Apply(k, x) \in Cell
  <2>1. Written(k, x) \in Val
    BY ValuesClosed DEF Written, ArrayKernels, Cell
  <2>2. Target(k) \in {"a", "b", "c"}
    BY DEF Target
  <2>3. QED
    BY <2>1, <2>2 DEF Apply, Cell
<1>3. QED
  BY <1>1, <1>2

LEMMA FitsInit == Init => Fits
<1>1. SUFFICES ASSUME Init PROVE Fits
  OBVIOUS
<1>2. device \in Systems /\ wg = [k \in ArrayKernels |-> kernel_wgsize(device, k)]
      /\ dot = FirstDot(device) /\ mem = StartCell /\ phase = "configured"
  BY <1>1 DEF Init
<1>3. QED
  BY <1>2, FirstAccepted, CellValues DEF Fits

\* A search starts with candidates, and from what is in use.
LEMMA FitsStream ==
  ASSUME Fits, device' = device, NEW k \in ArrayKernels, Search(wg[k], Allowed(StreamSizes))
  PROVE  best'.what \in 1 .. device'.max_wg /\ left' \in Seq(1 .. device'.max_wg)
BY AllowedFit, CandidatesPositive DEF Fits, Search

LEMMA MeasureFits ==
  ASSUME NEW S, left \in Seq(S), left # <<>>, best.what \in S,
         NEW t, Measure(Head(left), t)
  PROVE  left' \in Seq(S) /\ best'.what \in S /\ Head(left) \in S
<1>1. Head(left) \in S /\ Tail(left) \in Seq(S)
  BY HeadTailProperties
<1>2. QED
  BY <1>1 DEF Measure

LEMMA FitsNext == ASSUME Tracks, Fits, [Next]_vars PROVE Fits'
<1> USE DEF settings, search
<1>1. device' = device /\ Accepted' = Accepted
  <2>1. device' = device
    BY DEF Next, vars, StartStream, SkipStream, TrySize, KeepSize, StartDot, SkipDot, TryDot, KeepDot, Restore
  <2>2. QED
    BY <2>1 DEF Accepted, dot_sum_capacity, FirstDot, Groups, Size, stream_wgsize
<1>2. CASE StartStream
  <2>1. /\ Search(wg[NextKernel], Allowed(StreamSizes)) /\ phase' = "stream" /\ mem' = Zeros
        /\ wg' = wg /\ dot' = dot /\ phase = "configured"
    BY <1>2 DEF StartStream
  <2>2. NextKernel \in ArrayKernels
    BY <2>1 DEF Tracks, NextKernel, ArrayKernels
  <2>3. QED
    BY <1>1, <2>1, <2>2, FitsStream, CellValues DEF Fits
<1>3. CASE SkipStream \/ SkipDot
  BY <1>1, <1>3 DEF SkipStream, SkipDot, Fits
<1>4. CASE TrySize
  <2>1. /\ phase = "stream" /\ phase' = phase /\ dot' = dot /\ left # <<>>
        /\ wg' = [wg EXCEPT ![NextKernel] = Head(left)] /\ mem' = Apply(NextKernel, mem)
        /\ \E t \in Averages : Measure(Head(left), t)
    BY <1>4 DEF TrySize
  <2>2. NextKernel \in ArrayKernels
    BY <2>1, NextKernelInOrder DEF Tracks
  <2>3. /\ best.what \in 1 .. device.max_wg /\ left \in Seq(1 .. device.max_wg)
        /\ wg \in [ArrayKernels -> 1 .. device.max_wg]
    BY <2>1 DEF Fits
  <2>4. /\ left' \in Seq(1 .. device.max_wg) /\ best'.what \in 1 .. device.max_wg
        /\ Head(left) \in 1 .. device.max_wg
    BY <2>1, <2>3, MeasureFits
  <2>5. wg' \in [ArrayKernels -> 1 .. device.max_wg]
    BY <2>1, <2>2, <2>3, <2>4
  <2>6. QED
    BY <1>1, <2>1, <2>2, <2>4, <2>5, CellValues DEF Fits
<1>5. CASE KeepSize
  <2>1. /\ phase = "stream" /\ wg' = [wg EXCEPT ![NextKernel] = best.what]
        /\ tuned' = tuned \cup {NextKernel} /\ dot' = dot /\ mem' = mem
    BY <1>5 DEF KeepSize
  <2>2. wg' \in [ArrayKernels -> 1 .. device.max_wg]
    BY <2>1 DEF Fits
  <2>3. CASE tuned' = ArrayKernels
    BY <1>1, <1>5, <2>1, <2>2, <2>3 DEF KeepSize, Fits
  <2>4. CASE tuned' # ArrayKernels
    <3>1. phase' = "stream" /\ Search(wg[NextKernel'], Allowed(StreamSizes))
      BY <1>5, <2>1, <2>4 DEF KeepSize
    <3>2. NextKernel' \in ArrayKernels
      <4>1. tuned' \in {{"Copy"}, {"Copy", "Mul"}, {"Copy", "Mul", "Add"},
                        {"Copy", "Mul", "Add", "Triad"}, ArrayKernels}
        BY <2>1, NextKernelInOrder DEF Tracks
      <4>2. QED
        BY <2>4, <4>1 DEF NextKernel, ArrayKernels
    <3>3. QED
      BY <1>1, <2>1, <2>2, <3>1, <3>2, FitsStream DEF Fits
  <2>5. QED
    BY <2>3, <2>4
<1>6. CASE StartDot
  <2>1. Search(dot, DotCandidates) /\ phase' = "dot" /\ mem' = Ones /\ wg' = wg /\ dot' = dot
    BY <1>6 DEF StartDot
  <2>2. left' \in Seq(Accepted) /\ best'.what \in Accepted
    BY <2>1, DotCandidatesAccepted DEF Search, Fits
  <2>3. QED
    BY <1>1, <2>1, <2>2, CellValues DEF Fits
<1>7. CASE TryDot
  <2>1. /\ phase = "dot" /\ phase' = phase /\ wg' = wg /\ mem' = mem /\ left # <<>>
        /\ dot' = Head(left) /\ \E t \in Averages : Measure(Head(left), t)
    BY <1>7 DEF TryDot
  <2>2. best.what \in Accepted /\ left \in Seq(Accepted)
    BY <2>1 DEF Fits
  <2>3. left' \in Seq(Accepted) /\ best'.what \in Accepted /\ dot' \in Accepted
    BY <2>1, <2>2, MeasureFits
  <2>4. QED
    BY <1>1, <2>1, <2>3 DEF Fits
<1>8. CASE KeepDot
  BY <1>1, <1>8 DEF KeepDot, Fits
<1>9. CASE Restore
  BY <1>1, <1>9, CellValues DEF Restore, RestoredCell, Fits
<1>10. CASE UNCHANGED vars
  BY <1>1, <1>10 DEF vars, Fits
<1>11. QED
  BY <1>2, <1>3, <1>4, <1>5, <1>6, <1>7, <1>8, <1>9, <1>10 DEF Next

LEMMA TuningFits == Spec => [](Tracks /\ Fits)
<1>1. Init => Tracks /\ Fits
  BY TracksInit, FitsInit
<1>2. Tracks /\ Fits /\ [Next]_vars => (Tracks /\ Fits)'
  BY TracksNext, FitsNext
<1>3. QED
  BY <1>1, <1>2, PTL DEF Spec

\* Every variable of the tuning has its type.
THEOREM TuningTypes == Spec => []TypeOK
<1>1. Tracks /\ Fits => TypeOK
  <2>1. SUFFICES ASSUME Tracks, Fits PROVE TypeOK
    OBVIOUS
  <2>2. device.max_wg \in Nat
    BY <2>1, TuningConstants DEF Fits
  <2>3. wg \in [ArrayKernels -> Nat] /\ dot \in Setting
    BY <2>1, <2>2 DEF Fits, Accepted
  <2>4. phase = "stream" => best.what \in Nat /\ \A i \in DOMAIN left : left[i] \in Nat
    BY <2>1, <2>2, LenProperties, ElementOfSeq DEF Fits
  <2>5. phase = "dot" => best.what \in Setting /\ \A i \in DOMAIN left : left[i] \in Setting
    <3>1. Accepted \subseteq Setting
      BY DEF Accepted
    <3> HIDE DEF Accepted
    <3>2. QED
      BY <2>1, <3>1, LenProperties, ElementOfSeq DEF Fits
  <2>6. tuned \subseteq ArrayKernels
    BY <2>1 DEF Tracks, InOrderOfCalls, ArrayKernels
  <2>7. QED
    BY <2>1, <2>3, <2>4, <2>5, <2>6 DEF Tracks, Fits, TypeOK
<1>2. QED
  BY <1>1, TuningFits, PTL

\* On every device, and whatever the environment says, the sizes of all launches
\* are accepted and a reduction has room for its partial sums, during the tuning
\* and after it.
THEOREM TuningSizesAccepted == Spec => []SizesAccepted
<1>1. Fits => SizesAccepted
  BY DEF Fits, Accepted, SizesAccepted
<1>2. QED
  BY <1>1, TuningFits, PTL
=============================================================================
