---------------------------- MODULE BackendProofs ----------------------------
(***************************************************************************)
(* What SessionProofs asks of the methods of a backend holds of those of   *)
(* the repository's, in all their builds: they wait for what they submit,  *)
(* they select the device before they place anything on one, their         *)
(* constructors check what a machine may lack, and they compute what       *)
(* Stream.h promises.                                                      *)
(*                                                                         *)
(* Methods are made of others with \o, and so are the facts about them.    *)
(***************************************************************************)
EXTENDS SessionProofs, CppBackends

IsSeq(s) == s \in Seq(Range(s))

\* Every submission is followed by a wait, with no check in between.
Awaits(s) ==
  \A i \in DOMAIN s : s[i].do = "submit" =>
    \E j \in DOMAIN s : /\ i < j /\ s[j].do = "wait"
                        /\ \A k \in DOMAIN s : i < k /\ k < j => s[k].do # "check"

\* What every method is, but for the constructor and one reduction.
Plain(s) == IsSeq(s) /\ Awaits(s) /\ NeverChecks(s) /\ NeverSelects(s)
----------------------------------------------------------------------------
(* Concatenation                                                           *)

LEMMA Joined ==
  ASSUME NEW s, NEW t, IsSeq(s), IsSeq(t), NEW r, r = s \o t
  PROVE  /\ IsSeq(r) /\ Len(s) \in Nat /\ Len(t) \in Nat
         /\ DOMAIN s = 1 .. Len(s) /\ DOMAIN t = 1 .. Len(t) /\ DOMAIN r = 1 .. Len(s) + Len(t)
         /\ \A i \in DOMAIN s : r[i] = s[i]
         /\ \A i \in DOMAIN t : r[i + Len(s)] = t[i]
<1> DEFINE S == Range(s) \cup Range(t)
<1>1. s \in Seq(S) /\ t \in Seq(S)
  BY SeqMonotonic DEF IsSeq
<1> HIDE DEF S
<1>2. Len(s) \in Nat /\ Len(t) \in Nat /\ DOMAIN s = 1 .. Len(s) /\ DOMAIN t = 1 .. Len(t)
  BY <1>1, LenProperties
<1>3. /\ r \in Seq(S) /\ Len(r) = Len(s) + Len(t)
      /\ \A i \in 1 .. Len(s) + Len(t) : r[i] = IF i <= Len(s) THEN s[i] ELSE t[i - Len(s)]
  BY <1>1, ConcatProperties
<1>4. DOMAIN r = 1 .. Len(s) + Len(t)
  BY <1>3, LenProperties
<1>5. IsSeq(r)
  BY <1>3, InRange DEF IsSeq
<1>6. \A i \in DOMAIN s : r[i] = s[i]
  BY <1>2, <1>3
<1>7. ASSUME NEW i \in DOMAIN t PROVE r[i + Len(s)] = t[i]
  <2>1. i + Len(s) \in 1 .. Len(s) + Len(t) /\ ~(i + Len(s) <= Len(s)) /\ (i + Len(s)) - Len(s) = i
    BY <1>2
  <2>2. QED
    BY <1>3, <2>1
<1>8. QED
  BY <1>2, <1>4, <1>5, <1>6, <1>7

\* A step of s \o t is one of s or, later, one of t.
LEMMA Place ==
  ASSUME NEW s, NEW t, IsSeq(s), IsSeq(t), NEW r, r = s \o t, NEW i \in DOMAIN r
  PROVE  \/ i \in DOMAIN s /\ r[i] = s[i]
         \/ /\ i > Len(s) /\ i - Len(s) \in DOMAIN t /\ r[i] = t[i - Len(s)]
<1>1. CASE i <= Len(s)
  BY <1>1, Joined
<1>2. CASE i > Len(s)
  <2>1. i - Len(s) \in DOMAIN t /\ (i - Len(s)) + Len(s) = i
    BY <1>2, Joined
  <2>2. QED
    BY <1>2, <2>1, Joined
<1>3. QED
  BY <1>1, <1>2, Joined

LEMMA NeverJoined ==
  ASSUME NEW s, NEW t, IsSeq(s), IsSeq(t)
  PROVE  /\ NeverChecks(s) /\ NeverChecks(t) => NeverChecks(s \o t)
         /\ NeverSelects(s) /\ NeverSelects(t) => NeverSelects(s \o t)
         /\ NeverPlaces(s) /\ NeverPlaces(t) => NeverPlaces(s \o t)
<1> DEFINE r == s \o t
<1>1. \A i \in DOMAIN r : \/ i \in DOMAIN s /\ r[i] = s[i]
                          \/ i - Len(s) \in DOMAIN t /\ r[i] = t[i - Len(s)]
  BY Place
<1> HIDE DEF r
<1>2. NeverChecks(s) /\ NeverChecks(t) => NeverChecks(r)
  BY <1>1 DEF NeverChecks
<1>3. NeverSelects(s) /\ NeverSelects(t) => NeverSelects(r)
  BY <1>1 DEF NeverSelects
<1>4. NeverPlaces(s) /\ NeverPlaces(t) => NeverPlaces(r)
  BY <1>1 DEF NeverPlaces
<1>5. QED
  BY <1>2, <1>3, <1>4 DEF r

LEMMA AwaitsJoined ==
  ASSUME NEW s, NEW t, IsSeq(s), IsSeq(t), Awaits(s), Awaits(t), NEW r, r = s \o t
  PROVE  Awaits(r)
<1> DEFINE n == Len(s)
<1>1. SUFFICES ASSUME NEW i \in DOMAIN r, r[i].do = "submit"
               PROVE  \E j \in DOMAIN r : /\ i < j /\ r[j].do = "wait"
                                          /\ \A k \in DOMAIN r : i < k /\ k < j => r[k].do # "check"
  BY DEF Awaits
<1>2. /\ n \in Nat /\ Len(t) \in Nat /\ DOMAIN s = 1 .. n /\ DOMAIN t = 1 .. Len(t)
      /\ DOMAIN r = 1 .. n + Len(t)
      /\ \A k \in DOMAIN s : r[k] = s[k]
      /\ \A k \in DOMAIN t : r[k + n] = t[k]
  BY Joined, SMTT(20)
<1> HIDE DEF n
<1>3. CASE i \in DOMAIN s
  <2>1. PICK j \in DOMAIN s : /\ i < j /\ s[j].do = "wait"
                             /\ \A k \in DOMAIN s : i < k /\ k < j => s[k].do # "check"
    BY <1>1, <1>2, <1>3 DEF Awaits
  <2>2. j \in DOMAIN r /\ r[j].do = "wait"
    BY <1>2, <2>1
  <2>3. ASSUME NEW k \in DOMAIN r, i < k, k < j PROVE r[k].do # "check"
    <3>1. k \in DOMAIN s
      BY <1>2, <2>1, <2>3
    <3>2. QED
      BY <1>2, <2>1, <2>3, <3>1
  <2>4. QED
    BY <2>1, <2>2, <2>3
<1>4. CASE i \notin DOMAIN s
  <2> DEFINE h == i - n
  <2>1. h \in DOMAIN t /\ h + n = i
    BY <1>2, <1>4
  <2> HIDE DEF h
  <2>2. t[h].do = "submit"
    BY <1>1, <1>2, <2>1
  <2>3. PICK j \in DOMAIN t : /\ h < j /\ t[j].do = "wait"
                             /\ \A k \in DOMAIN t : h < k /\ k < j => t[k].do # "check"
    BY <2>1, <2>2 DEF Awaits
  <2>4. j + n \in DOMAIN r /\ r[j + n].do = "wait" /\ i < j + n
    BY <1>2, <2>1, <2>3, SMTT(20)
  <2>5. ASSUME NEW k \in DOMAIN r, i < k, k < j + n PROVE r[k].do # "check"
    <3>1. k - n \in DOMAIN t /\ (k - n) + n = k /\ h < k - n /\ k - n < j
      BY <1>2, <2>1, <2>3, <2>5
    <3>2. QED
      BY <1>2, <2>3, <3>1
  <2>6. QED
    BY <2>4, <2>5
<1>5. QED
  BY <1>3, <1>4

LEMMA PlainJoined ==
  ASSUME NEW s, NEW t, Plain(s), Plain(t)
  PROVE  Plain(s \o t)
BY Joined, NeverJoined, AwaitsJoined DEF Plain

\* A wait ends everything before it.
LEMMA WaitJoined ==
  ASSUME NEW s, IsSeq(s), NeverChecks(s), NEW t, IsSeq(t), Awaits(t), NeverChecks(t),
         NEW j \in DOMAIN t, t[j].do = "wait", NEW r, r = s \o t
  PROVE  Awaits(r)
<1> DEFINE n == Len(s)
<1>1. /\ n \in Nat /\ Len(t) \in Nat /\ DOMAIN s = 1 .. n /\ DOMAIN t = 1 .. Len(t)
      /\ DOMAIN r = 1 .. n + Len(t)
      /\ \A k \in DOMAIN s : r[k] = s[k]
      /\ \A k \in DOMAIN t : r[k + n] = t[k]
  BY Joined
<1>2. \A k \in DOMAIN r : r[k].do # "check"
  BY NeverJoined DEF NeverChecks
<1> HIDE DEF n
<1>3. SUFFICES ASSUME NEW i \in DOMAIN r, r[i].do = "submit"
               PROVE  \E h \in DOMAIN r : i < h /\ r[h].do = "wait"
  BY <1>2 DEF Awaits
<1>4. CASE i \in DOMAIN s
  <2>1. j + n \in DOMAIN r /\ i < j + n /\ r[j + n].do = "wait"
    BY <1>1, <1>4
  <2>2. QED
    BY <2>1
<1>5. CASE i \notin DOMAIN s
  <2> DEFINE g == i - n
  <2>1. g \in DOMAIN t /\ g + n = i
    BY <1>1, <1>5
  <2> HIDE DEF g
  <2>2. PICK h \in DOMAIN t : g < h /\ t[h].do = "wait"
    BY <1>1, <1>3, <2>1 DEF Awaits
  <2>3. h + n \in DOMAIN r /\ i < h + n /\ r[h + n].do = "wait"
    BY <1>1, <2>1, <2>2, SMTT(20)
  <2>4. QED
    BY <2>3
<1>6. QED
  BY <1>4, <1>5

LEMMA AwaitsDrains == ASSUME NEW s, IsSeq(s), Awaits(s) PROVE Drains(s)
<1>1. SUFFICES ASSUME NEW i \in DOMAIN s, s[i].do = "submit"
               PROVE  AwaitedFrom(s[i].op, s, i + 1)
  BY DEF Drains
<1>2. DOMAIN s = 1 .. Len(s) /\ Len(s) \in Nat
  BY LenProperties DEF IsSeq
<1>3. PICK j \in DOMAIN s : /\ i < j /\ s[j].do = "wait"
                           /\ \A k \in DOMAIN s : i < k /\ k < j => s[k].do # "check"
  BY <1>1 DEF Awaits
<1>4. i + 1 <= j /\ \A k \in DOMAIN s : i + 1 <= k /\ k < j => s[k].do # "check"
  BY <1>2, <1>3
<1>5. QED
  BY <1>3, <1>4 DEF AwaitedFrom
----------------------------------------------------------------------------
(* The steps                                                               *)

\* A step that needs no wait, throws nothing and selects nothing.
Quiet(x) == x.do \notin {"submit", "check", "select"}

LEMMA Tuples ==
  /\ IsSeq(<<>>)
  /\ \A x : IsSeq(<<x>>)
  /\ \A x, y : IsSeq(<<x, y>>)
  /\ \A x, y, z : IsSeq(<<x, y, z>>)
  /\ \A x, y, z, u : IsSeq(<<x, y, z, u>>)
  /\ \A x, y, z, u, v : IsSeq(<<x, y, z, u, v>>)
  /\ \A x, y, z, u, v, w : IsSeq(<<x, y, z, u, v, w>>)
BY DEF IsSeq, Range

LEMMA QuietTuples ==
  /\ Plain(<<>>)
  /\ \A x : Quiet(x) => Plain(<<x>>)
  /\ \A x, y : Quiet(x) /\ Quiet(y) => Plain(<<x, y>>)
  /\ \A x, y, z : Quiet(x) /\ Quiet(y) /\ Quiet(z) => Plain(<<x, y, z>>)
  /\ \A x, y, z, u : Quiet(x) /\ Quiet(y) /\ Quiet(z) /\ Quiet(u) => Plain(<<x, y, z, u>>)
  /\ \A x, y, z, u, v :
       Quiet(x) /\ Quiet(y) /\ Quiet(z) /\ Quiet(u) /\ Quiet(v) => Plain(<<x, y, z, u, v>>)
BY Tuples DEF Quiet, Plain, Awaits, NeverChecks, NeverSelects

LEMMA QuietSteps ==
  /\ \A xs, by : Quiet(Acquire(xs, by)) /\ Quiet(AcquireOn(xs, by)) /\ Quiet(Release(xs, by))
  /\ \A xs : Quiet(Retain(xs)) /\ Quiet(Access(xs)) /\ Quiet(Leave(xs))
  /\ \A x, y : Quiet(Rename(x, y))
  /\ \A x : Quiet(List(x)) /\ Quiet(Run(x)) /\ Quiet(ReturnSum(x)) /\ Quiet(HandOut(x))
  /\ Quiet(Wait)
BY DEF Quiet, Acquire, AcquireOn, Release, Retain, Access, Leave, Rename, List, Run, ReturnSum,
       HandOut, Wait

LEMMA WorkPlain ==
  /\ \A op : Plain(<<Submit(op), Wait>>) /\ Plain(Blockingly(op))
  /\ \A x, s : Plain(s) => Plain(WithLocal(x, s))
<1>1. \A op : Plain(<<Submit(op), Wait>>)
  BY Tuples DEF Plain, Awaits, NeverChecks, NeverSelects, Submit, Wait
<1>2. \A x, s : Plain(s) => Plain(WithLocal(x, s))
  BY QuietSteps, QuietTuples, PlainJoined DEF WithLocal
<1>3. QED
  BY <1>1, <1>2 DEF Blockingly

LEMMA WorkAwaited ==
  ASSUME NEW s, IsSeq(s), NeverChecks(s), NeverSelects(s), NEW op
  PROVE  Plain(s \o <<Wait>>) /\ Plain(s \o <<Submit(op), Wait>>)
<1>1. Plain(<<Wait>>) /\ <<Wait>>[1].do = "wait" /\ 1 \in DOMAIN <<Wait>>
  BY QuietSteps, QuietTuples DEF Wait
<1>2. Plain(<<Submit(op), Wait>>) /\ <<Submit(op), Wait>>[2].do = "wait" /\ 2 \in DOMAIN <<Submit(op), Wait>>
  BY WorkPlain DEF Wait
<1>3. Plain(s \o <<Wait>>)
  BY <1>1, Joined, NeverJoined, WaitJoined DEF Plain
<1>4. Plain(s \o <<Submit(op), Wait>>)
  BY <1>2, Joined, NeverJoined, WaitJoined DEF Plain
<1>5. QED
  BY <1>3, <1>4

\* And what the constructor is.
Building(s) == IsSeq(s) /\ Awaits(s)

\* What holds of all methods but the constructor, and of the constructor too.
WellBehaved(stream) ==
  /\ \A k \in ArrayKernels : Plain(stream.kernel[k])
  /\ Plain(stream.list) /\ Plain(stream.get_arrays) /\ Plain(stream.destroy)
  /\ Drains(stream.Dot) /\ NeverChecks(stream.Dot) /\ NeverSelects(stream.Dot)
  /\ NeverPlaces(stream.list)
  /\ Building(stream.construct)

LEMMA BuildJoined ==
  ASSUME NEW s, NEW t, Building(s), Building(t)
  PROVE  Building(s \o t)
BY Joined, AwaitsJoined DEF Building

\* Steps of a constructor that submit nothing.
LEMMA IdleTuples ==
  /\ Building(<<>>)
  /\ \A x : x.do # "submit" => Building(<<x>>)
  /\ \A x, y : x.do # "submit" /\ y.do # "submit" => Building(<<x, y>>)
  /\ \A x, y, z : x.do # "submit" /\ y.do # "submit" /\ z.do # "submit" => Building(<<x, y, z>>)
  /\ \A x, y, z, u :
       x.do # "submit" /\ y.do # "submit" /\ z.do # "submit" /\ u.do # "submit" => Building(<<x, y, z, u>>)
  /\ \A x, y, z, u, v, w :
       /\ x.do # "submit" /\ y.do # "submit" /\ z.do # "submit"
       /\ u.do # "submit" /\ v.do # "submit" /\ w.do # "submit"
       => Building(<<x, y, z, u, v, w>>)
BY Tuples DEF Building, Awaits

LEMMA IdleSteps ==
  /\ Select.do # "submit" /\ \A why : Check(why).do # "submit"
  /\ \A x : Quiet(x) => x.do # "submit"
BY DEF Select, Check, Quiet

LEMMA PlainFacts ==
  ASSUME NEW s, Plain(s)
  PROVE  Building(s) /\ NeverChecks(s) /\ NeverSelects(s) /\ Drains(s)
BY AwaitsDrains DEF Plain, Building

LEMMA EmptyPlaces == NeverPlaces(<<>>)
BY DEF NeverPlaces
----------------------------------------------------------------------------
(* Loops                                                                   *)

LEMMA OmpLoopPlain == ASSUME NEW b, NEW op PROVE Plain(OmpLoop(b, op))
<1>1. IsSeq(<<Submit(op)>>) /\ NeverChecks(<<Submit(op)>>) /\ NeverSelects(<<Submit(op)>>)
  BY Tuples DEF NeverChecks, NeverSelects, Submit
<1>2. QED
  BY <1>1, WorkAwaited, WorkPlain DEF OmpLoop, OmpUpdate, Blockingly

LEMMA OmpWellBehaved == ASSUME NEW b PROVE WellBehaved(OmpStream(b))
<1>1. \A op : Plain(OmpLoop(b, op))
  BY OmpLoopPlain
<1>2. \A k \in ArrayKernels : Plain(OmpKernel(b, k))
  BY <1>1 DEF OmpKernel
<1>3. Plain(OmpDot(b))
  BY QuietSteps, QuietTuples, WorkPlain, PlainJoined DEF OmpDot
<1>4. Plain(OmpGetArrays(b)) /\ Plain(OmpDestroy(b))
  BY QuietSteps, QuietTuples, WorkPlain, PlainJoined DEF OmpGetArrays, OmpDestroy, OmpUpdate
<1>5. Plain(OmpListDevices) /\ NeverPlaces(OmpListDevices)
  BY QuietTuples, EmptyPlaces DEF OmpListDevices
<1>6. Building(OmpConstruct(b))
  BY <1>1, IdleTuples, IdleSteps, QuietSteps, BuildJoined, PlainFacts DEF OmpConstruct, OmpInit
<1>7. QED
  BY <1>2, <1>3, <1>4, <1>5, <1>6, PlainFacts DEF WellBehaved, OmpStream

LEMMA AccWellBehaved == WellBehaved(AccStream)
<1>1. /\ \A k \in ArrayKernels : Plain(AccKernel(k))
      /\ Plain(AccDot) /\ Plain(AccGetArrays) /\ Plain(AccDestroy) /\ Plain(AccListDevices)
  BY QuietSteps, QuietTuples, WorkPlain, PlainJoined
     DEF AccKernel, AccDot, AccGetArrays, AccDestroy, AccListDevices
<1>2. Building(AccConstruct)
  BY IdleTuples, IdleSteps, QuietSteps, WorkPlain, BuildJoined, PlainFacts DEF AccConstruct, AccInit
<1>3. QED
  BY <1>1, <1>2, EmptyPlaces, PlainFacts DEF WellBehaved, AccStream, AccListDevices

LEMMA KokkosWellBehaved == WellBehaved(KokkosStream)
<1>1. /\ \A k \in ArrayKernels : Plain(KokkosKernel(k))
      /\ Plain(KokkosDot) /\ Plain(KokkosGetArrays) /\ Plain(KokkosDestroy) /\ Plain(<<>>)
  BY QuietSteps, QuietTuples, WorkPlain, PlainJoined
     DEF KokkosKernel, KokkosFenced, KokkosDot, KokkosGetArrays, KokkosDestroy
<1>2. Building(KokkosConstruct)
  BY IdleTuples, IdleSteps, QuietSteps, WorkPlain, BuildJoined, PlainFacts
     DEF KokkosConstruct, KokkosInit, KokkosFenced
<1>3. QED
  BY <1>1, <1>2, EmptyPlaces, PlainFacts DEF WellBehaved, KokkosStream

LEMMA RajaWellBehaved == ASSUME NEW b PROVE WellBehaved(RajaStream(b))
<1>1. /\ \A k \in ArrayKernels : Plain(RajaKernel(k))
      /\ Plain(RajaDot) /\ Plain(RajaGetArrays) /\ Plain(RajaDestroy(b)) /\ Plain(<<>>)
  BY QuietSteps, QuietTuples, WorkPlain, PlainJoined DEF RajaKernel, RajaDot, RajaGetArrays, RajaDestroy
<1>2. Building(RajaConstruct(b))
  BY IdleTuples, IdleSteps, QuietSteps, WorkPlain, BuildJoined, PlainFacts DEF RajaConstruct, RajaInit
<1>3. QED
  BY <1>1, <1>2, EmptyPlaces, PlainFacts DEF WellBehaved, RajaStream

LEMMA TbbWellBehaved == ASSUME NEW b PROVE WellBehaved(TbbStream(b))
<1>1. /\ \A k \in ArrayKernels : Plain(TbbKernel(k))
      /\ Plain(TbbDot) /\ Plain(TbbGetArrays) /\ Plain(TbbDestroy(b)) /\ Plain(<<>>)
  BY QuietSteps, QuietTuples, WorkPlain, PlainJoined DEF TbbKernel, TbbDot, TbbGetArrays, TbbDestroy
<1>2. Building(TbbConstruct(b))
  BY IdleTuples, IdleSteps, QuietSteps, WorkPlain, BuildJoined, PlainFacts DEF TbbConstruct, TbbInit
<1>3. QED
  BY <1>1, <1>2, EmptyPlaces, PlainFacts DEF WellBehaved, TbbStream

LEMMA StdConstructPlain == ASSUME NEW b PROVE Plain(StdConstruct(b))
<1>1. Plain(alloc_raw(b))
  BY QuietSteps, QuietTuples DEF alloc_raw
<1>2. Plain(StdInit)
  BY WorkPlain, PlainJoined DEF StdInit
<1>3. QED
  BY <1>1, <1>2, PlainJoined DEF StdConstruct

LEMMA StdWellBehaved == ASSUME NEW b PROVE WellBehaved(StdStream(b))
<1>1. \A k \in ArrayKernels : Plain(StdStream(b).kernel[k])
  BY WorkPlain, PlainJoined DEF StdStream, StdKernel, StdNstream
<1>2. Plain(StdDot) /\ Plain(StdGetArrays) /\ Plain(StdDestroy(b)) /\ Plain(<<>>)
  BY QuietSteps, QuietTuples, WorkPlain, PlainJoined DEF StdDot, StdGetArrays, StdDestroy, dealloc_raw
<1>3. QED
  BY <1>1, <1>2, StdConstructPlain, EmptyPlaces, PlainFacts DEF WellBehaved, StdStream

LEMMA FutharkWellBehaved == ASSUME NEW b PROVE WellBehaved(FutharkStream(b))
<1>1. \A x, value : Plain(FutharkEntry(x, value))
  BY Tuples DEF FutharkEntry, Plain, Awaits, NeverChecks, NeverSelects, Release, AcquireOn, Submit, Wait
<1>2. Plain(FutharkNstream)
  <2>1. IsSeq(FutharkNstream)
    BY Tuples DEF FutharkNstream
  <2>2. QED
    BY <2>1 DEF FutharkNstream, Plain, Awaits, NeverChecks, NeverSelects, Release, AcquireOn, Submit,
                Rename, Wait
<1>3. \A k \in ArrayKernels : Plain(FutharkStream(b).kernel[k])
  BY <1>1, <1>2 DEF FutharkStream, FutharkTriad, FutharkKernel
<1>4. Plain(FutharkDot) /\ Plain(FutharkDestroy) /\ Plain(<<>>)
  BY QuietSteps, QuietTuples, WorkPlain, PlainJoined DEF FutharkDot, FutharkDestroy
<1>5. Plain(FutharkGetArrays)
  BY Tuples DEF FutharkGetArrays, Plain, Awaits, NeverChecks, NeverSelects, Acquire, Submit, Wait, HandOut
<1>6. Building(FutharkInit)
  <2>1. IsSeq(FutharkInit)
    BY Tuples DEF FutharkInit
  <2>2. QED
    BY <2>1 DEF FutharkInit, Building, Awaits, Acquire, Run, AcquireOn, Submit, Wait, Release
<1>7. Building(FutharkConstruct)
  BY <1>6, IdleTuples, IdleSteps, QuietSteps, BuildJoined DEF FutharkConstruct
<1>8. QED
  BY <1>3, <1>4, <1>5, <1>7, EmptyPlaces, PlainFacts DEF WellBehaved, FutharkStream
----------------------------------------------------------------------------
(* Queues                                                                  *)

LEMMA CudaWellBehaved == ASSUME NEW b PROVE WellBehaved(CudaStream(b))
<1>1. \A k \in ArrayKernels : Plain(CudaKernel(k))
  BY WorkPlain DEF CudaKernel, for_each
<1>2. Plain(CudaDot)
  BY Tuples DEF CudaDot, Plain, Awaits, NeverChecks, NeverSelects, Submit, Wait, ReturnSum
<1>3. Plain(CudaGetArrays(b)) /\ Plain(CudaDestroy(b)) /\ Plain(CudaListDevices)
  BY QuietSteps, QuietTuples, PlainJoined
     DEF CudaGetArrays, CudaDestroy, CudaListDevices, free_device, free_host, OwnVectors
<1>4. Building(CudaConstruct(b))
  BY IdleTuples, IdleSteps, QuietSteps, WorkPlain, BuildJoined, PlainFacts
     DEF CudaConstruct, CudaDeviceDriver, alloc_device, alloc_host, CudaInit, for_each
<1>5. QED
  BY <1>1, <1>2, <1>3, <1>4, EmptyPlaces, PlainFacts DEF WellBehaved, CudaStream, CudaListDevices

LEMMA HipWellBehaved == ASSUME NEW b PROVE WellBehaved(HipStream(b))
<1>1. \A k \in ArrayKernels : Plain(HipKernel(k))
  BY WorkPlain DEF HipKernel, HipLaunch
<1>2. Plain(HipDot)
  BY Tuples DEF HipDot, Plain, Awaits, NeverChecks, NeverSelects, Submit, Wait, ReturnSum
<1>3. Plain(HipGetArrays(b)) /\ Plain(HipDestroy(b)) /\ Plain(HipListDevices)
  BY QuietSteps, QuietTuples, WorkPlain, PlainJoined DEF HipGetArrays, HipDestroy, HipListDevices, OwnVectors
<1>4. Building(HipConstruct(b))
  BY IdleTuples, IdleSteps, QuietSteps, WorkPlain, BuildJoined, PlainFacts
     DEF HipConstruct, HipDeviceDriver, HipInit, HipLaunch
<1>5. QED
  BY <1>1, <1>2, <1>3, <1>4, EmptyPlaces, PlainFacts DEF WellBehaved, HipStream, HipListDevices

LEMMA ThrustPlain ==
  ASSUME NEW b
  PROVE  Plain(ThrustInit(b)) /\ \A k \in ArrayKernels : Plain(ThrustKernel(b, k))
<1>1. ASSUME NEW op
      PROVE  /\ IsSeq(Algorithm(b, op)) /\ NeverChecks(Algorithm(b, op)) /\ NeverSelects(Algorithm(b, op))
             /\ b # "Thrust-HIP" => Plain(Algorithm(b, op))
  <2>1. IsSeq(<<Submit(op)>>) /\ NeverChecks(<<Submit(op)>>) /\ NeverSelects(<<Submit(op)>>)
    BY Tuples DEF NeverChecks, NeverSelects, Submit
  <2>2. QED
    BY <2>1, WorkPlain DEF Algorithm, Plain
<1>2. ASSUME NEW s, IsSeq(s), NeverChecks(s), NeverSelects(s), b # "Thrust-HIP" => Plain(s)
      PROVE  Plain(s \o synchronise(b))
  BY <1>2, WorkAwaited, QuietTuples, PlainJoined DEF synchronise
<1>3. \A k \in ArrayKernels : Plain(ThrustKernel(b, k))
  BY <1>1, <1>2 DEF ThrustKernel
<1>4. Plain(ThrustInit(b))
  <2> DEFINE A(f) == Algorithm(b, StartArray(f, Device))
  <2> DEFINE ab == A("a") \o A("b")
  <2>1. IsSeq(ab) /\ NeverChecks(ab) /\ NeverSelects(ab) /\ (b # "Thrust-HIP" => Plain(ab))
    BY <1>1, Joined, NeverJoined, PlainJoined
  <2> HIDE DEF ab
  <2>2. /\ IsSeq(ab \o A("c")) /\ NeverChecks(ab \o A("c")) /\ NeverSelects(ab \o A("c"))
        /\ b # "Thrust-HIP" => Plain(ab \o A("c"))
    BY <1>1, <2>1, Joined, NeverJoined, PlainJoined
  <2>3. QED
    BY <1>2, <2>2 DEF ThrustInit, ab
<1>5. QED
  BY <1>3, <1>4

LEMMA ThrustWellBehaved == ASSUME NEW b PROVE WellBehaved(ThrustStream(b))
<1>1. Plain(ThrustDot) /\ Plain(ThrustGetArrays(b)) /\ Plain(ThrustDestroy(b)) /\ Plain(ThrustListDevices)
  BY QuietSteps, QuietTuples, WorkPlain, PlainJoined
     DEF ThrustDot, ThrustGetArrays, ThrustDestroy, ThrustListDevices, OwnVectors
<1>2. Building(ThrustConstruct(b))
  BY ThrustPlain, IdleTuples, IdleSteps, QuietSteps, BuildJoined, PlainFacts
     DEF ThrustConstruct, ThrustDeviceDriver
<1>3. QED
  BY <1>1, <1>2, ThrustPlain, EmptyPlaces, PlainFacts DEF WellBehaved, ThrustStream, ThrustListDevices

LEMMA DeviceList == ASSUME NEW how PROVE Plain(getDeviceList(how)) /\ NeverPlaces(getDeviceList(how))
<1>1. NeverPlaces(<<List(how)>>)
  BY DEF NeverPlaces, Places, List
<1>2. QED
  BY <1>1, QuietSteps, QuietTuples DEF getDeviceList

\* getDeviceName and getDeviceDriver
LEMMA DeviceNamed == Building(getDeviceName) /\ Building(getDeviceDriver)
BY DeviceList, IdleTuples, IdleSteps, BuildJoined, PlainFacts DEF getDeviceName, getDeviceDriver

LEMMA SyclWellBehaved == WellBehaved(SyclStream)
<1>1. \A k \in ArrayKernels : Plain(SyclKernel(k))
  BY WorkPlain DEF SyclKernel
<1>2. Drains(SyclDot) /\ NeverChecks(SyclDot) /\ NeverSelects(SyclDot)
  <2>1. Writes(Products(Device, "d_sum")) \cap {"d_sum"} # {}
    BY DEF Writes, Products
  <2>2. AwaitedFrom(Products(Device, "d_sum"), SyclDot, 2)
    BY <2>1 DEF AwaitedFrom, SyclDot, SyclReduce, Submit, Access, ReturnSum, Leave
  <2>3. QED
    BY <2>2 DEF Drains, NeverChecks, NeverSelects, SyclDot, SyclReduce, Submit, Access, ReturnSum, Leave
<1>3. Plain(SyclGetArrays) /\ Plain(SyclDestroy)
  BY QuietSteps, QuietTuples DEF SyclGetArrays, SyclDestroy
<1>4. Plain(SyclListDevices) /\ NeverPlaces(SyclListDevices)
  BY DeviceList, PlainJoined, NeverJoined, PlainFacts DEF SyclListDevices, Building
<1>5. Building(SyclConstruct)
  BY DeviceList, DeviceNamed, IdleTuples, IdleSteps, QuietSteps, WorkPlain, BuildJoined, PlainFacts
     DEF SyclConstruct, SyclInit
<1>6. QED
  BY <1>1, <1>2, <1>3, <1>4, <1>5 DEF WellBehaved, SyclStream

LEMMA UsmWellBehaved == ASSUME NEW b PROVE WellBehaved(UsmStream(b))
<1>1. \A k \in ArrayKernels : Plain(UsmKernel(k))
  BY WorkPlain DEF UsmKernel
<1>2. Plain(UsmDot(b))
  BY Tuples DEF UsmDot, Plain, Awaits, NeverChecks, NeverSelects, Submit, Wait, ReturnSum
<1>3. Plain(UsmGetArrays) /\ Plain(UsmDestroy(b))
  BY QuietSteps, QuietTuples, PlainJoined DEF UsmGetArrays, UsmDestroy
<1>4. Plain(UsmListDevices) /\ NeverPlaces(UsmListDevices)
  BY DeviceList, PlainJoined, NeverJoined, PlainFacts DEF UsmListDevices, Building
<1>5. Building(UsmConstruct(b))
  BY DeviceList, DeviceNamed, IdleTuples, IdleSteps, QuietSteps, WorkPlain, BuildJoined, PlainFacts
     DEF UsmConstruct, UsmAllocate, UsmInit
<1>6. QED
  BY <1>1, <1>2, <1>3, <1>4, <1>5, PlainFacts DEF WellBehaved, UsmStream

LEMMA AiWellBehaved == ASSUME NEW b PROVE WellBehaved(AiStream(b))
<1>1. \A k \in ArrayKernels : Plain(AiKernel(k))
  BY WorkPlain DEF AiKernel
<1>2. Plain(AiDot(b))
  <2>1. Plain(<<Submit(Products(Device, "d_sum")), Wait, Submit(Move("d_sum", "h_sum")), Wait,
                ReturnSum("h_sum")>>)
    BY Tuples DEF Plain, Awaits, NeverChecks, NeverSelects, Submit, Wait, ReturnSum
  <2>2. Plain(<<Submit(Zero("d_dot")), Wait, Submit(Products(Device, "d_dot")), Wait>>)
    BY Tuples DEF Plain, Awaits, NeverChecks, NeverSelects, Submit, Wait
  <2>3. Plain(<<Submit(Move("d_dot", "sum")), Wait, ReturnSum("sum")>>)
    BY Tuples DEF Plain, Awaits, NeverChecks, NeverSelects, Submit, Wait, ReturnSum
  <2>4. QED
    BY <2>1, <2>2, <2>3, WorkPlain, PlainJoined DEF AiDot
<1>3. Plain(AiGetArrays)
  <2>1. IsSeq(AiGetArrays)
    BY Tuples DEF AiGetArrays
  <2>2. QED
    BY <2>1 DEF AiGetArrays, Plain, Awaits, NeverChecks, NeverSelects, Acquire, Submit, Wait, HandOut
<1>4. Plain(AiDestroy)
  BY QuietSteps, QuietTuples DEF AiDestroy
<1>5. Plain(AiListDevices) /\ NeverPlaces(AiListDevices)
  BY DeviceList, PlainJoined, NeverJoined, PlainFacts DEF AiListDevices, Building
<1>6. Building(AiConstruct)
  BY DeviceList, DeviceNamed, IdleTuples, IdleSteps, QuietSteps, WorkPlain, BuildJoined, PlainFacts
     DEF AiConstruct, AiInit
<1>7. QED
  BY <1>1, <1>2, <1>3, <1>4, <1>5, <1>6, PlainFacts DEF WellBehaved, AiStream

LEMMA HcWellBehaved == WellBehaved(HcStream)
<1>1. \A k \in ArrayKernels : Plain(HcKernel(k))
  BY WorkPlain DEF HcKernel
<1>2. Plain(HcDot)
  <2>1. Plain(<<AcquireOn({"partial"}, "array"), Submit(Products(Device, "partial")), Wait>>)
    BY Tuples DEF Plain, Awaits, NeverChecks, NeverSelects, AcquireOn, Submit, Wait
  <2>2. QED
    BY <2>1, QuietSteps, QuietTuples, WorkPlain, PlainJoined DEF HcDot
<1>3. Plain(HcReadArrays) /\ Plain(HcDestroy) /\ Plain(HcListDevices)
  BY QuietSteps, QuietTuples, WorkPlain, PlainJoined DEF HcReadArrays, HcDestroy, HcListDevices
<1>4. Building(HcInit)
  BY Tuples DEF HcInit, Building, Awaits, Submit, Wait
<1>5. Building(HcConstruct)
  BY <1>4, IdleTuples, IdleSteps, QuietSteps, BuildJoined DEF HcConstruct
<1>6. QED
  BY <1>1, <1>2, <1>3, <1>5, EmptyPlaces, PlainFacts DEF WellBehaved, HcStream, HcListDevices
----------------------------------------------------------------------------
(* OpenCL                                                                  *)

LEMMA WrappersPlain ==
  /\ \A xs : Plain(Copied(xs)) /\ Plain(Dropped(xs))
  /\ \A x, y : Plain(Moved(x, y))
  /\ \A x, create : Plain(create) => Plain(Assigned(x, create))
  /\ \A x : Plain(getDevices(x)) /\ Plain(ClProgram(x))
  /\ Plain(Context) /\ Plain(CommandQueue) /\ Plain(Buffer)
<1>1. /\ \A xs : Plain(Copied(xs)) /\ Plain(Dropped(xs))
      /\ \A x, y : Plain(Moved(x, y))
      /\ \A x : Plain(<<Acquire({x}, "cl")>>)
      /\ Plain(Context) /\ Plain(Buffer)
  BY QuietSteps, QuietTuples DEF Copied, Dropped, Moved, Context, Buffer
<1>2. \A x, create : Plain(create) => Plain(Assigned(x, create))
  BY <1>1, PlainJoined DEF Assigned
<1>3. QED
  BY <1>1, <1>2, PlainJoined DEF getDevices, ClProgram, CommandQueue, ContextDevices

HasWait(s) == \E i \in DOMAIN s : s[i].do = "wait"

LEMMA HasWaitJoined ==
  ASSUME NEW s, NEW t, IsSeq(s), IsSeq(t), HasWait(s) \/ HasWait(t)
  PROVE  HasWait(s \o t)
<1> DEFINE r == s \o t
<1>1. /\ Len(s) \in Nat /\ Len(t) \in Nat /\ DOMAIN s = 1 .. Len(s) /\ DOMAIN t = 1 .. Len(t)
      /\ DOMAIN r = 1 .. Len(s) + Len(t)
      /\ \A i \in DOMAIN s : r[i] = s[i]
      /\ \A i \in DOMAIN t : r[i + Len(s)] = t[i]
  BY Joined
<1> HIDE DEF r
<1>2. \A i \in DOMAIN s : i \in DOMAIN r
  BY <1>1
<1>3. \A i \in DOMAIN t : i + Len(s) \in DOMAIN r
  BY <1>1
<1>4. HasWait(s) => HasWait(r)
  BY <1>1, <1>2 DEF HasWait
<1>5. HasWait(t) => HasWait(r)
  BY <1>1, <1>3 DEF HasWait
<1>6. QED
  BY <1>4, <1>5 DEF r

LEMMA WaitHas == HasWait(<<Wait>>)
BY DEF HasWait, Wait

\* What a functor submits is awaited by what follows it.
LEMMA FunctorAwaited ==
  ASSUME NEW op, NEW buffers, NEW t, Plain(t), HasWait(t)
  PROVE  Plain(Functor(op, buffers) \o t)
<1>1. /\ IsSeq(enqueueNDRangeKernel(op)) /\ NeverChecks(enqueueNDRangeKernel(op))
      /\ NeverSelects(enqueueNDRangeKernel(op))
  BY Tuples DEF enqueueNDRangeKernel, NeverChecks, NeverSelects, Submit, Acquire
<1>2. Plain(EnqueueArgs)
  BY WrappersPlain DEF EnqueueArgs
<1>3. /\ IsSeq(Functor(op, buffers)) /\ NeverChecks(Functor(op, buffers))
      /\ NeverSelects(Functor(op, buffers))
  BY <1>1, <1>2, WrappersPlain, Joined, NeverJoined DEF Functor, Plain
<1>4. QED
  BY <1>3, Joined, NeverJoined, WaitJoined DEF Plain, HasWait

\* A copy waits before it reads, and after it has given the mapping back.
LEMMA CopyPlain ==
  ASSUME NEW from, NEW to
  PROVE  Plain(cl_copy(from, to)) /\ HasWait(cl_copy(from, to))
<1> DEFINE s == enqueueMapBuffer \o <<Run(Move(from, to))>> \o enqueueUnmapMemObject
<1>1. /\ IsSeq(enqueueUnmapMemObject) /\ NeverChecks(enqueueUnmapMemObject)
      /\ NeverSelects(enqueueUnmapMemObject)
  BY Tuples DEF enqueueUnmapMemObject, NeverChecks, NeverSelects, Submit, Acquire
<1>2. Plain(enqueueMapBuffer) /\ Plain(<<Run(Move(from, to))>>) /\ Plain(<<Wait>>)
  BY QuietSteps, QuietTuples DEF enqueueMapBuffer
<1>3. IsSeq(s) /\ NeverChecks(s) /\ NeverSelects(s)
  BY <1>1, <1>2, Joined, NeverJoined DEF Plain
<1> HIDE DEF s
<1>4. Plain(s \o <<Wait>>) /\ HasWait(s \o <<Wait>>)
  BY <1>2, <1>3, WorkAwaited, WaitHas, HasWaitJoined DEF Plain
<1>5. Plain(s \o <<Wait>> \o Dropped({"event"})) /\ HasWait(s \o <<Wait>> \o Dropped({"event"}))
  BY <1>4, WrappersPlain, PlainJoined, HasWaitJoined DEF Plain
<1>6. QED
  BY <1>5 DEF cl_copy, s

LEMMA ClWellBehaved == ASSUME NEW b PROVE WellBehaved(ClStream(b))
<1>1. \A op, buffers : Plain(ClLaunch(op, buffers))
  BY QuietSteps, QuietTuples, WaitHas, FunctorAwaited DEF ClLaunch
<1>2. \A k \in ArrayKernels : Plain(ClKernel(k))
  BY <1>1 DEF ClKernel
<1>3. Plain(ClDot)
  BY CopyPlain, FunctorAwaited, QuietSteps, QuietTuples, PlainJoined DEF ClDot
<1>4. Plain(ClGetArrays)
  BY CopyPlain, QuietSteps, QuietTuples, PlainJoined DEF ClGetArrays
<1>5. Plain(ClDestroy)
  BY WrappersPlain, QuietSteps, QuietTuples, PlainJoined DEF ClDestroy
<1>6. \A how : Plain(ClDeviceList(how))
  BY WrappersPlain, QuietSteps, QuietTuples, PlainJoined DEF ClDeviceList
<1>7. \A how : NeverPlaces(ClDeviceList(how))
  <2>1. /\ \A how : NeverPlaces(<<List(how)>>)
        /\ NeverPlaces(Copied({"device"})) /\ NeverPlaces(Dropped({"device"}))
        /\ NeverPlaces(<<Acquire({"temporary"}, "cl")>>) /\ NeverPlaces(Moved("temporary", "device"))
    BY DEF NeverPlaces, Places, List, Copied, Retain, Dropped, Release, Acquire, Moved, Rename
  <2>2. Plain(<<Acquire({"temporary"}, "cl")>>) /\ \A how : Plain(<<List(how)>>)
    BY QuietSteps, QuietTuples
  <2>3. NeverPlaces(getDevices("device"))
    BY <2>1, <2>2, WrappersPlain, NeverJoined DEF getDevices, Assigned, Plain
  <2>4. QED
    BY <2>1, <2>2, <2>3, WrappersPlain, Joined, NeverJoined DEF ClDeviceList, Plain
<1>8. Plain(ClListDevices) /\ NeverPlaces(ClListDevices)
  <2>1. Plain(<<List("once")>>) /\ NeverPlaces(<<List("once")>>)
    BY QuietSteps, QuietTuples DEF NeverPlaces, Places, List
  <2>2. QED
    BY <1>6, <1>7, <2>1, PlainJoined, NeverJoined DEF ClListDevices, Plain
<1>9. Building(ClConstruct(b))
  <2>1. /\ Building(ClDeviceName) /\ Building(ClDeviceDriver) /\ Building(ClBuild(b))
        /\ Building(KernelFunctor) /\ Building(<<Check("listed")>>) /\ Building(<<Check("memory")>>)
        /\ Building(<<Select>>) /\ Building(<<Acquire({"sums"}, "vector")>>)
    BY IdleTuples, IdleSteps, QuietSteps DEF ClDeviceName, ClDeviceDriver, ClBuild, KernelFunctor
  <2>2. /\ Building(ClDeviceList("once")) /\ Building(Copied({"device"})) /\ Building(ClProgram("program"))
        /\ Building(Assigned("context", Context)) /\ Building(Assigned("queue", CommandQueue))
        /\ \A x : Building(Assigned(x, Buffer))
        /\ Building(ClInit) /\ Building(Dropped({"program"}))
    BY <1>1, <1>6, WrappersPlain, PlainFacts DEF ClInit
  <2>3. QED
    BY <2>1, <2>2, BuildJoined DEF ClConstruct
<1>10. QED
  BY <1>2, <1>3, <1>4, <1>5, <1>8, <1>9, PlainFacts DEF WellBehaved, ClStream
----------------------------------------------------------------------------
(* Every backend waits for its work                                        *)

LEMMA AllWellBehaved == ASSUME NEW b \in AllBuilds PROVE WellBehaved(StreamOf(b))
BY OmpWellBehaved, AccWellBehaved, KokkosWellBehaved, RajaWellBehaved, TbbWellBehaved,
   StdWellBehaved, FutharkWellBehaved, CudaWellBehaved, HipWellBehaved, ThrustWellBehaved,
   SyclWellBehaved, UsmWellBehaved, AiWellBehaved, HcWellBehaved, ClWellBehaved
   DEF AllBuilds, LoopBuilds, QueueBuilds, SyclBuilds, StreamOf

\* The backends of the session are those of the repository.
CppPrograms ==
  /\ Backends \subseteq AllBuilds
  /\ \A b \in Backends, c \in Call : Program(b, c) = ProgramOf(b, c)

LEMMA MethodsWellBehaved ==
  ASSUME CppPrograms, NEW b \in Backends
  PROVE  /\ \A c \in Call \ {"construct"} :
              Drains(Program(b, c)) /\ NeverChecks(Program(b, c)) /\ NeverSelects(Program(b, c))
         /\ NeverPlaces(Program(b, "list"))
         /\ Building(Program(b, "construct")) /\ Drains(Program(b, "construct"))
         /\ Program(b, "construct") = StreamOf(b).construct
<1>1. WellBehaved(StreamOf(b))
  BY AllWellBehaved DEF CppPrograms
<1>2. ASSUME NEW c \in Call \ {"construct"}
      PROVE  Drains(Program(b, c)) /\ NeverChecks(Program(b, c)) /\ NeverSelects(Program(b, c))
  <2>1. Program(b, c) = Method(StreamOf(b), c)
    BY DEF CppPrograms, ProgramOf
  <2>2. CASE c \in ArrayKernels
    BY <1>1, <2>1, <2>2, PlainFacts DEF WellBehaved, Method
  <2>3. CASE c \in {"list", "get_arrays", "destroy"}
    BY <1>1, <2>1, <2>3, PlainFacts DEF WellBehaved, Method, ArrayKernels
  <2>4. CASE c = "Dot"
    BY <1>1, <2>1, <2>4 DEF WellBehaved, Method, ArrayKernels
  <2>5. QED
    BY <2>2, <2>3, <2>4 DEF Call, Kernel
<1>3. Program(b, "list") = StreamOf(b).list /\ Program(b, "construct") = StreamOf(b).construct
  BY DEF CppPrograms, ProgramOf, Method, Call, ArrayKernels
<1>4. QED
  BY <1>1, <1>2, <1>3, AwaitsDrains DEF WellBehaved, Building

LEMMA CppDrains == ASSUME CppPrograms PROVE ProgramsDrain
BY MethodsWellBehaved DEF ProgramsDrain

\* Between two calls of any C++ backend in any build, on any machine, nothing
\* that was submitted is left to run.
THEOREM CppBackendsBlock ==
  ASSUME CppPrograms
  PROVE  Spec => []Blocking
BY CppDrains, SessionsBlock
----------------------------------------------------------------------------
(* Every backend selects the device first, or refuses                      *)

LEMMA SelectsJoined ==
  ASSUME NEW s, NEW t, IsSeq(s), IsSeq(t), SelectsFirst(s) \/ (NeverPlaces(s) /\ SelectsFirst(t))
  PROVE  SelectsFirst(s \o t)
<1> DEFINE r == s \o t
<1> DEFINE n == Len(s)
<1>1. /\ n \in Nat /\ Len(t) \in Nat /\ DOMAIN s = 1 .. n /\ DOMAIN t = 1 .. Len(t)
      /\ DOMAIN r = 1 .. n + Len(t)
      /\ \A i \in DOMAIN s : r[i] = s[i]
      /\ \A i \in DOMAIN t : r[i + n] = t[i]
  BY Joined, SMTT(20)
<1> HIDE DEF r, n
<1>2. CASE SelectsFirst(s)
  <2>1. PICK i \in DOMAIN s : s[i].do = "select" /\ \A j \in DOMAIN s : j < i => ~Places(s[j])
    BY <1>2 DEF SelectsFirst
  <2>2. i \in DOMAIN r /\ r[i].do = "select"
    BY <1>1, <2>1
  <2>3. \A j \in DOMAIN r : j < i => j \in DOMAIN s /\ r[j] = s[j]
    BY <1>1, <2>1
  <2>4. QED
    BY <2>1, <2>2, <2>3 DEF SelectsFirst, r
<1>3. CASE NeverPlaces(s) /\ SelectsFirst(t)
  <2>1. PICK i \in DOMAIN t : t[i].do = "select" /\ \A j \in DOMAIN t : j < i => ~Places(t[j])
    BY <1>3 DEF SelectsFirst
  <2>2. i + n \in DOMAIN r /\ r[i + n].do = "select"
    BY <1>1, <2>1
  <2>3. ASSUME NEW j \in DOMAIN r, j < i + n PROVE ~Places(r[j])
    <3>1. CASE j \in DOMAIN s
      BY <1>1, <1>3, <3>1 DEF NeverPlaces
    <3>2. CASE j \notin DOMAIN s
      <4>1. j - n \in DOMAIN t /\ (j - n) + n = j /\ j - n < i
        BY <1>1, <2>1, <2>3, <3>2
      <4>2. QED
        BY <1>1, <2>1, <4>1
    <3>3. QED
      BY <3>1, <3>2
  <2>4. QED
    BY <2>2, <2>3 DEF SelectsFirst, r
<1>4. QED
  BY <1>2, <1>3

Selecting(s) == IsSeq(s) /\ SelectsFirst(s)

Hosting(s) == IsSeq(s) /\ NeverPlaces(s)

LEMMA SelectingJoined ==
  ASSUME NEW s, NEW t
  PROVE  /\ Hosting(s) /\ Hosting(t) => Hosting(s \o t)
         /\ Hosting(s) /\ Selecting(t) => Selecting(s \o t)
         /\ Selecting(s) /\ IsSeq(t) => Selecting(s \o t)
BY Joined, NeverJoined, SelectsJoined DEF Hosting, Selecting

StaysHome(x) == ~Places(x)

LEMMA HomeTuples ==
  /\ Hosting(<<>>)
  /\ \A x : StaysHome(x) => Hosting(<<x>>)
  /\ \A x, y : StaysHome(x) /\ StaysHome(y) => Hosting(<<x, y>>)
BY Tuples DEF Hosting, NeverPlaces, StaysHome

LEMMA HomeSteps ==
  /\ \A xs, by : StaysHome(Acquire(xs, by)) /\ StaysHome(Release(xs, by))
  /\ \A x, y : StaysHome(Rename(x, y))
  /\ \A x : StaysHome(Retain(x)) /\ StaysHome(List(x)) /\ StaysHome(Check(x))
BY DEF StaysHome, Places, Acquire, Release, Rename, Retain, List, Check

LEMMA SelectTuples ==
  /\ Selecting(<<Select>>)
  /\ \A x, y : Selecting(<<Select, x, y>>)
  /\ \A x, y : StaysHome(x) => Selecting(<<x, Select>>) /\ Selecting(<<x, Select, y>>)
  /\ \A x, y, u, v, w : StaysHome(x) /\ StaysHome(y) => /\ Selecting(<<x, y, Select>>)
                                                       /\ Selecting(<<x, y, Select, u, v, w>>)
BY Tuples DEF Selecting, SelectsFirst, Select, StaysHome

\* The rest of a constructor is a sequence of steps.
LEMMA BuildingSeq == ASSUME NEW s, Building(s) \/ Plain(s) PROVE IsSeq(s)
BY DEF Building, Plain

LEMMA LoopsSelectFirst ==
  /\ \A b \in OmpBuilds \ {"OMP"} : Selecting(OmpConstruct(b))
  /\ Selecting(AccConstruct) /\ Selecting(KokkosConstruct) /\ Selecting(FutharkConstruct)
<1>1. ASSUME NEW b \in OmpBuilds \ {"OMP"} PROVE Selecting(OmpConstruct(b))
  <2>1. IsSeq(OmpInit(b))
    BY OmpLoopPlain, BuildingSeq DEF OmpInit
  <2>2. IsSeq(IF OmpMaps(b) THEN <<AcquireOn(Objects(Device), "map")>> ELSE <<>>)
    BY Tuples
  <2>3. Hosting(<<Acquire(Objects(Here), "malloc")>>)
    BY HomeTuples, HomeSteps
  <2>4. QED
    BY <2>1, <2>2, <2>3, SelectTuples, SelectingJoined DEF OmpConstruct
<1>2. Selecting(AccConstruct) /\ Selecting(KokkosConstruct)
  BY SelectTuples, WorkPlain, BuildingSeq, SelectingJoined
     DEF AccConstruct, AccInit, KokkosConstruct, KokkosInit, KokkosFenced
<1>3. Selecting(FutharkConstruct)
  <2>1. IsSeq(FutharkInit)
    BY Tuples DEF FutharkInit
  <2>2. Selecting(<<Acquire({"cfg"}, "config"), Select, Acquire({"ctx"}, "context")>>)
    BY SelectTuples, HomeSteps
  <2>3. QED
    BY <2>1, <2>2, SelectingJoined DEF FutharkConstruct
<1>4. QED
  BY <1>1, <1>2, <1>3

LEMMA CudaHipSelectFirst == ASSUME NEW b PROVE Selecting(CudaConstruct(b)) /\ Selecting(HipConstruct(b))
<1>1. Selecting(CudaConstruct(b))
  <2>1. Selecting(<<Check("count"), Select, AcquireOn({"stream"}, "stream")>>)
    BY SelectTuples, HomeSteps
  <2>2. /\ IsSeq(CudaDeviceDriver) /\ IsSeq(<<Check("memory")>>) /\ IsSeq(alloc_device(b, Objects(Device)))
        /\ IsSeq(alloc_host(b, {"sums"})) /\ IsSeq(CudaInit)
    BY Tuples DEF CudaDeviceDriver, alloc_device, alloc_host, CudaInit, for_each
  <2>3. QED
    BY <2>1, <2>2, SelectingJoined DEF CudaConstruct
<1>2. Selecting(HipConstruct(b))
  <2>1. Selecting(<<Check("count"), Select>>)
    BY SelectTuples, HomeSteps
  <2>2. /\ IsSeq(HipDeviceDriver) /\ IsSeq(HipInit)
        /\ \A x, y, z : IsSeq(<<x, y, z>>)
    BY Tuples DEF HipDeviceDriver, HipInit, HipLaunch
  <2>3. QED
    BY <2>1, <2>2, SelectingJoined DEF HipConstruct
<1>3. QED
  BY <1>1, <1>2

LEMMA HostDevices ==
  /\ Hosting(getDeviceList("once") \o <<Check("listed")>>)
  /\ Hosting(getDeviceName) /\ Hosting(getDeviceDriver) /\ Hosting(getDeviceList("once"))
BY HomeTuples, HomeSteps, SelectingJoined DEF getDeviceName, getDeviceDriver, getDeviceList

LEMMA SyclSelectFirst ==
  /\ Selecting(SyclConstruct) /\ \A b : Selecting(UsmConstruct(b)) /\ Selecting(AiConstruct)
<1>1. IsSeq(getDeviceName) /\ IsSeq(getDeviceDriver)
  BY HostDevices DEF Hosting
<1>2. Selecting(SyclConstruct)
  <2>1. Selecting(<<Check("listed"), Check("fp64"), Select>>)
    BY SelectTuples, HomeSteps
  <2>2. IsSeq(<<Acquire({"queue"}, "new"), Acquire(SyclBuffers, "new")>>) /\ IsSeq(SyclInit)
    BY Tuples DEF SyclInit
  <2>3. QED
    BY <1>1, <2>1, <2>2, HostDevices, SelectingJoined DEF SyclConstruct
<1>3. ASSUME NEW b PROVE Selecting(UsmConstruct(b))
  <2>1. Selecting(<<Check("fp64"), Select, Acquire({"queue"}, "new")>>)
    BY SelectTuples, HomeSteps
  <2>2. IsSeq(UsmAllocate(b)) /\ IsSeq(<<List("clear")>>) /\ IsSeq(UsmInit(b))
    BY Tuples DEF UsmAllocate, UsmInit
  <2>3. QED
    BY <2>1, <2>2, HostDevices, SelectingJoined DEF UsmConstruct
<1>4. Selecting(AiConstruct)
  <2>1. Selecting(<<Check("listed"), Check("fp64"), Select, Acquire({"queue"}, "new"),
                    AcquireOn(AiMemory, "usm"), Acquire({"h_sum"}, "new")>>)
    BY SelectTuples, HomeSteps
  <2>2. IsSeq(AiInit)
    BY Tuples DEF AiInit
  <2>3. QED
    BY <1>1, <2>1, <2>2, HostDevices, SelectingJoined DEF AiConstruct
<1>5. QED
  BY <1>2, <1>3, <1>4

LEMMA ClSelectsFirst == ASSUME NEW b PROVE Selecting(ClConstruct(b))
<1>1. /\ Hosting(ClDeviceList("once")) /\ Hosting(<<Check("listed")>>) /\ Hosting(Copied({"device"}))
      /\ Hosting(ClDeviceName) /\ Hosting(ClDeviceDriver)
  BY HomeTuples, HomeSteps, SelectingJoined
     DEF ClDeviceList, getDevices, Assigned, Moved, Copied, Dropped, ClDeviceName, ClDeviceDriver
<1>2. /\ IsSeq(ClBuild(b)) /\ IsSeq(KernelFunctor) /\ IsSeq(<<Check("memory")>>)
      /\ IsSeq(<<Acquire({"sums"}, "vector")>>)
  BY Tuples DEF ClBuild, KernelFunctor
<1>3. /\ IsSeq(Assigned("context", Context)) /\ IsSeq(Assigned("queue", CommandQueue))
      /\ \A x : IsSeq(Assigned(x, Buffer))
      /\ IsSeq(ClProgram("program")) /\ IsSeq(Dropped({"program"}))
  BY WrappersPlain, BuildingSeq
<1>4. IsSeq(ClInit)
  BY QuietSteps, QuietTuples, WaitHas, FunctorAwaited, BuildingSeq DEF ClInit, ClLaunch
<1>5. QED
  BY <1>1, <1>2, <1>3, <1>4, SelectTuples, SelectingJoined DEF ClConstruct

\* The constructors, by build.
LEMMA Streams ==
  /\ \A b \in OmpBuilds : StreamOf(b) = OmpStream(b)
  /\ \A b \in RajaBuilds : StreamOf(b) = RajaStream(b)
  /\ \A b \in TbbBuilds : StreamOf(b) = TbbStream(b)
  /\ \A b \in StdBuilds : StreamOf(b) = StdStream(b)
  /\ \A b \in FutharkBuilds : StreamOf(b) = FutharkStream(b)
  /\ \A b \in CudaBuilds : StreamOf(b) = CudaStream(b)
  /\ \A b \in HipBuilds : StreamOf(b) = HipStream(b)
  /\ \A b \in ThrustBuilds : StreamOf(b) = ThrustStream(b)
  /\ \A b \in UsmBuilds : StreamOf(b) = UsmStream(b)
  /\ \A b \in AiBuilds : StreamOf(b) = AiStream(b)
  /\ \A b \in ClBuilds : StreamOf(b) = ClStream(b)
  /\ StreamOf("ACC") = AccStream /\ StreamOf("Kokkos") = KokkosStream
  /\ StreamOf("SYCL") = SyclStream /\ StreamOf("HC") = HcStream
<1>1. \A b \in OmpBuilds : StreamOf(b) = OmpStream(b)
  BY DEF StreamOf, OmpBuilds, TbbBuilds, RajaBuilds, StdBuilds, FutharkBuilds,
       CudaBuilds, HipBuilds, ThrustBuilds, UsmBuilds, AiBuilds, ClBuilds
<1>2. \A b \in RajaBuilds : StreamOf(b) = RajaStream(b)
  BY DEF StreamOf, OmpBuilds, TbbBuilds, RajaBuilds, StdBuilds, FutharkBuilds,
       CudaBuilds, HipBuilds, ThrustBuilds, UsmBuilds, AiBuilds, ClBuilds
<1>3. \A b \in TbbBuilds : StreamOf(b) = TbbStream(b)
  BY DEF StreamOf, OmpBuilds, TbbBuilds, RajaBuilds, StdBuilds, FutharkBuilds,
       CudaBuilds, HipBuilds, ThrustBuilds, UsmBuilds, AiBuilds, ClBuilds
<1>4. \A b \in StdBuilds : StreamOf(b) = StdStream(b)
  BY DEF StreamOf, OmpBuilds, TbbBuilds, RajaBuilds, StdBuilds, FutharkBuilds,
       CudaBuilds, HipBuilds, ThrustBuilds, UsmBuilds, AiBuilds, ClBuilds
<1>5. \A b \in FutharkBuilds : StreamOf(b) = FutharkStream(b)
  BY DEF StreamOf, OmpBuilds, TbbBuilds, RajaBuilds, StdBuilds, FutharkBuilds,
       CudaBuilds, HipBuilds, ThrustBuilds, UsmBuilds, AiBuilds, ClBuilds
<1>6. \A b \in CudaBuilds : StreamOf(b) = CudaStream(b)
  BY DEF StreamOf, OmpBuilds, TbbBuilds, RajaBuilds, StdBuilds, FutharkBuilds,
       CudaBuilds, HipBuilds, ThrustBuilds, UsmBuilds, AiBuilds, ClBuilds
<1>7. \A b \in HipBuilds : StreamOf(b) = HipStream(b)
  BY DEF StreamOf, OmpBuilds, TbbBuilds, RajaBuilds, StdBuilds, FutharkBuilds,
       CudaBuilds, HipBuilds, ThrustBuilds, UsmBuilds, AiBuilds, ClBuilds
<1>8. \A b \in ThrustBuilds : StreamOf(b) = ThrustStream(b)
  BY DEF StreamOf, OmpBuilds, TbbBuilds, RajaBuilds, StdBuilds, FutharkBuilds,
       CudaBuilds, HipBuilds, ThrustBuilds, UsmBuilds, AiBuilds, ClBuilds
<1>9. \A b \in UsmBuilds : StreamOf(b) = UsmStream(b)
  BY DEF StreamOf, OmpBuilds, TbbBuilds, RajaBuilds, StdBuilds, FutharkBuilds,
       CudaBuilds, HipBuilds, ThrustBuilds, UsmBuilds, AiBuilds, ClBuilds
<1>10. \A b \in AiBuilds : StreamOf(b) = AiStream(b)
  BY DEF StreamOf, OmpBuilds, TbbBuilds, RajaBuilds, StdBuilds, FutharkBuilds,
       CudaBuilds, HipBuilds, ThrustBuilds, UsmBuilds, AiBuilds, ClBuilds
<1>11. \A b \in ClBuilds : StreamOf(b) = ClStream(b)
  BY DEF StreamOf, OmpBuilds, TbbBuilds, RajaBuilds, StdBuilds, FutharkBuilds,
       CudaBuilds, HipBuilds, ThrustBuilds, UsmBuilds, AiBuilds, ClBuilds
<1>12. /\ StreamOf("ACC") = AccStream /\ StreamOf("Kokkos") = KokkosStream
       /\ StreamOf("SYCL") = SyclStream /\ StreamOf("HC") = HcStream
  BY DEF StreamOf, OmpBuilds, TbbBuilds, RajaBuilds, StdBuilds, FutharkBuilds,
       CudaBuilds, HipBuilds, ThrustBuilds, UsmBuilds, AiBuilds, ClBuilds
<1>13. QED
  BY <1>1, <1>2, <1>3, <1>4, <1>5, <1>6, <1>7, <1>8, <1>9, <1>10, <1>11, <1>12

LEMMA Constructors ==
  /\ \A b \in OmpBuilds : StreamOf(b).construct = OmpConstruct(b)
  /\ \A b \in RajaBuilds : StreamOf(b).construct = RajaConstruct(b)
  /\ \A b \in TbbBuilds : StreamOf(b).construct = TbbConstruct(b)
  /\ \A b \in StdBuilds : StreamOf(b).construct = StdConstruct(b)
  /\ \A b \in FutharkBuilds : StreamOf(b).construct = FutharkConstruct
  /\ \A b \in CudaBuilds : StreamOf(b).construct = CudaConstruct(b)
  /\ \A b \in HipBuilds : StreamOf(b).construct = HipConstruct(b)
  /\ \A b \in ThrustBuilds : StreamOf(b).construct = ThrustConstruct(b)
  /\ \A b \in UsmBuilds : StreamOf(b).construct = UsmConstruct(b)
  /\ \A b \in AiBuilds : StreamOf(b).construct = AiConstruct
  /\ \A b \in ClBuilds : StreamOf(b).construct = ClConstruct(b)
  /\ StreamOf("ACC").construct = AccConstruct /\ StreamOf("Kokkos").construct = KokkosConstruct
  /\ StreamOf("SYCL").construct = SyclConstruct /\ StreamOf("HC").construct = HcConstruct
BY Streams
   DEF OmpStream, RajaStream, TbbStream, StdStream, FutharkStream, CudaStream, HipStream,
       ThrustStream, UsmStream, AiStream, ClStream, AccStream, KokkosStream, SyclStream, HcStream

\* Those that leave the choice of the device to the runtime.
LEMMA LoopsNeverSelect ==
  /\ NeverSelects(OmpConstruct("OMP"))
  /\ \A b : NeverSelects(StdConstruct(b)) /\ NeverSelects(RajaConstruct(b))
            /\ NeverSelects(TbbConstruct(b))
<1>1. NeverSelects(OmpConstruct("OMP"))
  <2>1. Plain(OmpInit("OMP"))
    BY WorkPlain DEF OmpInit, OmpLoop
  <2>2. Plain(OmpConstruct("OMP"))
    BY <2>1, QuietSteps, QuietTuples, PlainJoined DEF OmpConstruct, OmpMaps
  <2>3. QED
    BY <2>2 DEF Plain
<1>2. ASSUME NEW b PROVE Plain(StdConstruct(b))
  BY StdConstructPlain
<1>3. ASSUME NEW b PROVE Plain(RajaConstruct(b))
  BY QuietSteps, QuietTuples, WorkPlain, PlainJoined DEF RajaConstruct, RajaInit
<1>4. ASSUME NEW b PROVE NeverSelects(TbbConstruct(b))
  <2>1. \A x : IsSeq(<<x, Check("first")>>) /\ (Quiet(x) => NeverSelects(<<x, Check("first")>>))
    BY Tuples DEF NeverSelects, Quiet, Check
  <2>2. QED
    BY <2>1, QuietSteps, WorkPlain, NeverJoined DEF TbbConstruct, TbbInit, Plain
<1>5. QED
  BY <1>1, <1>2, <1>3, <1>4 DEF Plain

\* HC allocates first, but counts the devices before anything else.
LEMMA HcCountsFirst == CountsFirst(HcConstruct)
<1> DEFINE s == <<AcquireOn(Objects(Device), "array"), Check("size"), Check("count"), Select>>
<1>1. IsSeq(s) /\ IsSeq(HcInit)
  BY Tuples DEF HcInit
<1>2. \A i \in DOMAIN s : i \in DOMAIN HcConstruct /\ HcConstruct[i] = s[i]
  BY <1>1, Joined DEF HcConstruct
<1>3. \A i \in DOMAIN HcConstruct : i < 3 => i \in {1, 2}
  BY <1>1, Joined DEF HcConstruct
<1>4. 3 \in DOMAIN HcConstruct /\ HcConstruct[3] = Check("count") /\ HcConstruct[2] = Check("size")
      /\ HcConstruct[1] = AcquireOn(Objects(Device), "array")
  BY <1>2
<1>5. QED
  BY <1>3, <1>4 DEF CountsFirst, Check, AcquireOn

\* The devices of a session: Thrust allocates before it selects, so --device
\* may only name the first; HC refuses a number that no device has.
CppDevices ==
  \A b \in Backends :
    /\ Selects(b) <=> HonoursDevice(b)
    /\ \A m \in Machines(b) : /\ b \in ThrustBuilds => m.index = 0
                              /\ b = "HC" => m.index = 0 \/ m.index >= m.devices

LEMMA CppSelects == ASSUME CppPrograms, CppDevices PROVE ProgramsSelect
<1>1. SUFFICES ASSUME NEW b \in Backends, NEW m \in Machines(b)
               PROVE  \/ m.index = 0
                      \/ ~Selects(b) /\ \A c \in Call : NeverSelects(Program(b, c))
                      \/ SelectsFirst(Program(b, "construct")) /\ NeverPlaces(Program(b, "list"))
                      \/ /\ m.index >= m.devices /\ CountsFirst(Program(b, "construct"))
                         /\ NeverSelects(Program(b, "list")) /\ NeverPlaces(Program(b, "list"))
  BY DEF ProgramsSelect
<1>2. b \in AllBuilds /\ Program(b, "construct") = StreamOf(b).construct
  BY MethodsWellBehaved DEF CppPrograms
<1>3. /\ NeverSelects(Program(b, "list")) /\ NeverPlaces(Program(b, "list"))
      /\ NeverSelects(Program(b, "construct")) => \A c \in Call : NeverSelects(Program(b, c))
  BY MethodsWellBehaved DEF Call
<1>4. CASE b \in {"OMP"} \cup TbbBuilds \cup RajaBuilds \cup StdBuilds
  <2>1. NeverSelects(Program(b, "construct"))
    BY <1>2, <1>4, LoopsNeverSelect, Constructors DEF OmpBuilds
  <2>2. QED
    BY <1>3, <1>4, <2>1 DEF CppDevices, HonoursDevice
<1>5. CASE b \in ThrustBuilds
  BY <1>5 DEF CppDevices
<1>6. CASE b = "HC"
  <2>1. Program(b, "construct") = HcConstruct
    BY <1>2, <1>6, Constructors
  <2>2. QED
    BY <1>3, <1>6, <2>1, HcCountsFirst DEF CppDevices
<1>7. CASE b \in (OmpBuilds \ {"OMP"}) \cup FutharkBuilds \cup {"ACC", "Kokkos"}
  <2>1. SelectsFirst(Program(b, "construct"))
    BY <1>2, <1>7, LoopsSelectFirst, Constructors DEF Selecting
  <2>2. QED
    BY <1>3, <2>1
<1>8. CASE b \in CudaBuilds \cup HipBuilds \cup SyclBuilds \cup ClBuilds
  <2>1. SelectsFirst(Program(b, "construct"))
    BY <1>2, <1>8, CudaHipSelectFirst, SyclSelectFirst, ClSelectsFirst, Constructors
       DEF Selecting, SyclBuilds
  <2>2. QED
    BY <1>3, <2>1
<1>9. QED
  BY <1>2, <1>4, <1>5, <1>6, <1>7, <1>8 DEF AllBuilds, LoopBuilds, QueueBuilds

\* However many devices there are, all work of a C++ backend runs on the device
\* of --device, on memory of that device or of the host.
THEOREM CppBackendsStayOnDevice ==
  ASSUME CppPrograms, CppDevices
  PROVE  Spec => []SameDevice
BY CppSelects, SessionsStayOnDevice
----------------------------------------------------------------------------
(* What every constructor checks                                           *)

Reasons(s) == {s[i].why : i \in {j \in DOMAIN s : s[j].do = "check"}}

LEMMA ReasonsJoined ==
  ASSUME NEW s, NEW t, IsSeq(s), IsSeq(t)
  PROVE  IsSeq(s \o t) /\ Reasons(s \o t) = Reasons(s) \cup Reasons(t)
<1> DEFINE r == s \o t
<1>1. /\ Len(s) \in Nat /\ Len(t) \in Nat /\ DOMAIN s = 1 .. Len(s) /\ DOMAIN t = 1 .. Len(t)
      /\ DOMAIN r = 1 .. Len(s) + Len(t)
      /\ \A i \in DOMAIN s : r[i] = s[i]
      /\ \A i \in DOMAIN t : r[i + Len(s)] = t[i]
  BY Joined
<1>2. \A i \in DOMAIN r : \/ i \in DOMAIN s /\ r[i] = s[i]
                          \/ i - Len(s) \in DOMAIN t /\ r[i] = t[i - Len(s)]
  BY Place
<1>0. IsSeq(r)
  BY Joined
<1> HIDE DEF r
<1>3. /\ \A i \in DOMAIN s : i \in DOMAIN r
      /\ \A i \in DOMAIN t : i + Len(s) \in DOMAIN r
  BY <1>1
<1>4. Reasons(r) \subseteq Reasons(s) \cup Reasons(t)
  BY <1>2 DEF Reasons
<1>5. Reasons(s) \subseteq Reasons(r) /\ Reasons(t) \subseteq Reasons(r)
  BY <1>1, <1>3 DEF Reasons
<1>6. QED
  BY <1>0, <1>4, <1>5 DEF r

\* A part of a constructor that checks the given things.
Checking(s, reasons) == IsSeq(s) /\ Reasons(s) = reasons

LEMMA CheckingJoined ==
  ASSUME NEW s, NEW t, NEW p, NEW q, Checking(s, p), Checking(t, q)
  PROVE  Checking(s \o t, p \cup q)
BY ReasonsJoined DEF Checking

LEMMA CheckingNothing ==
  ASSUME NEW s, NEW t, NEW p, Checking(t, p), Plain(s)
  PROVE  Checking(s, {}) /\ Checking(s \o t, p) /\ Checking(t \o s, p)
<1>1. Checking(s, {})
  BY DEF Plain, NeverChecks, Checking, Reasons
<1>2. p = {} \cup p /\ p = p \cup {}
  OBVIOUS
<1>3. QED
  BY <1>1, <1>2, CheckingJoined

\* What has been checked may be checked again.
LEMMA CheckingAgain ==
  ASSUME NEW s, NEW t, NEW p, NEW q, Checking(s, p), Checking(t, q), q \subseteq p
  PROVE  Checking(s \o t, p)
<1>1. p = p \cup q
  OBVIOUS
<1>2. QED
  BY <1>1, CheckingJoined

LEMMA CheckingTuples ==
  /\ \A x : Quiet(x) => Checking(<<x>>, {})
  /\ Checking(<<Select>>, {})
  /\ \A y : Checking(<<Check(y)>>, {y})
  /\ \A x, y : Quiet(x) => Checking(<<x, Check(y)>>, {y}) /\ Checking(<<Check(y), x>>, {y})
  /\ \A x, y : Checking(<<Check(x), Check(y)>>, {x, y})
  /\ \A y : Checking(<<Check(y), Select>>, {y})
  /\ \A x, y : Checking(<<Check(x), Check(y), Select>>, {x, y})
  /\ \A x, y : Quiet(y) => Checking(<<Check(x), Select, y>>, {x})
  /\ \A x, y, z : Quiet(x) /\ Quiet(z) => Checking(<<x, Check(y), z>>, {y})
  /\ \A x, y, z : Quiet(x) => Checking(<<x, Check(y), Check(z), Select>>, {y, z})
  /\ \A x, y, z : Quiet(y) /\ Quiet(z) => Checking(<<Select, y, z>>, {}) /\ Checking(<<y, Select, z>>, {})
  /\ \A x, y, u, v, w :
       Quiet(u) /\ Quiet(v) /\ Quiet(w) => Checking(<<Check(x), Check(y), Select, u, v, w>>, {x, y})
<1>1. \A x : Quiet(x) => Checking(<<x>>, {})
  BY Tuples DEF Checking, Reasons, Quiet
<1>2. Checking(<<Select>>, {}) /\ \A y : Checking(<<Check(y)>>, {y})
  BY Tuples DEF Checking, Reasons, Select, Check
<1>3. \A x, y : Quiet(x) => Checking(<<x, Check(y)>>, {y}) /\ Checking(<<Check(y), x>>, {y})
  BY Tuples DEF Checking, Reasons, Quiet, Check
<1>4. \A x, y : Checking(<<Check(x), Check(y)>>, {x, y})
  BY Tuples DEF Checking, Reasons, Check
<1>5. /\ \A y : Checking(<<Check(y), Select>>, {y})
      /\ \A x, y : Checking(<<Check(x), Check(y), Select>>, {x, y})
  BY Tuples DEF Checking, Reasons, Check, Select
<1>6. \A x, y : Quiet(y) => Checking(<<Check(x), Select, y>>, {x})
  BY Tuples DEF Checking, Reasons, Quiet, Check, Select
<1>7. \A x, y, z : Quiet(x) /\ Quiet(z) => Checking(<<x, Check(y), z>>, {y})
  BY Tuples DEF Checking, Reasons, Quiet, Check
<1>8. \A x, y, z : Quiet(x) => Checking(<<x, Check(y), Check(z), Select>>, {y, z})
  BY Tuples DEF Checking, Reasons, Quiet, Check, Select
<1>9. \A x, y, z : Quiet(y) /\ Quiet(z) => Checking(<<Select, y, z>>, {}) /\ Checking(<<y, Select, z>>, {})
  BY Tuples DEF Checking, Reasons, Quiet, Select
<1>10. \A x, y, u, v, w :
         Quiet(u) /\ Quiet(v) /\ Quiet(w) => Checking(<<Check(x), Check(y), Select, u, v, w>>, {x, y})
  BY Tuples DEF Checking, Reasons, Quiet, Check, Select
<1>11. QED
  BY <1>1, <1>2, <1>3, <1>4, <1>5, <1>6, <1>7, <1>8, <1>9, <1>10

LEMMA LoopsCheck ==
  /\ \A b : Checking(OmpConstruct(b), {}) /\ Checking(RajaConstruct(b), {})
            /\ Checking(TbbConstruct(b), {"first"}) /\ Checking(StdConstruct(b), {})
  /\ Checking(AccConstruct, {}) /\ Checking(KokkosConstruct, {})
  /\ Checking(FutharkConstruct, {})
<1>1. ASSUME NEW b PROVE Checking(OmpConstruct(b), {})
  <2>1. Plain(OmpInit(b))
    BY OmpLoopPlain DEF OmpInit
  <2>2. /\ Plain(IF OmpMaps(b) THEN <<AcquireOn(Objects(Device), "map")>> ELSE <<>>)
        /\ Plain(<<Acquire(Objects(Here), "malloc")>>) /\ Plain(<<>>)
    BY QuietSteps, QuietTuples
  <2>3. Checking(IF b # "OMP" THEN <<Select>> ELSE <<>>, {})
    BY <2>2, CheckingTuples, CheckingNothing
  <2>4. QED
    BY <2>1, <2>2, <2>3, CheckingNothing DEF OmpConstruct
<1>2. \A b : Checking(RajaConstruct(b), {})
  <2>1. \A b : Plain(RajaConstruct(b))
    BY QuietSteps, QuietTuples, WorkPlain, PlainJoined DEF RajaConstruct, RajaInit
  <2>2. Checking(<<>>, {})
    BY Tuples DEF Checking, Reasons
  <2>3. QED
    BY <2>1, <2>2, CheckingNothing
<1>3. \A b : Checking(TbbConstruct(b), {"first"})
  BY CheckingTuples, QuietSteps, WorkPlain, CheckingNothing DEF TbbConstruct, TbbInit
<1>4. Checking(AccConstruct, {}) /\ Checking(KokkosConstruct, {})
  BY CheckingTuples, QuietSteps, WorkPlain, CheckingNothing
     DEF AccConstruct, AccInit, KokkosConstruct, KokkosInit, KokkosFenced
<1>5. \A b : Checking(StdConstruct(b), {})
  <2>1. \A b : Plain(StdConstruct(b))
    BY StdConstructPlain
  <2>2. Checking(<<>>, {})
    BY Tuples DEF Checking, Reasons
  <2>3. QED
    BY <2>1, <2>2, CheckingNothing
<1>6. Checking(FutharkConstruct, {})
  <2>1. IsSeq(FutharkInit)
    BY Tuples DEF FutharkInit
  <2>2. Plain(FutharkInit)
    BY <2>1 DEF FutharkInit, Plain, Awaits, NeverChecks, NeverSelects, Acquire, Run, AcquireOn, Submit,
                Wait, Release
  <2>3. QED
    BY <2>2, CheckingTuples, QuietSteps, CheckingNothing DEF FutharkConstruct
<1>7. QED
  BY <1>1, <1>2, <1>3, <1>4, <1>5, <1>6

LEMMA QueuesCheck ==
  /\ \A b : Checking(CudaConstruct(b), {"count", "memory"}) /\ Checking(HipConstruct(b), {"count", "memory0"})
            /\ Checking(ThrustConstruct(b), {}) /\ Checking(UsmConstruct(b), {"listed", "fp64"})
  /\ Checking(SyclConstruct, {"listed", "fp64"}) /\ Checking(AiConstruct, {"listed", "fp64"})
  /\ Checking(HcConstruct, {"size", "count"})
<1>1. ASSUME NEW b PROVE Checking(CudaConstruct(b), {"count", "memory"})
  <2>1. Plain(alloc_device(b, Objects(Device))) /\ Plain(alloc_host(b, {"sums"})) /\ Plain(CudaInit)
    BY QuietSteps, QuietTuples, WorkPlain DEF alloc_device, alloc_host, CudaInit, for_each
  <2>2. /\ Checking(<<Check("count"), Select, AcquireOn({"stream"}, "stream")>>, {"count"})
        /\ Checking(CudaDeviceDriver, {}) /\ Checking(<<Check("memory")>>, {"memory"})
    BY CheckingTuples, QuietSteps DEF CudaDeviceDriver
  <2>3. {"count", "memory"} = ({"count"} \cup {}) \cup {"memory"}
    OBVIOUS
  <2>4. Checking(<<Check("count"), Select, AcquireOn({"stream"}, "stream")>> \o CudaDeviceDriver
                 \o <<Check("memory")>>, {"count", "memory"})
    BY <2>2, <2>3, CheckingJoined
  <2>5. QED
    BY <2>1, <2>4, CheckingNothing DEF CudaConstruct
<1>2. ASSUME NEW b PROVE Checking(HipConstruct(b), {"count", "memory0"})
  <2> DEFINE rest == <<Acquire({"sums"}, "hipHost"), Check("memory0"),
                       IF b = "HIP-pagefault" THEN Acquire(Objects(Device), "malloc")
                                              ELSE AcquireOn(Objects(Device), "hip")>>
  <2>1. Plain(HipInit)
    BY WorkPlain DEF HipInit, HipLaunch
  <2>2. /\ Checking(<<Check("count"), Select>>, {"count"}) /\ Checking(HipDeviceDriver, {})
        /\ Checking(rest, {"memory0"})
    BY CheckingTuples, QuietSteps DEF HipDeviceDriver
  <2> HIDE DEF rest
  <2>3. Checking(<<Check("count"), Select>> \o HipDeviceDriver, {"count"})
    BY <2>2, CheckingAgain
  <2>4. Checking(<<Check("count"), Select>> \o HipDeviceDriver \o rest, {"count"} \cup {"memory0"})
    BY <2>2, <2>3, CheckingJoined
  <2>5. {"count"} \cup {"memory0"} = {"count", "memory0"}
    OBVIOUS
  <2>6. QED
    BY <2>1, <2>4, <2>5, CheckingNothing DEF HipConstruct, rest
<1>3. ASSUME NEW b PROVE Checking(ThrustConstruct(b), {})
  BY ThrustPlain, CheckingTuples, QuietSteps, QuietTuples, CheckingNothing
     DEF ThrustConstruct, ThrustDeviceDriver
<1>4. /\ Plain(getDeviceList("once"))
      /\ Checking(getDeviceName, {"listed"}) /\ Checking(getDeviceDriver, {"listed"})
  BY DeviceList, CheckingTuples, CheckingNothing DEF getDeviceName, getDeviceDriver
<1>5. ASSUME NEW b PROVE Checking(UsmConstruct(b), {"listed", "fp64"})
  <2>1. Plain(UsmAllocate(b)) /\ Plain(<<List("clear")>>) /\ Plain(UsmInit(b))
    BY QuietSteps, QuietTuples, WorkPlain DEF UsmAllocate, UsmInit
  <2>2. /\ Checking(<<Check("listed")>>, {"listed"})
        /\ Checking(<<Check("fp64"), Select, Acquire({"queue"}, "new")>>, {"fp64"})
    BY CheckingTuples, QuietSteps
  <2> DEFINE s == getDeviceList("once") \o <<Check("listed")>> \o getDeviceName \o getDeviceDriver
  <2>3. Checking(getDeviceList("once") \o <<Check("listed")>>, {"listed"})
    BY <1>4, <2>2, CheckingNothing
  <2>4. Checking(s, {"listed"})
    BY <1>4, <2>3, CheckingAgain
  <2> HIDE DEF s
  <2>5. Checking(s \o <<Check("fp64"), Select, Acquire({"queue"}, "new")>>, {"listed"} \cup {"fp64"})
    BY <2>2, <2>4, CheckingJoined
  <2>6. {"listed"} \cup {"fp64"} = {"listed", "fp64"}
    OBVIOUS
  <2>7. QED
    BY <2>1, <2>5, <2>6, CheckingNothing DEF UsmConstruct, s
<1>6. Checking(SyclConstruct, {"listed", "fp64"})
  <2>1. Plain(<<Acquire({"queue"}, "new"), Acquire(SyclBuffers, "new")>>) /\ Plain(SyclInit)
    BY QuietSteps, QuietTuples, WorkPlain DEF SyclInit
  <2>2. Checking(<<Check("listed"), Check("fp64"), Select>>, {"listed", "fp64"})
    BY CheckingTuples
  <2>3. {"listed", "fp64"} = ({"listed", "fp64"} \cup {"listed"}) \cup {"listed"}
    OBVIOUS
  <2>4. Checking(getDeviceList("once") \o <<Check("listed"), Check("fp64"), Select>>, {"listed", "fp64"})
    BY <1>4, <2>2, CheckingNothing
  <2>5. Checking(getDeviceList("once") \o <<Check("listed"), Check("fp64"), Select>>
                 \o getDeviceName \o getDeviceDriver, {"listed", "fp64"})
    BY <1>4, <2>3, <2>4, CheckingJoined
  <2>6. QED
    BY <2>1, <2>5, CheckingNothing DEF SyclConstruct
<1>7. Checking(AiConstruct, {"listed", "fp64"})
  <2> DEFINE first == <<Check("listed"), Check("fp64"), Select, Acquire({"queue"}, "new"),
                        AcquireOn(AiMemory, "usm"), Acquire({"h_sum"}, "new")>>
  <2>1. Plain(AiInit)
    BY WorkPlain DEF AiInit
  <2>2. Checking(first, {"listed", "fp64"})
    BY CheckingTuples, QuietSteps
  <2>3. {"listed", "fp64"} = ({"listed", "fp64"} \cup {"listed"}) \cup {"listed"}
    OBVIOUS
  <2> HIDE DEF first
  <2>4. Checking(getDeviceList("once") \o first \o AiInit \o AiInit, {"listed", "fp64"})
    BY <1>4, <2>1, <2>2, CheckingNothing
  <2>5. Checking(getDeviceList("once") \o first \o AiInit \o AiInit \o getDeviceName \o getDeviceDriver,
                 {"listed", "fp64"})
    BY <1>4, <2>3, <2>4, CheckingJoined
  <2>6. QED
    BY <2>5 DEF AiConstruct, first
<1>8. Checking(HcConstruct, {"size", "count"})
  <2>1. Plain(HcInit)
    BY Tuples DEF HcInit, Plain, Awaits, NeverChecks, NeverSelects, Submit, Wait
  <2>2. QED
    BY <2>1, CheckingTuples, QuietSteps, CheckingNothing DEF HcConstruct
<1>9. QED
  BY <1>1, <1>2, <1>3, <1>5, <1>6, <1>7, <1>8

LEMMA ClChecks ==
  /\ Checking(ClConstruct("OpenCL"), {"listed", "fp64", "build", "kernel", "memory"})
  /\ Checking(ClConstruct("OpenCL-float"), {"listed", "kernel", "memory"})
<1> DEFINE before == ClDeviceList("once") \o <<Check("listed")>> \o Copied({"device"})
                     \o ClDeviceName \o ClDeviceDriver \o <<Select>>
                     \o Assigned("context", Context) \o Assigned("queue", CommandQueue)
                     \o ClProgram("program")
<1>1. Checking(before, {"listed"})
  <2>1. /\ Plain(ClDeviceList("once")) /\ Plain(Copied({"device"})) /\ Plain(ClProgram("program"))
        /\ Plain(Assigned("context", Context)) /\ Plain(Assigned("queue", CommandQueue))
    BY WrappersPlain, QuietSteps, QuietTuples, PlainJoined DEF ClDeviceList
  <2>2. /\ Checking(<<Check("listed")>>, {"listed"}) /\ Checking(<<Select>>, {})
        /\ Checking(ClDeviceName, {"listed"}) /\ Checking(ClDeviceDriver, {"listed"})
    BY CheckingTuples, QuietSteps DEF ClDeviceName, ClDeviceDriver
  <2>3. Checking(ClDeviceList("once") \o <<Check("listed")>> \o Copied({"device"}), {"listed"})
    BY <2>1, <2>2, CheckingNothing
  <2>4. Checking(ClDeviceList("once") \o <<Check("listed")>> \o Copied({"device"})
                 \o ClDeviceName \o ClDeviceDriver, {"listed"})
    BY <2>2, <2>3, CheckingAgain
  <2>5. Checking(ClDeviceList("once") \o <<Check("listed")>> \o Copied({"device"})
                 \o ClDeviceName \o ClDeviceDriver \o <<Select>>, {"listed"})
    BY <2>2, <2>4, CheckingAgain
  <2>6. QED
    BY <2>1, <2>5, CheckingNothing
<1> HIDE DEF before
<1>2. /\ Checking(ClBuild("OpenCL"), {"fp64", "build"}) /\ Checking(ClBuild("OpenCL-float"), {"kernel"})
      /\ Checking(KernelFunctor, {"kernel"}) /\ Checking(<<Check("memory")>>, {"memory"})
  BY CheckingTuples, QuietSteps DEF ClBuild, KernelFunctor
<1>3. ASSUME NEW build, NEW p, Checking(build, p)
      PROVE  Checking(before \o build \o KernelFunctor \o <<Check("memory")>>,
                      {"listed", "kernel", "memory"} \cup p)
  <2>1. Checking(before \o build, {"listed"} \cup p)
    BY <1>1, <1>3, CheckingJoined
  <2>2. Checking(before \o build \o KernelFunctor, ({"listed"} \cup p) \cup {"kernel"})
    BY <1>2, <2>1, CheckingJoined
  <2>3. Checking(before \o build \o KernelFunctor \o <<Check("memory")>>,
                 (({"listed"} \cup p) \cup {"kernel"}) \cup {"memory"})
    BY <1>2, <2>2, CheckingJoined
  <2>4. (({"listed"} \cup p) \cup {"kernel"}) \cup {"memory"} = {"listed", "kernel", "memory"} \cup p
    OBVIOUS
  <2>5. QED
    BY <2>3, <2>4
<1>4. /\ Checking(before \o ClBuild("OpenCL") \o KernelFunctor \o <<Check("memory")>>,
                  {"listed", "fp64", "build", "kernel", "memory"})
      /\ Checking(before \o ClBuild("OpenCL-float") \o KernelFunctor \o <<Check("memory")>>,
                  {"listed", "kernel", "memory"})
  <2>1. /\ {"listed", "kernel", "memory"} \cup {"fp64", "build"}
             = {"listed", "fp64", "build", "kernel", "memory"}
        /\ {"listed", "kernel", "memory"} \cup {"kernel"} = {"listed", "kernel", "memory"}
    OBVIOUS
  <2>2. QED
    BY <1>2, <1>3, <2>1
<1>5. /\ \A x : Plain(Assigned(x, Buffer))
      /\ Plain(<<Acquire({"sums"}, "vector")>>) /\ Plain(ClInit) /\ Plain(Dropped({"program"}))
  BY WrappersPlain, QuietSteps, QuietTuples, WaitHas, FunctorAwaited DEF ClInit, ClLaunch
<1>6. QED
  BY <1>4, <1>5, CheckingNothing DEF ClConstruct, before
----------------------------------------------------------------------------
(* Every constructor that looks at the list of devices has made it         *)

KeepsList(x) == x.do = "list" => x.how \notin {"clear", "append"}

Steady(s) == IsSeq(s) /\ \A i \in DOMAIN s : KeepsList(s[i])

LEMMA SteadyJoined == ASSUME NEW s, NEW t, Steady(s), Steady(t) PROVE Steady(s \o t)
<1> DEFINE r == s \o t
<1>1. \A i \in DOMAIN r : \/ i \in DOMAIN s /\ r[i] = s[i]
                          \/ i - Len(s) \in DOMAIN t /\ r[i] = t[i - Len(s)]
  BY Place DEF Steady
<1>2. IsSeq(r)
  BY Joined DEF Steady
<1> HIDE DEF r
<1>3. \A i \in DOMAIN r : KeepsList(r[i])
  BY <1>1 DEF Steady
<1>4. QED
  BY <1>2, <1>3 DEF Steady, r

\* The list is made first, and nothing disturbs it before it is looked at.
Calm(s) == IsSeq(s) /\ Undisturbed(s) /\ 1 \in DOMAIN s /\ s[1].do = "list"

LEMMA CalmListed == ASSUME NEW s, Calm(s) PROVE Undisturbed(s) /\ Listed(s)
<1>1. DOMAIN s = 1 .. Len(s) /\ Len(s) \in Nat
  BY LenProperties DEF Calm, IsSeq
<1>2. ASSUME NEW i \in DOMAIN s, LooksUp(s[i]) PROVE 1 < i
  <2>1. i # 1
    BY <1>2 DEF Calm, LooksUp
  <2>2. QED
    BY <1>1, <2>1
<1>3. QED
  BY <1>2 DEF Calm, Listed

\* The beginning of such a constructor.
Opening(s) == Steady(s) /\ 1 \in DOMAIN s /\ s[1].do = "list"

LEMMA OpeningCalm == ASSUME NEW s, Opening(s) PROVE Calm(s)
BY DEF Opening, Calm, Steady, Undisturbed, KeepsList

LEMMA OpeningJoined == ASSUME NEW s, NEW t, Opening(s), Steady(t) PROVE Opening(s \o t)
<1>1. 1 \in DOMAIN (s \o t) /\ (s \o t)[1] = s[1]
  BY Joined DEF Opening, Steady
<1>2. QED
  BY <1>1, SteadyJoined DEF Opening

LEMMA OnceOpens == Opening(<<List("once")>>)
BY Tuples DEF Opening, Steady, KeepsList, List

LEMMA CalmJoined ==
  ASSUME NEW s, NEW t, NEW p, Calm(s), Checking(t, p), "listed" \notin p
  PROVE  Calm(s \o t)
<1> DEFINE r == s \o t
<1>1. /\ Len(s) \in Nat /\ DOMAIN s = 1 .. Len(s) /\ DOMAIN r = 1 .. Len(s) + Len(t) /\ Len(t) \in Nat
      /\ \A i \in DOMAIN s : r[i] = s[i]
  BY Joined DEF Calm, Checking
<1>2. \A i \in DOMAIN r : \/ i \in DOMAIN s /\ r[i] = s[i]
                          \/ i - Len(s) \in DOMAIN t /\ r[i] = t[i - Len(s)]
  BY Place DEF Calm, Checking
<1>3. IsSeq(r)
  BY Joined DEF Calm, Checking
<1> HIDE DEF r
<1>4. \A i \in DOMAIN t : ~LooksUp(t[i])
  BY DEF Checking, Reasons, LooksUp
<1>5. 1 \in DOMAIN r /\ r[1].do = "list"
  BY <1>1 DEF Calm
<1>6. ASSUME NEW i \in DOMAIN r, NEW j \in DOMAIN r, LooksUp(r[i]), j < i, r[j].do = "list"
      PROVE  r[j].how \notin {"clear", "append"}
  <2>1. i \in DOMAIN s /\ r[i] = s[i]
    BY <1>2, <1>4, <1>6
  <2>2. j \in DOMAIN s /\ r[j] = s[j]
    BY <1>1, <1>6, <2>1
  <2>3. QED
    BY <1>6, <2>1, <2>2 DEF Calm, Undisturbed
<1>7. QED
  BY <1>3, <1>5, <1>6 DEF Calm, Undisturbed, r

\* The parts that check nothing.
LEMMA CalmPlain == ASSUME NEW s, NEW t, Calm(s), Plain(t) PROVE Calm(s \o t)
<1>1. Checking(t, {})
  BY DEF Plain, NeverChecks, Checking, Reasons
<1>2. QED
  BY <1>1, CalmJoined

LEMMA SteadyTuples ==
  /\ \A x : KeepsList(x) => Steady(<<x>>)
  /\ \A x, y : KeepsList(x) /\ KeepsList(y) => Steady(<<x, y>>)
  /\ \A x, y, z : KeepsList(x) /\ KeepsList(y) /\ KeepsList(z) => Steady(<<x, y, z>>)
  /\ \A x, y, z, u, v, w :
       /\ KeepsList(x) /\ KeepsList(y) /\ KeepsList(z)
       /\ KeepsList(u) /\ KeepsList(v) /\ KeepsList(w)
       => Steady(<<x, y, z, u, v, w>>)
BY Tuples DEF Steady

LEMMA SteadySteps ==
  /\ \A xs, by : KeepsList(Acquire(xs, by)) /\ KeepsList(AcquireOn(xs, by)) /\ KeepsList(Release(xs, by))
  /\ \A x, y : KeepsList(Rename(x, y))
  /\ \A x : KeepsList(Retain(x)) /\ KeepsList(Check(x)) /\ KeepsList(Submit(x))
  /\ KeepsList(Select) /\ KeepsList(Wait) /\ KeepsList(List("once"))
BY DEF KeepsList, Acquire, AcquireOn, Release, Rename, Retain, Check, Submit, Select, Wait, List

LEMMA SteadyDevices == Steady(getDeviceList("once")) /\ Steady(getDeviceName) /\ Steady(getDeviceDriver)
BY SteadyTuples, SteadySteps, SteadyJoined DEF getDeviceList, getDeviceName, getDeviceDriver

LEMMA SyclLists ==
  Calm(SyclConstruct) /\ Calm(AiConstruct) /\ \A b : Calm(UsmConstruct(b))
<1>1. Calm(SyclConstruct)
  <2>1. Opening(getDeviceList("once") \o <<Check("listed"), Check("fp64"), Select>>
                \o getDeviceName \o getDeviceDriver)
    BY OnceOpens, SteadyTuples, SteadySteps, SteadyDevices, OpeningJoined DEF getDeviceList
  <2>2. Plain(<<Acquire({"queue"}, "new"), Acquire(SyclBuffers, "new")>>) /\ Plain(SyclInit)
    BY QuietSteps, QuietTuples, WorkPlain DEF SyclInit
  <2>3. QED
    BY <2>1, <2>2, OpeningCalm, CalmPlain DEF SyclConstruct
<1>2. Calm(AiConstruct)
  <2>1. Steady(AiInit)
    BY SteadyTuples, SteadySteps DEF AiInit
  <2>2. Steady(<<Check("listed"), Check("fp64"), Select, Acquire({"queue"}, "new"),
                 AcquireOn(AiMemory, "usm"), Acquire({"h_sum"}, "new")>>)
    BY SteadyTuples, SteadySteps
  <2>3. Opening(getDeviceList("once"))
    BY OnceOpens DEF getDeviceList
  <2>4. QED
    BY <2>1, <2>2, <2>3, SteadyDevices, OpeningJoined, OpeningCalm DEF AiConstruct
<1>3. ASSUME NEW b PROVE Calm(UsmConstruct(b))
  <2>1. Opening(getDeviceList("once") \o <<Check("listed")>> \o getDeviceName \o getDeviceDriver
                \o <<Check("fp64"), Select, Acquire({"queue"}, "new")>>)
    BY OnceOpens, SteadyTuples, SteadySteps, SteadyDevices, OpeningJoined DEF getDeviceList
  <2>2. Plain(UsmAllocate(b)) /\ Plain(<<List("clear")>>) /\ Plain(UsmInit(b))
    BY QuietSteps, QuietTuples, WorkPlain DEF UsmAllocate, UsmInit
  <2>3. QED
    BY <2>1, <2>2, OpeningCalm, CalmPlain DEF UsmConstruct
<1>4. QED
  BY <1>1, <1>2, <1>3

LEMMA ClLists == ASSUME NEW b PROVE Calm(ClConstruct(b))
<1> DEFINE before == ClDeviceList("once") \o <<Check("listed")>> \o Copied({"device"})
                     \o ClDeviceName \o ClDeviceDriver
<1>1. Opening(before)
  <2>1. /\ Steady(<<Check("listed")>>) /\ Steady(Copied({"device"})) /\ Steady(Dropped({"device"}))
        /\ Steady(getDevices("device")) /\ Steady(ClDeviceName) /\ Steady(ClDeviceDriver)
    BY SteadyTuples, SteadySteps, SteadyJoined
       DEF Copied, Dropped, getDevices, Assigned, Moved, ClDeviceName, ClDeviceDriver
  <2>2. Opening(ClDeviceList("once"))
    BY <2>1, OnceOpens, OpeningJoined DEF ClDeviceList
  <2>3. QED
    BY <2>1, <2>2, OpeningJoined
<1> HIDE DEF before
<1>2. \E p : Checking(ClBuild(b), p) /\ "listed" \notin p
  <2>1. Checking(<<Check("fp64"), Check("build")>>, {"fp64", "build"})
    BY CheckingTuples
  <2>2. Checking(<<Check("kernel")>>, {"kernel"})
    BY CheckingTuples
  <2>3. QED
    BY <2>1, <2>2 DEF ClBuild
<1>3. /\ Checking(<<Select>>, {}) /\ Checking(KernelFunctor, {"kernel"})
      /\ Checking(<<Check("memory")>>, {"memory"})
  BY CheckingTuples, QuietSteps DEF KernelFunctor
<1>4. /\ Plain(Assigned("context", Context)) /\ Plain(Assigned("queue", CommandQueue))
      /\ Plain(ClProgram("program")) /\ \A x : Plain(Assigned(x, Buffer))
      /\ Plain(<<Acquire({"sums"}, "vector")>>) /\ Plain(ClInit) /\ Plain(Dropped({"program"}))
  BY WrappersPlain, QuietSteps, QuietTuples, WaitHas, FunctorAwaited DEF ClInit, ClLaunch
<1>5. Calm(before \o <<Select>>)
  BY <1>1, <1>3, OpeningCalm, CalmJoined
<1>6. Calm(before \o <<Select>> \o Assigned("context", Context) \o Assigned("queue", CommandQueue)
           \o ClProgram("program") \o ClBuild(b))
  BY <1>2, <1>4, <1>5, CalmPlain, CalmJoined
<1>7. Calm(before \o <<Select>> \o Assigned("context", Context) \o Assigned("queue", CommandQueue)
           \o ClProgram("program") \o ClBuild(b) \o KernelFunctor \o <<Check("memory")>>)
  BY <1>3, <1>6, CalmJoined
<1>8. QED
  BY <1>4, <1>7, CalmPlain DEF ClConstruct, before
----------------------------------------------------------------------------
(* Every constructor refuses what it cannot use                            *)

\* What the constructors check.
Checks(b) ==
  CASE b \in CudaBuilds     -> {"count", "memory"}
    [] b \in HipBuilds      -> {"count", "memory0"}
    [] b \in TbbBuilds      -> {"first"}
    [] b \in SyclBuilds     -> {"listed", "fp64"}
    [] b = "OpenCL"         -> {"listed", "fp64", "build", "kernel", "memory"}
    [] b = "OpenCL-float"   -> {"listed", "kernel", "memory"}
    [] b = "HC"             -> {"size", "count"}
    [] OTHER                -> {}

LEMMA ChecksOf ==
  /\ \A b \in CudaBuilds : Checks(b) = {"count", "memory"}
  /\ \A b \in HipBuilds : Checks(b) = {"count", "memory0"}
  /\ \A b \in TbbBuilds : Checks(b) = {"first"}
  /\ \A b \in UsmBuilds \cup AiBuilds \cup {"SYCL"} : Checks(b) = {"listed", "fp64"}
  /\ Checks("HC") = {"size", "count"}
  /\ \A b \in OmpBuilds \cup RajaBuilds \cup StdBuilds \cup FutharkBuilds \cup ThrustBuilds
             \cup {"ACC", "Kokkos"} : Checks(b) = {}
<1> USE DEF Checks, SyclBuilds, CudaBuilds, HipBuilds, TbbBuilds, UsmBuilds, AiBuilds
<1>1. \A b \in CudaBuilds : Checks(b) = {"count", "memory"}
  OBVIOUS
<1>2. \A b \in HipBuilds : Checks(b) = {"count", "memory0"}
  OBVIOUS
<1>3. \A b \in TbbBuilds : Checks(b) = {"first"}
  OBVIOUS
<1>4. \A b \in UsmBuilds \cup AiBuilds \cup {"SYCL"} : Checks(b) = {"listed", "fp64"}
  OBVIOUS
<1>5. Checks("HC") = {"size", "count"}
  OBVIOUS
<1>6. \A b \in OmpBuilds \cup RajaBuilds \cup StdBuilds \cup FutharkBuilds \cup ThrustBuilds
             \cup {"ACC", "Kokkos"} : Checks(b) = {}
  BY DEF OmpBuilds, RajaBuilds, StdBuilds, FutharkBuilds, ThrustBuilds
<1>7. QED
  BY <1>1, <1>2, <1>3, <1>4, <1>5, <1>6

LEMMA ConstructorsCheck ==
  ASSUME NEW b \in AllBuilds
  PROVE  Reasons(StreamOf(b).construct) = Checks(b)
<1>1. CASE b \in LoopBuilds
  BY <1>1, LoopsCheck, Constructors, ChecksOf DEF Checking, LoopBuilds
<1>2. CASE b \in QueueBuilds
  <2>1. CASE b \in CudaBuilds
    <3>1. StreamOf(b).construct = CudaConstruct(b)
      BY <2>1, Constructors
    <3>2. Checks(b) = {"count", "memory"}
      BY <2>1, ChecksOf
    <3>3. Checking(CudaConstruct(b), {"count", "memory"})
      BY QueuesCheck
    <3>4. QED
      BY <3>1, <3>2, <3>3 DEF Checking
  <2>2. CASE b \in HipBuilds
    <3>1. StreamOf(b).construct = HipConstruct(b)
      BY <2>2, Constructors
    <3>2. Checks(b) = {"count", "memory0"}
      BY <2>2, ChecksOf
    <3>3. Checking(HipConstruct(b), {"count", "memory0"})
      BY QueuesCheck
    <3>4. QED
      BY <3>1, <3>2, <3>3 DEF Checking
  <2>3. CASE b \in ThrustBuilds
    <3>1. StreamOf(b).construct = ThrustConstruct(b)
      BY <2>3, Constructors
    <3>2. Checks(b) = {}
      BY <2>3, ChecksOf
    <3>3. Checking(ThrustConstruct(b), {})
      BY QueuesCheck
    <3>4. QED
      BY <3>1, <3>2, <3>3 DEF Checking
  <2>4. CASE b \in UsmBuilds
    <3>1. StreamOf(b).construct = UsmConstruct(b)
      BY <2>4, Constructors
    <3>2. Checks(b) = {"listed", "fp64"}
      BY <2>4, ChecksOf
    <3>3. Checking(UsmConstruct(b), {"listed", "fp64"})
      BY QueuesCheck
    <3>4. QED
      BY <3>1, <3>2, <3>3 DEF Checking
  <2>5. CASE b \in AiBuilds
    <3>1. StreamOf(b).construct = AiConstruct
      BY <2>5, Constructors
    <3>2. Checks(b) = {"listed", "fp64"}
      BY <2>5, ChecksOf
    <3>3. Checking(AiConstruct, {"listed", "fp64"})
      BY QueuesCheck
    <3>4. QED
      BY <3>1, <3>2, <3>3 DEF Checking
  <2>6. CASE b = "SYCL"
    BY <2>6, QueuesCheck, Constructors, ChecksOf DEF Checking
  <2>7. CASE b = "HC"
    BY <2>7, QueuesCheck, Constructors, ChecksOf DEF Checking
  <2>8. QED
    BY <1>2, <2>1, <2>2, <2>3, <2>4, <2>5, <2>6, <2>7 DEF QueueBuilds, SyclBuilds
<1>3. CASE b \in ClBuilds
  BY <1>3, ClChecks, Constructors
     DEF Checking, Checks, ClBuilds, TbbBuilds, CudaBuilds, HipBuilds, SyclBuilds, UsmBuilds, AiBuilds
<1>4. QED
  BY <1>1, <1>2, <1>3 DEF AllBuilds

\* What the backends of a session ask of the system is what the table says.
CppAsks == \A b \in Backends : Asks(b) = Demands(b)

\* A check that throws and a demand that is not met are the same thing.
LEMMA DemandsChecked ==
  ASSUME NEW b \in AllBuilds, NEW m, m.index \in Nat, m.devices \in Nat
  PROVE  (\E why \in Checks(b) : Rejects(why, m)) <=> \E what \in Demands(b) : ~Offers(m, what)
<1>1. Rejects("count", m) <=> ~Offers(m, "device")
  BY DEF Rejects, Offers
<1>2. Rejects("listed", m) <=> ~Offers(m, "device")
  BY DEF Rejects, Offers
<1>3. /\ Rejects("first", m) <=> ~Offers(m, "first")
      /\ Rejects("size", m) <=> ~Offers(m, "tiles")
      /\ Rejects("fp64", m) <=> ~Offers(m, "fp64")
  BY DEF Rejects, Offers
<1>4. /\ Rejects("memory", m) <=> ~Offers(m, "memory")
      /\ Rejects("memory0", m) <=> ~Offers(m, "memory0")
  BY DEF Rejects, Offers
<1>5. /\ Rejects("kernel", m) <=> ~Offers(m, "program")
      /\ Rejects("build", m) => ~Offers(m, "program")
  BY DEF Rejects, Offers
<1>6. CASE b \in CudaBuilds
  <2>1. Checks(b) = {"count", "memory"} /\ Demands(b) = {"device", "memory"}
    BY <1>6, ChecksOf
       DEF Demands, CudaBuilds, HipBuilds, TbbBuilds, SyclBuilds, UsmBuilds, AiBuilds
  <2>2. QED
    BY <1>1, <1>4, <2>1
<1>7. CASE b \in HipBuilds
  <2>1. Checks(b) = {"count", "memory0"} /\ Demands(b) = {"device", "memory0"}
    BY <1>7, ChecksOf
       DEF Demands, CudaBuilds, HipBuilds, TbbBuilds, SyclBuilds, UsmBuilds, AiBuilds
  <2>2. QED
    BY <1>1, <1>4, <2>1
<1>8. CASE b \in TbbBuilds
  <2>1. Checks(b) = {"first"} /\ Demands(b) = {"first"}
    BY <1>8, ChecksOf
       DEF Demands, CudaBuilds, HipBuilds, TbbBuilds, SyclBuilds, UsmBuilds, AiBuilds
  <2>2. QED
    BY <1>3, <2>1
<1>9. CASE b \in SyclBuilds
  <2>1. Checks(b) = {"listed", "fp64"} /\ Demands(b) = {"device", "fp64"}
    BY <1>9, ChecksOf
       DEF Demands, CudaBuilds, HipBuilds, TbbBuilds, SyclBuilds, UsmBuilds, AiBuilds
  <2>2. QED
    BY <1>2, <1>3, <2>1
<1>10. CASE b \in ClBuilds
  <2>1. CASE b = "OpenCL"
    <3>1. /\ Checks(b) = {"listed", "fp64", "build", "kernel", "memory"}
          /\ Demands(b) = {"device", "fp64", "memory", "program"}
      BY <2>1 DEF Checks, Demands, CudaBuilds, HipBuilds, TbbBuilds, SyclBuilds, UsmBuilds, AiBuilds
    <3>2. QED
      BY <1>2, <1>3, <1>4, <1>5, <3>1
  <2>2. CASE b = "OpenCL-float"
    <3>1. /\ Checks(b) = {"listed", "kernel", "memory"}
          /\ Demands(b) = {"device", "memory", "program"}
      BY <2>2 DEF Checks, Demands, CudaBuilds, HipBuilds, TbbBuilds, SyclBuilds, UsmBuilds, AiBuilds
    <3>2. QED
      BY <1>2, <1>4, <1>5, <3>1
  <2>3. QED
    BY <1>10, <2>1, <2>2 DEF ClBuilds
<1>11. CASE b = "HC"
  <2>1. Checks(b) = {"size", "count"} /\ Demands(b) = {"device", "tiles"}
    BY <1>11 DEF Checks, Demands, CudaBuilds, HipBuilds, TbbBuilds, SyclBuilds, UsmBuilds, AiBuilds
  <2>2. QED
    BY <1>1, <1>3, <2>1
<1>12. CASE /\ b \notin CudaBuilds \cup HipBuilds \cup TbbBuilds \cup SyclBuilds
            /\ b \notin ClBuilds \cup {"HC"}
  BY <1>12 DEF Checks, Demands, ClBuilds
<1>13. QED
  BY <1>6, <1>7, <1>8, <1>9, <1>10, <1>11, <1>12

LEMMA CppChecks == ASSUME CppPrograms, CppAsks PROVE ProgramsCheck
<1>1. SUFFICES ASSUME NEW b \in Backends
               PROVE  /\ \A m \in Machines(b) : Throws(Program(b, "construct"), m) <=> ~Usable(b, m)
                      /\ Undisturbed(Program(b, "construct")) /\ Listed(Program(b, "construct"))
  BY MethodsWellBehaved DEF ProgramsCheck
<1> DEFINE s == Program(b, "construct")
<1>2. b \in AllBuilds /\ s = StreamOf(b).construct
  BY MethodsWellBehaved DEF CppPrograms
<1>3. Reasons(s) = Checks(b)
  BY <1>2, ConstructorsCheck
<1>4. Undisturbed(s) /\ Listed(s)
  <2>1. CASE "listed" \notin Checks(b)
    BY <1>3, <2>1 DEF Reasons, Undisturbed, Listed, LooksUp
  <2>2. CASE "listed" \in Checks(b)
    <3>1. b \in SyclBuilds \cup ClBuilds
      BY <2>2 DEF Checks, ClBuilds
    <3>2. Calm(s)
      BY <1>2, <3>1, SyclLists, ClLists, Constructors DEF SyclBuilds
    <3>3. QED
      BY <3>2, CalmListed
  <2>3. QED
    BY <2>1, <2>2
<1> HIDE DEF s
<1>5. ASSUME NEW m \in Machines(b) PROVE Throws(s, m) <=> ~Usable(b, m)
  <2>1. Throws(s, m) <=> \E why \in Checks(b) : Rejects(why, m)
    BY <1>3 DEF Throws, Reasons
  <2>2. m.index \in Nat /\ m.devices \in Nat
    BY MachinesCounted
  <2>3. (\E why \in Checks(b) : Rejects(why, m)) <=> \E what \in Demands(b) : ~Offers(m, what)
    BY <1>2, <2>2, DemandsChecked
  <2>4. Usable(b, m) <=> \A what \in Demands(b) : Offers(m, what)
    BY DEF Usable, CppAsks
  <2>5. QED
    BY <2>1, <2>3, <2>4
<1>6. QED
  BY <1>4, <1>5 DEF s

\* On every system the constructor of a C++ backend throws if, and only if, the
\* system lacks something that the build asks for; what HIP asks for is memory
\* on the first device, whichever device it is told to use (HIPStream.cpp).
THEOREM CppBackendsRefuse ==
  ASSUME CppPrograms, CppAsks
  PROVE  Spec => []RefusesTheUnusable
BY CppChecks, SessionsRefuse
----------------------------------------------------------------------------
(* What operations touch                                                   *)

\* The names of the arrays.
LEMMA Places3 ==
  /\ Objects(Here) = {"a", "b", "c"} /\ Objects(Device) = {"d_a", "d_b", "d_c"}
  /\ Objects(Host) = {"h_a", "h_b", "h_c"}
  /\ Here \in [Field -> Objects(Here)] /\ Device \in [Field -> Objects(Device)]
  /\ Host \in [Field -> Objects(Host)]
  /\ Device["a"] = "d_a" /\ Device["b"] = "d_b" /\ Device["c"] = "d_c"
  /\ Here["a"] = "a" /\ Here["b"] = "b" /\ Here["c"] = "c"
BY DEF Objects, Here, Device, Host, Arrays, Field

\* What an operation writes is in Y, what it reads in X.
LEMMA ReadsWithin ==
  ASSUME NEW op, NEW X, NEW Y, \A y \in DOMAIN op : y \in Y,
         \A y \in DOMAIN op : \A f \in Operands(op[y].k) : op[y].of[f] \in X
  PROVE  Touches(op) \subseteq X \cup Y
BY DEF Touches, Reads, Writes

\* Loops touch the arrays they run over, reductions their result too.
LEMMA LoopTouches ==
  ASSUME NEW X, NEW m \in [Field -> X]
  PROVE  /\ \A k \in ArrayKernels : Touches(Loop(k, m)) \subseteq X
         /\ Touches(StartLoop(m)) \subseteq X
         /\ \A f \in Field : Touches(StartArray(f, m)) \subseteq X
         /\ \A x : Touches(Products(m, x)) \subseteq X \cup {x}
         /\ \A x : Touches(ProductsOnto(m, x)) \subseteq X \cup {x}
         /\ \A x \in X : \A k : Touches([y \in {x} |-> Value(k, m)]) \subseteq X
<1>1. ASSUME NEW k, NEW x
      PROVE  Touches([y \in {x} |-> Value(k, m)]) \subseteq X \cup {x}
  <2>1. Reads([y \in {x} |-> Value(k, m)]) \subseteq X
    BY DEF Reads, Value, Operands, Field
  <2>2. QED
    BY <2>1 DEF Touches, Writes
<1>2. \A k \in ArrayKernels : Touches(Loop(k, m)) \subseteq X
  <2>1. \A k \in ArrayKernels : m[Target(k)] \in X
    BY DEF Target, ArrayKernels, Field
  <2>2. ASSUME NEW k \in ArrayKernels PROVE Touches(Loop(k, m)) \subseteq X
    <3>1. Touches([y \in {m[Target(k)]} |-> Value(k, m)]) \subseteq X \cup {m[Target(k)]}
      BY <1>1
    <3>2. QED
      BY <2>1, <3>1 DEF Loop
  <2>3. QED
    BY <2>2
<1>3. Touches(StartLoop(m)) \subseteq X
  <2>1. \A x \in Objects(m) : \E f \in Field : m[f] = x
    BY DEF Objects
  <2>2. ASSUME NEW x \in Objects(m) PROVE (CHOOSE f \in Field : m[f] = x) \in Field
    BY <2>1
  <2>3. \A k \in Field : Operands(k) = {}
    BY DEF Operands, Field
  <2>4. PICK op : op = StartLoop(m)
    OBVIOUS
  <2>5. /\ DOMAIN op = Objects(m)
        /\ \A x \in Objects(m) : op[x].k \in Field
    BY <2>2, <2>4 DEF StartLoop, Value
  <2>6. \A x \in Objects(m) : x \in X
    BY DEF Objects
  <2>7. Touches(op) \subseteq X \cup X
    BY <2>3, <2>5, <2>6, ReadsWithin
  <2>8. QED
    BY <2>4, <2>7
<1>4. \A f \in Field : Touches(StartArray(f, m)) \subseteq X
  BY <1>1 DEF StartArray
<1>5. \A x : Touches(Products(m, x)) \subseteq X \cup {x}
  BY <1>1 DEF Products
<1>6. \A x : Touches(ProductsOnto(m, x)) \subseteq X \cup {x}
  <2>1. SUFFICES ASSUME NEW x PROVE Touches(ProductsOnto(m, x)) \subseteq X \cup {x}
    OBVIOUS
  <2>2. \A f \in Field : Arrays(m["a"], m["b"], x)[f] \in X \cup {x}
    BY DEF Arrays, Field
  <2>3. Reads(ProductsOnto(m, x)) \subseteq X \cup {x}
    BY <2>2 DEF Reads, ProductsOnto, Value, Operands, Field
  <2>4. QED
    BY <2>3 DEF Touches, Writes, ProductsOnto
<1>7. ASSUME NEW x \in X, NEW k PROVE Touches([y \in {x} |-> Value(k, m)]) \subseteq X
  <2>1. Touches([y \in {x} |-> Value(k, m)]) \subseteq X \cup {x}
    BY <1>1
  <2>2. QED
    BY <2>1
<1>8. QED
  BY <1>2, <1>3, <1>4, <1>5, <1>6, <1>7

\* Copies touch both sides.
LEMMA MoveTouches ==
  /\ \A x, y : Touches(Move(x, y)) \subseteq {x, y}
  /\ \A x : Touches(Zero(x)) \subseteq {x}
  /\ \A X, Y : \A m \in [Field -> X], n \in [Field -> Y] : Touches(MoveArrays(m, n)) \subseteq X \cup Y
  /\ \A op : Touches([x \in {} |-> op]) = {}
<1>1. \A x, y : Touches(Move(x, y)) \subseteq {x, y}
  BY DEF Touches, Reads, Writes, Move, Value, Operands, Arrays, Field
<1>2. \A x : Touches(Zero(x)) \subseteq {x}
  BY DEF Touches, Reads, Writes, Zero, Value, Operands, Arrays, Field
<1>3. ASSUME NEW X, NEW Y, NEW m \in [Field -> X], NEW n \in [Field -> Y]
      PROVE  Touches(MoveArrays(m, n)) \subseteq X \cup Y
  <2>1. \A y \in Objects(n) : \E f \in Field : n[f] = y
    BY DEF Objects
  <2>2. ASSUME NEW y \in Objects(n) PROVE m[CHOOSE f \in Field : n[f] = y] \in X
    BY <2>1
  <2>3. PICK op : op = MoveArrays(m, n)
    OBVIOUS
  <2>4. /\ DOMAIN op = Objects(n)
        /\ \A y \in Objects(n) : /\ op[y].k = "Copy"
                                 /\ op[y].of["a"] = m[CHOOSE f \in Field : n[f] = y]
    BY <2>3 DEF MoveArrays, Value, Arrays, Field
  <2>5. \A y \in Objects(n) : y \in Y
    BY DEF Objects
  <2>6. Operands("Copy") = {"a"}
    BY DEF Operands
  <2>7. QED
    BY <2>2, <2>3, <2>4, <2>5, <2>6, ReadsWithin
<1>4. \A op : Touches([x \in {} |-> op]) = {}
  BY DEF Touches, Reads, Writes
<1>5. QED
  BY <1>1, <1>2, <1>3, <1>4

\* No two names are the same.
LEMMA Disjoint ==
  /\ Objects(Here) \cap Objects(Device) = {} /\ Objects(Here) \cap Objects(Host) = {}
  /\ Objects(Device) \cap Objects(Host) = {}
  /\ \A x \in {"sum", "sums", "d_sum", "d_dot", "h_sum", "partial", "h_partial", "stream", "queue",
               "cfg", "ctx", "d"} : x \notin Objects(Here) \cup Objects(Device) \cup Objects(Host)
BY Places3
----------------------------------------------------------------------------
(* What the methods compute                                                *)

\* Tuples are concatenations of shorter ones.
LEMMA Pairs == \A x, y : <<x>> \o <<y>> = <<x, y>>
<1>1. SUFFICES ASSUME NEW x, NEW y PROVE <<x>> \o <<y>> = <<x, y>>
  OBVIOUS
<1>2. /\ <<x>> \in Seq({x, y}) /\ <<y>> \in Seq({x, y}) /\ Len(<<x>>) = 1 /\ Len(<<y>>) = 1
      /\ <<x>>[1] = x /\ <<y>>[1] = y
  OBVIOUS
<1>3. PICK r : r = <<x>> \o <<y>>
  OBVIOUS
<1>4. r \in Seq({x, y}) /\ Len(r) = 2 /\ r[1] = x /\ r[2] = y
  BY <1>2, <1>3, ConcatProperties
<1>5. r = [i \in 1 .. 2 |-> r[i]] /\ <<x, y>> = [i \in 1 .. 2 |-> <<x, y>>[i]]
  BY <1>4
<1>6. \A i \in 1 .. 2 : r[i] = <<x, y>>[i]
  BY <1>4
<1>7. QED
  BY <1>3, <1>5, <1>6

LEMMA Triples == \A x, y, z : <<x, y, z>> = <<x>> \o <<y, z>>
OBVIOUS
LEMMA Fours == \A x, y, z, u : <<x, y, z, u>> = <<x, y>> \o <<z, u>>
OBVIOUS
LEMMA Fives == \A x, y, z, u, v : <<x, y, z, u, v>> = <<x, y>> \o <<z, u, v>>
OBVIOUS
LEMMA Sixes == \A x, y, z, u, v, w : <<x, y, z, u, v, w>> = <<x, y, z>> \o <<u, v, w>>
OBVIOUS

\* What is known: pairs of an object and its contents.
Facts(d, K) == \A q \in K : q[1] \in DOMAIN d /\ d[q[1]] = q[2]

\* That the objects m contain the arrays x, or those of F do.
Keeping(m, F, x) == {<<m[f], x[f]>> : f \in F}

Keep(m, x) == Keeping(m, Field, x)

\* Sure steps, that lead from one view to another.
Path(s, v, t, v2) ==
  \E views : /\ views[1] = v /\ views[Len(s) + 1] = v2
             /\ \A i \in DOMAIN s : /\ Sure(s[i], views[i], t)
                                    /\ views[i + 1] = Viewed(views[i], s[i])

\* Steps that lead to the facts K2 from K, whatever else is known.
Tells(s, t, K, p, K2, p2) ==
  /\ IsSeq(s)
  /\ \A d, w : Facts(d, K) /\ w \subseteq p =>
       \E d2, w2 : Facts(d2, K2) /\ w2 \subseteq p2 /\ Path(s, View(p, d, w), t, View(p2, d2, w2))

\* A method that is entered when K is known, and leaves K2.
Gains(s, t, K, K2) ==
  \A d : Facts(d, K) => \E d2 : Facts(d2, K2) /\ Teaches(s, Entering(d), t, d2)

\* An operation after which K2 is known.
Turns(op, K, K2) ==
  \A d : Facts(d, K) => Reads(op) \subseteq DOMAIN d /\ Facts(Learned(d, op), K2)
----------------------------------------------------------------------------
(* Sure steps, one after the other                                         *)

\* A path after a path.
LEMMA PathJoined ==
  ASSUME NEW s, NEW r, IsSeq(s), IsSeq(r),
         NEW t, NEW v, NEW v2, NEW v3, Path(s, v, t, v2), Path(r, v2, t, v3)
  PROVE  Path(s \o r, v, t, v3)
<1>1. PICK q, n, m : q = s \o r /\ n = Len(s) /\ m = Len(r)
  OBVIOUS
<1>2. IsSeq(q) /\ n \in Nat /\ m \in Nat
  BY <1>1, Joined
<1>3. DOMAIN s = 1 .. n /\ DOMAIN r = 1 .. m /\ DOMAIN q = 1 .. n + m
  BY <1>1, Joined
<1>4. (\A i \in DOMAIN s : q[i] = s[i]) /\ (\A i \in DOMAIN r : q[i + n] = r[i])
  BY <1>1, Joined
<1>5. Len(q) = n + m
  BY <1>2, <1>3, LenProperties DEF IsSeq
<1>6. PICK one : /\ one[1] = v /\ one[n + 1] = v2
                 /\ \A i \in DOMAIN s : /\ Sure(s[i], one[i], t)
                                        /\ one[i + 1] = Viewed(one[i], s[i])
  BY <1>1 DEF Path
<1>7. PICK two : /\ two[1] = v2 /\ two[m + 1] = v3
                 /\ \A i \in DOMAIN r : /\ Sure(r[i], two[i], t)
                                        /\ two[i + 1] = Viewed(two[i], r[i])
  BY <1>1 DEF Path
<1> DEFINE all == [i \in 1 .. n + m + 1 |-> IF i <= n THEN one[i] ELSE two[i - n]]
<1>8. all[1] = v /\ all[n + m + 1] = v3
  <2>1. CASE n = 0
    BY <1>2, <1>6, <1>7, <2>1
  <2>2. CASE n # 0
    <3>1. 1 \in 1 .. n + m + 1 /\ 1 <= n /\ n + m + 1 \in 1 .. n + m + 1 /\ ~(n + m + 1 <= n)
          /\ (n + m + 1) - n = m + 1
      BY <1>2, <2>2
    <3>2. QED
      BY <1>6, <1>7, <3>1
  <2>3. QED
    BY <2>1, <2>2
<1>9. \A i \in 1 .. n : all[i] = one[i] /\ all[i + 1] = one[i + 1]
  <2>1. SUFFICES ASSUME NEW i \in 1 .. n PROVE all[i] = one[i] /\ all[i + 1] = one[i + 1]
    OBVIOUS
  <2>2. i \in 1 .. n + m + 1 /\ i + 1 \in 1 .. n + m + 1 /\ i <= n
    BY <1>2
  <2>3. CASE i = n
    <3>1. ~(i + 1 <= n) /\ (i + 1) - n = 1
      BY <1>2, <2>3
    <3>2. QED
      BY <1>6, <1>7, <2>2, <2>3, <3>1
  <2>4. CASE i # n
    <3>1. i + 1 <= n
      BY <1>2, <2>4
    <3>2. QED
      BY <2>2, <3>1
  <2>5. QED
    BY <2>3, <2>4
<1>10. \A i \in 1 .. m : all[i + n] = two[i] /\ all[(i + n) + 1] = two[i + 1]
  <2>1. SUFFICES ASSUME NEW i \in 1 .. m PROVE all[i + n] = two[i] /\ all[(i + n) + 1] = two[i + 1]
    OBVIOUS
  <2>2. /\ i + n \in 1 .. n + m + 1 /\ (i + n) + 1 \in 1 .. n + m + 1
        /\ ~(i + n <= n) /\ ~((i + n) + 1 <= n) /\ (i + n) - n = i /\ ((i + n) + 1) - n = i + 1
    BY <1>2
  <2>3. QED
    BY <2>2
<1> HIDE DEF all
<1>11. ASSUME NEW i \in DOMAIN q
      PROVE  Sure(q[i], all[i], t) /\ all[i + 1] = Viewed(all[i], q[i])
  <2>1. CASE i \in 1 .. n
    <3>1. q[i] = s[i] /\ i \in DOMAIN s
      BY <1>3, <1>4, <2>1
    <3>2. QED
      BY <1>6, <1>9, <2>1, <3>1
  <2>2. CASE i \notin 1 .. n
    <3>1. PICK j \in 1 .. m : i = j + n
      <4>1. i - n \in 1 .. m /\ i = (i - n) + n
        BY <1>2, <1>3, <2>2
      <4>2. QED
        BY <4>1
    <3>2. q[i] = r[j] /\ j \in DOMAIN r
      BY <1>3, <1>4, <3>1
    <3>3. all[i] = two[j] /\ all[i + 1] = two[j + 1]
      BY <1>10, <3>1
    <3>4. QED
      BY <1>7, <3>2, <3>3
  <2>3. QED
    BY <2>1, <2>2
<1>12. all[Len(q) + 1] = v3
  BY <1>5, <1>8
<1>13. QED
  BY <1>1, <1>8, <1>11, <1>12 DEF Path

\* Concatenation.
LEMMA TellsJoined ==
  ASSUME NEW s, NEW r, NEW t, NEW K, NEW p, NEW K2, NEW p2, NEW K3, NEW p3,
         Tells(s, t, K, p, K2, p2), Tells(r, t, K2, p2, K3, p3)
  PROVE  Tells(s \o r, t, K, p, K3, p3)
<1>1. IsSeq(s) /\ IsSeq(r) /\ IsSeq(s \o r)
  BY Joined DEF Tells
<1>2. ASSUME NEW d, NEW w, Facts(d, K), w \subseteq p
      PROVE  \E d3, w3 : /\ Facts(d3, K3) /\ w3 \subseteq p3
                         /\ Path(s \o r, View(p, d, w), t, View(p3, d3, w3))
  <2>1. PICK d2, w2 : Facts(d2, K2) /\ w2 \subseteq p2 /\ Path(s, View(p, d, w), t, View(p2, d2, w2))
    BY <1>2 DEF Tells
  <2>2. PICK d3, w3 : Facts(d3, K3) /\ w3 \subseteq p3 /\ Path(r, View(p2, d2, w2), t, View(p3, d3, w3))
    BY <2>1 DEF Tells
  <2>3. Path(s \o r, View(p, d, w), t, View(p3, d3, w3))
    BY <1>1, <2>1, <2>2, PathJoined
  <2>4. QED
    BY <2>2, <2>3
<1>3. QED
  BY <1>1, <1>2 DEF Tells

\* No step, and one.
LEMMA TellsNothing ==
  ASSUME NEW t, NEW K, NEW p
  PROVE  Tells(<<>>, t, K, p, K, p)
<1>1. IsSeq(<<>>) /\ Len(<<>>) = 0 /\ DOMAIN <<>> = {}
  BY Tuples
<1>2. ASSUME NEW v PROVE Path(<<>>, v, t, v)
  <2>1. PICK views : views = [i \in {1} |-> v]
    OBVIOUS
  <2>2. views[1] = v /\ views[Len(<<>>) + 1] = v
    BY <1>1, <2>1
  <2>3. QED
    BY <1>1, <2>2 DEF Path
<1>3. QED
  BY <1>1, <1>2 DEF Tells

\* A step.
LEMMA TellsOne ==
  ASSUME NEW x, NEW t, NEW K, NEW p, NEW K2, NEW p2,
         \A d, w : Facts(d, K) /\ w \subseteq p =>
           /\ Sure(x, View(p, d, w), t) /\ Busy(p, x) = p2
           /\ Facts(Known(View(p, d, w), x), K2) /\ Due(w, x) \subseteq p2
  PROVE  Tells(<<x>>, t, K, p, K2, p2)
<1>1. IsSeq(<<x>>) /\ Len(<<x>>) = 1 /\ DOMAIN <<x>> = {1} /\ <<x>>[1] = x
  BY Tuples
<1>2. ASSUME NEW v, Sure(x, v, t) PROVE Path(<<x>>, v, t, Viewed(v, x))
  <2>1. PICK v2 : v2 = Viewed(v, x)
    OBVIOUS
  <2>2. PICK views : views = <<v, v2>>
    OBVIOUS
  <2>3. views[1] = v /\ views[1 + 1] = v2
    BY <2>2
  <2>4. views[Len(<<x>>) + 1] = v2
    BY <1>1, <2>3
  <2>5. \A i \in DOMAIN <<x>> : Sure(<<x>>[i], views[i], t) /\ views[i + 1] = Viewed(views[i], <<x>>[i])
    BY <1>1, <1>2, <2>1, <2>3
  <2>6. QED
    BY <2>1, <2>3, <2>4, <2>5 DEF Path
<1>3. ASSUME NEW d, NEW w, Facts(d, K), w \subseteq p
      PROVE  \E d2, w2 : Facts(d2, K2) /\ w2 \subseteq p2 /\ Path(<<x>>, View(p, d, w), t, View(p2, d2, w2))
  <2>1. PICK v : v = View(p, d, w)
    OBVIOUS
  <2>2. Sure(x, v, t) /\ Busy(p, x) = p2 /\ Facts(Known(v, x), K2) /\ Due(w, x) \subseteq p2
    BY <1>3, <2>1
  <2>3. v.busy = p /\ v.due = w
    BY <2>1 DEF View
  <2>4. Viewed(v, x) = View(p2, Known(v, x), Due(w, x))
    BY <2>2, <2>3 DEF Viewed
  <2>5. Path(<<x>>, v, t, View(p2, Known(v, x), Due(w, x)))
    BY <1>2, <2>2, <2>4
  <2>6. QED
    BY <2>1, <2>2, <2>5
<1>4. QED
  BY <1>1, <1>3 DEF Tells

\* Tuples, whose first step is followed by others.
LEMMA TellsFirst ==
  ASSUME NEW t, NEW K, NEW p, NEW K1, NEW p1, NEW K2, NEW p2, NEW x, Tells(<<x>>, t, K, p, K1, p1)
  PROVE  /\ \A y : Tells(<<y>>, t, K1, p1, K2, p2) => Tells(<<x, y>>, t, K, p, K2, p2)
         /\ \A y, z : Tells(<<y, z>>, t, K1, p1, K2, p2) => Tells(<<x, y, z>>, t, K, p, K2, p2)
         /\ \A y, z, u : Tells(<<y, z, u>>, t, K1, p1, K2, p2) => Tells(<<x, y, z, u>>, t, K, p, K2, p2)
         /\ \A y, z, u, v : Tells(<<y, z, u, v>>, t, K1, p1, K2, p2)
                            => Tells(<<x, y, z, u, v>>, t, K, p, K2, p2)
         /\ \A y, z, u, v, w : Tells(<<y, z, u, v, w>>, t, K1, p1, K2, p2)
                               => Tells(<<x, y, z, u, v, w>>, t, K, p, K2, p2)
<1>1. /\ \A y : <<x, y>> = <<x>> \o <<y>>
      /\ \A y, z : <<x, y, z>> = <<x>> \o <<y, z>>
      /\ \A y, z, u : <<x, y, z, u>> = <<x>> \o <<y, z, u>>
      /\ \A y, z, u, v : <<x, y, z, u, v>> = <<x>> \o <<y, z, u, v>>
      /\ \A y, z, u, v, w : <<x, y, z, u, v, w>> = <<x>> \o <<y, z, u, v, w>>
  <2>1. \A y : <<x, y>> = <<x>> \o <<y>>
    BY Pairs
  <2>2. \A y, z : <<x, y, z>> = <<x>> \o <<y, z>>
    OBVIOUS
  <2>3. \A y, z, u : <<x, y, z, u>> = <<x>> \o <<y, z, u>>
    OBVIOUS
  <2>4. \A y, z, u, v : <<x, y, z, u, v>> = <<x>> \o <<y, z, u, v>>
    OBVIOUS
  <2>5. \A y, z, u, v, w : <<x, y, z, u, v, w>> = <<x>> \o <<y, z, u, v, w>>
    OBVIOUS
  <2>6. QED
    BY <2>1, <2>2, <2>3, <2>4, <2>5
<1>2. ASSUME NEW y, Tells(<<y>>, t, K1, p1, K2, p2)
      PROVE  Tells(<<x, y>>, t, K, p, K2, p2)
  <2>1. Tells(<<x>> \o <<y>>, t, K, p, K2, p2)
    BY <1>2, TellsJoined
  <2>2. QED
    BY <1>1, <2>1
<1>3. ASSUME NEW y, NEW z, Tells(<<y, z>>, t, K1, p1, K2, p2)
      PROVE  Tells(<<x, y, z>>, t, K, p, K2, p2)
  <2>1. Tells(<<x>> \o <<y, z>>, t, K, p, K2, p2)
    BY <1>3, TellsJoined
  <2>2. QED
    BY <1>1, <2>1
<1>4. ASSUME NEW y, NEW z, NEW u, Tells(<<y, z, u>>, t, K1, p1, K2, p2)
      PROVE  Tells(<<x, y, z, u>>, t, K, p, K2, p2)
  <2>1. Tells(<<x>> \o <<y, z, u>>, t, K, p, K2, p2)
    BY <1>4, TellsJoined
  <2>2. QED
    BY <1>1, <2>1
<1>5. ASSUME NEW y, NEW z, NEW u, NEW v, Tells(<<y, z, u, v>>, t, K1, p1, K2, p2)
      PROVE  Tells(<<x, y, z, u, v>>, t, K, p, K2, p2)
  <2>1. Tells(<<x>> \o <<y, z, u, v>>, t, K, p, K2, p2)
    BY <1>5, TellsJoined
  <2>2. QED
    BY <1>1, <2>1
<1>6. ASSUME NEW y, NEW z, NEW u, NEW v, NEW w, Tells(<<y, z, u, v, w>>, t, K1, p1, K2, p2)
      PROVE  Tells(<<x, y, z, u, v, w>>, t, K, p, K2, p2)
  <2>1. Tells(<<x>> \o <<y, z, u, v, w>>, t, K, p, K2, p2)
    BY <1>6, TellsJoined
  <2>2. <<x, y, z, u, v, w>> = <<x>> \o <<y, z, u, v, w>>
    OBVIOUS
  <2>3. QED
    BY <2>1, <2>2, Zenon
<1>7. QED
  BY <1>2, <1>3, <1>4, <1>5, <1>6

\* Less may be asked for, and more be known.
LEMMA TellsWithin ==
  ASSUME NEW s, NEW t, NEW K, NEW p, NEW K2, NEW p2, Tells(s, t, K, p, K2, p2)
  PROVE  \A J, J2 : K \subseteq J /\ J2 \subseteq K2 => Tells(s, t, J, p, J2, p2)
<1>1. \A d, J, J2 : J2 \subseteq J /\ Facts(d, J) => Facts(d, J2)
  BY DEF Facts
<1>2. QED
  BY <1>1 DEF Tells

\* A method of such steps.
LEMMA TellsGains ==
  ASSUME NEW s, NEW t, NEW K, NEW K2, NEW p2, Tells(s, t, K, {}, K2, p2)
  PROVE  Gains(s, t, K, K2)
<1>1. ASSUME NEW d, Facts(d, K) PROVE \E d2 : Facts(d2, K2) /\ Teaches(s, Entering(d), t, d2)
  <2>1. PICK w : w = {}
    OBVIOUS
  <2>2. PICK d2, w2 : Facts(d2, K2) /\ Path(s, View({}, d, w), t, View(p2, d2, w2))
    BY <1>1, <2>1 DEF Tells
  <2>3. View(p2, d2, w2).known = d2
    BY DEF View
  <2>4. Teaches(s, View({}, d, w), t, d2)
    BY <2>2, <2>3 DEF Path, Teaches
  <2>5. QED
    BY <2>1, <2>2, <2>4 DEF Entering
<1>2. QED
  BY <1>1 DEF Gains
----------------------------------------------------------------------------
(* What steps add                                                          *)

\* Steps that teach nothing.
Idle(x) == x.do \notin {"submit", "run", "release", "rename", "sum", "wait"}

\* Which steps those are.
LEMMA IdleStep ==
  /\ \A xs, by : Idle(Acquire(xs, by)) /\ Idle(AcquireOn(xs, by))
  /\ \A x : Idle(Retain(x)) /\ Idle(List(x)) /\ Idle(Check(x)) /\ Idle(Leave(x)) /\ Idle(HandOut(x))
  /\ \A x : Idle(Access(x))
  /\ Idle(Select)
BY DEF Idle, Acquire, AcquireOn, Retain, List, Check, Access, Leave, HandOut, Select

\* They do not add to what is known.
LEMMA TellsIdle ==
  ASSUME NEW t, NEW K, NEW p
  PROVE  \A x : Idle(x) => Tells(<<x>>, t, K, p, K, p)
<1>1. SUFFICES ASSUME NEW x, Idle(x) PROVE Tells(<<x>>, t, K, p, K, p)
  OBVIOUS
<1>2. ASSUME NEW d, NEW w, Facts(d, K), w \subseteq p
      PROVE  /\ Sure(x, View(p, d, w), t) /\ Busy(p, x) = p
             /\ Facts(Known(View(p, d, w), x), K) /\ Due(w, x) \subseteq p
  BY <1>1, <1>2 DEF Idle, Sure, Busy, Known, Due, View
<1>3. QED
  BY <1>2, TellsOne

\* Waiting, work, and what is returned.
LEMMA TellsSteps ==
  ASSUME NEW t, NEW K, NEW p
  PROVE  /\ Tells(<<Wait>>, t, K, p, K, {})
         /\ \A op, K2 : Turns(op, K, K2) /\ Touches(op) \cap p = {} =>
              /\ Tells(<<Submit(op)>>, t, K, p, K2, p \cup Touches(op))
              /\ Tells(<<Run(op)>>, t, K, p, K2, p)
         /\ \A x : <<x, t>> \in K /\ x \notin p => Tells(<<ReturnSum(x)>>, t, K, p, K, p)
         /\ \A xs, by : (\A q \in K : q[1] \in xs => q[1] \in p)
                        => Tells(<<Release(xs, by)>>, t, K, p, K, p)
         /\ \A x, y : p = {} /\ (\A q \in K : q[1] \notin {x, y})
                      => Tells(<<Rename(x, y)>>, t, K, p, K, p)
<1>1. Tells(<<Wait>>, t, K, p, K, {})
  <2>1. ASSUME NEW d, NEW w, Facts(d, K), w \subseteq p
        PROVE  /\ Sure(Wait, View(p, d, w), t) /\ Busy(p, Wait) = {}
               /\ Facts(Known(View(p, d, w), Wait), K) /\ Due(w, Wait) \subseteq {}
    BY <2>1 DEF Sure, Busy, Known, Due, View, Wait
  <2>2. QED
    BY <2>1, TellsOne
<1>2. ASSUME NEW op, NEW K2, Turns(op, K, K2), Touches(op) \cap p = {}
      PROVE  Tells(<<Submit(op)>>, t, K, p, K2, p \cup Touches(op)) /\ Tells(<<Run(op)>>, t, K, p, K2, p)
  <2>1. ASSUME NEW d, NEW w, Facts(d, K), w \subseteq p
        PROVE  /\ Sure(Submit(op), View(p, d, w), t) /\ Busy(p, Submit(op)) = p \cup Touches(op)
               /\ Facts(Known(View(p, d, w), Submit(op)), K2) /\ Due(w, Submit(op)) \subseteq p \cup Touches(op)
    <3>1. Reads(op) \subseteq DOMAIN d /\ Facts(Learned(d, op), K2)
      BY <1>2, <2>1 DEF Turns
    <3>2. w \cup Writes(op) \subseteq p \cup Touches(op)
      BY <2>1 DEF Touches
    <3>3. QED
      BY <1>2, <3>1, <3>2 DEF Sure, Busy, Known, Due, View, Submit
  <2>2. ASSUME NEW d, NEW w, Facts(d, K), w \subseteq p
        PROVE  /\ Sure(Run(op), View(p, d, w), t) /\ Busy(p, Run(op)) = p
               /\ Facts(Known(View(p, d, w), Run(op)), K2) /\ Due(w, Run(op)) \subseteq p
    <3>1. Reads(op) \subseteq DOMAIN d /\ Facts(Learned(d, op), K2)
      BY <1>2, <2>2 DEF Turns
    <3>2. QED
      BY <1>2, <2>2, <3>1 DEF Sure, Busy, Known, Due, View, Run
  <2>3. QED
    BY <2>1, <2>2, TellsOne
<1>3. ASSUME NEW x, <<x, t>> \in K, x \notin p PROVE Tells(<<ReturnSum(x)>>, t, K, p, K, p)
  <2>1. ASSUME NEW d, NEW w, Facts(d, K), w \subseteq p
        PROVE  /\ Sure(ReturnSum(x), View(p, d, w), t) /\ Busy(p, ReturnSum(x)) = p
               /\ Facts(Known(View(p, d, w), ReturnSum(x)), K) /\ Due(w, ReturnSum(x)) \subseteq p
    <3>1. x \in DOMAIN d \ w /\ d[x] = t
      BY <1>3, <2>1 DEF Facts
    <3>2. QED
      BY <2>1, <3>1 DEF Sure, Busy, Known, Due, View, ReturnSum
  <2>2. QED
    BY <2>1, TellsOne
<1>4. ASSUME NEW xs, NEW by, \A q \in K : q[1] \in xs => q[1] \in p
      PROVE  Tells(<<Release(xs, by)>>, t, K, p, K, p)
  <2>1. ASSUME NEW d, NEW w, Facts(d, K), w \subseteq p
        PROVE  /\ Sure(Release(xs, by), View(p, d, w), t) /\ Busy(p, Release(xs, by)) = p
               /\ Facts(Known(View(p, d, w), Release(xs, by)), K) /\ Due(w, Release(xs, by)) \subseteq p
    <3>1. Facts(Forget(d, xs \ p), K)
      BY <1>4, <2>1 DEF Facts, Forget
    <3>2. QED
      BY <2>1, <3>1 DEF Sure, Busy, Known, Due, View, Release
  <2>2. QED
    BY <2>1, TellsOne
<1>5. ASSUME NEW x, NEW y, p = {}, \A q \in K : q[1] \notin {x, y}
      PROVE  Tells(<<Rename(x, y)>>, t, K, p, K, p)
  <2>1. ASSUME NEW d, NEW w, Facts(d, K), w \subseteq p
        PROVE  /\ Sure(Rename(x, y), View(p, d, w), t) /\ Busy(p, Rename(x, y)) = p
               /\ Facts(Known(View(p, d, w), Rename(x, y)), K) /\ Due(w, Rename(x, y)) \subseteq p
    <3>1. Facts(Forget(d, {x, y}), K)
      BY <1>5, <2>1 DEF Facts, Forget
    <3>2. QED
      BY <1>5, <2>1, <3>1 DEF Sure, Busy, Known, Due, View, Rename
  <2>2. QED
    BY <2>1, TellsOne
<1>6. QED
  BY <1>1, <1>2, <1>3, <1>4, <1>5

\* Work that is awaited, and local variables.
LEMMA TellsWork ==
  ASSUME NEW t, NEW K, NEW op, NEW K2, Turns(op, K, K2)
  PROVE  Tells(Blockingly(op), t, K, {}, K2, {}) /\ Tells(<<Submit(op), Wait>>, t, K, {}, K2, {})
<1>1. Tells(<<Submit(op)>>, t, K, {}, K2, {} \cup Touches(op))
  BY TellsSteps
<1>2. Tells(<<Wait>>, t, K2, {} \cup Touches(op), K2, {})
  BY TellsSteps
<1>3. QED
  BY <1>1, <1>2, TellsFirst DEF Blockingly

\* A local variable is forgotten when the method leaves it.
LEMMA TellsLocal ==
  ASSUME NEW t, NEW K, NEW x, NEW s, NEW K1, Tells(s, t, K, {}, K1, {}), NEW K2, K2 \subseteq K1,
         \A q \in K2 : q[1] # x
  PROVE  Tells(WithLocal(x, s), t, K, {}, K2, {})
<1>1. Tells(<<Acquire({x}, "local")>>, t, K, {}, K, {})
  BY IdleStep, TellsIdle
<1>2. Tells(s, t, K, {}, K2, {})
  BY TellsWithin
<1>3. Tells(<<Release({x}, "local")>>, t, K2, {}, K2, {})
  BY TellsSteps
<1>4. Tells(<<Acquire({x}, "local")>> \o s, t, K, {}, K2, {})
  BY <1>1, <1>2, TellsJoined
<1>5. Tells((<<Acquire({x}, "local")>> \o s) \o <<Release({x}, "local")>>, t, K, {}, K2, {})
  BY <1>3, <1>4, TellsJoined
<1>6. QED
  BY <1>5 DEF WithLocal
----------------------------------------------------------------------------
(* What operations compute                                                 *)

\* Contents of the three arrays.
IsCells(x) == x = [f \in Field |-> x[f]]

\* Names of three arrays.
IsPlace(m) == DOMAIN m = Field /\ \A f, g \in Field : m[f] = m[g] => f = g

\* The three places have different objects for different arrays.
LEMMA PlaceNames ==
  /\ IsPlace(Here) /\ IsPlace(Device) /\ IsPlace(Host)
  /\ IsCells(StartCell) /\ \A x \in [Field -> Val] : IsCells(x)
  /\ \A x : IsCells(x) => \A k \in ArrayKernels : IsCells(Apply(k, x))
<1>1. IsPlace(Here) /\ IsPlace(Device) /\ IsPlace(Host)
  BY DEF IsPlace, Here, Device, Host, Arrays, Field
<1>2. IsCells(StartCell)
  BY DEF IsCells, StartCell, Field
<1>3. \A x \in [Field -> Val] : IsCells(x)
  BY DEF IsCells
<1>4. ASSUME NEW x, IsCells(x), NEW k \in ArrayKernels PROVE IsCells(Apply(k, x))
  <2>1. DOMAIN x = Field
    BY <1>4 DEF IsCells
  <2>2. Apply(k, x) = [x EXCEPT ![Target(k)] = Written(k, x)]
    BY DEF Apply
  <2>3. PICK v : v = Written(k, x)
    OBVIOUS
  <2>4. [x EXCEPT ![Target(k)] = v] = [f \in Field |-> [x EXCEPT ![Target(k)] = v][f]]
    BY <2>1
  <2>5. QED
    BY <2>2, <2>3, <2>4 DEF IsCells
<1>5. QED
  BY <1>1, <1>2, <1>3, <1>4

\* Facts, taken apart.
LEMMA FactsOf ==
  ASSUME NEW d
  PROVE  /\ Facts(d, {})
         /\ \A K, L : Facts(d, K \cup L) <=> Facts(d, K) /\ Facts(d, L)
         /\ \A x, v : Facts(d, {<<x, v>>}) <=> x \in DOMAIN d /\ d[x] = v
         /\ \A m, F, x : Facts(d, Keeping(m, F, x)) <=> \A f \in F : m[f] \in DOMAIN d /\ d[m[f]] = x[f]
<1>1. Facts(d, {})
  BY DEF Facts
<1>2. \A K, L : Facts(d, K \cup L) <=> Facts(d, K) /\ Facts(d, L)
  BY DEF Facts
<1>3. \A x, v : Facts(d, {<<x, v>>}) <=> x \in DOMAIN d /\ d[x] = v
  BY DEF Facts
<1>4. ASSUME NEW m, NEW F, NEW x
      PROVE  Facts(d, Keeping(m, F, x)) <=> \A f \in F : m[f] \in DOMAIN d /\ d[m[f]] = x[f]
  <2>1. ASSUME Facts(d, Keeping(m, F, x)), NEW f \in F PROVE m[f] \in DOMAIN d /\ d[m[f]] = x[f]
    <3>1. <<m[f], x[f]>> \in Keeping(m, F, x)
      BY <2>1 DEF Keeping
    <3>2. QED
      BY <2>1, <3>1 DEF Facts
  <2>2. ASSUME \A f \in F : m[f] \in DOMAIN d /\ d[m[f]] = x[f] PROVE Facts(d, Keeping(m, F, x))
    BY <2>2 DEF Facts, Keeping
  <2>3. QED
    BY <2>1, <2>2
<1>5. QED
  BY <1>1, <1>2, <1>3, <1>4

\* A kernel only looks at its operands.
LEMMA WrittenReads ==
  ASSUME NEW k \in ArrayKernels, NEW x, NEW y, \A f \in Operands(k) : x[f] = y[f]
  PROVE  Written(k, x) = Written(k, y)
BY DEF Written, ArrayKernels, Operands, Field

\* The value of an expression, by its kind.
LEMMA Evaluated ==
  ASSUME NEW m, NEW d
  PROVE  /\ \A k \in ArrayKernels : Evaluate(Value(k, m), d) = Written(k, [f \in Field |-> d[m[f]]])
         /\ \A f \in Field : Evaluate(Value(f, m), d) = StartCell[f]
         /\ Evaluate(Value("Dot", m), d) = ProductOf([f \in Field |-> d[m[f]]])
<1>1. PICK x : x = [f \in Field |-> d[m[f]]]
  OBVIOUS
<1>2. ASSUME NEW k
      PROVE  Evaluate(Value(k, m), d) = CASE k \in ArrayKernels -> Written(k, x)
                                          [] k \in Field        -> StartCell[k]
                                          [] k = "Dot"          -> DotOf([i \in Idx(1) |-> x])
                                          [] k = "DotOnto"      -> Plus(x["c"], DotOf([i \in Idx(1) |-> x]))
                                          [] k = "zero"         -> OfInt(0)
  <2>1. Value(k, m).k = k /\ Value(k, m).of = m
    BY DEF Value
  <2>2. QED
    BY <1>1, <2>1 DEF Evaluate
<1>3. \A k \in ArrayKernels : Evaluate(Value(k, m), d) = Written(k, x)
  BY <1>2 DEF ArrayKernels, Field
<1>4. \A f \in Field : Evaluate(Value(f, m), d) = StartCell[f]
  BY <1>2 DEF ArrayKernels, Field
<1>5. Evaluate(Value("Dot", m), d) = ProductOf(x)
  BY <1>2 DEF ArrayKernels, Field, ProductOf
<1>6. QED
  BY <1>1, <1>3, <1>4, <1>5

\* The initial values: all three, or one more.
LEMMA TurnsStart ==
  ASSUME NEW m, IsPlace(m)
  PROVE  /\ \A K : Turns(StartLoop(m), K, Keep(m, StartCell))
         /\ \A f \in Field : \A F \in SUBSET Field :
              Turns(StartArray(f, m), Keeping(m, F, StartCell), Keeping(m, F \cup {f}, StartCell))
<1>1. ASSUME NEW d
      PROVE  Reads(StartLoop(m)) \subseteq DOMAIN d /\ Facts(Learned(d, StartLoop(m)), Keep(m, StartCell))
  <2>1. PICK op : op = StartLoop(m)
    OBVIOUS
  <2>2. ASSUME NEW f \in Field
        PROVE  m[f] \in Objects(m) /\ (CHOOSE g \in Field : m[g] = m[f]) = f
    <3>1. (CHOOSE g \in Field : m[g] = m[f]) \in Field /\ m[CHOOSE g \in Field : m[g] = m[f]] = m[f]
      OBVIOUS
    <3>2. QED
      BY <3>1 DEF IsPlace, Objects
  <2>3. DOMAIN op = Objects(m) /\ \A f \in Field : op[m[f]] = Value(f, m)
    BY <2>1, <2>2 DEF StartLoop
  <2>4. \A y \in Objects(m) : \E f \in Field : y = m[f]
    BY DEF Objects, IsPlace
  <2>5. Reads(op) = {}
    <3>1. \A y \in DOMAIN op : Operands(op[y].k) = {}
      <4>1. \A f \in Field : Operands(Value(f, m).k) = {}
        BY DEF Operands, Field, Value
      <4>2. QED
        BY <2>3, <2>4, <4>1
    <3>2. QED
      BY <3>1 DEF Reads
  <2>6. PICK e : e = Learned(d, op)
    OBVIOUS
  <2>7. /\ DOMAIN e = DOMAIN d \cup DOMAIN op
        /\ \A i \in DOMAIN op : e[i] = Evaluate(op[i], d)
        /\ \A i \in DOMAIN d \ DOMAIN op : e[i] = d[i]
    BY <2>6 DEF Learned, Writes
  <2>8. \A f \in Field : Evaluate(Value(f, m), d) = StartCell[f]
    BY Evaluated
  <2>9. \A f \in Field : m[f] \in DOMAIN e /\ e[m[f]] = StartCell[f]
    BY <2>2, <2>3, <2>7, <2>8
  <2>10. QED
    BY <2>1, <2>5, <2>6, <2>9, FactsOf DEF Keep
<1>2. ASSUME NEW f \in Field, NEW F \in SUBSET Field, NEW d, Facts(d, Keeping(m, F, StartCell))
      PROVE  /\ Reads(StartArray(f, m)) \subseteq DOMAIN d
             /\ Facts(Learned(d, StartArray(f, m)), Keeping(m, F \cup {f}, StartCell))
  <2>1. PICK op : op = StartArray(f, m)
    OBVIOUS
  <2>2. DOMAIN op = {m[f]} /\ op[m[f]] = Value(f, m)
    BY <2>1 DEF StartArray
  <2>3. Reads(op) = {}
    BY <2>2 DEF Reads, Value, Operands, Field
  <2>4. \A g \in F : m[g] \in DOMAIN d /\ d[m[g]] = StartCell[g]
    BY <1>2, FactsOf
  <2>5. PICK e : e = Learned(d, op)
    OBVIOUS
  <2>6. /\ DOMAIN e = DOMAIN d \cup DOMAIN op
        /\ \A i \in DOMAIN op : e[i] = Evaluate(op[i], d)
        /\ \A i \in DOMAIN d \ DOMAIN op : e[i] = d[i]
    BY <2>5 DEF Learned, Writes
  <2>7. ASSUME NEW g \in F \cup {f} PROVE m[g] \in DOMAIN e /\ e[m[g]] = StartCell[g]
    <3>1. CASE g = f
      <4>1. Evaluate(Value(f, m), d) = StartCell[f]
        BY Evaluated
      <4>2. QED
        BY <2>2, <2>6, <3>1, <4>1
    <3>2. CASE g # f
      <4>1. g \in F /\ m[g] # m[f]
        BY <2>7, <3>2 DEF IsPlace
      <4>2. QED
        BY <2>2, <2>4, <2>6, <4>1
    <3>3. QED
      BY <3>1, <3>2
  <2>8. QED
    BY <2>1, <2>3, <2>5, <2>7, FactsOf
<1>3. QED
  BY <1>1, <1>2 DEF Turns

\* A kernel, where its operands are known.
LEMMA TurnsInto ==
  ASSUME NEW m, IsPlace(m), NEW k \in ArrayKernels, NEW x, IsCells(x),
         NEW F \in SUBSET Field, Operands(k) \subseteq F
  PROVE  Turns([y \in {m[Target(k)]} |-> Value(k, m)], Keeping(m, F, x),
               Keeping(m, F \cup {Target(k)}, Apply(k, x)))
<1>1. SUFFICES ASSUME NEW d, Facts(d, Keeping(m, F, x))
               PROVE  /\ Reads([y \in {m[Target(k)]} |-> Value(k, m)]) \subseteq DOMAIN d
                      /\ Facts(Learned(d, [y \in {m[Target(k)]} |-> Value(k, m)]),
                               Keeping(m, F \cup {Target(k)}, Apply(k, x)))
  BY DEF Turns
<1>2. PICK g : g = Target(k)
  OBVIOUS
<1>3. g \in Field /\ Operands(k) \subseteq Field
  BY <1>2 DEF Target, Field
<1>4. PICK op : op = [y \in {m[g]} |-> Value(k, m)]
  OBVIOUS
<1>5. \A f \in F : m[f] \in DOMAIN d /\ d[m[f]] = x[f]
  BY <1>1, FactsOf
<1>6. DOMAIN op = {m[g]} /\ op[m[g]] = Value(k, m)
  BY <1>4
<1>7. Reads(op) \subseteq DOMAIN d
  <2>1. Value(k, m).k = k /\ Value(k, m).of = m
    BY DEF Value
  <2>2. QED
    BY <1>5, <1>6, <2>1 DEF Reads
<1>8. PICK e : e = Learned(d, op)
  OBVIOUS
<1>9. /\ DOMAIN e = DOMAIN d \cup DOMAIN op
      /\ \A i \in DOMAIN op : e[i] = Evaluate(op[i], d)
      /\ \A i \in DOMAIN d \ DOMAIN op : e[i] = d[i]
  BY <1>8 DEF Learned, Writes
<1>10. e[m[g]] = Written(k, x)
  <2>1. PICK z : z = [f \in Field |-> d[m[f]]]
    OBVIOUS
  <2>2. \A f \in Operands(k) : z[f] = x[f]
    BY <1>3, <1>5, <2>1
  <2>3. Written(k, z) = Written(k, x)
    BY <2>2, WrittenReads
  <2>4. Evaluate(Value(k, m), d) = Written(k, z)
    BY <2>1, Evaluated
  <2>5. QED
    BY <1>6, <1>9, <2>3, <2>4
<1>11. Apply(k, x)[g] = Written(k, x) /\ \A f \in Field \ {g} : Apply(k, x)[f] = x[f]
  <2>1. DOMAIN x = Field
    BY DEF IsCells
  <2>2. QED
    BY <1>2, <1>3, <2>1 DEF Apply
<1>12. ASSUME NEW f \in F \cup {g} PROVE m[f] \in DOMAIN e /\ e[m[f]] = Apply(k, x)[f]
  <2>1. CASE f = g
    BY <1>6, <1>9, <1>10, <1>11, <2>1
  <2>2. CASE f # g
    <3>1. f \in F /\ f \in Field \ {g} /\ m[f] # m[g]
      BY <1>3, <1>12, <2>2 DEF IsPlace
    <3>2. QED
      BY <1>5, <1>6, <1>9, <1>11, <3>1
  <2>3. QED
    BY <2>1, <2>2
<1>13. QED
  BY <1>2, <1>4, <1>7, <1>8, <1>12, FactsOf

\* A kernel.
LEMMA TurnsLoop ==
  ASSUME NEW m, IsPlace(m), NEW k \in ArrayKernels, NEW x, IsCells(x)
  PROVE  Turns(Loop(k, m), Keep(m, x), Keep(m, Apply(k, x)))
<1>1. Operands(k) \subseteq Field /\ Field \cup {Target(k)} = Field
  BY DEF Operands, Target, Field
<1>2. QED
  BY <1>1, TurnsInto DEF Loop, Keep

\* The reduction, into an object that is not one of the arrays.
LEMMA TurnsProducts ==
  ASSUME NEW m, IsPlace(m), NEW x, IsCells(x), NEW y, y \notin Objects(m)
  PROVE  Turns(Products(m, y), Keep(m, x), Keep(m, x) \cup {<<y, ProductOf(x)>>})
<1>1. SUFFICES ASSUME NEW d, Facts(d, Keep(m, x))
               PROVE  /\ Reads(Products(m, y)) \subseteq DOMAIN d
                      /\ Facts(Learned(d, Products(m, y)), Keep(m, x) \cup {<<y, ProductOf(x)>>})
  BY DEF Turns
<1>2. PICK op : op = Products(m, y)
  OBVIOUS
<1>3. \A f \in Field : m[f] \in DOMAIN d /\ d[m[f]] = x[f] /\ m[f] # y
  BY <1>1, FactsOf DEF Keep, Objects, IsPlace
<1>4. DOMAIN op = {y} /\ op[y] = Value("Dot", m)
  BY <1>2 DEF Products
<1>5. Reads(op) \subseteq DOMAIN d
  BY <1>3, <1>4 DEF Reads, Value, Operands, Field
<1>6. PICK e : e = Learned(d, op)
  OBVIOUS
<1>7. /\ DOMAIN e = DOMAIN d \cup DOMAIN op
      /\ \A i \in DOMAIN op : e[i] = Evaluate(op[i], d)
      /\ \A i \in DOMAIN d \ DOMAIN op : e[i] = d[i]
  BY <1>6 DEF Learned, Writes
<1>8. y \in DOMAIN e /\ e[y] = ProductOf(x)
  <2>1. [f \in Field |-> d[m[f]]] = x
    BY <1>3 DEF IsCells
  <2>2. Evaluate(Value("Dot", m), d) = ProductOf(x)
    BY <2>1, Evaluated
  <2>3. QED
    BY <1>4, <1>7, <2>2
<1>9. \A f \in Field : m[f] \in DOMAIN e /\ e[m[f]] = x[f]
  BY <1>3, <1>4, <1>7
<1>10. QED
  BY <1>2, <1>5, <1>6, <1>8, <1>9, FactsOf DEF Keep

\* Copies: of one object, of one array, of all of them.
LEMMA TurnsMove ==
  ASSUME NEW K, NEW y, NEW z, NEW v, <<y, v>> \in K, \A q \in K : q[1] # z
  PROVE  Turns(Move(y, z), K, K \cup {<<z, v>>})
<1>1. SUFFICES ASSUME NEW d, Facts(d, K)
               PROVE  /\ Reads(Move(y, z)) \subseteq DOMAIN d
                      /\ Facts(Learned(d, Move(y, z)), K \cup {<<z, v>>})
  BY DEF Turns
<1>2. PICK op : op = Move(y, z)
  OBVIOUS
<1>3. DOMAIN op = {z} /\ op[z] = Value("Copy", Arrays(y, y, y))
  BY <1>2 DEF Move
<1>4. y \in DOMAIN d /\ d[y] = v
  BY <1>1 DEF Facts
<1>5. Arrays(y, y, y)["a"] = y /\ "a" \in Field
  BY DEF Arrays, Field
<1>6. Reads(op) \subseteq DOMAIN d
  BY <1>3, <1>4, <1>5 DEF Reads, Value, Operands
<1>7. Evaluate(Value("Copy", Arrays(y, y, y)), d) = v
  <2>1. "Copy" \in ArrayKernels
    BY DEF ArrayKernels
  <2>2. PICK x : x = [f \in Field |-> d[Arrays(y, y, y)[f]]]
    OBVIOUS
  <2>3. x.a = v
    BY <1>4, <1>5, <2>2
  <2>4. Written("Copy", x) = v
    BY <2>3 DEF Written
  <2>5. QED
    BY <2>1, <2>2, <2>4, Evaluated
<1>8. PICK e : e = Learned(d, op)
  OBVIOUS
<1>9. /\ DOMAIN e = DOMAIN d \cup DOMAIN op
      /\ \A i \in DOMAIN op : e[i] = Evaluate(op[i], d)
      /\ \A i \in DOMAIN d \ DOMAIN op : e[i] = d[i]
  BY <1>8 DEF Learned, Writes
<1>10. z \in DOMAIN e /\ e[z] = v
  BY <1>3, <1>7, <1>9
<1>11. Facts(e, K)
  BY <1>1, <1>3, <1>9 DEF Facts
<1>12. QED
  BY <1>2, <1>6, <1>8, <1>10, <1>11, FactsOf

\* The copy of one more array.
LEMMA TurnsCopy ==
  ASSUME NEW m, NEW n, IsPlace(m), IsPlace(n), Objects(m) \cap Objects(n) = {}, NEW x,
         NEW F \in SUBSET Field, NEW f \in Field \ F
  PROVE  Turns(Move(m[f], n[f]), Keep(m, x) \cup Keeping(n, F, x), Keep(m, x) \cup Keeping(n, F \cup {f}, x))
<1>1. PICK K : K = Keep(m, x) \cup Keeping(n, F, x)
  OBVIOUS
<1>2. <<m[f], x[f]>> \in K
  BY <1>1 DEF Keep, Keeping
<1>3. \A q \in K : q[1] # n[f]
  <2>1. \A g \in Field : m[g] # n[f]
    BY DEF Objects, IsPlace
  <2>2. \A g \in F : n[g] # n[f]
    BY DEF IsPlace
  <2>3. QED
    BY <1>1, <2>1, <2>2 DEF Keep, Keeping
<1>4. K \cup {<<n[f], x[f]>>} = Keep(m, x) \cup Keeping(n, F \cup {f}, x)
  <2>1. Keeping(n, F \cup {f}, x) = Keeping(n, F, x) \cup {<<n[f], x[f]>>}
    BY DEF Keeping
  <2>2. QED
    BY <1>1, <2>1
<1>5. Turns(Move(m[f], n[f]), K, K \cup {<<n[f], x[f]>>})
  BY <1>2, <1>3, TurnsMove
<1>6. QED
  BY <1>1, <1>4, <1>5

\* The copy of all of them.
LEMMA TurnsMoveArrays ==
  ASSUME NEW m, NEW n, IsPlace(m), IsPlace(n), NEW x
  PROVE  Turns(MoveArrays(m, n), Keep(m, x), Keep(n, x))
<1>1. SUFFICES ASSUME NEW d, Facts(d, Keep(m, x))
               PROVE  Reads(MoveArrays(m, n)) \subseteq DOMAIN d /\ Facts(Learned(d, MoveArrays(m, n)), Keep(n, x))
  BY DEF Turns
<1>2. PICK op : op = MoveArrays(m, n)
  OBVIOUS
<1>3. \A f \in Field : m[f] \in DOMAIN d /\ d[m[f]] = x[f]
  BY <1>1, FactsOf DEF Keep
<1>4. ASSUME NEW f \in Field
      PROVE  n[f] \in Objects(n) /\ (CHOOSE g \in Field : n[g] = n[f]) = f
  <2>1. (CHOOSE g \in Field : n[g] = n[f]) \in Field /\ n[CHOOSE g \in Field : n[g] = n[f]] = n[f]
    OBVIOUS
  <2>2. QED
    BY <2>1 DEF IsPlace, Objects
<1>5. DOMAIN op = Objects(n) /\ \A f \in Field : op[n[f]] = Value("Copy", Arrays(m[f], m[f], m[f]))
  BY <1>2, <1>4 DEF MoveArrays
<1>6. \A y \in Objects(n) : \E f \in Field : y = n[f]
  BY DEF Objects, IsPlace
<1>7. ASSUME NEW f \in Field
      PROVE  /\ Reads([y \in {n[f]} |-> Value("Copy", Arrays(m[f], m[f], m[f]))]) \subseteq DOMAIN d
             /\ Evaluate(Value("Copy", Arrays(m[f], m[f], m[f])), d) = x[f]
  <2>1. "Copy" \in ArrayKernels
    BY DEF ArrayKernels
  <2>2. Arrays(m[f], m[f], m[f])["a"] = m[f] /\ "a" \in Field
    BY DEF Arrays, Field
  <2>3. PICK z : z = [g \in Field |-> d[Arrays(m[f], m[f], m[f])[g]]]
    OBVIOUS
  <2>4. z.a = x[f]
    BY <1>3, <2>2, <2>3
  <2>5. Written("Copy", z) = x[f]
    BY <2>4 DEF Written
  <2>6. Evaluate(Value("Copy", Arrays(m[f], m[f], m[f])), d) = x[f]
    BY <2>1, <2>3, <2>5, Evaluated
  <2>7. QED
    BY <1>3, <2>2, <2>6 DEF Reads, Value, Operands
<1>8. Reads(op) \subseteq DOMAIN d
  <2>1. ASSUME NEW y \in DOMAIN op, NEW g \in Operands(op[y].k) PROVE op[y].of[g] \in DOMAIN d
    <3>1. PICK f \in Field : y = n[f]
      BY <1>5, <1>6, <2>1
    <3>2. op[y] = Value("Copy", Arrays(m[f], m[f], m[f]))
      BY <1>5, <3>1
    <3>3. op[y].k = "Copy" /\ op[y].of["a"] = m[f] /\ Operands("Copy") = {"a"}
      BY <3>2 DEF Value, Arrays, Field, Operands
    <3>4. QED
      BY <1>3, <2>1, <3>3
  <2>2. QED
    BY <2>1 DEF Reads
<1>9. PICK e : e = Learned(d, op)
  OBVIOUS
<1>10. /\ DOMAIN e = DOMAIN d \cup DOMAIN op
       /\ \A i \in DOMAIN op : e[i] = Evaluate(op[i], d)
       /\ \A i \in DOMAIN d \ DOMAIN op : e[i] = d[i]
  BY <1>9 DEF Learned, Writes
<1>11. \A f \in Field : n[f] \in DOMAIN e /\ e[n[f]] = x[f]
  BY <1>4, <1>5, <1>7, <1>10
<1>12. QED
  BY <1>2, <1>8, <1>9, <1>11, FactsOf DEF Keep

\* What writes nothing, or nothing of which something is known.
LEMMA TurnsNothing ==
  ASSUME NEW K
  PROVE  /\ \A e : Turns([x \in {} |-> e], K, K)
         /\ \A y : (\A q \in K : q[1] # y) => Turns(Zero(y), K, K)
<1>1. ASSUME NEW e PROVE Turns([x \in {} |-> e], K, K)
  <2>1. PICK op : op = [x \in {} |-> e]
    OBVIOUS
  <2>2. DOMAIN op = {}
    BY <2>1
  <2>3. \A d : Reads(op) = {} /\ (Facts(d, K) => Facts(Learned(d, op), K))
    BY <2>2 DEF Reads, Learned, Writes, Facts
  <2>4. QED
    BY <2>1, <2>3 DEF Turns
<1>2. ASSUME NEW y, \A q \in K : q[1] # y PROVE Turns(Zero(y), K, K)
  <2>1. PICK op : op = Zero(y)
    OBVIOUS
  <2>2. DOMAIN op = {y} /\ op[y] = Value("zero", Arrays(y, y, y))
    BY <2>1 DEF Zero
  <2>3. Reads(op) = {}
    BY <2>2 DEF Reads, Value, Operands
  <2>4. ASSUME NEW d, Facts(d, K) PROVE Facts(Learned(d, op), K)
    <3>1. PICK e : e = Learned(d, op)
      OBVIOUS
    <3>2. DOMAIN e = DOMAIN d \cup DOMAIN op /\ \A i \in DOMAIN d \ DOMAIN op : e[i] = d[i]
      BY <3>1 DEF Learned, Writes
    <3>3. QED
      BY <1>2, <2>2, <2>4, <3>1, <3>2 DEF Facts
  <2>5. QED
    BY <2>1, <2>3, <2>4 DEF Turns
<1>3. QED
  BY <1>1, <1>2
----------------------------------------------------------------------------
(* What a backend has to teach                                             *)

\* Several steps that teach nothing.
LEMMA TellsIdles ==
  ASSUME NEW t, NEW K, NEW p
  PROVE  /\ \A x : Idle(x) => Tells(<<x>>, t, K, p, K, p)
         /\ \A x, y : Idle(x) /\ Idle(y) => Tells(<<x, y>>, t, K, p, K, p)
         /\ \A x, y, z : Idle(x) /\ Idle(y) /\ Idle(z) => Tells(<<x, y, z>>, t, K, p, K, p)
         /\ \A x, y, z, u : Idle(x) /\ Idle(y) /\ Idle(z) /\ Idle(u)
                            => Tells(<<x, y, z, u>>, t, K, p, K, p)
         /\ \A x, y, z, u, v : Idle(x) /\ Idle(y) /\ Idle(z) /\ Idle(u) /\ Idle(v)
                               => Tells(<<x, y, z, u, v>>, t, K, p, K, p)
         /\ \A x, y, z, u, v, w : Idle(x) /\ Idle(y) /\ Idle(z) /\ Idle(u) /\ Idle(v) /\ Idle(w)
                                  => Tells(<<x, y, z, u, v, w>>, t, K, p, K, p)
<1>1. \A x : Idle(x) => Tells(<<x>>, t, K, p, K, p)
  BY TellsIdle
<1>2. \A x, y : Idle(x) /\ Idle(y) => Tells(<<x, y>>, t, K, p, K, p)
  BY <1>1, TellsFirst
<1>3. \A x, y, z : Idle(x) /\ Idle(y) /\ Idle(z) => Tells(<<x, y, z>>, t, K, p, K, p)
  BY <1>1, <1>2, TellsFirst
<1>4. \A x, y, z, u : Idle(x) /\ Idle(y) /\ Idle(z) /\ Idle(u) => Tells(<<x, y, z, u>>, t, K, p, K, p)
  BY <1>1, <1>3, TellsFirst
<1>5. \A x, y, z, u, v : Idle(x) /\ Idle(y) /\ Idle(z) /\ Idle(u) /\ Idle(v)
                         => Tells(<<x, y, z, u, v>>, t, K, p, K, p)
  BY <1>1, <1>4, TellsFirst
<1>6. \A x, y, z, u, v, w : Idle(x) /\ Idle(y) /\ Idle(z) /\ Idle(u) /\ Idle(v) /\ Idle(w)
                            => Tells(<<x, y, z, u, v, w>>, t, K, p, K, p)
  BY <1>1, <1>5, TellsFirst
<1>7. QED
  BY <1>1, <1>2, <1>3, <1>4, <1>5, <1>6

\* A step that gives the caller no sum, and no pointers but those of h.
PointsTo(x, h) == x.do # "sum" /\ (x.do = "arrays" => x.from = h)

\* Steps that do.
Shows(s, h) == IsSeq(s) /\ \A i \in DOMAIN s : PointsTo(s[i], h)

\* The methods of a backend whose arrays are m, or copied to h for the caller.
Learns(stream, m, h, ks) ==
  /\ \A t : Gains(stream.construct, t, {}, Keep(m, StartCell))
  /\ \A k \in ks : \A x \in [Field -> Val] : \A t :
       Gains(stream.kernel[k], t, Keep(m, x), Keep(m, Apply(k, x)))
  /\ \A x \in [Field -> Val] : Gains(stream.Dot, ProductOf(x), Keep(m, x), Keep(m, x))
  /\ \A x \in [Field -> Val] : \A t : Gains(stream.get_arrays, t, Keep(m, x), Keep(h, x))
  /\ Shows(stream.get_arrays, h) /\ Shows(stream.list, h) /\ Shows(stream.destroy, h)
  /\ IsPlace(m) /\ IsPlace(h)

\* Concatenation, tuples, and the steps.
LEMMA ShowsJoined ==
  ASSUME NEW s, NEW t, NEW h, Shows(s, h), Shows(t, h)
  PROVE  Shows(s \o t, h)
<1> DEFINE r == s \o t
<1>1. IsSeq(s) /\ IsSeq(t) /\ IsSeq(r)
  BY Joined DEF Shows
<1>2. \A i \in DOMAIN r : \/ i \in DOMAIN s /\ r[i] = s[i]
                          \/ i - Len(s) \in DOMAIN t /\ r[i] = t[i - Len(s)]
  BY <1>1, Place
<1> HIDE DEF r
<1>3. Shows(r, h)
  BY <1>1, <1>2 DEF Shows
<1>4. QED
  BY <1>3 DEF r

\* Tuples of such steps.
LEMMA ShowsTuples ==
  ASSUME NEW h
  PROVE  /\ Shows(<<>>, h)
         /\ \A x : PointsTo(x, h) => Shows(<<x>>, h)
         /\ \A x, y : PointsTo(x, h) /\ PointsTo(y, h) => Shows(<<x, y>>, h)
         /\ \A x, y, z : PointsTo(x, h) /\ PointsTo(y, h) /\ PointsTo(z, h) => Shows(<<x, y, z>>, h)
         /\ \A x, y, z, u : PointsTo(x, h) /\ PointsTo(y, h) /\ PointsTo(z, h) /\ PointsTo(u, h)
                            => Shows(<<x, y, z, u>>, h)
         /\ \A x, y, z, u, v : /\ PointsTo(x, h) /\ PointsTo(y, h) /\ PointsTo(z, h) /\ PointsTo(u, h)
                               /\ PointsTo(v, h)
                               => Shows(<<x, y, z, u, v>>, h)
         /\ \A x, y, z, u, v, w : /\ PointsTo(x, h) /\ PointsTo(y, h) /\ PointsTo(z, h) /\ PointsTo(u, h)
                                  /\ PointsTo(v, h) /\ PointsTo(w, h)
                                  => Shows(<<x, y, z, u, v, w>>, h)
BY Tuples DEF Shows

\* The steps that are such.
LEMMA PointsSteps ==
  ASSUME NEW h
  PROVE  /\ \A xs, by : PointsTo(Acquire(xs, by), h) /\ PointsTo(AcquireOn(xs, by), h)
                        /\ PointsTo(Release(xs, by), h) /\ PointsTo(Rename(xs, by), h)
         /\ \A x : /\ PointsTo(Submit(x), h) /\ PointsTo(Access(x), h) /\ PointsTo(Leave(x), h)
                   /\ PointsTo(Run(x), h) /\ PointsTo(List(x), h) /\ PointsTo(Retain(x), h)
         /\ PointsTo(Wait, h) /\ PointsTo(HandOut(h), h)
BY DEF PointsTo, Acquire, AcquireOn, Release, Rename, Submit, Access, Leave, Run, List, Retain, Wait,
       HandOut

\* The usual methods of such steps.
LEMMA ShowsUsual ==
  ASSUME NEW h
  PROVE  /\ Shows(<<>>, h) /\ Shows(<<HandOut(h)>>, h) /\ Shows(<<Wait>>, h)
         /\ \A op : Shows(Blockingly(op), h)
         /\ \A xs, by : Shows(<<Acquire(xs, by)>>, h) /\ Shows(<<Release(xs, by)>>, h)
BY ShowsTuples, PointsSteps DEF Blockingly

\* Such a backend computes the right thing.
LEMMA LearnsComputes ==
  ASSUME NEW b \in Backends, NEW stream, NEW h, NEW ks, Learns(stream, Home(b), h, ks),
         Callable(b) \subseteq ks \cup {"Dot"}, \A c \in Call : Program(b, c) = Method(stream, c)
  PROVE  Computes(b)
<1>1. PICK m : m = Home(b)
  OBVIOUS
<1>2. IsPlace(m) /\ IsPlace(h)
  BY <1>1 DEF Learns
<1>3. \A d, x : IsCells(x) /\ Facts(d, Keep(m, x)) => Has(b, d, x)
  <2>1. SUFFICES ASSUME NEW d, NEW x, IsCells(x), Facts(d, Keep(m, x)) PROVE Has(b, d, x)
    OBVIOUS
  <2>2. \A f \in Field : m[f] \in DOMAIN d /\ d[m[f]] = x[f]
    BY <2>1, FactsOf DEF Keep
  <2>3. QED
    BY <1>1, <1>2, <2>1, <2>2 DEF Has, InArrays, IsCells, Objects, IsPlace
<1>4. Program(b, "construct") = stream.construct /\ Program(b, "get_arrays") = stream.get_arrays
      /\ Program(b, "list") = stream.list /\ Program(b, "destroy") = stream.destroy
  BY DEF Method, Call, ArrayKernels
<1>5. \E d : /\ Teaches(Program(b, "construct"), Entering(NothingKnown), ProductOf(StartCell), d)
             /\ Has(b, d, StartCell)
  <2>1. Gains(stream.construct, ProductOf(StartCell), {}, Keep(m, StartCell))
    BY <1>1 DEF Learns
  <2>2. Facts(NothingKnown, {})
    BY FactsOf
  <2>3. PICK d : Facts(d, Keep(m, StartCell))
                 /\ Teaches(stream.construct, Entering(NothingKnown), ProductOf(StartCell), d)
    BY <2>1, <2>2 DEF Gains
  <2>4. QED
    BY <1>3, <1>4, <2>3, PlaceNames
<1>6. ASSUME NEW d \in [Objects(m) -> Val]
      PROVE  InArrays(b, d) \in [Field -> Val] /\ Facts(d, Keep(m, InArrays(b, d)))
  <2>1. PICK x : x = InArrays(b, d)
    OBVIOUS
  <2>2. \A f \in Field : m[f] \in DOMAIN d /\ d[m[f]] = x[f] /\ d[m[f]] \in Val
    BY <1>1, <1>2, <1>6, <2>1 DEF InArrays, Objects, IsPlace
  <2>3. Facts(d, Keep(m, x))
    BY <2>2, FactsOf DEF Keep
  <2>4. x \in [Field -> Val]
    BY <1>1, <2>1, <2>2 DEF InArrays
  <2>5. QED
    BY <2>1, <2>3, <2>4
<1>7. ASSUME NEW k \in Callable(b), NEW d \in [Objects(m) -> Val]
      PROVE  \E d2 : /\ Teaches(Program(b, k), Entering(d), ProductOf(InArrays(b, d)), d2)
                     /\ Has(b, d2, Apply(k, InArrays(b, d)))
  <2>1. PICK x : x = InArrays(b, d)
    OBVIOUS
  <2>2. x \in [Field -> Val] /\ Facts(d, Keep(m, x)) /\ IsCells(x)
    BY <1>6, <2>1, PlaceNames
  <2>3. k \in Kernel /\ k \in Call
    BY ProgramsTyped DEF Call
  <2>4. CASE k = "Dot"
    <3>1. Program(b, k) = stream.Dot /\ Apply(k, x) = x
      BY <2>3, <2>4 DEF Method, ArrayKernels, Apply
    <3>2. Gains(stream.Dot, ProductOf(x), Keep(m, x), Keep(m, x))
      BY <1>1, <2>2 DEF Learns
    <3>3. PICK d2 : Facts(d2, Keep(m, x)) /\ Teaches(stream.Dot, Entering(d), ProductOf(x), d2)
      BY <2>2, <3>2 DEF Gains
    <3>4. QED
      BY <1>3, <2>1, <2>2, <3>1, <3>3
  <2>5. CASE k # "Dot"
    <3>1. k \in ArrayKernels /\ k \in ks
      BY <2>3, <2>5 DEF Kernel
    <3>2. Program(b, k) = stream.kernel[k]
      BY <2>3, <3>1 DEF Method
    <3>3. PICK y : y = Apply(k, x)
      OBVIOUS
    <3>4. IsCells(y)
      BY <2>2, <3>1, <3>3, PlaceNames
    <3>5. Gains(stream.kernel[k], ProductOf(x), Keep(m, x), Keep(m, y))
      BY <1>1, <2>2, <3>1, <3>3 DEF Learns
    <3>6. PICK d2 : Facts(d2, Keep(m, y)) /\ Teaches(stream.kernel[k], Entering(d), ProductOf(x), d2)
      BY <2>2, <3>5 DEF Gains
    <3>7. QED
      BY <1>3, <2>1, <3>2, <3>3, <3>4, <3>6
  <2>6. QED
    BY <2>4, <2>5
<1>8. ASSUME NEW d \in [Objects(m) -> Val]
      PROVE  \E d2 : /\ Teaches(Program(b, "get_arrays"), Entering(d), ProductOf(InArrays(b, d)), d2)
                     /\ \A i \in DOMAIN Program(b, "get_arrays") :
                          LET s == Program(b, "get_arrays")[i]
                          IN s.do = "arrays" =>
                               \A f \in Field : s.from[f] \in DOMAIN d2
                                                /\ d2[s.from[f]] = InArrays(b, d)[f]
  <2>1. PICK x : x = InArrays(b, d)
    OBVIOUS
  <2>2. x \in [Field -> Val] /\ Facts(d, Keep(m, x))
    BY <1>6, <2>1
  <2>3. Gains(stream.get_arrays, ProductOf(x), Keep(m, x), Keep(h, x)) /\ Shows(stream.get_arrays, h)
    BY <1>1, <2>2 DEF Learns
  <2>4. PICK d2 : Facts(d2, Keep(h, x)) /\ Teaches(stream.get_arrays, Entering(d), ProductOf(x), d2)
    BY <2>2, <2>3 DEF Gains
  <2>5. \A f \in Field : h[f] \in DOMAIN d2 /\ d2[h[f]] = x[f]
    BY <2>4, FactsOf DEF Keep
  <2>6. QED
    BY <1>4, <2>1, <2>3, <2>4, <2>5 DEF Shows, PointsTo
<1>9. ASSUME NEW c \in {"list", "destroy"}, NEW i \in DOMAIN Program(b, c)
      PROVE  Program(b, c)[i].do # "sum"
  BY <1>4 DEF Learns, Shows, PointsTo
<1>10. QED
  BY <1>1, <1>5, <1>7, <1>8, <1>9 DEF Computes

\* The methods most backends share.
LEMMA UsualTells ==
  ASSUME NEW m, IsPlace(m)
  PROVE  /\ \A t, K : Tells(Blockingly(StartLoop(m)), t, K, {}, Keep(m, StartCell), {})
         /\ \A k \in ArrayKernels : \A x \in [Field -> Val] : \A t :
              /\ Tells(Blockingly(Loop(k, m)), t, Keep(m, x), {}, Keep(m, Apply(k, x)), {})
              /\ Gains(Blockingly(Loop(k, m)), t, Keep(m, x), Keep(m, Apply(k, x)))
         /\ \A y : y \notin Objects(m) => \A x \in [Field -> Val] :
              /\ Tells(WithLocal(y, Blockingly(Products(m, y)) \o <<ReturnSum(y)>>), ProductOf(x),
                       Keep(m, x), {}, Keep(m, x), {})
              /\ Gains(WithLocal(y, Blockingly(Products(m, y)) \o <<ReturnSum(y)>>), ProductOf(x),
                       Keep(m, x), Keep(m, x))
              /\ Gains(<<Submit(Products(m, y)), Wait, ReturnSum(y)>>, ProductOf(x),
                       Keep(m, x), Keep(m, x))
         /\ \A n : IsPlace(n) => \A x \in [Field -> Val] : \A t :
              Tells(Blockingly(MoveArrays(m, n)), t, Keep(m, x), {}, Keep(n, x), {})
         /\ \A x, t : /\ Tells(<<HandOut(m)>>, t, Keep(m, x), {}, Keep(m, x), {})
                      /\ Gains(<<HandOut(m)>>, t, Keep(m, x), Keep(m, x))
<1>1. \A t, K : Tells(Blockingly(StartLoop(m)), t, K, {}, Keep(m, StartCell), {})
  BY TurnsStart, TellsWork
<1>2. ASSUME NEW k \in ArrayKernels, NEW x \in [Field -> Val], NEW t
      PROVE  /\ Tells(Blockingly(Loop(k, m)), t, Keep(m, x), {}, Keep(m, Apply(k, x)), {})
             /\ Gains(Blockingly(Loop(k, m)), t, Keep(m, x), Keep(m, Apply(k, x)))
  <2>1. Turns(Loop(k, m), Keep(m, x), Keep(m, Apply(k, x)))
    BY TurnsLoop, PlaceNames
  <2>2. QED
    BY <2>1, TellsWork, TellsGains
<1>3. ASSUME NEW y, y \notin Objects(m), NEW x \in [Field -> Val]
      PROVE  /\ Tells(WithLocal(y, Blockingly(Products(m, y)) \o <<ReturnSum(y)>>), ProductOf(x),
                      Keep(m, x), {}, Keep(m, x), {})
             /\ Gains(WithLocal(y, Blockingly(Products(m, y)) \o <<ReturnSum(y)>>), ProductOf(x),
                      Keep(m, x), Keep(m, x))
             /\ Gains(<<Submit(Products(m, y)), Wait, ReturnSum(y)>>, ProductOf(x), Keep(m, x), Keep(m, x))
  <2>1. PICK t, K, L : t = ProductOf(x) /\ K = Keep(m, x) /\ L = Keep(m, x) \cup {<<y, t>>}
    OBVIOUS
  <2>2. Turns(Products(m, y), K, L) /\ K \subseteq L /\ <<y, t>> \in L
    BY <1>3, <2>1, TurnsProducts, PlaceNames
  <2>3. Tells(Blockingly(Products(m, y)), t, K, {}, L, {}) /\ Tells(<<ReturnSum(y)>>, t, L, {}, L, {})
    BY <2>2, TellsWork, TellsSteps
  <2>4. Tells(Blockingly(Products(m, y)) \o <<ReturnSum(y)>>, t, K, {}, L, {})
    BY <2>3, TellsJoined
  <2>5. \A q \in K : q[1] # y
    BY <1>3, <2>1 DEF Keep, Keeping, Objects, IsPlace
  <2>6. Tells(WithLocal(y, Blockingly(Products(m, y)) \o <<ReturnSum(y)>>), t, K, {}, K, {})
    BY <2>2, <2>4, <2>5, TellsLocal
  <2>7. Gains(<<Submit(Products(m, y)), Wait, ReturnSum(y)>>, t, K, K)
    <3>1. Tells(<<Submit(Products(m, y)), Wait>>, t, K, {}, L, {})
      BY <2>2, TellsWork
    <3>2. Tells(<<Submit(Products(m, y)), Wait>> \o <<ReturnSum(y)>>, t, K, {}, L, {})
      BY <2>3, <3>1, TellsJoined
    <3>3. <<Submit(Products(m, y)), Wait, ReturnSum(y)>>
          = <<Submit(Products(m, y)), Wait>> \o <<ReturnSum(y)>>
      OBVIOUS
    <3>4. Tells(<<Submit(Products(m, y)), Wait, ReturnSum(y)>>, t, K, {}, K, {})
      BY <2>2, <3>2, <3>3, TellsWithin
    <3>5. QED
      BY <3>4, TellsGains
  <2>8. QED
    BY <2>1, <2>6, <2>7, TellsGains
<1>4. ASSUME NEW n, IsPlace(n), NEW x \in [Field -> Val], NEW t
      PROVE  Tells(Blockingly(MoveArrays(m, n)), t, Keep(m, x), {}, Keep(n, x), {})
  BY <1>4, TurnsMoveArrays, TellsWork
<1>5. ASSUME NEW x, NEW t
      PROVE  /\ Tells(<<HandOut(m)>>, t, Keep(m, x), {}, Keep(m, x), {})
             /\ Gains(<<HandOut(m)>>, t, Keep(m, x), Keep(m, x))
  BY IdleStep, TellsIdle, TellsGains
<1>6. QED
  BY <1>1, <1>2, <1>3, <1>4, <1>5
----------------------------------------------------------------------------
(* What loops teach                                                        *)

\* Nothing happens before the arrays are started, or nothing that teaches.
LEMMA StartsLater ==
  ASSUME NEW s, NEW r, NEW m, \A t : Tells(s, t, {}, {}, {}, {}),
         \A t : Tells(r, t, {}, {}, Keep(m, StartCell), {})
  PROVE  \A t : Gains(s \o r, t, {}, Keep(m, StartCell))
BY TellsJoined, TellsGains

\* The arrays are copied, or whatever happens, and then they are handed out.
LEMMA HandsLater ==
  ASSUME NEW s, NEW m, NEW h, NEW x, NEW t, Tells(s, t, Keep(m, x), {}, Keep(h, x), {})
  PROVE  Gains(s \o <<HandOut(h)>>, t, Keep(m, x), Keep(h, x))
<1>1. Tells(<<HandOut(h)>>, t, Keep(h, x), {}, Keep(h, x), {})
  BY IdleStep, TellsIdle
<1>2. QED
  BY <1>1, TellsJoined, TellsGains

\* OpenMP, on the host and offloading.
LEMMA OmpLearns ==
  ASSUME NEW b
  PROVE  Learns(OmpStream(b), OmpArrays(b), Here, ArrayKernels)
<1>1. PICK m : m = OmpArrays(b)
  OBVIOUS
<1>2. IsPlace(m) /\ IsPlace(Here) /\ "sum" \notin Objects(m)
  BY <1>1, PlaceNames, Places3 DEF OmpArrays
<1>3. ASSUME NEW t, NEW K, NEW K2, NEW op, Turns(op, K, K2)
      PROVE  Tells(OmpLoop(b, op), t, K, {}, K2, {})
  <2>1. Tells(Blockingly(op), t, K, {}, K2, {})
    BY <1>3, TellsWork
  <2>2. Tells(<<Submit(op)>> \o Blockingly([x \in {} |-> op]), t, K, {}, K2, {})
    <3>1. PICK no : no = [x \in {} |-> op]
      OBVIOUS
    <3>2. Turns(no, K2, K2) /\ Touches(no) = {}
      BY <3>1, TurnsNothing DEF Touches, Reads, Writes
    <3>3. Tells(<<Submit(op)>>, t, K, {}, K2, {} \cup Touches(op))
      BY <1>3, TellsSteps
    <3>4. Tells(<<Submit(no)>>, t, K2, {} \cup Touches(op), K2, ({} \cup Touches(op)) \cup Touches(no))
      BY <3>2, TellsSteps
    <3>5. Tells(<<Wait>>, t, K2, ({} \cup Touches(op)) \cup Touches(no), K2, {})
      BY TellsSteps
    <3>6. Tells(<<Submit(no), Wait>>, t, K2, {} \cup Touches(op), K2, {})
      BY <3>4, <3>5, TellsFirst
    <3>7. QED
      BY <3>1, <3>3, <3>6, TellsJoined DEF Blockingly
  <2>3. QED
    BY <2>1, <2>2 DEF OmpLoop, OmpUpdate
<1>4. \A t : Gains(OmpConstruct(b), t, {}, Keep(m, StartCell))
  <2>1. ASSUME NEW t
        PROVE  Tells(<<Acquire(Objects(Here), "malloc")>> \o (IF b # "OMP" THEN <<Select>> ELSE <<>>)
                     \o (IF OmpMaps(b) THEN <<AcquireOn(Objects(Device), "map")>> ELSE <<>>),
                     t, {}, {}, {}, {})
    <3>1. /\ Tells(<<Acquire(Objects(Here), "malloc")>>, t, {}, {}, {}, {})
          /\ Tells(IF b # "OMP" THEN <<Select>> ELSE <<>>, t, {}, {}, {}, {})
          /\ Tells(IF OmpMaps(b) THEN <<AcquireOn(Objects(Device), "map")>> ELSE <<>>, t, {}, {}, {}, {})
      BY IdleStep, TellsIdle, TellsNothing
    <3>2. QED
      BY <3>1, TellsJoined
  <2>2. \A t : Tells(OmpInit(b), t, {}, {}, Keep(m, StartCell), {})
    BY <1>1, <1>2, <1>3, TurnsStart DEF OmpInit
  <2>3. QED
    BY <2>1, <2>2, StartsLater DEF OmpConstruct
<1>5. ASSUME NEW k \in ArrayKernels, NEW x \in [Field -> Val], NEW t
      PROVE  Gains(OmpKernel(b, k), t, Keep(m, x), Keep(m, Apply(k, x)))
  <2>1. Turns(Loop(k, m), Keep(m, x), Keep(m, Apply(k, x)))
    BY <1>2, TurnsLoop, PlaceNames
  <2>2. QED
    BY <1>1, <1>3, <2>1, TellsGains DEF OmpKernel
<1>6. \A x \in [Field -> Val] : Gains(OmpDot(b), ProductOf(x), Keep(m, x), Keep(m, x))
  BY <1>1, <1>2, UsualTells DEF OmpDot
<1>7. ASSUME NEW x \in [Field -> Val], NEW t
      PROVE  Gains(OmpGetArrays(b), t, Keep(m, x), Keep(Here, x))
  <2>1. Tells(IF OmpMaps(b) THEN OmpUpdate(MoveArrays(Device, Here)) ELSE <<>>, t, Keep(m, x), {},
              Keep(Here, x), {})
    BY <1>1, PlaceNames, UsualTells, TellsNothing DEF OmpArrays, OmpUpdate
  <2>2. QED
    BY <2>1, HandsLater DEF OmpGetArrays
<1>8. Shows(OmpGetArrays(b), Here) /\ Shows(OmpListDevices, Here) /\ Shows(OmpDestroy(b), Here)
  BY ShowsUsual, ShowsJoined DEF OmpGetArrays, OmpUpdate, OmpListDevices, OmpDestroy
<1>9. QED
  BY <1>1, <1>2, <1>4, <1>5, <1>6, <1>7, <1>8 DEF Learns, OmpStream

\* OpenACC.
LEMMA AccLearns == Learns(AccStream, Device, Here, ArrayKernels)
<1>1. IsPlace(Device) /\ IsPlace(Here) /\ "sum" \notin Objects(Device)
  BY PlaceNames, Places3
<1>2. \A t : Gains(AccConstruct, t, {}, Keep(Device, StartCell))
  BY <1>1, UsualTells, TellsIdles, IdleStep, StartsLater DEF AccConstruct, AccInit
<1>3. \A x \in [Field -> Val] : \A t : Gains(AccGetArrays, t, Keep(Device, x), Keep(Here, x))
  BY <1>1, UsualTells, HandsLater DEF AccGetArrays
<1>4. Shows(AccGetArrays, Here) /\ Shows(AccListDevices, Here) /\ Shows(AccDestroy, Here)
  BY ShowsTuples, ShowsJoined, PointsSteps
     DEF AccGetArrays, Blockingly, AccListDevices, AccDestroy
<1>5. QED
  BY <1>1, <1>2, <1>3, <1>4, UsualTells DEF Learns, AccStream, AccKernel, AccDot

\* Kokkos.
LEMMA KokkosLearns == Learns(KokkosStream, Device, Host, ArrayKernels)
<1>1. IsPlace(Device) /\ IsPlace(Host) /\ "sum" \notin Objects(Device)
  BY PlaceNames, Places3
<1>2. \A t : Gains(KokkosConstruct, t, {}, Keep(Device, StartCell))
  BY <1>1, UsualTells, TellsIdles, IdleStep, StartsLater
     DEF KokkosConstruct, KokkosInit, KokkosFenced, Blockingly
<1>3. \A x \in [Field -> Val] : \A t : Gains(KokkosGetArrays, t, Keep(Device, x), Keep(Host, x))
  BY <1>1, UsualTells, HandsLater DEF KokkosGetArrays
<1>4. Shows(KokkosGetArrays, Host) /\ Shows(<<>>, Host) /\ Shows(KokkosDestroy, Host)
  BY ShowsUsual, ShowsJoined DEF KokkosGetArrays, KokkosDestroy
<1>5. \A k \in ArrayKernels : KokkosKernel(k) = Blockingly(Loop(k, Device))
  BY DEF KokkosKernel, KokkosFenced, Blockingly
<1>6. QED
  BY <1>1, <1>2, <1>3, <1>4, <1>5, UsualTells DEF Learns, KokkosStream, KokkosDot

\* RAJA, on the host and with CUDA.
LEMMA RajaLearns ==
  ASSUME NEW b
  PROVE  Learns(RajaStream(b), Device, Device, ArrayKernels)
<1>1. IsPlace(Device) /\ "sum" \notin Objects(Device)
  BY PlaceNames, Places3
<1>2. \A t : Gains(RajaConstruct(b), t, {}, Keep(Device, StartCell))
  <2>1. ASSUME NEW t
        PROVE  /\ Tells(<<Acquire(Objects(Device), "malloc")>>, t, {}, {}, {}, {})
               /\ Tells(<<AcquireOn(Objects(Device), "cuda"), Wait>>, t, {}, {}, {}, {})
    BY TellsIdles, IdleStep, TellsSteps, TellsFirst
  <2>2. QED
    BY <1>1, <2>1, UsualTells, StartsLater DEF RajaConstruct, RajaInit
<1>3. Shows(RajaGetArrays, Device) /\ Shows(<<>>, Device) /\ Shows(RajaDestroy(b), Device)
  BY ShowsUsual DEF RajaGetArrays, RajaDestroy
<1>4. QED
  BY <1>1, <1>2, <1>3, UsualTells DEF Learns, RajaStream, RajaKernel, RajaDot, RajaGetArrays

\* TBB, with partitioned ranges and with vectors.
LEMMA TbbLearns ==
  ASSUME NEW b
  PROVE  Learns(TbbStream(b), Here, Here, ArrayKernels)
<1>1. IsPlace(Here) /\ "sum" \notin Objects(Here)
  BY PlaceNames, Places3
<1>2. \A t : Gains(TbbConstruct(b), t, {}, Keep(Here, StartCell))
  BY <1>1, UsualTells, TellsIdles, IdleStep, StartsLater DEF TbbConstruct, TbbInit
<1>3. Shows(TbbGetArrays, Here) /\ Shows(<<>>, Here) /\ Shows(TbbDestroy(b), Here)
  BY ShowsUsual DEF TbbGetArrays, TbbDestroy
<1>4. QED
  BY <1>1, <1>2, <1>3, UsualTells DEF Learns, TbbStream, TbbKernel, TbbDot, TbbGetArrays

\* Three arrays, one after the other.
LEMMA StartsThree ==
  ASSUME NEW m, IsPlace(m), NEW t
  PROVE  /\ Turns(StartArray("a", m), {}, Keeping(m, {"a"}, StartCell))
         /\ Turns(StartArray("b", m), Keeping(m, {"a"}, StartCell), Keeping(m, {"a", "b"}, StartCell))
         /\ Turns(StartArray("c", m), Keeping(m, {"a", "b"}, StartCell), Keep(m, StartCell))
         /\ Tells(Blockingly(StartArray("a", m)) \o Blockingly(StartArray("b", m))
                  \o Blockingly(StartArray("c", m)), t, {}, {}, Keep(m, StartCell), {})
<1>1. \A f \in Field : \A F \in SUBSET Field :
        Turns(StartArray(f, m), Keeping(m, F, StartCell), Keeping(m, F \cup {f}, StartCell))
  BY TurnsStart
<1>2. Keeping(m, {}, StartCell) = {}
  BY DEF Keeping
<1>3. Turns(StartArray("a", m), {}, Keeping(m, {"a"}, StartCell))
  <2>1. Turns(StartArray("a", m), Keeping(m, {}, StartCell), Keeping(m, {} \cup {"a"}, StartCell))
    BY <1>1 DEF Field
  <2>2. {} \cup {"a"} = {"a"}
    OBVIOUS
  <2>3. QED
    BY <1>2, <2>1, <2>2
<1>4. Turns(StartArray("b", m), Keeping(m, {"a"}, StartCell), Keeping(m, {"a", "b"}, StartCell))
  <2>1. Turns(StartArray("b", m), Keeping(m, {"a"}, StartCell), Keeping(m, {"a"} \cup {"b"}, StartCell))
    BY <1>1 DEF Field
  <2>2. {"a"} \cup {"b"} = {"a", "b"}
    OBVIOUS
  <2>3. QED
    BY <2>1, <2>2
<1>5. Turns(StartArray("c", m), Keeping(m, {"a", "b"}, StartCell), Keep(m, StartCell))
  <2>1. Turns(StartArray("c", m), Keeping(m, {"a", "b"}, StartCell),
              Keeping(m, {"a", "b"} \cup {"c"}, StartCell))
    BY <1>1 DEF Field
  <2>2. {"a", "b"} \cup {"c"} = Field
    BY DEF Field
  <2>3. QED
    BY <2>1, <2>2 DEF Keep
<1>6. QED
  BY <1>3, <1>4, <1>5, TellsWork, TellsJoined

\* With DATA17, a + (b + s*c) is computed as (a + b) + s*c.
LEMMA StdLearns ==
  ASSUME NEW b, b # "STD-DATA17" \/ \A x, y, z \in Val : Plus(Plus(x, y), z) = Plus(x, Plus(y, z))
  PROVE  Learns(StdStream(b), Here, Here, ArrayKernels)
<1>1. IsPlace(Here) /\ "sum" \notin Objects(Here)
  BY PlaceNames, Places3
<1>2. \A t : Gains(StdConstruct(b), t, {}, Keep(Here, StartCell))
  <2>1. \A t : Tells(alloc_raw(b), t, {}, {}, {}, {})
    BY TellsIdles, IdleStep DEF alloc_raw
  <2>2. \A t : Tells(StdInit, t, {}, {}, Keep(Here, StartCell), {})
    BY <1>1, StartsThree DEF StdInit
  <2>3. QED
    BY <2>1, <2>2, StartsLater DEF StdConstruct
<1>3. Shows(StdGetArrays, Here) /\ Shows(<<>>, Here) /\ Shows(StdDestroy(b), Here)
  BY ShowsUsual DEF StdGetArrays, StdDestroy, dealloc_raw
<1>4. ASSUME NEW k \in ArrayKernels, NEW x \in [Field -> Val], NEW t
      PROVE  Gains(StdKernel(k), t, Keep(Here, x), Keep(Here, Apply(k, x)))
  BY <1>1, UsualTells DEF StdKernel
<1>5. ASSUME NEW x \in [Field -> Val], NEW t
      PROVE  Gains(StdNstream(b), t, Keep(Here, x), Keep(Here, Apply("Nstream", x)))
  <2>1. CASE b # "STD-DATA17"
    BY <1>4, <2>1 DEF StdNstream, ArrayKernels
  <2>2. CASE b = "STD-DATA17"
    <3>1. PICK y : y = [x EXCEPT !.a = Plus(x.a, x.b)]
      OBVIOUS
    <3>2. PICK z : z = Apply("Nstream", x)
      OBVIOUS
    <3>3. x.a \in Val /\ x.b \in Val /\ x.c \in Val /\ Times(startScalar, x.c) \in Val
      BY ValuesClosed DEF Field
    <3>4. y \in [Field -> Val] /\ y.a = Plus(x.a, x.b) /\ y.b = x.b /\ y.c = x.c
      BY <3>1, <3>3, ValuesClosed DEF Field
    <3>5. z = [x EXCEPT !.a = Plus(y.a, Times(startScalar, y.c))]
      <4>1. PICK w : w = Times(startScalar, x.c)
        OBVIOUS
      <4>2. Plus(Plus(x.a, x.b), w) = Plus(x.a, Plus(x.b, w))
        BY <2>2, <3>3, <4>1
      <4>3. Written("Nstream", x) = Plus(x.a, Plus(x.b, w))
        BY <4>1 DEF Written
      <4>4. Target("Nstream") = "a" /\ "Nstream" \in ArrayKernels
        BY DEF Target, ArrayKernels
      <4>5. z = [x EXCEPT !.a = Written("Nstream", x)]
        BY <3>2, <4>4 DEF Apply
      <4>6. QED
        BY <3>4, <4>1, <4>2, <4>3, <4>5
    <3>6. z.a = Plus(y.a, Times(startScalar, y.c)) /\ z.b = x.b /\ z.c = x.c
      BY <3>5 DEF Field
    <3>7. Turns([n \in {"a"} |-> Value("Add", Here)], Keep(Here, x), Keep(Here, y))
      <4>1. SUFFICES ASSUME NEW d, Facts(d, Keep(Here, x))
                     PROVE  /\ Reads([n \in {"a"} |-> Value("Add", Here)]) \subseteq DOMAIN d
                            /\ Facts(Learned(d, [n \in {"a"} |-> Value("Add", Here)]), Keep(Here, y))
        BY DEF Turns
      <4>2. PICK op : op = [n \in {"a"} |-> Value("Add", Here)]
        OBVIOUS
      <4>3. \A f \in Field : Here[f] \in DOMAIN d /\ d[Here[f]] = x[f]
        BY <4>1, FactsOf DEF Keep
      <4>4. DOMAIN op = {"a"} /\ op["a"] = Value("Add", Here)
        BY <4>2
      <4>5. Reads(op) \subseteq DOMAIN d
        BY <4>3, <4>4 DEF Reads, Value, Operands, Field
      <4>6. PICK e : e = Learned(d, op)
        OBVIOUS
      <4>7. /\ DOMAIN e = DOMAIN d \cup DOMAIN op
            /\ \A i \in DOMAIN op : e[i] = Evaluate(op[i], d)
            /\ \A i \in DOMAIN d \ DOMAIN op : e[i] = d[i]
        BY <4>6 DEF Learned, Writes
      <4>8. Evaluate(Value("Add", Here), d) = y.a
        <5>1. PICK w : w = [f \in Field |-> d[Here[f]]]
          OBVIOUS
        <5>2. w.a = x.a /\ w.b = x.b
          BY <4>3, <5>1 DEF Field
        <5>3. Evaluate(Value("Add", Here), d) = Written("Add", w)
          BY <5>1, Evaluated DEF ArrayKernels
        <5>4. QED
          BY <3>4, <5>2, <5>3 DEF Written
      <4>9. \A f \in Field : Here[f] \in DOMAIN e /\ e[Here[f]] = y[f]
        <5>1. "a" \in DOMAIN d /\ "b" \in DOMAIN d /\ "c" \in DOMAIN d /\ d["b"] = x.b /\ d["c"] = x.c
          BY <4>3, Places3 DEF Field
        <5>2. e["a"] = y.a /\ e["b"] = y.b /\ e["c"] = y.c /\ "a" \in DOMAIN e /\ "b" \in DOMAIN e
              /\ "c" \in DOMAIN e
          BY <3>4, <4>4, <4>7, <4>8, <5>1
        <5>3. QED
          BY <5>2, Places3 DEF Field
      <4>10. QED
        BY <4>2, <4>5, <4>6, <4>9, FactsOf DEF Keep
    <3>8. Turns([n \in {"a"} |-> Value("Triad", Arrays("a", "a", "c"))], Keep(Here, y), Keep(Here, z))
      <4>1. SUFFICES ASSUME NEW d, Facts(d, Keep(Here, y))
                     PROVE  /\ Reads([n \in {"a"} |-> Value("Triad", Arrays("a", "a", "c"))]) \subseteq DOMAIN d
                            /\ Facts(Learned(d, [n \in {"a"} |-> Value("Triad", Arrays("a", "a", "c"))]),
                                     Keep(Here, z))
        BY DEF Turns
      <4>2. PICK m : m = Arrays("a", "a", "c")
        OBVIOUS
      <4>3. PICK op : op = [n \in {"a"} |-> Value("Triad", m)]
        OBVIOUS
      <4>4. \A f \in Field : Here[f] \in DOMAIN d /\ d[Here[f]] = y[f]
        BY <4>1, FactsOf DEF Keep
      <4>5. /\ "a" \in DOMAIN d /\ "b" \in DOMAIN d /\ "c" \in DOMAIN d
            /\ d["a"] = y.a /\ d["b"] = y.b /\ d["c"] = y.c
        BY <4>4, Places3 DEF Field
      <4>6. DOMAIN op = {"a"} /\ op["a"] = Value("Triad", m) /\ m["b"] = "a" /\ m["c"] = "c"
        BY <4>2, <4>3 DEF Arrays, Field
      <4>7. Reads(op) \subseteq DOMAIN d
        BY <4>5, <4>6 DEF Reads, Value, Operands
      <4>8. PICK e : e = Learned(d, op)
        OBVIOUS
      <4>9. /\ DOMAIN e = DOMAIN d \cup DOMAIN op
            /\ \A i \in DOMAIN op : e[i] = Evaluate(op[i], d)
            /\ \A i \in DOMAIN d \ DOMAIN op : e[i] = d[i]
        BY <4>8 DEF Learned, Writes
      <4>10. Evaluate(Value("Triad", m), d) = z.a
        <5>1. PICK w : w = [f \in Field |-> d[m[f]]]
          OBVIOUS
        <5>2. w.b = y.a /\ w.c = y.c
          BY <4>5, <4>6, <5>1 DEF Field
        <5>3. Evaluate(Value("Triad", m), d) = Written("Triad", w)
          BY <5>1, Evaluated DEF ArrayKernels
        <5>4. QED
          BY <3>6, <5>2, <5>3 DEF Written
      <4>11. \A f \in Field : Here[f] \in DOMAIN e /\ e[Here[f]] = z[f]
        <5>1. e["a"] = z.a /\ e["b"] = z.b /\ e["c"] = z.c /\ "a" \in DOMAIN e /\ "b" \in DOMAIN e
              /\ "c" \in DOMAIN e
          BY <3>4, <3>6, <4>5, <4>6, <4>9, <4>10
        <5>2. QED
          BY <5>1, Places3 DEF Field
      <4>12. QED
        BY <4>2, <4>3, <4>7, <4>8, <4>11, FactsOf DEF Keep
    <3>9. Tells(StdNstream(b), t, Keep(Here, x), {}, Keep(Here, z), {})
      BY <2>2, <3>7, <3>8, TellsWork, TellsJoined DEF StdNstream
    <3>10. QED
      BY <3>2, <3>9, TellsGains
  <2>3. QED
    BY <2>1, <2>2
<1>6. \A x \in [Field -> Val] : Gains(StdDot, ProductOf(x), Keep(Here, x), Keep(Here, x))
  BY <1>1, UsualTells DEF StdDot
<1>7. \A x \in [Field -> Val] : \A t : Gains(StdGetArrays, t, Keep(Here, x), Keep(Here, x))
  BY <1>1, UsualTells DEF StdGetArrays
<1>8. QED
  BY <1>1, <1>2, <1>3, <1>4, <1>5, <1>6, <1>7 DEF Learns, StdStream

\* Futhark for double, where nstream is not run: what a kernel replaces it
\* does not read.
LEMMA FutharkLearns == Learns(FutharkStream("Futhark-double"), Device, Host, ArrayKernels \ {"Nstream"})
<1>1. /\ IsPlace(Device) /\ IsPlace(Here) /\ IsPlace(Host) /\ "sum" \notin Objects(Device)
      /\ Objects(Here) \cap Objects(Device) = {}
  BY PlaceNames, Places3, Disjoint
<1>2. ASSUME NEW t PROVE Gains(FutharkConstruct, t, {}, Keep(Device, StartCell))
  <2>1. PICK K, L : K = Keep(Here, StartCell) /\ L = Keep(Device, StartCell)
    OBVIOUS
  <2>2. Tells(<<Acquire({"cfg"}, "config"), Select, Acquire({"ctx"}, "context")>>, t, {}, {}, {}, {})
    BY TellsIdles, IdleStep
  <2>3. /\ Tells(<<Acquire(Objects(Here), "new")>>, t, {}, {}, {}, {})
        /\ Tells(<<AcquireOn(Objects(Device), "futhark")>>, t, K, {}, K, {})
    BY TellsIdle, IdleStep
  <2>4. Tells(<<Run(StartLoop(Here))>>, t, {}, {}, K, {})
    BY <1>1, <2>1, TurnsStart, TellsSteps
  <2>5. Tells(<<Submit(MoveArrays(Here, Device)), Wait>>, t, K, {}, L, {})
    BY <1>1, <2>1, TurnsMoveArrays, TellsWork
  <2>6. Tells(<<Release(Objects(Here), "new")>>, t, L, {}, L, {})
    <3>1. \A q \in L : q[1] \notin Objects(Here)
      BY <1>1, <2>1 DEF Keep, Keeping, Objects, IsPlace
    <3>2. QED
      BY <3>1, TellsSteps
  <2>7. Tells(<<Acquire(Objects(Here), "new"), Run(StartLoop(Here)), AcquireOn(Objects(Device), "futhark")>>,
              t, {}, {}, K, {})
    <3>1. Tells(<<Run(StartLoop(Here)), AcquireOn(Objects(Device), "futhark")>>, t, {}, {}, K, {})
      BY <2>3, <2>4, TellsFirst
    <3>2. QED
      BY <2>3, <3>1, TellsFirst
  <2>8. Tells(<<Submit(MoveArrays(Here, Device)), Wait, Release(Objects(Here), "new")>>, t, K, {}, L, {})
    <3>1. Tells(<<Submit(MoveArrays(Here, Device)), Wait>> \o <<Release(Objects(Here), "new")>>,
                t, K, {}, L, {})
      BY <2>5, <2>6, TellsJoined
    <3>2. <<Submit(MoveArrays(Here, Device)), Wait, Release(Objects(Here), "new")>>
          = <<Submit(MoveArrays(Here, Device)), Wait>> \o <<Release(Objects(Here), "new")>>
      OBVIOUS
    <3>3. QED
      BY <3>1, <3>2
  <2>9. Tells(FutharkInit, t, {}, {}, L, {})
    <3>1. FutharkInit
          = <<Acquire(Objects(Here), "new"), Run(StartLoop(Here)), AcquireOn(Objects(Device), "futhark")>>
            \o <<Submit(MoveArrays(Here, Device)), Wait, Release(Objects(Here), "new")>>
      BY Sixes DEF FutharkInit
    <3>2. QED
      BY <2>7, <2>8, <3>1, TellsJoined
  <2>10. QED
    BY <2>1, <2>2, <2>9, TellsJoined, TellsGains DEF FutharkConstruct
<1>3. ASSUME NEW k \in ArrayKernels \ {"Nstream"}, NEW x \in [Field -> Val], NEW t
      PROVE  Gains(FutharkKernel(k), t, Keep(Device, x), Keep(Device, Apply(k, x)))
  <2>1. PICK g, F : g = Target(k) /\ F = Field \ {g}
    OBVIOUS
  <2>2. PICK K, L : K = Keeping(Device, F, x) /\ L = Keep(Device, Apply(k, x))
    OBVIOUS
  <2>3. g \in Field /\ Operands(k) \subseteq F /\ F \cup {g} = Field /\ k \in ArrayKernels
    BY <2>1 DEF Target, Field, Operands, ArrayKernels
  <2>4. PICK op : op = [y \in {Device[g]} |-> Value(k, Device)]
    OBVIOUS
  <2>5. Turns(op, K, L)
    <3>1. F \in SUBSET Field /\ IsCells(x)
      BY <2>1, PlaceNames
    <3>2. Turns([y \in {Device[Target(k)]} |-> Value(k, Device)], Keeping(Device, F, x),
                Keeping(Device, F \cup {Target(k)}, Apply(k, x)))
      BY <1>1, <2>3, <3>1, TurnsInto
    <3>3. QED
      BY <2>1, <2>2, <2>3, <2>4, <3>2 DEF Keep
  <2>6. \A q \in K : q[1] \notin {Device[g]}
    BY <1>1, <2>1, <2>2, <2>3 DEF Keeping, IsPlace
  <2>7. PICK r, a : r = Release({Device[g]}, "futhark") /\ a = AcquireOn({Device[g]}, "futhark")
    OBVIOUS
  <2>8. Tells(<<r>>, t, K, {}, K, {}) /\ Tells(<<a>>, t, K, {}, K, {})
    BY <2>6, <2>7, TellsSteps, TellsIdle, IdleStep
  <2>9. Tells(<<Submit(op), Wait>>, t, K, {}, L, {})
    BY <2>5, TellsWork
  <2>10. Tells(<<a, Submit(op), Wait>>, t, K, {}, L, {})
    BY <2>8, <2>9, TellsFirst
  <2>11. Tells(<<r, a, Submit(op), Wait>>, t, K, {}, L, {})
    BY <2>8, <2>10, TellsFirst
  <2>12. Tells(FutharkKernel(k), t, K, {}, L, {})
    BY <2>1, <2>4, <2>7, <2>11 DEF FutharkKernel, FutharkEntry
  <2>13. K \subseteq Keep(Device, x)
    BY <2>1, <2>2 DEF Keep, Keeping
  <2>14. Tells(FutharkKernel(k), t, Keep(Device, x), {}, L, {})
    BY <2>12, <2>13, TellsWithin
  <2>15. QED
    BY <2>2, <2>14, TellsGains
<1>4. ASSUME NEW x \in [Field -> Val], NEW t
      PROVE  Gains(FutharkGetArrays, t, Keep(Device, x), Keep(Host, x))
  <2>1. Tells(<<Acquire(Objects(Host), "vector")>>, t, Keep(Device, x), {}, Keep(Device, x), {})
    BY TellsIdle, IdleStep
  <2>2. Tells(<<Submit(MoveArrays(Device, Host)), Wait>>, t, Keep(Device, x), {}, Keep(Host, x), {})
    BY <1>1, TurnsMoveArrays, TellsWork
  <2>3. Tells(<<Acquire(Objects(Host), "vector"), Submit(MoveArrays(Device, Host)), Wait>>, t,
              Keep(Device, x), {}, Keep(Host, x), {})
    BY <2>1, <2>2, TellsFirst
  <2>4. Gains(<<Acquire(Objects(Host), "vector"), Submit(MoveArrays(Device, Host)), Wait>> \o <<HandOut(Host)>>,
              t, Keep(Device, x), Keep(Host, x))
    BY <2>3, HandsLater
  <2>5. <<Acquire(Objects(Host), "vector"), Submit(MoveArrays(Device, Host)), Wait, HandOut(Host)>>
        = <<Acquire(Objects(Host), "vector"), Submit(MoveArrays(Device, Host)), Wait>> \o <<HandOut(Host)>>
    OBVIOUS
  <2>6. QED
    BY <2>4, <2>5 DEF FutharkGetArrays
<1>5. Shows(FutharkGetArrays, Host) /\ Shows(<<>>, Host) /\ Shows(FutharkDestroy, Host)
  BY ShowsTuples, PointsSteps DEF FutharkGetArrays, FutharkDestroy
<1>6. \A x \in [Field -> Val] : Gains(FutharkDot, ProductOf(x), Keep(Device, x), Keep(Device, x))
  BY <1>1, UsualTells DEF FutharkDot
<1>7. PICK stream : stream = FutharkStream("Futhark-double")
  OBVIOUS
<1>8. \A k \in ArrayKernels \ {"Nstream"} : stream.kernel[k] = FutharkKernel(k)
  BY <1>7 DEF FutharkStream, FutharkTriad
<1>9. /\ stream.construct = FutharkConstruct /\ stream.Dot = FutharkDot
      /\ stream.get_arrays = FutharkGetArrays /\ stream.list = <<>> /\ stream.destroy = FutharkDestroy
  BY <1>7 DEF FutharkStream
<1>10. Learns(stream, Device, Host, ArrayKernels \ {"Nstream"})
  BY <1>1, <1>2, <1>3, <1>4, <1>5, <1>6, <1>8, <1>9 DEF Learns
<1>11. QED
  BY <1>7, <1>10
----------------------------------------------------------------------------
(* What queues teach                                                       *)

\* The copies of the three arrays, one by one.
LEMMA CopiesThree ==
  ASSUME NEW x
  PROVE  /\ Turns(Move("d_a", "h_a"), Keep(Device, x), Keep(Device, x) \cup Keeping(Host, {"a"}, x))
         /\ Turns(Move("d_b", "h_b"), Keep(Device, x) \cup Keeping(Host, {"a"}, x),
                  Keep(Device, x) \cup Keeping(Host, {"a", "b"}, x))
         /\ Turns(Move("d_c", "h_c"), Keep(Device, x) \cup Keeping(Host, {"a", "b"}, x),
                  Keep(Device, x) \cup Keep(Host, x))
<1>1. /\ IsPlace(Device) /\ IsPlace(Host) /\ Objects(Device) \cap Objects(Host) = {}
      /\ Device["a"] = "d_a" /\ Device["b"] = "d_b" /\ Device["c"] = "d_c"
      /\ Host["a"] = "h_a" /\ Host["b"] = "h_b" /\ Host["c"] = "h_c"
  BY PlaceNames, Places3, Disjoint DEF Host, Arrays, Field
<1>2. PICK D : D = Keep(Device, x)
  OBVIOUS
<1>3. ASSUME NEW F \in SUBSET Field, NEW f \in Field \ F
      PROVE  Turns(Move(Device[f], Host[f]), D \cup Keeping(Host, F, x), D \cup Keeping(Host, F \cup {f}, x))
  BY <1>1, <1>2, TurnsCopy
<1>4. Turns(Move("d_a", "h_a"), D, D \cup Keeping(Host, {"a"}, x))
  <2>1. Turns(Move(Device["a"], Host["a"]), D \cup Keeping(Host, {}, x), D \cup Keeping(Host, {} \cup {"a"}, x))
    BY <1>3 DEF Field
  <2>2. D \cup Keeping(Host, {}, x) = D /\ {} \cup {"a"} = {"a"}
    BY DEF Keeping
  <2>3. QED
    BY <1>1, <2>1, <2>2
<1>5. Turns(Move("d_b", "h_b"), D \cup Keeping(Host, {"a"}, x), D \cup Keeping(Host, {"a", "b"}, x))
  <2>1. Turns(Move(Device["b"], Host["b"]), D \cup Keeping(Host, {"a"}, x),
              D \cup Keeping(Host, {"a"} \cup {"b"}, x))
    BY <1>3 DEF Field
  <2>2. {"a"} \cup {"b"} = {"a", "b"}
    OBVIOUS
  <2>3. QED
    BY <1>1, <2>1, <2>2
<1>6. Turns(Move("d_c", "h_c"), D \cup Keeping(Host, {"a", "b"}, x), D \cup Keep(Host, x))
  <2>1. Turns(Move(Device["c"], Host["c"]), D \cup Keeping(Host, {"a", "b"}, x),
              D \cup Keeping(Host, {"a", "b"} \cup {"c"}, x))
    BY <1>3 DEF Field
  <2>2. {"a", "b"} \cup {"c"} = Field
    BY DEF Field
  <2>3. QED
    BY <1>1, <2>1, <2>2 DEF Keep
<1>7. QED
  BY <1>2, <1>4, <1>5, <1>6

\* Three pieces of work that do not touch each other, before one wait.
LEMMA TellsTogether ==
  ASSUME NEW t, NEW K, NEW K1, NEW K2, NEW K3, NEW op1, NEW op2, NEW op3,
         Turns(op1, K, K1), Turns(op2, K1, K2), Turns(op3, K2, K3),
         Touches(op1) \cap Touches(op2) = {}, Touches(op1) \cap Touches(op3) = {},
         Touches(op2) \cap Touches(op3) = {}
  PROVE  \E p1, p2, p3 : /\ Tells(<<Submit(op1)>>, t, K, {}, K1, p1)
                         /\ Tells(<<Submit(op2)>>, t, K1, p1, K2, p2)
                         /\ Tells(<<Submit(op3)>>, t, K2, p2, K3, p3)
                         /\ Tells(<<Wait>>, t, K3, p3, K3, {})
<1>1. PICK p1, p2, p3 : p1 = {} \cup Touches(op1) /\ p2 = p1 \cup Touches(op2) /\ p3 = p2 \cup Touches(op3)
  OBVIOUS
<1>2. Touches(op1) \cap {} = {} /\ Touches(op2) \cap p1 = {} /\ Touches(op3) \cap p2 = {}
  BY <1>1
<1>3. /\ Tells(<<Submit(op1)>>, t, K, {}, K1, p1)
      /\ Tells(<<Submit(op2)>>, t, K1, p1, K2, p2)
      /\ Tells(<<Submit(op3)>>, t, K2, p2, K3, p3)
      /\ Tells(<<Wait>>, t, K3, p3, K3, {})
  BY <1>1, <1>2, TellsSteps
<1>4. QED
  BY <1>3

\* Work that runs at once.
LEMMA CudaLearns ==
  ASSUME NEW b
  PROVE  Learns(CudaStream(b), Device, IF Unified(b) THEN Device ELSE Host, ArrayKernels)
<1>1. PICK h : h = IF Unified(b) THEN Device ELSE Host
  OBVIOUS
<1>2. IsPlace(Device) /\ IsPlace(h) /\ "sums" \notin Objects(Device)
  BY <1>1, PlaceNames, Places3
<1>3. ASSUME NEW t PROVE Gains(CudaConstruct(b), t, {}, Keep(Device, StartCell))
  <2>1. /\ Tells(<<Check("count"), Select, AcquireOn({"stream"}, "stream")>>, t, {}, {}, {}, {})
        /\ Tells(CudaDeviceDriver, t, {}, {}, {}, {})
        /\ Tells(<<Check("memory")>>, t, {}, {}, {}, {})
        /\ Tells(alloc_device(b, Objects(Device)), t, {}, {}, {}, {})
        /\ Tells(alloc_host(b, {"sums"}), t, {}, {}, {}, {})
    BY IdleStep, TellsIdles DEF CudaDeviceDriver, alloc_device, alloc_host
  <2>2. Tells(CudaInit, t, {}, {}, Keep(Device, StartCell), {})
    BY <1>2, TurnsStart, TellsWork DEF CudaInit, for_each
  <2>3. QED
    BY <2>1, <2>2, TellsJoined, TellsGains DEF CudaConstruct
<1>4. ASSUME NEW x \in [Field -> Val], NEW t
      PROVE  Gains(CudaGetArrays(b), t, Keep(Device, x), Keep(h, x))
  <2>1. Tells(<<Wait>>, t, Keep(Device, x), {}, Keep(Device, x), {})
    BY TellsSteps
  <2>2. CASE Unified(b)
    <3>1. Tells(<<HandOut(Device)>>, t, Keep(Device, x), {}, Keep(Device, x), {})
      BY TellsIdle, IdleStep
    <3>2. QED
      BY <1>1, <2>1, <2>2, <3>1, TellsJoined, TellsGains DEF CudaGetArrays
  <2>3. CASE ~Unified(b)
    <3>1. PICK K, K1, K2, K3 : /\ K = Keep(Device, x) /\ K1 = K \cup Keeping(Host, {"a"}, x)
                               /\ K2 = K \cup Keeping(Host, {"a", "b"}, x) /\ K3 = K \cup Keep(Host, x)
      OBVIOUS
    <3>2. /\ Tells(<<Acquire(Objects(Host), "vector")>>, t, K, {}, K, {})
          /\ Tells(<<HandOut(Host)>>, t, K, {}, K, {})
      BY TellsIdle, IdleStep
    <3>3. /\ Tells(<<Run(Move("d_a", "h_a"))>>, t, K, {}, K1, {})
          /\ Tells(<<Run(Move("d_b", "h_b"))>>, t, K1, {}, K2, {})
          /\ Tells(<<Run(Move("d_c", "h_c"))>>, t, K2, {}, K3, {})
      BY <3>1, CopiesThree, TellsSteps
    <3>4. Tells(<<Run(Move("d_b", "h_b")), Run(Move("d_c", "h_c"))>>, t, K1, {}, K3, {})
      BY <3>3, TellsFirst
    <3>5. Tells(<<Run(Move("d_a", "h_a")), Run(Move("d_b", "h_b")), Run(Move("d_c", "h_c"))>>, t, K, {}, K3, {})
      BY <3>3, <3>4, TellsFirst
    <3>6. Tells(<<HandOut(Host), Run(Move("d_a", "h_a")), Run(Move("d_b", "h_b")), Run(Move("d_c", "h_c"))>>,
                t, K, {}, K3, {})
      BY <3>2, <3>5, TellsFirst
    <3>7. Tells(<<Acquire(Objects(Host), "vector"), HandOut(Host), Run(Move("d_a", "h_a")),
                  Run(Move("d_b", "h_b")), Run(Move("d_c", "h_c"))>>, t, K, {}, K3, {})
      BY <3>2, <3>6, TellsFirst
    <3>8. Tells(CudaGetArrays(b), t, K, {}, K3, {})
      BY <2>1, <2>3, <3>1, <3>7, TellsJoined DEF CudaGetArrays
    <3>9. Tells(CudaGetArrays(b), t, K, {}, Keep(Host, x), {})
      BY <3>1, <3>8, TellsWithin
    <3>10. QED
      BY <1>1, <2>3, <3>1, <3>9, TellsGains
  <2>4. QED
    BY <2>2, <2>3
<1>5. Shows(CudaGetArrays(b), h) /\ Shows(CudaListDevices, h) /\ Shows(CudaDestroy(b), h)
  <2>1. /\ Shows(<<Wait>>, h) /\ (Unified(b) => Shows(<<HandOut(Device)>>, h))
        /\ ~Unified(b) => Shows(<<Acquire(Objects(Host), "vector"), HandOut(Host), Run(Move("d_a", "h_a")),
                                  Run(Move("d_b", "h_b")), Run(Move("d_c", "h_c"))>>, h)
    BY <1>1, ShowsTuples, PointsSteps
  <2>2. Shows(CudaGetArrays(b), h)
    BY <2>1, ShowsJoined DEF CudaGetArrays
  <2>3. /\ Shows(<<Release({"stream"}, "stream")>>, h) /\ Shows(free_device(b, Objects(Device)), h)
        /\ Shows(free_host(b, {"sums"}), h) /\ Shows(OwnVectors(b), h) /\ Shows(CudaListDevices, h)
    BY ShowsUsual DEF free_device, free_host, OwnVectors, CudaListDevices
  <2>4. Shows(CudaListDevices, h) /\ Shows(CudaDestroy(b), h)
    BY <2>3, ShowsJoined DEF CudaDestroy
  <2>5. QED
    BY <2>2, <2>4
<1>6. \A x \in [Field -> Val] : Gains(CudaDot, ProductOf(x), Keep(Device, x), Keep(Device, x))
  BY <1>2, UsualTells DEF CudaDot
<1>7. \A k \in ArrayKernels : CudaKernel(k) = Blockingly(Loop(k, Device))
  BY DEF CudaKernel, for_each, Blockingly
<1>8. QED
  BY <1>1, <1>2, <1>3, <1>4, <1>5, <1>6, <1>7, UsualTells DEF Learns, CudaStream

\* HIP copies the arrays one by one, each when the copy before is done.
LEMMA HipLearns ==
  ASSUME NEW b
  PROVE  Learns(HipStream(b), Device, IF Unified(b) THEN Device ELSE Host, ArrayKernels)
<1>1. PICK h : h = IF Unified(b) THEN Device ELSE Host
  OBVIOUS
<1>2. IsPlace(Device) /\ IsPlace(h) /\ "sums" \notin Objects(Device)
  BY <1>1, PlaceNames, Places3
<1>3. ASSUME NEW t PROVE Gains(HipConstruct(b), t, {}, Keep(Device, StartCell))
  <2>1. PICK get : get = IF b = "HIP-pagefault" THEN Acquire(Objects(Device), "malloc")
                         ELSE AcquireOn(Objects(Device), "hip")
    OBVIOUS
  <2>2. Idle(get)
    BY <2>1, IdleStep
  <2>3. /\ Tells(<<Check("count"), Select>>, t, {}, {}, {}, {})
        /\ Tells(HipDeviceDriver, t, {}, {}, {}, {})
        /\ Tells(<<Acquire({"sums"}, "hipHost"), Check("memory0"), get>>, t, {}, {}, {}, {})
    BY <2>2, IdleStep, TellsIdles DEF HipDeviceDriver
  <2>4. Tells(HipInit, t, {}, {}, Keep(Device, StartCell), {})
    BY <1>2, TurnsStart, TellsWork DEF HipInit, HipLaunch
  <2>5. QED
    BY <2>1, <2>3, <2>4, TellsJoined, TellsGains DEF HipConstruct
<1>4. ASSUME NEW x \in [Field -> Val], NEW t
      PROVE  Gains(HipGetArrays(b), t, Keep(Device, x), Keep(h, x))
  <2>1. Tells(<<Wait>>, t, Keep(Device, x), {}, Keep(Device, x), {})
    BY TellsSteps
  <2>2. CASE Unified(b)
    <3>1. Tells(<<HandOut(Device)>>, t, Keep(Device, x), {}, Keep(Device, x), {})
      BY TellsIdle, IdleStep
    <3>2. QED
      BY <1>1, <2>1, <2>2, <3>1, TellsJoined, TellsGains DEF HipGetArrays
  <2>3. CASE ~Unified(b)
    <3>1. PICK ra, rb, rc : /\ ra = Blockingly(Move("d_a", "h_a")) /\ rb = Blockingly(Move("d_b", "h_b"))
                            /\ rc = Blockingly(Move("d_c", "h_c"))
      OBVIOUS
    <3>2. PICK K, K1, K2, K3 : /\ K = Keep(Device, x) /\ K1 = K \cup Keeping(Host, {"a"}, x)
                               /\ K2 = K \cup Keeping(Host, {"a", "b"}, x) /\ K3 = K \cup Keep(Host, x)
      OBVIOUS
    <3>3. /\ Tells(ra, t, K, {}, K1, {}) /\ Tells(rb, t, K1, {}, K2, {}) /\ Tells(rc, t, K2, {}, K3, {})
      BY <3>1, <3>2, CopiesThree, TellsWork
    <3>4. Tells(<<Acquire(Objects(Host), "vector"), HandOut(Host)>>, t, K, {}, K, {})
      BY TellsIdles, IdleStep
    <3>5. Tells(<<Wait>> \o (<<Acquire(Objects(Host), "vector"), HandOut(Host)>> \o ra \o rb \o rc),
                t, K, {}, K3, {})
      BY <2>1, <3>2, <3>3, <3>4, TellsJoined
    <3>6. Tells(HipGetArrays(b), t, K, {}, K3, {})
      BY <2>3, <3>1, <3>5 DEF HipGetArrays
    <3>7. Tells(HipGetArrays(b), t, K, {}, Keep(Host, x), {})
      BY <3>2, <3>6, TellsWithin
    <3>8. QED
      BY <1>1, <2>3, <3>2, <3>7, TellsGains
  <2>4. QED
    BY <2>2, <2>3
<1>5. Shows(HipGetArrays(b), h) /\ Shows(HipListDevices, h) /\ Shows(HipDestroy(b), h)
  <2>1. /\ Shows(<<Wait>>, h) /\ (Unified(b) => Shows(<<HandOut(Device)>>, h))
        /\ \A op : Shows(Blockingly(op), h)
        /\ ~Unified(b) => Shows(<<Acquire(Objects(Host), "vector"), HandOut(Host)>>, h)
    BY <1>1, ShowsTuples, PointsSteps, ShowsUsual
  <2>2. Shows(HipGetArrays(b), h)
    BY <2>1, ShowsJoined DEF HipGetArrays
  <2>3. /\ Shows(<<Release({"sums"}, "hipHost"), Release(Objects(Device), "hip")>>, h)
        /\ Shows(OwnVectors(b), h) /\ Shows(HipListDevices, h)
    BY ShowsTuples, PointsSteps, ShowsUsual DEF OwnVectors, HipListDevices
  <2>4. Shows(HipListDevices, h) /\ Shows(HipDestroy(b), h)
    BY <2>3, ShowsJoined DEF HipDestroy
  <2>5. QED
    BY <2>2, <2>4
<1>6. \A x \in [Field -> Val] : Gains(HipDot, ProductOf(x), Keep(Device, x), Keep(Device, x))
  BY <1>2, UsualTells DEF HipDot
<1>7. \A k \in ArrayKernels : HipKernel(k) = Blockingly(Loop(k, Device))
  BY DEF HipKernel, HipLaunch, Blockingly
<1>8. QED
  BY <1>1, <1>2, <1>3, <1>4, <1>5, <1>6, <1>7, UsualTells DEF Learns, HipStream

\* Work on one array touches that.
LEMMA StartTouches ==
  ASSUME NEW m, IsPlace(m)
  PROVE  /\ Touches(StartArray("a", m)) \cap Touches(StartArray("b", m)) = {}
         /\ Touches(StartArray("a", m)) \cap Touches(StartArray("c", m)) = {}
         /\ Touches(StartArray("b", m)) \cap Touches(StartArray("c", m)) = {}
<1>1. \A f \in Field : Touches(StartArray(f, m)) = {m[f]}
  BY DEF Touches, Writes, Reads, StartArray, Value, Operands, Field
<1>2. QED
  BY <1>1 DEF IsPlace, Field

\* rocThrust's algorithms only submit their work.
LEMMA ThrustLearns ==
  ASSUME NEW b
  PROVE  Learns(ThrustStream(b), Device, IF Unified(b) THEN Device ELSE Host, ArrayKernels)
<1>1. PICK h : h = IF Unified(b) THEN Device ELSE Host
  OBVIOUS
<1>2. IsPlace(Device) /\ IsPlace(Host) /\ IsPlace(h) /\ "sum" \notin Objects(Device)
  BY <1>1, PlaceNames, Places3
<1>3. ASSUME NEW t PROVE Gains(ThrustConstruct(b), t, {}, Keep(Device, StartCell))
  <2>1. PICK sa, sb, sc : /\ sa = StartArray("a", Device) /\ sb = StartArray("b", Device)
                          /\ sc = StartArray("c", Device)
    OBVIOUS
  <2>2. PICK K1, K2, K3 : /\ K1 = Keeping(Device, {"a"}, StartCell)
                          /\ K2 = Keeping(Device, {"a", "b"}, StartCell) /\ K3 = Keep(Device, StartCell)
    OBVIOUS
  <2>3. Turns(sa, {}, K1) /\ Turns(sb, K1, K2) /\ Turns(sc, K2, K3)
    BY <1>2, <2>1, <2>2, StartsThree
  <2>4. Tells(ThrustInit(b), t, {}, {}, K3, {})
    <3>1. CASE b = "Thrust-HIP"
      <4>1. /\ Touches(sa) \cap Touches(sb) = {} /\ Touches(sa) \cap Touches(sc) = {}
            /\ Touches(sb) \cap Touches(sc) = {}
        BY <1>2, <2>1, StartTouches
      <4>2. \E p1, p2, p3 : /\ Tells(<<Submit(sa)>>, t, {}, {}, K1, p1)
                            /\ Tells(<<Submit(sb)>>, t, K1, p1, K2, p2)
                            /\ Tells(<<Submit(sc)>>, t, K2, p2, K3, p3)
                            /\ Tells(<<Wait>>, t, K3, p3, K3, {})
        BY <2>3, <4>1, TellsTogether
      <4>3. Tells(<<Submit(sa)>> \o <<Submit(sb)>> \o <<Submit(sc)>> \o <<Wait>>, t, {}, {}, K3, {})
        BY <4>2, TellsJoined
      <4>4. QED
        BY <2>1, <3>1, <4>3 DEF ThrustInit, Algorithm, synchronise
    <3>2. CASE b # "Thrust-HIP"
      <4>1. /\ Tells(Blockingly(sa), t, {}, {}, K1, {}) /\ Tells(Blockingly(sb), t, K1, {}, K2, {})
            /\ Tells(Blockingly(sc), t, K2, {}, K3, {}) /\ Tells(<<>>, t, K3, {}, K3, {})
        BY <2>3, TellsWork, TellsNothing
      <4>2. Tells(Blockingly(sa) \o Blockingly(sb) \o Blockingly(sc) \o <<>>, t, {}, {}, K3, {})
        BY <4>1, TellsJoined
      <4>3. QED
        BY <2>1, <3>2, <4>2 DEF ThrustInit, Algorithm, synchronise
    <3>3. QED
      BY <3>1, <3>2
  <2>5. /\ Tells(<<AcquireOn(Objects(Device), "vector")>>, t, {}, {}, {}, {})
        /\ Tells(ThrustDeviceDriver, t, {}, {}, {}, {})
    BY IdleStep, TellsIdles DEF ThrustDeviceDriver
  <2>6. QED
    BY <2>2, <2>4, <2>5, TellsJoined, TellsGains DEF ThrustConstruct
<1>4. ASSUME NEW k \in ArrayKernels, NEW x \in [Field -> Val], NEW t
      PROVE  Gains(ThrustKernel(b, k), t, Keep(Device, x), Keep(Device, Apply(k, x)))
  <2>1. PICK op, K, L : op = Loop(k, Device) /\ K = Keep(Device, x) /\ L = Keep(Device, Apply(k, x))
    OBVIOUS
  <2>2. Turns(op, K, L)
    BY <1>2, <2>1, TurnsLoop, PlaceNames
  <2>3. Tells(<<Submit(op)>>, t, K, {}, L, {} \cup Touches(op))
        /\ Tells(<<Wait>>, t, L, {} \cup Touches(op), L, {})
    BY <2>2, TellsSteps
  <2>4. Tells(<<Submit(op)>> \o <<Wait>>, t, K, {}, L, {})
    BY <2>3, TellsJoined
  <2>5. Tells(Blockingly(op) \o <<>>, t, K, {}, L, {})
    BY <2>2, TellsWork, TellsNothing, TellsJoined
  <2>6. Tells(ThrustKernel(b, k), t, K, {}, L, {})
    BY <2>1, <2>4, <2>5 DEF ThrustKernel, Algorithm, synchronise
  <2>7. QED
    BY <2>1, <2>6, TellsGains
<1>5. ASSUME NEW x \in [Field -> Val], NEW t
      PROVE  Gains(ThrustGetArrays(b), t, Keep(Device, x), Keep(h, x))
  <2>1. CASE Unified(b)
    BY <1>1, <1>2, <2>1, UsualTells DEF ThrustGetArrays
  <2>2. CASE ~Unified(b)
    <3>1. Tells(<<Acquire(Objects(Host), "vector")>>, t, Keep(Device, x), {}, Keep(Device, x), {})
      BY TellsIdle, IdleStep
    <3>2. Tells(Blockingly(MoveArrays(Device, Host)), t, Keep(Device, x), {}, Keep(Host, x), {})
      BY <1>2, UsualTells
    <3>3. Tells(<<Acquire(Objects(Host), "vector")>> \o Blockingly(MoveArrays(Device, Host)), t,
                Keep(Device, x), {}, Keep(Host, x), {})
      BY <3>1, <3>2, TellsJoined
    <3>4. QED
      BY <1>1, <2>2, <3>3, HandsLater DEF ThrustGetArrays
  <2>3. QED
    BY <2>1, <2>2
<1>6. Shows(ThrustGetArrays(b), h) /\ Shows(ThrustListDevices, h) /\ Shows(ThrustDestroy(b), h)
  <2>1. Shows(ThrustGetArrays(b), h)
    <3>1. /\ Unified(b) => Shows(<<HandOut(Device)>>, h)
          /\ Shows(<<HandOut(h)>>, h) /\ Shows(<<Acquire(Objects(Host), "vector")>>, h)
          /\ Shows(Blockingly(MoveArrays(Device, Host)), h)
      BY <1>1, ShowsUsual
    <3>2. QED
      BY <1>1, <3>1, ShowsJoined DEF ThrustGetArrays
  <2>2. /\ Shows(OwnVectors(b), h) /\ Shows(<<Release(Objects(Device), "vector")>>, h)
        /\ Shows(ThrustListDevices, h)
    BY ShowsUsual DEF OwnVectors, ThrustListDevices
  <2>3. Shows(ThrustListDevices, h) /\ Shows(ThrustDestroy(b), h)
    BY <2>2, ShowsJoined DEF ThrustDestroy
  <2>4. QED
    BY <2>1, <2>3
<1>7. \A x \in [Field -> Val] : Gains(ThrustDot, ProductOf(x), Keep(Device, x), Keep(Device, x))
  BY <1>2, UsualTells DEF ThrustDot
<1>8. QED
  BY <1>1, <1>2, <1>3, <1>4, <1>5, <1>6, <1>7 DEF Learns, ThrustStream

\* A device list and what is checked of it.
LEMMA TellsDevices ==
  ASSUME NEW t, NEW K
  PROVE  /\ \A how : Tells(getDeviceList(how), t, K, {}, K, {})
         /\ Tells(getDeviceName, t, K, {}, K, {}) /\ Tells(getDeviceDriver, t, K, {}, K, {})
<1>1. \A how : Tells(getDeviceList(how), t, K, {}, K, {})
  BY IdleStep, TellsIdle DEF getDeviceList
<1>2. Tells(<<Check("listed")>>, t, K, {}, K, {})
  BY IdleStep, TellsIdle
<1>3. QED
  BY <1>1, <1>2, TellsJoined DEF getDeviceName, getDeviceDriver

\* Listing devices hands out nothing.
LEMMA ShowsDevices == ASSUME NEW h PROVE Shows(getDeviceList("always") \o getDeviceList("once"), h)
<1>1. \A how : Shows(getDeviceList(how), h)
  BY ShowsTuples, PointsSteps DEF getDeviceList
<1>2. QED
  BY <1>1, ShowsJoined

\* The accessor of dot waits for the reduction, and for nothing else.
LEMMA SyclLearns == Learns(SyclStream, Device, Device, ArrayKernels)
<1>1. IsPlace(Device) /\ "d_sum" \notin Objects(Device)
  BY PlaceNames, Places3
<1>2. ASSUME NEW t PROVE Gains(SyclConstruct, t, {}, Keep(Device, StartCell))
  <2>1. /\ Tells(<<Check("listed"), Check("fp64"), Select>>, t, {}, {}, {}, {})
        /\ Tells(<<Acquire({"queue"}, "new"), Acquire(SyclBuffers, "new")>>, t, {}, {}, {}, {})
    BY IdleStep, TellsIdles
  <2>2. Tells(SyclInit, t, {}, {}, Keep(Device, StartCell), {})
    BY <1>1, TurnsStart, TellsWork DEF SyclInit
  <2>3. QED
    BY <2>1, <2>2, TellsDevices, TellsJoined, TellsGains DEF SyclConstruct
<1>3. ASSUME NEW x \in [Field -> Val]
      PROVE  Gains(SyclDot, ProductOf(x), Keep(Device, x), Keep(Device, x))
  <2>1. PICK t, K, op : t = ProductOf(x) /\ K = Keep(Device, x) /\ op = Products(Device, "d_sum")
    OBVIOUS
  <2>2. Turns(op, K, K \cup {<<"d_sum", t>>})
    BY <1>1, <2>1, TurnsProducts, PlaceNames
  <2>3. ASSUME NEW d, Facts(d, K) PROVE \E d2 : Facts(d2, K) /\ Teaches(SyclDot, Entering(d), t, d2)
    <3>1. PICK e : e = Learned(d, op)
      OBVIOUS
    <3>2. Reads(op) \subseteq DOMAIN d /\ Facts(e, K) /\ "d_sum" \in DOMAIN e /\ e["d_sum"] = t
      <4>1. Reads(op) \subseteq DOMAIN d /\ Facts(e, K \cup {<<"d_sum", t>>})
        BY <2>2, <2>3, <3>1 DEF Turns
      <4>2. PICK q : q = <<"d_sum", t>>
        OBVIOUS
      <4>3. q \in K \cup {<<"d_sum", t>>} /\ q[1] = "d_sum" /\ q[2] = t
        BY <4>2
      <4>4. Facts(e, K) /\ q[1] \in DOMAIN e /\ e[q[1]] = q[2]
        BY <4>1, <4>3 DEF Facts
      <4>5. QED
        BY <4>1, <4>3, <4>4
    <3>3. Writes(op) = {"d_sum"}
      BY <2>1 DEF Writes, Products
    <3>4. PICK v1, v2, v3 : /\ v1 = View({}, d, {}) /\ v2 = View({} \cup Touches(op), e, {} \cup {"d_sum"})
                            /\ v3 = View({} \cup Touches(op), e, ({} \cup {"d_sum"}) \ {"d_sum"})
      OBVIOUS
    <3>5. PICK s1, s2, s3, s4 : /\ s1 = Submit(op) /\ s2 = Access({"d_sum"}) /\ s3 = ReturnSum("d_sum")
                                /\ s4 = Leave({"d_sum"})
      OBVIOUS
    <3>6. Sure(s1, v1, t) /\ Viewed(v1, s1) = v2
      BY <3>1, <3>2, <3>3, <3>4, <3>5 DEF Sure, Viewed, View, Busy, Known, Due, Submit
    <3>7. Sure(s2, v2, t) /\ Viewed(v2, s2) = v3
      BY <3>4, <3>5 DEF Sure, Viewed, View, Busy, Known, Due, Access
    <3>8. Sure(s3, v3, t) /\ Viewed(v3, s3) = v3
      BY <3>2, <3>4, <3>5 DEF Sure, Viewed, View, Busy, Known, Due, ReturnSum
    <3>9. Sure(s4, v3, t) /\ Viewed(v3, s4) = v3
      BY <3>4, <3>5 DEF Sure, Viewed, View, Busy, Known, Due, Leave
    <3>10. PICK views : views = <<v1, v2, v3, v3, v3>>
      OBVIOUS
    <3>11. PICK s : s = <<s1, s2, s3, s4>>
      OBVIOUS
    <3>12. Len(s) = 4 /\ DOMAIN s = 1 .. 4 /\ s[1] = s1 /\ s[2] = s2 /\ s[3] = s3 /\ s[4] = s4
      BY <3>11
    <3>13. views[1] = v1 /\ views[2] = v2 /\ views[3] = v3 /\ views[4] = v3 /\ views[5] = v3
      BY <3>10
    <3>14. \A i \in DOMAIN s : Sure(s[i], views[i], t) /\ views[i + 1] = Viewed(views[i], s[i])
      <4>1. SUFFICES ASSUME NEW i \in 1 .. 4
                     PROVE  Sure(s[i], views[i], t) /\ views[i + 1] = Viewed(views[i], s[i])
        BY <3>12
      <4>2. i = 1 \/ i = 2 \/ i = 3 \/ i = 4
        OBVIOUS
      <4>3. QED
        BY <3>6, <3>7, <3>8, <3>9, <3>12, <3>13, <4>2
    <3>15. v3.known = e
      BY <3>4 DEF View
    <3>16. Teaches(s, v1, t, e)
      BY <3>12, <3>13, <3>14, <3>15 DEF Teaches
    <3>17. s = SyclDot
      BY <2>1, <3>5, <3>11 DEF SyclDot, SyclReduce
    <3>18. QED
      BY <3>2, <3>4, <3>16, <3>17 DEF Entering
  <2>4. QED
    BY <2>1, <2>3 DEF Gains
<1>4. ASSUME NEW x \in [Field -> Val], NEW t
      PROVE  Gains(SyclGetArrays, t, Keep(Device, x), Keep(Device, x))
  BY TellsIdles, IdleStep, TellsGains DEF SyclGetArrays
<1>5. Shows(SyclGetArrays, Device) /\ Shows(SyclListDevices, Device) /\ Shows(SyclDestroy, Device)
  BY ShowsTuples, PointsSteps, ShowsDevices DEF SyclGetArrays, SyclListDevices, SyclDestroy
<1>6. \A k \in ArrayKernels : SyclKernel(k) = Blockingly(Loop(k, Device))
  BY DEF SyclKernel, Blockingly
<1>7. QED
  BY <1>1, <1>2, <1>3, <1>4, <1>5, <1>6, UsualTells DEF Learns, SyclStream

\* With initialize_to_identity, dot starts from nothing.
LEMMA UsmLearns ==
  ASSUME NEW b, b # "SYCL2020-AdaptiveCpp"
  PROVE  Learns(UsmStream(b), Device, Device, ArrayKernels)
<1>1. IsPlace(Device) /\ "sum" \notin Objects(Device)
  BY PlaceNames, Places3
<1>2. ASSUME NEW t PROVE Gains(UsmConstruct(b), t, {}, Keep(Device, StartCell))
  <2>1. /\ Tells(<<Check("listed")>>, t, {}, {}, {}, {})
        /\ Tells(<<Check("fp64"), Select, Acquire({"queue"}, "new")>>, t, {}, {}, {}, {})
        /\ Tells(UsmAllocate(b), t, {}, {}, {}, {})
        /\ Tells(<<List("clear")>>, t, {}, {}, {}, {})
    BY IdleStep, TellsIdles DEF UsmAllocate
  <2>2. Tells(UsmInit(b), t, {}, {}, Keep(Device, StartCell), {})
    <3>1. Turns(StartLoop(Device), {}, Keep(Device, StartCell))
      BY <1>1, TurnsStart
    <3>2. Tells(<<Run(StartLoop(Device))>>, t, {}, {}, Keep(Device, StartCell), {})
      BY <3>1, TellsSteps
    <3>3. Tells(<<Submit(StartLoop(Device)), Wait>>, t, {}, {}, Keep(Device, StartCell), {})
      BY <3>1, TellsWork
    <3>4. QED
      BY <3>2, <3>3 DEF UsmInit
  <2>3. QED
    BY <2>1, <2>2, TellsDevices, TellsJoined, TellsGains DEF UsmConstruct
<1>3. \A x \in [Field -> Val] : Gains(UsmDot(b), ProductOf(x), Keep(Device, x), Keep(Device, x))
  BY <1>1, UsualTells DEF UsmDot, UsmReduction
<1>4. Shows(UsmGetArrays, Device) /\ Shows(UsmListDevices, Device) /\ Shows(UsmDestroy(b), Device)
  <2>1. Shows(UsmGetArrays, Device) /\ Shows(UsmListDevices, Device)
    BY ShowsTuples, PointsSteps, ShowsDevices DEF UsmGetArrays, UsmListDevices
  <2>2. /\ Shows(IF b = "SYCL2020-pagefault" THEN <<Release(Usm, "malloc")>> ELSE <<>>, Device)
        /\ Shows(<<Release(Usm, "usm"), Release({"queue"}, "new")>>, Device)
    BY ShowsTuples, PointsSteps
  <2>3. QED
    BY <2>1, <2>2, ShowsJoined DEF UsmDestroy
<1>5. \A k \in ArrayKernels : UsmKernel(k) = Blockingly(Loop(k, Device))
  BY DEF UsmKernel, Blockingly
<1>6. QED
  BY <1>1, <1>2, <1>3, <1>4, <1>5, UsualTells DEF Learns, UsmStream, UsmGetArrays

\* Through d_sum and h_sum, or through d_dot into a variable of the method; the
\* three copies of get_arrays are submitted together.
LEMMA AiLearns ==
  ASSUME NEW b
  PROVE  Learns(AiStream(b), Device, Host, ArrayKernels)
<1>1. /\ IsPlace(Device) /\ IsPlace(Host) /\ "d_sum" \notin Objects(Device)
      /\ "d_dot" \notin Objects(Device) /\ "h_sum" \notin Objects(Device) /\ "sum" \notin Objects(Device)
  BY PlaceNames, Places3
<1>2. ASSUME NEW t PROVE Gains(AiConstruct, t, {}, Keep(Device, StartCell))
  <2>1. PICK K : K = Keep(Device, StartCell)
    OBVIOUS
  <2>2. Tells(<<Check("listed"), Check("fp64"), Select, Acquire({"queue"}, "new"),
                AcquireOn(AiMemory, "usm"), Acquire({"h_sum"}, "new")>>, t, {}, {}, {}, {})
    BY IdleStep, TellsIdles
  <2>3. Tells(AiInit, t, {}, {}, K, {}) /\ Tells(AiInit, t, K, {}, K, {})
    BY <1>1, <2>1, TurnsStart, TellsWork DEF AiInit
  <2>4. /\ Tells(getDeviceList("once"), t, {}, {}, {}, {})
        /\ Tells(getDeviceName, t, K, {}, K, {}) /\ Tells(getDeviceDriver, t, K, {}, K, {})
    BY TellsDevices
  <2>5. Tells(AiConstruct, t, {}, {}, K, {})
    BY <2>2, <2>3, <2>4, TellsJoined DEF AiConstruct
  <2>6. QED
    BY <2>1, <2>5, TellsGains
<1>3. ASSUME NEW x \in [Field -> Val]
      PROVE  Gains(AiDot(b), ProductOf(x), Keep(Device, x), Keep(Device, x))
  <2>1. PICK t, K : t = ProductOf(x) /\ K = Keep(Device, x)
    OBVIOUS
  <2>2. \A q \in K : q[1] \in Objects(Device)
    BY <1>1, <2>1 DEF Keep, Keeping, Objects, IsPlace
  <2>3. CASE b = "sycl-ai-manual"
    <3>1. PICK L, M : L = K \cup {<<"d_sum", t>>} /\ M = L \cup {<<"h_sum", t>>}
      OBVIOUS
    <3>2. Turns(Products(Device, "d_sum"), K, L)
      BY <1>1, <2>1, <3>1, TurnsProducts, PlaceNames
    <3>3. Turns(Move("d_sum", "h_sum"), L, M)
      <4>1. <<"d_sum", t>> \in L /\ \A q \in L : q[1] # "h_sum"
        BY <1>1, <2>2, <3>1
      <4>2. QED
        BY <3>1, <4>1, TurnsMove
    <3>4. Tells(<<Submit(Products(Device, "d_sum")), Wait>>, t, K, {}, L, {})
      BY <3>2, TellsWork
    <3>5. Tells(<<Submit(Move("d_sum", "h_sum")), Wait, ReturnSum("h_sum")>>, t, L, {}, M, {})
      <4>1. Tells(<<Submit(Move("d_sum", "h_sum")), Wait>>, t, L, {}, M, {})
        BY <3>3, TellsWork
      <4>2. Tells(<<ReturnSum("h_sum")>>, t, M, {}, M, {})
        BY <3>1, TellsSteps
      <4>3. Tells(<<Submit(Move("d_sum", "h_sum")), Wait>> \o <<ReturnSum("h_sum")>>, t, L, {}, M, {})
        BY <4>1, <4>2, TellsJoined
      <4>4. <<Submit(Move("d_sum", "h_sum")), Wait, ReturnSum("h_sum")>>
            = <<Submit(Move("d_sum", "h_sum")), Wait>> \o <<ReturnSum("h_sum")>>
        OBVIOUS
      <4>5. QED
        BY <4>3, <4>4
    <3>6. AiDot(b) = <<Submit(Products(Device, "d_sum")), Wait>>
                     \o <<Submit(Move("d_sum", "h_sum")), Wait, ReturnSum("h_sum")>>
      BY <2>3, Fives DEF AiDot
    <3>7. Tells(AiDot(b), t, K, {}, M, {})
      BY <3>4, <3>5, <3>6, TellsJoined
    <3>8. K \subseteq M
      BY <3>1
    <3>9. Tells(AiDot(b), t, K, {}, K, {})
      BY <3>7, <3>8, TellsWithin
    <3>10. QED
      BY <2>1, <3>9, TellsGains
  <2>4. CASE b # "sycl-ai-manual"
    <3>1. PICK L, M : L = K \cup {<<"d_dot", t>>} /\ M = L \cup {<<"sum", t>>}
      OBVIOUS
    <3>2. PICK s, r, u : /\ s = <<Submit(Zero("d_dot")), Wait>>
                         /\ r = <<Submit(Products(Device, "d_dot")), Wait>>
                         /\ u = <<Submit(Move("d_dot", "sum")), Wait, ReturnSum("sum")>>
      OBVIOUS
    <3>3. Tells(s, t, K, {}, K, {})
      <4>1. \A q \in K : q[1] # "d_dot"
        BY <1>1, <2>2
      <4>2. Turns(Zero("d_dot"), K, K)
        BY <4>1, TurnsNothing
      <4>3. QED
        BY <3>2, <4>2, TellsWork
    <3>4. Tells(r, t, K, {}, L, {})
      <4>1. Turns(Products(Device, "d_dot"), K, L)
        BY <1>1, <2>1, <3>1, TurnsProducts, PlaceNames
      <4>2. QED
        BY <3>2, <4>1, TellsWork
    <3>5. Tells(u, t, L, {}, M, {})
      <4>1. <<"d_dot", t>> \in L /\ \A q \in L : q[1] # "sum"
        BY <1>1, <2>2, <3>1
      <4>2. Turns(Move("d_dot", "sum"), L, M)
        BY <3>1, <4>1, TurnsMove
      <4>3. Tells(<<Submit(Move("d_dot", "sum")), Wait>>, t, L, {}, M, {})
        BY <4>2, TellsWork
      <4>4. Tells(<<ReturnSum("sum")>>, t, M, {}, M, {})
        BY <3>1, TellsSteps
      <4>5. Tells(<<Submit(Move("d_dot", "sum")), Wait>> \o <<ReturnSum("sum")>>, t, L, {}, M, {})
        BY <4>3, <4>4, TellsJoined
      <4>6. u = <<Submit(Move("d_dot", "sum")), Wait>> \o <<ReturnSum("sum")>>
        BY <3>2
      <4>7. QED
        BY <4>5, <4>6
    <3>6. Tells(WithLocal("sum", u), t, L, {}, K, {})
      <4>1. K \subseteq M /\ \A q \in K : q[1] # "sum"
        BY <1>1, <2>2, <3>1
      <4>2. QED
        BY <3>5, <4>1, TellsLocal
    <3>7. AiDot(b) = (s \o r) \o WithLocal("sum", u)
      <4>1. PICK z, v, w : z = Submit(Zero("d_dot")) /\ v = Submit(Products(Device, "d_dot")) /\ w = Wait
        OBVIOUS
      <4>2. <<z, w, v, w>> = <<z, w>> \o <<v, w>>
        BY Fours
      <4>3. <<Submit(Zero("d_dot")), Wait, Submit(Products(Device, "d_dot")), Wait>> = s \o r
        BY <3>2, <4>1, <4>2
      <4>4. QED
        BY <2>4, <3>2, <4>3 DEF AiDot
    <3>8. Tells(AiDot(b), t, K, {}, K, {})
      BY <3>3, <3>4, <3>6, <3>7, TellsJoined
    <3>9. QED
      BY <2>1, <3>8, TellsGains
  <2>5. QED
    BY <2>3, <2>4
<1>4. ASSUME NEW x \in [Field -> Val], NEW t
      PROVE  Gains(AiGetArrays, t, Keep(Device, x), Keep(Host, x))
  <2>1. PICK ma, mb, mc : ma = Move("d_a", "h_a") /\ mb = Move("d_b", "h_b") /\ mc = Move("d_c", "h_c")
    OBVIOUS
  <2>2. PICK K, K1, K2, K3 : /\ K = Keep(Device, x) /\ K1 = K \cup Keeping(Host, {"a"}, x)
                             /\ K2 = K \cup Keeping(Host, {"a", "b"}, x) /\ K3 = K \cup Keep(Host, x)
    OBVIOUS
  <2>3. Turns(ma, K, K1) /\ Turns(mb, K1, K2) /\ Turns(mc, K2, K3)
    BY <2>1, <2>2, CopiesThree
  <2>4. Touches(ma) \subseteq {"d_a", "h_a"} /\ Touches(mb) \subseteq {"d_b", "h_b"}
        /\ Touches(mc) \subseteq {"d_c", "h_c"}
    BY <2>1, MoveTouches
  <2>5. /\ Touches(ma) \cap Touches(mb) = {} /\ Touches(ma) \cap Touches(mc) = {}
        /\ Touches(mb) \cap Touches(mc) = {}
    BY <2>4
  <2>6. PICK p1, p2, p3 : /\ Tells(<<Submit(ma)>>, t, K, {}, K1, p1)
                          /\ Tells(<<Submit(mb)>>, t, K1, p1, K2, p2)
                          /\ Tells(<<Submit(mc)>>, t, K2, p2, K3, p3)
                          /\ Tells(<<Wait>>, t, K3, p3, K3, {})
    BY <2>3, <2>5, TellsTogether
  <2>7. Tells(<<HandOut(Host)>>, t, K3, {}, K3, {})
        /\ Tells(<<Acquire(Objects(Host), "vector")>>, t, K, {}, K, {})
    BY TellsIdle, IdleStep
  <2>8. Tells(<<Wait, HandOut(Host)>>, t, K3, p3, K3, {})
    BY <2>6, <2>7, TellsFirst
  <2>9. Tells(<<Submit(mc), Wait, HandOut(Host)>>, t, K2, p2, K3, {})
    BY <2>6, <2>8, TellsFirst
  <2>10. Tells(<<Submit(mb), Submit(mc), Wait, HandOut(Host)>>, t, K1, p1, K3, {})
    BY <2>6, <2>9, TellsFirst
  <2>11. Tells(<<Submit(ma), Submit(mb), Submit(mc), Wait, HandOut(Host)>>, t, K, {}, K3, {})
    BY <2>6, <2>10, TellsFirst
  <2>12. Tells(<<Acquire(Objects(Host), "vector"), Submit(ma), Submit(mb), Submit(mc), Wait, HandOut(Host)>>,
               t, K, {}, K3, {})
    BY <2>7, <2>11, TellsFirst
  <2>13. Tells(AiGetArrays, t, K, {}, K3, {})
    BY <2>1, <2>12 DEF AiGetArrays
  <2>14. Tells(AiGetArrays, t, K, {}, Keep(Host, x), {})
    BY <2>2, <2>13, TellsWithin
  <2>15. QED
    BY <2>2, <2>14, TellsGains
<1>5. Shows(AiGetArrays, Host) /\ Shows(AiListDevices, Host) /\ Shows(AiDestroy, Host)
  BY ShowsTuples, PointsSteps, ShowsDevices DEF AiGetArrays, AiListDevices, AiDestroy
<1>6. \A k \in ArrayKernels : AiKernel(k) = Blockingly(Loop(k, Device))
  BY DEF AiKernel, Blockingly
<1>7. QED
  BY <1>1, <1>2, <1>3, <1>4, <1>5, <1>6, UsualTells DEF Learns, AiStream

\* The array of partial sums lives as long as dot.
LEMMA HcLearns == Learns(HcStream, Device, Host, ArrayKernels)
<1>1. /\ IsPlace(Device) /\ IsPlace(Host)
      /\ "partial" \notin Objects(Device) /\ "h_partial" \notin Objects(Device)
  BY PlaceNames, Places3
<1>2. ASSUME NEW t PROVE Gains(HcConstruct, t, {}, Keep(Device, StartCell))
  <2>1. PICK sa, sb, sc : /\ sa = StartArray("a", Device) /\ sb = StartArray("b", Device)
                          /\ sc = StartArray("c", Device)
    OBVIOUS
  <2>2. PICK K1, K2, K3 : /\ K1 = Keeping(Device, {"a"}, StartCell)
                          /\ K2 = Keeping(Device, {"a", "b"}, StartCell) /\ K3 = Keep(Device, StartCell)
    OBVIOUS
  <2>3. Turns(sa, {}, K1) /\ Turns(sb, K1, K2) /\ Turns(sc, K2, K3)
    BY <1>1, <2>1, <2>2, StartsThree
  <2>4. /\ Touches(sa) \cap Touches(sb) = {} /\ Touches(sa) \cap Touches(sc) = {}
        /\ Touches(sb) \cap Touches(sc) = {}
    BY <1>1, <2>1, StartTouches
  <2>5. PICK p1, p2, p3 : /\ Tells(<<Submit(sa)>>, t, {}, {}, K1, p1)
                          /\ Tells(<<Submit(sb)>>, t, K1, p1, K2, p2)
                          /\ Tells(<<Submit(sc)>>, t, K2, p2, K3, p3)
                          /\ Tells(<<Wait>>, t, K3, p3, K3, {})
    BY <2>3, <2>4, TellsTogether
  <2>6. Tells(<<Submit(sc), Wait>>, t, K2, p2, K3, {})
    BY <2>5, TellsFirst
  <2>7. Tells(<<Submit(sb), Submit(sc), Wait>>, t, K1, p1, K3, {})
    BY <2>5, <2>6, TellsFirst
  <2>8. Tells(<<Submit(sa), Submit(sb), Submit(sc), Wait>>, t, {}, {}, K3, {})
    BY <2>5, <2>7, TellsFirst
  <2>9. Tells(HcInit, t, {}, {}, K3, {})
    BY <2>1, <2>8 DEF HcInit
  <2>10. Tells(<<AcquireOn(Objects(Device), "array"), Check("size"), Check("count"), Select>>, t,
               {}, {}, {}, {})
    BY IdleStep, TellsIdles
  <2>11. QED
    BY <2>2, <2>9, <2>10, TellsJoined, TellsGains DEF HcConstruct
<1>3. ASSUME NEW x \in [Field -> Val]
      PROVE  Gains(HcDot, ProductOf(x), Keep(Device, x), Keep(Device, x))
  <2>1. PICK t, K : t = ProductOf(x) /\ K = Keep(Device, x)
    OBVIOUS
  <2>2. \A q \in K : q[1] \in Objects(Device)
    BY <1>1, <2>1 DEF Keep, Keeping, Objects, IsPlace
  <2>3. PICK L, M : L = K \cup {<<"partial", t>>} /\ M = L \cup {<<"h_partial", t>>}
    OBVIOUS
  <2>4. Tells(<<AcquireOn({"partial"}, "array"), Submit(Products(Device, "partial")), Wait>>, t, K, {}, L, {})
    <3>1. Turns(Products(Device, "partial"), K, L)
      BY <1>1, <2>1, <2>3, TurnsProducts, PlaceNames
    <3>2. Tells(<<Submit(Products(Device, "partial")), Wait>>, t, K, {}, L, {})
      BY <3>1, TellsWork
    <3>3. Tells(<<AcquireOn({"partial"}, "array")>>, t, K, {}, K, {})
      BY TellsIdle, IdleStep
    <3>4. QED
      BY <3>2, <3>3, TellsFirst
  <2>5. PICK s : s = Blockingly(Move("partial", "h_partial")) \o <<ReturnSum("h_partial")>>
    OBVIOUS
  <2>6. Tells(s, t, L, {}, M, {})
    <3>1. <<"partial", t>> \in L /\ \A q \in L : q[1] # "h_partial"
      BY <1>1, <2>2, <2>3
    <3>2. Turns(Move("partial", "h_partial"), L, M)
      BY <2>3, <3>1, TurnsMove
    <3>3. Tells(Blockingly(Move("partial", "h_partial")), t, L, {}, M, {})
      BY <3>2, TellsWork
    <3>4. Tells(<<ReturnSum("h_partial")>>, t, M, {}, M, {})
      BY <2>3, TellsSteps
    <3>5. QED
      BY <2>5, <3>3, <3>4, TellsJoined
  <2>7. Tells(WithLocal("h_partial", s), t, L, {}, K, {})
    <3>1. K \subseteq M /\ \A q \in K : q[1] # "h_partial"
      BY <1>1, <2>2, <2>3
    <3>2. QED
      BY <2>6, <3>1, TellsLocal
  <2>8. Tells(<<Release({"partial"}, "array")>>, t, K, {}, K, {})
    <3>1. \A q \in K : q[1] \notin {"partial"}
      BY <1>1, <2>2
    <3>2. QED
      BY <3>1, TellsSteps
  <2>9. Tells(HcDot, t, K, {}, K, {})
    BY <2>4, <2>5, <2>7, <2>8, TellsJoined DEF HcDot
  <2>10. QED
    BY <2>1, <2>9, TellsGains
<1>4. ASSUME NEW x \in [Field -> Val], NEW t
      PROVE  Gains(HcReadArrays, t, Keep(Device, x), Keep(Host, x))
  <2>1. PICK ra, rb, rc : /\ ra = Blockingly(Move("d_a", "h_a")) /\ rb = Blockingly(Move("d_b", "h_b"))
                          /\ rc = Blockingly(Move("d_c", "h_c"))
    OBVIOUS
  <2>2. PICK K, K1, K2, K3 : /\ K = Keep(Device, x) /\ K1 = K \cup Keeping(Host, {"a"}, x)
                             /\ K2 = K \cup Keeping(Host, {"a", "b"}, x) /\ K3 = K \cup Keep(Host, x)
    OBVIOUS
  <2>3. /\ Tells(ra, t, K, {}, K1, {}) /\ Tells(rb, t, K1, {}, K2, {}) /\ Tells(rc, t, K2, {}, K3, {})
    BY <2>1, <2>2, CopiesThree, TellsWork
  <2>4. Tells(<<Acquire(Objects(Host), "vector")>>, t, K, {}, K, {})
        /\ Tells(<<HandOut(Host)>>, t, K3, {}, K3, {})
    BY TellsIdle, IdleStep
  <2>5. Tells(<<Acquire(Objects(Host), "vector")>> \o ra \o rb \o rc \o <<HandOut(Host)>>, t, K, {}, K3, {})
    BY <2>3, <2>4, TellsJoined
  <2>6. Tells(HcReadArrays, t, K, {}, K3, {})
    BY <2>1, <2>5 DEF HcReadArrays
  <2>7. Tells(HcReadArrays, t, K, {}, Keep(Host, x), {})
    BY <2>2, <2>6, TellsWithin
  <2>8. QED
    BY <2>2, <2>7, TellsGains
<1>5. Shows(HcReadArrays, Host) /\ Shows(HcListDevices, Host) /\ Shows(HcDestroy, Host)
  <2>1. /\ Shows(<<Acquire(Objects(Host), "vector")>>, Host) /\ Shows(<<HandOut(Host)>>, Host)
        /\ \A op : Shows(Blockingly(op), Host)
    BY ShowsUsual
  <2>2. Shows(HcReadArrays, Host)
    BY <2>1, ShowsJoined DEF HcReadArrays
  <2>3. QED
    BY <2>2, ShowsTuples, PointsSteps DEF HcListDevices, HcDestroy
<1>6. \A k \in ArrayKernels : HcKernel(k) = Blockingly(Loop(k, Device))
  BY DEF HcKernel, Blockingly
<1>7. QED
  BY <1>1, <1>2, <1>3, <1>4, <1>5, <1>6, UsualTells DEF Learns, HcStream
----------------------------------------------------------------------------
(* What OpenCL teaches                                                     *)

\* The wrappers, when they do not drop what is known.
LEMMA TellsWrappers ==
  ASSUME NEW t, NEW K, NEW p
  PROVE  /\ \A xs : Tells(Copied(xs), t, K, p, K, p)
         /\ \A xs : (\A q \in K : q[1] \in xs => q[1] \in p) => Tells(Dropped(xs), t, K, p, K, p)
         /\ Tells(EnqueueArgs, t, K, p, K, p)
<1>1. \A xs : Tells(Copied(xs), t, K, p, K, p)
  BY TellsIdle, IdleStep DEF Copied
<1>2. \A xs : (\A q \in K : q[1] \in xs => q[1] \in p) => Tells(Dropped(xs), t, K, p, K, p)
  BY TellsSteps DEF Dropped
<1>3. QED
  BY <1>1, <1>2 DEF EnqueueArgs

\* A functor is left while its work is pending, which holds its buffers.
LEMMA TellsFunctor ==
  ASSUME NEW t, NEW K, NEW K2, NEW op, Turns(op, K, K2), NEW xs,
         \A q \in K2 : q[1] \in xs => q[1] \in Touches(op), \A q \in K2 : q[1] \notin {"event", "queue"}
  PROVE  /\ Tells(Functor(op, xs), t, K, {}, K2, {} \cup Touches(op))
         /\ Tells(ClLaunch(op, xs), t, K, {}, K2, {})
<1>1. PICK p : p = {} \cup Touches(op)
  OBVIOUS
<1>2. Tells(EnqueueArgs, t, K, {}, K, {}) /\ Tells(Copied(xs), t, K, {}, K, {})
  BY TellsWrappers
<1>3. Tells(enqueueNDRangeKernel(op), t, K, {}, K2, p)
  <2>1. Tells(<<Submit(op)>>, t, K, {}, K2, p)
    BY <1>1, TellsSteps
  <2>2. Tells(<<Acquire({"event"}, "cl")>>, t, K2, p, K2, p)
    BY TellsIdle, IdleStep
  <2>3. QED
    BY <2>1, <2>2, TellsFirst DEF enqueueNDRangeKernel
<1>4. /\ Tells(Dropped({"event"}), t, K2, p, K2, p) /\ Tells(Dropped({"queue"}), t, K2, p, K2, p)
      /\ Tells(Dropped(xs), t, K2, p, K2, p)
  <2>1. /\ \A q \in K2 : q[1] \in {"event"} => q[1] \in p
        /\ \A q \in K2 : q[1] \in {"queue"} => q[1] \in p
        /\ \A q \in K2 : q[1] \in xs => q[1] \in p
    BY <1>1
  <2>2. QED
    BY <2>1, TellsWrappers
<1>5. Tells(Functor(op, xs), t, K, {}, K2, p)
  BY <1>2, <1>3, <1>4, TellsJoined DEF Functor
<1>6. Tells(<<Wait>>, t, K2, p, K2, {})
  BY TellsSteps
<1>7. QED
  BY <1>1, <1>5, <1>6, TellsJoined DEF ClLaunch

\* A copy to the host waits before and after.
LEMMA TellsCopy ==
  ASSUME NEW t, NEW K, NEW p, NEW K2, NEW from, NEW to, Turns(Move(from, to), K, K2),
         \A q \in K2 : q[1] # "event"
  PROVE  Tells(cl_copy(from, to), t, K, p, K2, {})
<1>1. PICK no : no = [x \in {} |-> <<>>]
  OBVIOUS
<1>2. Turns(no, K2, K2) /\ Touches(no) = {}
  BY <1>1, TurnsNothing, MoveTouches
<1>3. Tells(enqueueMapBuffer, t, K, p, K, {}) /\ Tells(<<Run(Move(from, to))>>, t, K, {}, K2, {})
  BY TellsSteps DEF enqueueMapBuffer
<1>4. Tells(enqueueUnmapMemObject, t, K2, {}, K2, {} \cup Touches(no))
  <2>1. Tells(<<Submit(no)>>, t, K2, {}, K2, {} \cup Touches(no))
    BY <1>2, TellsSteps
  <2>2. Tells(<<Acquire({"event"}, "cl")>>, t, K2, {} \cup Touches(no), K2, {} \cup Touches(no))
    BY TellsIdle, IdleStep
  <2>3. QED
    BY <1>1, <2>1, <2>2, TellsFirst DEF enqueueUnmapMemObject
<1>5. Tells(<<Wait>>, t, K2, {} \cup Touches(no), K2, {})
  BY TellsSteps
<1>6. Tells(Dropped({"event"}), t, K2, {}, K2, {})
  BY TellsWrappers
<1>7. QED
  BY <1>3, <1>4, <1>5, <1>6, TellsJoined DEF cl_copy

\* What the constructor does before it starts the arrays.
LEMMA TellsAssigned ==
  ASSUME NEW t, NEW x, NEW create, Tells(create, t, {}, {}, {}, {})
  PROVE  Tells(Assigned(x, create), t, {}, {}, {}, {})
<1>1. Tells(Moved("temporary", x), t, {}, {}, {}, {})
  BY TellsSteps DEF Moved
<1>2. QED
  BY <1>1, TellsJoined DEF Assigned

\* The pieces of the constructor of OpenCL, before there is anything to know.
LEMMA TellsClStart ==
  ASSUME NEW t, NEW b
  PROVE  /\ \A how : Tells(ClDeviceList(how), t, {}, {}, {}, {})
         /\ Tells(ClDeviceName, t, {}, {}, {}, {}) /\ Tells(ClDeviceDriver, t, {}, {}, {}, {})
         /\ Tells(Assigned("context", Context), t, {}, {}, {}, {})
         /\ Tells(Assigned("queue", CommandQueue), t, {}, {}, {}, {})
         /\ Tells(ClProgram("program"), t, {}, {}, {}, {}) /\ Tells(ClBuild(b), t, {}, {}, {}, {})
         /\ Tells(KernelFunctor, t, {}, {}, {}, {})
         /\ \A x : Tells(Assigned(x, Buffer), t, {}, {}, {}, {})
<1>1. /\ \A xs : Tells(Copied(xs), t, {}, {}, {}, {}) /\ Tells(Dropped(xs), t, {}, {}, {}, {})
      /\ \A xs, by : /\ Tells(<<Acquire(xs, by)>>, t, {}, {}, {}, {})
                     /\ Tells(<<AcquireOn(xs, by)>>, t, {}, {}, {}, {})
      /\ \A how : Tells(<<List(how)>>, t, {}, {}, {}, {})
  BY TellsWrappers, TellsIdle, IdleStep
<1>2. \A x : Tells(getDevices(x), t, {}, {}, {}, {})
  BY <1>1, TellsAssigned DEF getDevices
<1>3. \A how : Tells(ClDeviceList(how), t, {}, {}, {}, {})
  BY <1>1, <1>2, TellsJoined DEF ClDeviceList
<1>4. Tells(ClDeviceName, t, {}, {}, {}, {}) /\ Tells(ClDeviceDriver, t, {}, {}, {}, {})
  BY TellsIdles, IdleStep DEF ClDeviceName, ClDeviceDriver
<1>5. Tells(Assigned("context", Context), t, {}, {}, {}, {})
  BY <1>1, TellsAssigned DEF Context
<1>6. Tells(Assigned("queue", CommandQueue), t, {}, {}, {}, {})
  <2>1. Tells(CommandQueue, t, {}, {}, {}, {})
    BY <1>1, TellsJoined DEF CommandQueue, ContextDevices
  <2>2. QED
    BY <2>1, TellsAssigned
<1>7. /\ Tells(ClProgram("program"), t, {}, {}, {}, {}) /\ Tells(ClBuild(b), t, {}, {}, {}, {})
      /\ Tells(KernelFunctor, t, {}, {}, {}, {})
  BY TellsIdles, IdleStep DEF ClProgram, ClBuild, KernelFunctor
<1>8. \A x : Tells(Assigned(x, Buffer), t, {}, {}, {}, {})
  BY <1>1, TellsAssigned DEF Buffer
<1>9. QED
  BY <1>3, <1>4, <1>5, <1>6, <1>7, <1>8

\* The buffers given to a kernel are those its work touches.
LEMMA ArgumentsTouched ==
  /\ \A k \in ArrayKernels : Arguments(k) \subseteq Touches(Loop(k, Device))
  /\ Objects(Device) \subseteq Touches(StartLoop(Device))
  /\ {"d_a", "d_b", "d_sum"} \subseteq Touches(Products(Device, "d_sum"))
<1>1. Device["a"] = "d_a" /\ Device["b"] = "d_b" /\ Device["c"] = "d_c"
  BY DEF Device, Arrays, Field
<1>2. Objects(Device) = {"d_a", "d_b", "d_c"}
  BY Places3
<1>3. ASSUME NEW k \in ArrayKernels PROVE Arguments(k) \subseteq Touches(Loop(k, Device))
  <2>1. Touches(Loop(k, Device)) = {Device[Target(k)]} \cup {Device[f] : f \in Operands(k)}
    BY DEF Touches, Writes, Reads, Loop, Value
  <2>2. CASE k = "Copy"
    BY <1>1, <2>1, <2>2 DEF Arguments, Target, Operands
  <2>3. CASE k = "Mul"
    BY <1>1, <2>1, <2>3 DEF Arguments, Target, Operands
  <2>4. CASE k = "Add"
    BY <1>1, <1>2, <2>1, <2>4 DEF Arguments, Target, Operands
  <2>5. CASE k = "Triad"
    BY <1>1, <1>2, <2>1, <2>5 DEF Arguments, Target, Operands
  <2>6. CASE k = "Nstream"
    BY <1>1, <1>2, <2>1, <2>6 DEF Arguments, Target, Operands, Field
  <2>7. QED
    BY <2>2, <2>3, <2>4, <2>5, <2>6 DEF ArrayKernels
<1>4. Objects(Device) \subseteq Touches(StartLoop(Device))
  BY DEF Touches, Writes, StartLoop
<1>5. {"d_a", "d_b", "d_sum"} \subseteq Touches(Products(Device, "d_sum"))
  <2>1. Touches(Products(Device, "d_sum")) = {"d_sum"} \cup {Device[f] : f \in Operands("Dot")}
    BY DEF Touches, Writes, Reads, Products, Value
  <2>2. QED
    BY <1>1, <2>1 DEF Operands
<1>6. QED
  BY <1>3, <1>4, <1>5

\* OpenCL: what is known is known while the wrappers come and go.
LEMMA ClLearns == ASSUME NEW b PROVE Learns(ClStream(b), Device, Host, ArrayKernels)
<1>1. /\ IsPlace(Device) /\ IsPlace(Host) /\ Objects(Device) = {"d_a", "d_b", "d_c"}
      /\ Objects(Host) = {"h_a", "h_b", "h_c"} /\ "d_sum" \notin Objects(Device)
  BY PlaceNames, Places3
<1>2. \A x : \A q \in Keep(Device, x) : q[1] \in Objects(Device)
  BY <1>1 DEF Keep, Keeping, Objects, IsPlace
<1>3. ASSUME NEW t PROVE Gains(ClConstruct(b), t, {}, Keep(Device, StartCell))
  <2>1. PICK K : K = Keep(Device, StartCell)
    OBVIOUS
  <2>2. /\ Tells(<<Check("listed")>>, t, {}, {}, {}, {}) /\ Tells(<<Select>>, t, {}, {}, {}, {})
        /\ Tells(<<Check("memory")>>, t, {}, {}, {}, {})
        /\ Tells(<<Acquire({"sums"}, "vector")>>, t, {}, {}, {}, {})
        /\ Tells(Copied({"device"}), t, {}, {}, {}, {})
    BY TellsIdle, IdleStep, TellsWrappers
  <2>3. Tells(ClInit, t, {}, {}, K, {})
    <3>1. Turns(StartLoop(Device), {}, K)
      BY <1>1, <2>1, TurnsStart
    <3>2. /\ \A q \in K : q[1] \in Objects(Device) => q[1] \in Touches(StartLoop(Device))
          /\ \A q \in K : q[1] \notin {"event", "queue"}
      BY <1>1, <1>2, <2>1, ArgumentsTouched
    <3>3. QED
      BY <3>1, <3>2, TellsFunctor DEF ClInit
  <2>4. Tells(Dropped({"program"}), t, K, {}, K, {})
    <3>1. \A q \in K : q[1] \in {"program"} => q[1] \in {}
      BY <1>1, <1>2, <2>1
    <3>2. QED
      BY <3>1, TellsWrappers
  <2>5. PICK s1 : s1 = ClDeviceList("once") \o <<Check("listed")>> \o Copied({"device"})
                       \o ClDeviceName \o ClDeviceDriver \o <<Select>>
    OBVIOUS
  <2>6. Tells(s1, t, {}, {}, {}, {})
    BY <2>2, <2>5, TellsClStart, TellsJoined
  <2>7. PICK s2 : s2 = s1 \o Assigned("context", Context) \o Assigned("queue", CommandQueue)
                       \o ClProgram("program") \o ClBuild(b) \o KernelFunctor \o <<Check("memory")>>
    OBVIOUS
  <2>8. Tells(s2, t, {}, {}, {}, {})
    BY <2>2, <2>6, <2>7, TellsClStart, TellsJoined
  <2>9. PICK s3 : s3 = s2 \o Assigned("d_a", Buffer) \o Assigned("d_b", Buffer) \o Assigned("d_c", Buffer)
                       \o Assigned("d_sum", Buffer) \o <<Acquire({"sums"}, "vector")>>
    OBVIOUS
  <2>10. Tells(s3, t, {}, {}, {}, {})
    BY <2>2, <2>8, <2>9, TellsClStart, TellsJoined
  <2>11. ClConstruct(b) = s3 \o ClInit \o Dropped({"program"})
    BY <2>5, <2>7, <2>9 DEF ClConstruct
  <2>12. Tells(ClConstruct(b), t, {}, {}, K, {})
    BY <2>3, <2>4, <2>10, <2>11, TellsJoined
  <2>13. QED
    BY <2>1, <2>12, TellsGains
<1>4. ASSUME NEW k \in ArrayKernels, NEW x \in [Field -> Val], NEW t
      PROVE  Gains(ClKernel(k), t, Keep(Device, x), Keep(Device, Apply(k, x)))
  <2>1. PICK K2 : K2 = Keep(Device, Apply(k, x))
    OBVIOUS
  <2>2. Turns(Loop(k, Device), Keep(Device, x), K2)
    BY <2>1, TurnsLoop, PlaceNames
  <2>3. /\ \A q \in K2 : q[1] \in Arguments(k) => q[1] \in Touches(Loop(k, Device))
        /\ \A q \in K2 : q[1] \notin {"event", "queue"}
    BY <1>1, <1>2, <2>1, ArgumentsTouched
  <2>4. Tells(ClKernel(k), t, Keep(Device, x), {}, K2, {})
    BY <2>2, <2>3, TellsFunctor DEF ClKernel
  <2>5. QED
    BY <2>1, <2>4, TellsGains
<1>5. ASSUME NEW x \in [Field -> Val]
      PROVE  Gains(ClDot, ProductOf(x), Keep(Device, x), Keep(Device, x))
  <2>1. PICK t, K, L, M : /\ t = ProductOf(x) /\ K = Keep(Device, x) /\ L = K \cup {<<"d_sum", t>>}
                          /\ M = L \cup {<<"sums", t>>}
    OBVIOUS
  <2>2. \A q \in K : q[1] \in Objects(Device)
    BY <1>2, <2>1
  <2>3. PICK op : op = Products(Device, "d_sum")
    OBVIOUS
  <2>4. Turns(op, K, L)
    <3>1. Turns(Products(Device, "d_sum"), Keep(Device, x), Keep(Device, x) \cup {<<"d_sum", ProductOf(x)>>})
      BY <1>1, TurnsProducts, PlaceNames
    <3>2. QED
      BY <2>1, <2>3, <3>1
  <2>5. /\ \A q \in L : q[1] \in {"d_a", "d_b", "d_sum"} => q[1] \in Touches(op)
        /\ \A q \in L : q[1] \notin {"event", "queue"}
    BY <1>1, <2>1, <2>2, <2>3, ArgumentsTouched
  <2>6. Tells(Functor(op, {"d_a", "d_b", "d_sum"}), t, K, {}, L, {} \cup Touches(op))
    BY <2>4, <2>5, TellsFunctor
  <2>7. Turns(Move("d_sum", "sums"), L, M)
    <3>1. <<"d_sum", t>> \in L /\ \A q \in L : q[1] # "sums"
      BY <1>1, <2>1, <2>2
    <3>2. QED
      BY <2>1, <3>1, TurnsMove
  <2>8. Tells(cl_copy("d_sum", "sums"), t, L, {} \cup Touches(op), M, {})
    <3>1. \A q \in M : q[1] # "event"
      BY <1>1, <2>1, <2>2
    <3>2. QED
      BY <2>7, <3>1, TellsCopy
  <2>9. Tells(<<ReturnSum("sums")>>, t, M, {}, M, {})
    BY <2>1, TellsSteps
  <2>10. Tells(ClDot, t, K, {}, M, {})
    BY <2>3, <2>6, <2>8, <2>9, TellsJoined DEF ClDot
  <2>11. Tells(ClDot, t, K, {}, K, {})
    BY <2>1, <2>10, TellsWithin
  <2>12. QED
    BY <2>1, <2>11, TellsGains
<1>6. ASSUME NEW x \in [Field -> Val], NEW t
      PROVE  Gains(ClGetArrays, t, Keep(Device, x), Keep(Host, x))
  <2>1. PICK K, K1, K2, K3 : /\ K = Keep(Device, x) /\ K1 = K \cup Keeping(Host, {"a"}, x)
                             /\ K2 = K \cup Keeping(Host, {"a", "b"}, x) /\ K3 = K \cup Keep(Host, x)
    OBVIOUS
  <2>2. /\ Turns(Move("d_a", "h_a"), K, K1) /\ Turns(Move("d_b", "h_b"), K1, K2)
        /\ Turns(Move("d_c", "h_c"), K2, K3)
    BY <2>1, CopiesThree
  <2>3. \A q \in K3 : q[1] \in Objects(Device) \cup Objects(Host)
    BY <1>1, <1>2, <2>1 DEF Keep, Keeping, Objects, IsPlace
  <2>4. K1 \subseteq K3 /\ K2 \subseteq K3
    BY <2>1 DEF Keep, Keeping, Field
  <2>5. /\ (\A q \in K1 : q[1] # "event") /\ (\A q \in K2 : q[1] # "event")
        /\ \A q \in K3 : q[1] # "event"
    <3>1. \A q \in K3 : q[1] # "event"
      BY <1>1, <2>3
    <3>2. QED
      BY <2>4, <3>1
  <2>6. /\ Tells(cl_copy("d_a", "h_a"), t, K, {}, K1, {}) /\ Tells(cl_copy("d_b", "h_b"), t, K1, {}, K2, {})
        /\ Tells(cl_copy("d_c", "h_c"), t, K2, {}, K3, {})
    BY <2>2, <2>5, TellsCopy
  <2>7. Tells(<<Acquire(Objects(Host), "vector"), HandOut(Host)>>, t, K, {}, K, {})
    BY TellsIdles, IdleStep
  <2>8. Tells(ClGetArrays, t, K, {}, K3, {})
    BY <2>6, <2>7, TellsJoined DEF ClGetArrays
  <2>9. Tells(ClGetArrays, t, K, {}, Keep(Host, x), {})
    BY <2>1, <2>8, TellsWithin
  <2>10. QED
    BY <2>1, <2>9, TellsGains
<1>7. Shows(ClGetArrays, Host) /\ Shows(ClListDevices, Host) /\ Shows(ClDestroy, Host)
  <2>1. /\ \A xs : Shows(Copied(xs), Host) /\ Shows(Dropped(xs), Host)
        /\ \A xs, by : Shows(<<Acquire(xs, by)>>, Host) /\ Shows(<<Release(xs, by)>>, Host)
        /\ \A how : Shows(<<List(how)>>, Host)
        /\ \A x : Shows(Moved("temporary", x), Host)
    BY ShowsTuples, PointsSteps DEF Copied, Dropped, Moved
  <2>2. \A x : Shows(getDevices(x), Host)
    BY <2>1, ShowsJoined DEF getDevices, Assigned
  <2>3. \A how : Shows(ClDeviceList(how), Host)
    BY <2>1, <2>2, ShowsJoined DEF ClDeviceList
  <2>4. Shows(ClListDevices, Host)
    BY <2>1, <2>3, ShowsJoined DEF ClListDevices
  <2>5. \A from, to : Shows(cl_copy(from, to), Host)
    <3>1. /\ Shows(enqueueMapBuffer, Host) /\ Shows(enqueueUnmapMemObject, Host) /\ Shows(<<Wait>>, Host)
          /\ \A op : Shows(<<Run(op)>>, Host)
      BY ShowsTuples, PointsSteps DEF enqueueMapBuffer, enqueueUnmapMemObject
    <3>2. QED
      BY <2>1, <3>1, ShowsJoined DEF cl_copy
  <2>6. Shows(<<Acquire(Objects(Host), "vector"), HandOut(Host)>>, Host)
    BY ShowsTuples, PointsSteps
  <2>7. Shows(ClGetArrays, Host)
    BY <2>5, <2>6, ShowsJoined DEF ClGetArrays
  <2>8. Shows(ClDestroy, Host)
    BY <2>1, ShowsJoined DEF ClDestroy
  <2>9. QED
    BY <2>4, <2>7, <2>8
<1>8. QED
  BY <1>1, <1>3, <1>4, <1>5, <1>6, <1>7 DEF Learns, ClStream
----------------------------------------------------------------------------
(* Every backend computes what Stream.h promises                           *)

\* A session of C++ backends that keep their arrays where they do: on the
\* host with OpenMP, TBB and the C++ standard library, and else on the device.
\* Two builds compute something else and are left out: Futhark's for float,
\* where triad is another kernel, and SYCL 2020's with AdaptiveCpp, where dot
\* adds to the result before. The C++ standard library's with DATA17 adds in
\* another order in nstream, which must not matter. Futhark's nstream is not
\* run: it replaces what it should add to.
CppArrays ==
  \A b \in Backends :
    /\ b \notin {"Futhark-float", "SYCL2020-AdaptiveCpp"}
    /\ Home(b) = IF b \in {"OMP", "OMP-pagefault"} \cup TbbBuilds \cup StdBuilds THEN Here ELSE Device
    /\ b \in FutharkBuilds => "Nstream" \notin Callable(b)
    /\ b = "STD-DATA17" => \A x, y, z \in Val : Plus(Plus(x, y), z) = Plus(x, Plus(y, z))

\* What a build learns whose arrays are m; get_arrays shows them, or copies.
LEMMA CppLearns ==
  ASSUME NEW b \in AllBuilds \ {"Futhark-float", "SYCL2020-AdaptiveCpp"},
         b = "STD-DATA17" => \A x, y, z \in Val : Plus(Plus(x, y), z) = Plus(x, Plus(y, z)),
         NEW m,
         m = IF b \in {"OMP", "OMP-pagefault"} \cup TbbBuilds \cup StdBuilds THEN Here ELSE Device
  PROVE  \E h : Learns(StreamOf(b), m, h, IF b \in FutharkBuilds THEN ArrayKernels \ {"Nstream"}
                                          ELSE ArrayKernels)
<1> USE Streams
<1>1. CASE b \in OmpBuilds
  <2>1. b \notin FutharkBuilds /\ m = OmpArrays(b)
    BY <1>1 DEF OmpBuilds, OmpArrays, OmpMaps, TbbBuilds, StdBuilds, FutharkBuilds
  <2>2. QED
    BY <1>1, <2>1, OmpLearns
<1>2. CASE b \in TbbBuilds \cup StdBuilds
  <2>1. b \notin FutharkBuilds /\ m = Here
    BY <1>2 DEF TbbBuilds, StdBuilds, FutharkBuilds
  <2>2. QED
    BY <1>2, <2>1, TbbLearns, StdLearns
<1>3. CASE b \in FutharkBuilds
  <2>1. b = "Futhark-double" /\ m = Device
    BY <1>3 DEF TbbBuilds, StdBuilds, FutharkBuilds
  <2>2. StreamOf(b) = FutharkStream("Futhark-double")
    BY <1>3, <2>1
  <2>3. QED
    BY <1>3, <2>1, <2>2, FutharkLearns
<1>4. CASE b \in RajaBuilds \cup {"ACC", "Kokkos"}
  <2>1. b \notin FutharkBuilds /\ m = Device
    BY <1>4 DEF RajaBuilds, TbbBuilds, StdBuilds, FutharkBuilds
  <2>2. QED
    BY <1>4, <2>1, RajaLearns, AccLearns, KokkosLearns
<1>5. CASE b \in CudaBuilds \cup HipBuilds
  <2>1. b \notin FutharkBuilds /\ m = Device
    BY <1>5 DEF CudaBuilds, HipBuilds, TbbBuilds, StdBuilds, FutharkBuilds
  <2>2. QED
    BY <1>5, <2>1, CudaLearns, HipLearns
<1>6. CASE b \in ThrustBuilds \cup {"SYCL", "HC"}
  <2>1. b \notin FutharkBuilds /\ m = Device
    BY <1>6 DEF ThrustBuilds, TbbBuilds, StdBuilds, FutharkBuilds
  <2>2. QED
    BY <1>6, <2>1, ThrustLearns, SyclLearns, HcLearns
<1>7. CASE b \in UsmBuilds \cup AiBuilds \cup ClBuilds
  <2>1. b \notin FutharkBuilds /\ m = Device
    BY <1>7 DEF UsmBuilds, AiBuilds, ClBuilds, TbbBuilds, StdBuilds, FutharkBuilds
  <2>2. QED
    BY <1>7, <2>1, UsmLearns, AiLearns, ClLearns
<1>8. QED
  BY <1>1, <1>2, <1>3, <1>4, <1>5, <1>6, <1>7 DEF AllBuilds, LoopBuilds, QueueBuilds, SyclBuilds

\* So the methods of every backend do what its contract asks.
LEMMA CppComputes == ASSUME CppPrograms, CppArrays PROVE ProgramsCompute
<1>1. SUFFICES ASSUME NEW b \in Backends PROVE Computes(b)
  BY DEF ProgramsCompute
<1>2. PICK ks : ks = IF b \in FutharkBuilds THEN ArrayKernels \ {"Nstream"} ELSE ArrayKernels
  OBVIOUS
<1>3. b \in AllBuilds \ {"Futhark-float", "SYCL2020-AdaptiveCpp"}
  BY DEF CppPrograms, CppArrays
<1>4. PICK h : Learns(StreamOf(b), Home(b), h, ks)
  <2>1. PICK m : m = Home(b)
    OBVIOUS
  <2>2. \E h : Learns(StreamOf(b), m, h, ks)
    BY <1>2, <1>3, <2>1, CppLearns DEF CppArrays
  <2>3. QED
    BY <2>1, <2>2
<1>5. Callable(b) \subseteq ks \cup {"Dot"}
  <2>1. Callable(b) \subseteq Kernel
    BY ProgramsTyped
  <2>2. b \in FutharkBuilds => "Nstream" \notin Callable(b)
    BY DEF CppArrays
  <2>3. QED
    BY <1>2, <2>1, <2>2 DEF Kernel
<1>6. \A c \in Call : Program(b, c) = Method(StreamOf(b), c)
  BY DEF CppPrograms, ProgramOf
<1>7. QED
  BY <1>4, <1>5, <1>6, LearnsComputes
=============================================================================
