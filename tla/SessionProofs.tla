---------------------------- MODULE SessionProofs ----------------------------
(***************************************************************************)
(* Sessions, whatever the runtime, the machine and the number of calls:    *)
(* each part asks something of the methods of a backend, step by step, and *)
(* shows what it means for every session.  If they wait for what they      *)
(* submit, nothing is pending between two calls; if they select the device *)
(* before they place anything, all work stays on it; if the constructor    *)
(* checks what a machine may lack, it throws exactly on those; if they     *)
(* keep a book of what they hold, nothing is used that is not held; and if *)
(* in addition they compute the right thing, read one step after the       *)
(* other, then a session implements the contract of Stream.h.              *)
(***************************************************************************)
EXTENDS StreamSession, SequenceTheorems, TLAPS

\* What Blocking asks of the methods; BackendProofs shows it of each backend's.
ProgramsDrain ==
  \A b \in Backends, c \in Call : Drains(Program(b, c))
----------------------------------------------------------------------------
(* Sequences of steps                                                      *)

LEMMA InRange ==
  ASSUME NEW T, NEW s \in Seq(T)
  PROVE  s \in Seq(Range(s))
<1>1. Len(s) \in Nat /\ DOMAIN s = 1 .. Len(s) /\ s = [i \in 1 .. Len(s) |-> s[i]]
  BY LenProperties
<1>2. \A i \in 1 .. Len(s) : s[i] \in Range(s)
  BY <1>1 DEF Range
<1>3. s \in [1 .. Len(s) -> Range(s)]
  BY <1>1, <1>2
<1>4. QED
  BY <1>1, <1>3, SeqDef

\* What is left of a method after its first step.
LEMMA TailSteps ==
  ASSUME NEW s, s \in Seq(Range(s)), s # <<>>
  PROVE  /\ Tail(s) \in Seq(Range(Tail(s)))
         /\ 1 \in DOMAIN s /\ s[1] = Head(s)
         /\ \A i \in DOMAIN Tail(s) : i \in Nat \ {0} /\ i + 1 \in DOMAIN s /\ Tail(s)[i] = s[i + 1]
         /\ \A i \in DOMAIN s : i \in Nat \ {0} /\ (i > 1 => i - 1 \in DOMAIN Tail(s) /\ s[i] = Tail(s)[i - 1])
<1> DEFINE T == Range(s)
<1>1. s \in Seq(T) OBVIOUS
<1>2. Head(s) = s[1] /\ Tail(s) \in Seq(T) /\ Len(Tail(s)) = Len(s) - 1
      /\ \A i \in 1 .. Len(Tail(s)) : Tail(s)[i] = s[i + 1]
  <2> HIDE DEF T
  <2>1. QED BY <1>1, HeadTailProperties
<1>3. Len(s) \in Nat \ {0} /\ DOMAIN s = 1 .. Len(s)
  <2> HIDE DEF T
  <2>1. QED BY <1>1, EmptySeq, LenProperties
<1>4. DOMAIN Tail(s) = 1 .. Len(s) - 1
  <2> HIDE DEF T
  <2>1. QED BY <1>2, LenProperties
<1>5. Tail(s) \in Seq(Range(Tail(s)))
  <2> HIDE DEF T
  <2>1. QED BY <1>2, InRange
<1>6. \A i \in DOMAIN Tail(s) : i \in Nat \ {0} /\ i + 1 \in DOMAIN s /\ Tail(s)[i] = s[i + 1]
  BY <1>2, <1>3, <1>4
<1>7. ASSUME NEW i \in DOMAIN s
      PROVE  i \in Nat \ {0} /\ (i > 1 => i - 1 \in DOMAIN Tail(s) /\ s[i] = Tail(s)[i - 1])
  BY <1>2, <1>3, <1>4
<1>8. QED
  BY <1>2, <1>3, <1>5, <1>6, <1>7

LEMMA AwaitedTail ==
  ASSUME NEW s, s \in Seq(Range(s)), s # <<>>, NEW i \in Nat \ {0}, NEW op,
         AwaitedFrom(op, s, i + 1)
  PROVE  AwaitedFrom(op, Tail(s), i)
<1>1. PICK j \in DOMAIN s :
        /\ i + 1 <= j
        /\ \/ s[j].do = "wait"
           \/ /\ s[j].do = "access" /\ Writes(op) \cap s[j].what # {}
              /\ \A k \in DOMAIN s : s[k].do # "rename"
        /\ \A k \in DOMAIN s : i + 1 <= k /\ k < j => s[k].do # "check"
  BY DEF AwaitedFrom
<1>2. j \in Nat /\ j > 1 /\ j - 1 \in DOMAIN Tail(s) /\ Tail(s)[j - 1] = s[j] /\ i <= j - 1
  BY <1>1, TailSteps
<1>3. (\A k \in DOMAIN s : s[k].do # "rename") => \A k \in DOMAIN Tail(s) : Tail(s)[k].do # "rename"
  BY TailSteps
<1>4. ASSUME NEW k \in DOMAIN Tail(s), i <= k, k < j - 1 PROVE Tail(s)[k].do # "check"
  <2>1. k \in Nat /\ k + 1 \in DOMAIN s /\ Tail(s)[k] = s[k + 1]
    BY TailSteps
  <2>2. i + 1 <= k + 1 /\ k + 1 < j
    BY <1>2, <1>4, <2>1
  <2>3. QED
    BY <1>1, <2>1, <2>2
<1>5. QED
  BY <1>1, <1>2, <1>3, <1>4 DEF AwaitedFrom

\* A step that op does not wait for leaves it to the later ones, and does not
\* throw.
LEMMA AwaitedLater ==
  ASSUME NEW s, s \in Seq(Range(s)), s # <<>>, NEW op, AwaitedFrom(op, s, 1),
         Head(s).do # "wait",
         Head(s).do = "access" => Writes(op) \cap Head(s).what = {}
  PROVE  AwaitedFrom(op, Tail(s), 1) /\ Head(s).do # "check"
<1>1. PICK j \in DOMAIN s :
        /\ \/ s[j].do = "wait"
           \/ /\ s[j].do = "access" /\ Writes(op) \cap s[j].what # {}
              /\ \A k \in DOMAIN s : s[k].do # "rename"
        /\ \A k \in DOMAIN s : 1 <= k /\ k < j => s[k].do # "check"
  BY DEF AwaitedFrom
<1>2. /\ 1 \in DOMAIN s /\ s[1] = Head(s)
      /\ \A k \in DOMAIN s : k \in Nat \ {0}
  BY TailSteps
<1>3. j # 1 /\ j \in Nat /\ j >= 1 + 1
  BY <1>1, <1>2
<1>4. \A k \in DOMAIN s : 1 + 1 <= k /\ k < j => s[k].do # "check"
  BY <1>1, <1>2
<1>5. AwaitedFrom(op, s, 1 + 1)
  BY <1>1, <1>3, <1>4 DEF AwaitedFrom
<1>6. AwaitedFrom(op, Tail(s), 1)
  BY <1>5, AwaitedTail
<1>7. Head(s).do # "check"
  BY <1>1, <1>2, <1>3
<1>8. QED
  BY <1>6, <1>7

LEMMA DrainsTail ==
  ASSUME NEW s, s \in Seq(Range(s)), s # <<>>, Drains(s)
  PROVE  Drains(Tail(s))
<1>1. SUFFICES ASSUME NEW i \in DOMAIN Tail(s), Tail(s)[i].do = "submit"
               PROVE  AwaitedFrom(Tail(s)[i].op, Tail(s), i + 1)
  BY DEF Drains
<1>2. i \in Nat \ {0} /\ i + 1 \in DOMAIN s /\ s[i + 1] = Tail(s)[i]
  BY TailSteps
<1>3. AwaitedFrom(s[i + 1].op, s, (i + 1) + 1)
  BY <1>1, <1>2 DEF Drains
<1>4. i + 1 \in Nat \ {0}
  BY <1>2
<1>5. AwaitedFrom(s[i + 1].op, Tail(s), i + 1)
  BY <1>3, <1>4, AwaitedTail
<1>6. QED
  BY <1>2, <1>5
----------------------------------------------------------------------------
(* The queue                                                               *)

LEMMA Removed ==
  ASSUME NEW q, q \in Seq(Range(q)), NEW i \in DOMAIN q
  PROVE  LET r == RemoveAt(q, i)
         IN r \in Seq(Range(r)) /\ \A j \in DOMAIN r : \E k \in DOMAIN q : r[j] = q[k]
<1> DEFINE T == Range(q)
           u == SubSeq(q, 1, i - 1)
           v == SubSeq(q, i + 1, Len(q))
<1>1. Len(q) \in Nat /\ DOMAIN q = 1 .. Len(q) /\ i \in 1 .. Len(q)
  <2> HIDE DEF T
  <2>1. q \in Seq(T) BY DEF T
  <2>2. QED BY <2>1, LenProperties
<1>2. \A k \in 1 .. Len(q) : q[k] \in T
  BY <1>1 DEF Range
<1>3. u \in Seq(T)
  <2>1. \A k \in 1 .. i - 1 : q[k] \in T
    BY <1>1, <1>2
  <2> HIDE DEF T
  <2>2. QED BY <1>1, <2>1, SubSeqProperties
<1>4. v \in Seq(T)
  <2>1. \A k \in i + 1 .. Len(q) : q[k] \in T
    BY <1>1, <1>2
  <2> HIDE DEF T
  <2>2. QED BY <1>1, <2>1, SubSeqProperties
<1>5. u \o v \in Seq(T)
  <2> HIDE DEF T, u, v
  <2>1. QED BY <1>3, <1>4, ConcatProperties
<1>6. RemoveAt(q, i) = u \o v
  BY DEF RemoveAt
<1> HIDE DEF u, v
<1>7. \A j \in DOMAIN (u \o v) : (u \o v)[j] \in T
  <2> HIDE DEF T
  <2>1. QED BY <1>5, LenProperties, ElementOfSeq
<1>8. \A x \in T : \E k \in DOMAIN q : x = q[k]
  BY DEF Range
<1> HIDE DEF T
<1>9. u \o v \in Seq(Range(u \o v))
  BY <1>5, InRange
<1>10. QED
  BY <1>6, <1>7, <1>8, <1>9

LEMMA Appended ==
  ASSUME NEW q, q \in Seq(Range(q)), NEW e
  PROVE  LET r == Append(q, e)
         IN r \in Seq(Range(r)) /\ \A j \in DOMAIN r : r[j] = e \/ \E k \in DOMAIN q : r[j] = q[k]
<1> DEFINE T == Range(q) \cup {e}
           r == Append(q, e)
<1>1. q \in Seq(T) /\ e \in T
  BY SeqMonotonic
<1>2. \A x \in T : x = e \/ \E k \in DOMAIN q : x = q[k]
  BY DEF Range
<1> HIDE DEF T
<1>3. r \in Seq(T)
  BY <1>1, AppendProperties
<1> HIDE DEF r
<1>4. \A j \in DOMAIN r : r[j] \in T
  BY <1>3, LenProperties, ElementOfSeq
<1>5. r \in Seq(Range(r))
  BY <1>3, InRange
<1>6. QED
  BY <1>2, <1>4, <1>5 DEF r

\* A sequence of the same length, of other operations.
LEMMA Mapped ==
  ASSUME NEW q, q \in Seq(Range(q)), NEW r, DOMAIN r = DOMAIN q, r = [j \in DOMAIN r |-> r[j]]
  PROVE  r \in Seq(Range(r))
<1> DEFINE T == Range(q)
<1>1. q \in Seq(T) OBVIOUS
<1> HIDE DEF T
<1>2. Len(q) \in Nat /\ DOMAIN q = 1 .. Len(q)
  BY <1>1, LenProperties
<1>3. r \in [1 .. Len(q) -> Range(r)]
  BY <1>2 DEF Range
<1> HIDE DEF T
<1>4. QED
  BY <1>2, <1>3, SeqDef

LEMMA NothingLeft ==
  ASSUME NEW q, q \in Seq(Range(q)), q # <<>>
  PROVE  1 \in DOMAIN q
BY TailSteps
----------------------------------------------------------------------------
(* The invariant                                                           *)

LEMMA SettlesInit == Init => Settles
<1>1. SUFFICES ASSUME Init PROVE Settles
  OBVIOUS
<1>2. <<>> \in Seq(Range(<<>>)) /\ DOMAIN <<>> = {}
  BY EmptySeq
<1>3. QED
  BY <1>1, <1>2 DEF Init, Settles, Drains

\* The host takes a step that leaves the queue as it is.
LEMMA AdvanceSettles ==
  ASSUME Settles, call # "none", code # <<>>, Advance, queue' = queue,
         Head(code).do # "wait",
         \A i \in DOMAIN queue :
           Head(code).do = "access" => Writes(queue[i].op) \cap Head(code).what = {}
  PROVE  Settles'
<1>1. /\ code \in Seq(Range(code)) /\ Drains(code)
      /\ queue \in Seq(Range(queue))
      /\ backend \in Backends
  BY DEF Settles
<1>2. code' = Tail(code) /\ backend' = backend /\ call' = call
  BY DEF Advance, stable, driver
<1>3. Tail(code) \in Seq(Range(Tail(code))) /\ Drains(Tail(code))
  BY <1>1, TailSteps, DrainsTail
<1>4. \A i \in DOMAIN queue : AwaitedFrom(queue[i].op, Tail(code), 1)
  BY <1>1, AwaitedLater DEF Settles
<1>5. QED
  BY <1>1, <1>2, <1>3, <1>4 DEF Settles

\* Between two methods the queue is empty.
LEMMA SettlesBlocking == Settles => Blocking
<1>1. SUFFICES ASSUME Settles, call = "none" PROVE queue = <<>>
  BY DEF Blocking
<1>2. code = <<>> /\ DOMAIN code = {}
  BY <1>1 DEF Settles
<1>3. \A op : ~AwaitedFrom(op, code, 1)
  BY <1>2 DEF AwaitedFrom
<1>4. DOMAIN queue = {} /\ queue \in Seq(Range(queue))
  BY <1>1, <1>3 DEF Settles
<1>5. QED
  BY <1>4, NothingLeft

LEMMA EnterSettles ==
  ASSUME ProgramsDrain, Settles, NEW c \in Call, NEW from, Enter(c, from)
  PROVE  Settles'
<1>1. queue = <<>> /\ queue' = queue /\ DOMAIN queue = {}
  BY SettlesBlocking DEF Enter, Blocking, store
<1>2. backend \in Backends /\ backend' = backend
  BY DEF Settles, Enter, stable
<1>3. code' \in Seq(Range(code')) /\ Drains(code')
  BY <1>2, ProgramsTyped DEF Enter, ProgramsDrain
<1>4. call' # "none"
  BY DEF Enter, Call, Kernel, ArrayKernels
<1>5. queue \in Seq(Range(queue))
  BY DEF Settles
<1>6. QED
  BY <1>1, <1>2, <1>3, <1>4, <1>5 DEF Settles

LEMMA DriverSettles ==
  ASSUME ProgramsDrain, Settles, Driver
  PROVE  Settles'
<1>1. CASE Compare
  BY <1>1 DEF Compare, Settles, stable, store
<1>2. CASE Enumerate \/ Construct \/ TakeArrays \/ Destroy
  BY <1>2, EnterSettles DEF Enumerate, Construct, TakeArrays, Destroy, Call
<1>3. ASSUME NEW k \in Callable(backend), CallKernel(k) PROVE Settles'
  <2>1. k \in Call
    BY <1>3, ProgramsTyped DEF Settles, Call
  <2>2. QED
    BY <1>3, <2>1, EnterSettles DEF CallKernel
<1>4. QED
  BY <1>1, <1>2, <1>3 DEF Driver

LEMMA ReturnSettles == ASSUME Settles, Return PROVE Settles'
BY DEF Return, Settles, stable, store

\* A check throws when nothing is pending.
LEMMA RefuseSettles == ASSUME Settles, Refuse PROVE Settles'
<1>1. queue = <<>>
  <2>1. /\ code # <<>> /\ Head(code).do = "check"
        /\ code \in Seq(Range(code)) /\ queue \in Seq(Range(queue))
    BY DEF Settles, Refuse, AtStep
  <2>2. \A i \in DOMAIN queue : ~AwaitedFrom(queue[i].op, code, 1)
    BY <2>1, AwaitedLater
  <2>3. DOMAIN queue = {}
    BY <2>2 DEF Settles
  <2>4. QED
    BY <2>1, <2>3, NothingLeft
<1>2. code' = <<>> /\ queue' = queue /\ backend' = backend /\ DOMAIN <<>> = {}
  BY DEF Refuse, stable, store
<1>3. <<>> \in Seq(Range(<<>>))
  BY EmptySeq
<1>4. QED
  BY <1>1, <1>2, <1>3 DEF Settles, Drains

LEMMA SubmitSettles == ASSUME Settles, DoSubmit PROVE Settles'
<1> DEFINE e == [op |-> Head(code).op, on |-> current]
<1>1. /\ call # "none" /\ code # <<>> /\ Head(code).do = "submit"
      /\ code' = Tail(code) /\ queue' = Append(queue, e)
      /\ backend' = backend /\ call' = call
  BY DEF DoSubmit, AtStep, Advance, stable, driver
<1>2. /\ code \in Seq(Range(code)) /\ Drains(code)
      /\ queue \in Seq(Range(queue)) /\ backend \in Backends
  BY DEF Settles
<1>3. Tail(code) \in Seq(Range(Tail(code))) /\ Drains(Tail(code))
  BY <1>1, <1>2, TailSteps, DrainsTail
<1>4. 1 \in DOMAIN code /\ code[1] = Head(code)
  BY <1>1, <1>2, TailSteps
<1>5. AwaitedFrom(Head(code).op, code, 1 + 1)
  BY <1>1, <1>2, <1>4 DEF Drains
<1>6. AwaitedFrom(Head(code).op, Tail(code), 1)
  BY <1>1, <1>2, <1>5, AwaitedTail
<1>7. \A i \in DOMAIN queue : AwaitedFrom(queue[i].op, Tail(code), 1)
  BY <1>1, <1>2, AwaitedLater DEF Settles
<1>8. /\ queue' \in Seq(Range(queue'))
      /\ \A j \in DOMAIN queue' : queue'[j] = e \/ \E k \in DOMAIN queue : queue'[j] = queue[k]
  <2> HIDE DEF e
  <2>1. QED BY <1>1, <1>2, Appended
<1>9. \A j \in DOMAIN queue' : AwaitedFrom(queue'[j].op, Tail(code), 1)
  BY <1>6, <1>7, <1>8
<1>10. QED
  BY <1>1, <1>2, <1>3, <1>6, <1>8, <1>9 DEF Settles

LEMMA WaitSettles == ASSUME Settles, DoWait PROVE Settles'
<1>1. /\ code # <<>> /\ code' = Tail(code) /\ queue = <<>> /\ queue' = queue
      /\ backend' = backend /\ call' = call /\ call # "none"
  BY DEF DoWait, AtStep, Advance, Drained, stable, driver, store
<1>2. /\ code \in Seq(Range(code)) /\ Drains(code)
      /\ queue \in Seq(Range(queue)) /\ backend \in Backends
  BY DEF Settles
<1>3. Tail(code) \in Seq(Range(Tail(code))) /\ Drains(Tail(code))
  BY <1>1, <1>2, TailSteps, DrainsTail
<1>4. DOMAIN queue = {}
  BY <1>1
<1>5. QED
  BY <1>1, <1>2, <1>3, <1>4 DEF Settles

\* What is pending under another name is awaited by a full wait.
LEMMA RenameSettles == ASSUME Settles, DoRename PROVE Settles'
<1>1. /\ call # "none" /\ code # <<>> /\ Head(code).do = "rename"
      /\ code' = Tail(code) /\ backend' = backend /\ call' = call
      /\ DOMAIN queue' = DOMAIN queue /\ queue' = [j \in DOMAIN queue' |-> queue'[j]]
  BY DEF DoRename, AtStep, Advance, stable, driver
<1>2. /\ code \in Seq(Range(code)) /\ Drains(code)
      /\ queue \in Seq(Range(queue)) /\ backend \in Backends
  BY DEF Settles
<1>3. Tail(code) \in Seq(Range(Tail(code))) /\ Drains(Tail(code))
  BY <1>1, <1>2, TailSteps, DrainsTail
<1>4. queue' \in Seq(Range(queue'))
  BY <1>1, <1>2, Mapped
<1>5. ASSUME NEW i \in DOMAIN queue, NEW op PROVE AwaitedFrom(op, Tail(code), 1)
  <2>1. AwaitedFrom(queue[i].op, code, 1)
    BY DEF Settles
  <2>2. 1 \in DOMAIN code /\ code[1].do = "rename"
    BY <1>1, <1>2, TailSteps
  <2>3. AwaitedFrom(op, code, 1)
    BY <2>1, <2>2 DEF AwaitedFrom
  <2>4. QED
    BY <1>1, <1>2, <2>3, AwaitedLater
<1>6. \A i \in DOMAIN queue' : AwaitedFrom(queue'[i].op, Tail(code), 1)
  BY <1>1, <1>5
<1>7. QED
  BY <1>1, <1>2, <1>3, <1>4, <1>6 DEF Settles

LEMMA ExecuteSettles == ASSUME Settles, Execute PROVE Settles'
<1>1. PICK i \in DOMAIN queue : queue' = RemoveAt(queue, i)
  BY DEF Execute
<1>2. code' = code /\ backend' = backend /\ call' = call
  BY DEF Execute, stable, driver
<1>3. queue \in Seq(Range(queue))
  BY DEF Settles
<1>4. /\ queue' \in Seq(Range(queue'))
      /\ \A j \in DOMAIN queue' : \E k \in DOMAIN queue : queue'[j] = queue[k]
  BY <1>1, <1>3, Removed
<1>5. QED
  BY <1>2, <1>4 DEF Settles

LEMMA StepSettles == ASSUME Settles, Step PROVE Settles'
<1>1. CASE DoAcquire \/ DoRetain \/ DoRelease \/ DoSelect \/ DoList \/ Passes
  BY <1>1, AdvanceSettles
     DEF DoAcquire, DoRetain, DoRelease, DoSelect, DoList, Passes, AtStep, store
<1>2. CASE DoLeave \/ DoRun \/ DoSum \/ DoHandOut
  BY <1>2, AdvanceSettles DEF DoLeave, DoRun, DoSum, DoHandOut, AtStep, store
<1>3. CASE DoAccess
  BY <1>3, AdvanceSettles DEF DoAccess, AtStep, store
<1>4. QED
  BY <1>1, <1>2, <1>3, RefuseSettles, SubmitSettles, WaitSettles, RenameSettles DEF Step

LEMMA NextSettles == ASSUME ProgramsDrain, Settles, [Next]_vars PROVE Settles'
<1>1. CASE UNCHANGED vars
  BY <1>1 DEF vars, stable, driver, store, Settles
<1>2. QED
  BY <1>1, DriverSettles, StepSettles, ReturnSettles, ExecuteSettles DEF Next

\* Whatever is pending or will be submitted, the method the host is in waits for.
THEOREM SessionsSettle ==
  ASSUME ProgramsDrain
  PROVE  Spec => []Settles
<1>1. Init => Settles
  BY SettlesInit
<1>2. Settles /\ [Next]_vars => Settles'
  BY NextSettles
<1>3. QED
  BY <1>1, <1>2, PTL DEF Spec

\* "These must be blocking calls" (Stream.h:33), whatever the backend's methods
\* are made of, if each of them waits for what it submits.
THEOREM SessionsBlock ==
  ASSUME ProgramsDrain
  PROVE  Spec => []Blocking
<1>1. Spec => []Settles
  BY SessionsSettle
<1>2. Settles => Blocking
  BY SettlesBlocking
<1>3. QED
  BY <1>1, <1>2, PTL
----------------------------------------------------------------------------
(* Types                                                                   *)

DriverTyped ==
  /\ backend \in Backends /\ machine \in Machines(backend)
  /\ phase \in {"start", "ready", "given", "compared", "gone", "listed", "refused"}
  /\ call \in Call \cup {"none"} /\ calls \in 0 .. MaxCalls

CodeTyped ==
  code \in Seq(Range(code)) /\ \A i \in DOMAIN code : IsStep(code[i], Thing(backend))

ObjectsTyped ==
  /\ held \in [Thing(backend) -> [refs : Nat, by : Allocator \cup {"nobody"}, on : Int]]
  /\ data \in [Thing(backend) -> Val]

DevicesTyped ==
  current \in Nat /\ cached \in BOOLEAN /\ devices \in Seq(0 .. machine.devices - 1)

QueueTyped ==
  /\ queue \in Seq(Range(queue))
  /\ \A i \in DOMAIN queue : /\ queue[i] = [op |-> queue[i].op, on |-> queue[i].on]
                            /\ IsOperation(queue[i].op, Thing(backend)) /\ queue[i].on \in Nat

ResultsTyped ==
  /\ locked \subseteq Thing(backend) /\ arrays \in [Idx(1) -> Cell] /\ sum \in Val
  /\ \E n \in {0, 1} : seen \in [Idx(n) -> Cell]

\* The pointers are there when get_arrays returns.
PointersTyped ==
  /\ phase = "given" => given \in [Field -> Thing(backend)]
  /\ call = "get_arrays" => \/ given \in [Field -> Thing(backend)]
                            \/ \E i \in DOMAIN code : code[i].do = "arrays"

\* What makes TypeOK inductive: the steps to come and the work that is pending
\* are well-typed too.
Typed == /\ DriverTyped /\ CodeTyped /\ ObjectsTyped /\ DevicesTyped
         /\ QueueTyped /\ ResultsTyped /\ PointersTyped

LEMMA TypedTypeOK == Typed => TypeOK
<1>1. SUFFICES ASSUME Typed PROVE TypeOK
  OBVIOUS
<1>2. \A i \in DOMAIN devices : devices[i] \in 0 .. machine.devices - 1
  BY <1>1, ElementOfSeq, LenProperties DEF Typed, DevicesTyped
<1>3. QED
  BY <1>1, <1>2 DEF Typed, TypeOK, DriverTyped, ObjectsTyped, DevicesTyped, QueueTyped, ResultsTyped

LEMMA CellOfFields ==
  ASSUME NEW f \in [Field -> Val]
  PROVE  f \in Cell
BY DEF Field, Cell

LEMMA EvaluateType ==
  ASSUME NEW things, NEW d \in [things -> Val], NEW e,
         e.k \in ArrayKernels \cup Field \cup {"Dot", "DotOnto", "zero"}, e.of \in [Field -> things]
  PROVE  Evaluate(e, d) \in Val
<1> DEFINE x == [f \in Field |-> d[e.of[f]]]
<1>1. x["a"] \in Val /\ x["b"] \in Val /\ x["c"] \in Val
  BY DEF Field
<1>2. DotOf([i \in Idx(1) |-> x]) \in Val
  <2>1. x \in [Field -> Val] /\ x \in Cell
    BY CellOfFields
  <2> HIDE DEF x
  <2> DEFINE m == [i \in Idx(1) |-> x]
  <2>2. m \in [Idx(1) -> Cell]
    BY <2>1
  <2> HIDE DEF m
  <2>3. [i \in DOMAIN m |-> Times(m[i].a, m[i].b)] \in [Idx(1) -> Val]
    BY <2>2, ValuesClosed DEF Cell
  <2>4. DotOf(m) \in Val
    BY <2>3, OneElement, SumOfClosed DEF DotOf
  <2>5. QED
    BY <2>4 DEF m
<1>3. OfInt(0) \in Val /\ startA \in Val /\ startB \in Val /\ startC \in Val /\ startScalar \in Val
  BY ValuesClosed
<1> HIDE DEF x
<1>4. CASE e.k \in ArrayKernels
  <2>1. Evaluate(e, d) = Written(e.k, x)
    BY <1>4 DEF Evaluate, x, ArrayKernels, Field
  <2>2. Written(e.k, x) \in Val
    BY <1>1, <1>3, <1>4, ValuesClosed DEF Written, ArrayKernels
  <2>3. QED
    BY <2>1, <2>2
<1>5. CASE e.k \in Field
  BY <1>3, <1>5 DEF Evaluate, ArrayKernels, Field, StartCell
<1>6. CASE e.k = "Dot"
  BY <1>2, <1>6 DEF Evaluate, ArrayKernels, Field, x
<1>7. CASE e.k = "DotOnto"
  BY <1>1, <1>2, <1>7, ValuesClosed DEF Evaluate, ArrayKernels, Field, x
<1>8. CASE e.k = "zero"
  BY <1>3, <1>8 DEF Evaluate, ArrayKernels, Field
<1>9. QED
  BY <1>4, <1>5, <1>6, <1>7, <1>8

LEMMA EffectType ==
  ASSUME ObjectsTyped, NEW op, IsOperation(op, Thing(backend))
  PROVE  Effect(op) \in [Thing(backend) -> Val]
<1>1. data \in [Thing(backend) -> Val] /\ DOMAIN data = Thing(backend)
  BY DEF ObjectsTyped
<1>2. ASSUME NEW x \in Writes(op) PROVE Evaluate(op[x], data) \in Val
  BY <1>1, <1>2, EvaluateType DEF IsOperation, Writes
<1>3. QED
  BY <1>1, <1>2 DEF Effect

LEMMA TypedInit == Init => Typed
<1>1. SUFFICES ASSUME Init PROVE Typed
  OBVIOUS
<1>2. <<>> \in Seq(Range(<<>>)) /\ DOMAIN <<>> = {} /\ <<>> \in Seq(0 .. machine.devices - 1)
  BY EmptySeq
<1>3. DriverTyped
  BY <1>1, OneElement DEF Init, DriverTyped
<1>4. CodeTyped /\ QueueTyped /\ DevicesTyped
  BY <1>1, <1>2 DEF Init, CodeTyped, QueueTyped, DevicesTyped
<1>5. ObjectsTyped
  <2>1. NotHeld \in [refs : Nat, by : Allocator \cup {"nobody"}, on : Int]
    BY DEF NotHeld, HostPlace
  <2>2. QED
    BY <1>1, <2>1, OneElement DEF Init, ObjectsTyped
<1>6. StartCell \in Cell /\ OfInt(0) \in Val
  BY ValuesClosed DEF StartCell, Cell
<1>7. seen \in [Idx(0) -> Cell]
  BY <1>1 DEF Init, Idx
<1>8. ResultsTyped
  BY <1>1, <1>6, <1>7 DEF Init, ResultsTyped
<1>9. PointersTyped
  BY <1>1 DEF Init, PointersTyped
<1>10. QED
  BY <1>3, <1>4, <1>5, <1>8, <1>9 DEF Typed

\* The step the host is at, and the steps after it.
LEMMA AtStepTyped ==
  ASSUME CodeTyped, NEW kind, AtStep(kind)
  PROVE  /\ code # <<>> /\ call # "none" /\ Head(code).do = kind
         /\ IsStep(Head(code), Thing(backend))
BY TailSteps DEF CodeTyped, AtStep

LEMMA AdvanceTyped ==
  ASSUME CodeTyped, code # <<>>, Advance
  PROVE  CodeTyped' /\ UNCHANGED <<stable, driver>> /\ backend' = backend
<1>1. /\ code' = Tail(code) /\ UNCHANGED <<stable, driver>> /\ backend' = backend
      /\ code \in Seq(Range(code))
  BY DEF Advance, stable, CodeTyped
<1>2. /\ Tail(code) \in Seq(Range(Tail(code)))
      /\ \A i \in DOMAIN Tail(code) : \E j \in DOMAIN code : Tail(code)[i] = code[j]
  BY <1>1, TailSteps
<1>3. QED
  BY <1>1, <1>2 DEF CodeTyped

\* Steps other than the one that hands out the pointers.
LEMMA AdvancePointers ==
  ASSUME CodeTyped, PointersTyped, code # <<>>, Advance, Head(code).do # "arrays", given' = given
  PROVE  PointersTyped'
<1>1. /\ code' = Tail(code) /\ UNCHANGED <<phase, call>> /\ backend' = backend
      /\ code \in Seq(Range(code))
  BY DEF Advance, stable, driver, CodeTyped
<1>2. (\E i \in DOMAIN code : code[i].do = "arrays") =>
        \E i \in DOMAIN Tail(code) : Tail(code)[i].do = "arrays"
  <2>1. SUFFICES ASSUME NEW i \in DOMAIN code, code[i].do = "arrays"
                 PROVE  \E j \in DOMAIN Tail(code) : Tail(code)[j].do = "arrays"
    OBVIOUS
  <2>2. i # 1 /\ i \in Nat \ {0}
    BY <1>1, <2>1, TailSteps
  <2>3. i - 1 \in DOMAIN Tail(code) /\ code[i] = Tail(code)[i - 1]
    BY <1>1, <2>2, TailSteps
  <2>4. QED
    BY <2>1, <2>3
<1>3. QED
  BY <1>1, <1>2, given' = given DEF PointersTyped

LEMMA ContentsType ==
  ASSUME DriverTyped, ObjectsTyped
  PROVE  Contents \in Cell
<1>1. Home(backend) \in [Field -> Thing(backend)]
  BY ProgramsTyped DEF DriverTyped
<1>2. Contents \in [Field -> Val]
  BY <1>1 DEF Contents, ObjectsTyped
<1>3. QED
  BY <1>2, CellOfFields

LEMMA EnterTyped ==
  ASSUME Typed, NEW c \in Call, NEW from, Enter(c, from), calls' \in 0 .. MaxCalls
  PROVE  Typed'
<1>1. /\ backend \in Backends /\ UNCHANGED <<backend, machine, phase, arrays, seen, store, choice, result>>
      /\ call' = c /\ code' = Program(backend, c)
  BY DEF Enter, stable, Typed, DriverTyped
<1>2. UNCHANGED <<held, data, queue, current, cached, devices, sum, given, locked>>
  BY <1>1 DEF store, choice, result
<1>3. CodeTyped' /\ DriverTyped'
  BY <1>1, ProgramsTyped DEF CodeTyped, DriverTyped, Typed
<1>4. PointersTyped'
  BY <1>1, <1>2, ProgramsTyped DEF PointersTyped, Typed
<1>5. ObjectsTyped' /\ DevicesTyped' /\ QueueTyped' /\ ResultsTyped'
  BY <1>1, <1>2 DEF Typed, ObjectsTyped, DevicesTyped, QueueTyped, ResultsTyped
<1>6. QED
  BY <1>3, <1>4, <1>5 DEF Typed

LEMMA DriverTypes == ASSUME Typed, Driver PROVE Typed'
<1>1. CASE Compare
  <2>1. /\ UNCHANGED <<backend, machine, call, calls, arrays, code, store, choice, result>>
        /\ phase' = "compared" /\ phase = "given" /\ call = "none"
        /\ seen' = [i \in Idx(1) |-> [f \in Field |-> data[given[f]]]]
    BY <1>1 DEF Compare, stable
  <2>2. UNCHANGED <<held, data, queue, current, cached, devices, sum, given, locked>>
    BY <2>1 DEF store, choice, result
  <2>3. [f \in Field |-> data[given[f]]] \in [Field -> Val]
    BY <2>1 DEF Typed, PointersTyped, ObjectsTyped
  <2>4. seen' \in [Idx(1) -> Cell]
    BY <2>1, <2>3, CellOfFields
  <2>5. ResultsTyped'
    BY <2>1, <2>2, <2>4 DEF Typed, ResultsTyped
  <2>6. DriverTyped' /\ CodeTyped' /\ PointersTyped'
    BY <2>1, <2>2 DEF Typed, DriverTyped, CodeTyped, PointersTyped
  <2>7. ObjectsTyped' /\ DevicesTyped' /\ QueueTyped'
    BY <2>1, <2>2 DEF Typed, ObjectsTyped, DevicesTyped, QueueTyped
  <2>8. QED
    BY <2>5, <2>6, <2>7 DEF Typed
<1>2. calls \in 0 .. MaxCalls
  BY DEF Typed, DriverTyped
<1>3. CASE Enumerate \/ Construct \/ TakeArrays \/ Destroy
  BY <1>2, <1>3, EnterTyped DEF Enumerate, Construct, TakeArrays, Destroy, Call
<1>4. ASSUME NEW k \in Callable(backend), CallKernel(k) PROVE Typed'
  <2>1. k \in Call /\ calls' \in 0 .. MaxCalls
    BY <1>2, <1>4, OneElement, ProgramsTyped DEF CallKernel, Typed, DriverTyped, Call
  <2>2. QED
    BY <1>4, <2>1, EnterTyped DEF CallKernel
<1>5. QED
  BY <1>1, <1>3, <1>4 DEF Driver

LEMMA ReturnTyped == ASSUME Typed, Return PROVE Typed'
<1>1. /\ UNCHANGED <<backend, machine, calls, seen, code, held, data, queue, current, cached, devices,
                     sum, given, locked>>
      /\ call' = "none" /\ phase' = PhaseAfter(call) /\ code = <<>> /\ call # "none"
  BY DEF Return, stable, store, choice, result
<1>2. Contents \in Cell
  BY ContentsType DEF Typed
<1>3. arrays' \in [Idx(1) -> Cell]
  BY <1>2 DEF Return, Typed, ResultsTyped
<1>4. DriverTyped'
  BY <1>1 DEF Typed, DriverTyped, PhaseAfter
<1>5. PointersTyped'
  <2>1. SUFFICES ASSUME PhaseAfter(call) = "given" PROVE given \in [Field -> Thing(backend)]
    BY <1>1 DEF PointersTyped
  <2>2. call = "get_arrays"
    BY <2>1 DEF PhaseAfter
  <2>3. DOMAIN code = {}
    BY <1>1
  <2>4. QED
    BY <2>2, <2>3 DEF Typed, PointersTyped
<1>6. CodeTyped' /\ ObjectsTyped' /\ DevicesTyped' /\ QueueTyped'
  BY <1>1 DEF Typed, CodeTyped, ObjectsTyped, DevicesTyped, QueueTyped
<1>7. ResultsTyped'
  BY <1>1, <1>3 DEF Typed, ResultsTyped
<1>8. QED
  BY <1>4, <1>5, <1>6, <1>7 DEF Typed

\* What every step but Refuse leaves well-typed.
LEMMA StepFrame ==
  ASSUME Typed, NEW kind, AtStep(kind), Advance
  PROVE  /\ CodeTyped' /\ DriverTyped' /\ UNCHANGED <<backend, machine, phase, call, arrays, seen>>
         /\ IsStep(Head(code), Thing(backend)) /\ Head(code).do = kind
         /\ kind # "arrays" /\ given' = given => PointersTyped'
<1>1. CodeTyped /\ PointersTyped
  BY DEF Typed
<1>2. code # <<>> /\ IsStep(Head(code), Thing(backend)) /\ Head(code).do = kind
  BY <1>1, AtStepTyped
<1>3. CodeTyped' /\ UNCHANGED <<backend, machine, phase, call, calls, arrays, seen>>
  BY <1>1, <1>2, AdvanceTyped DEF stable, driver
<1>4. DriverTyped'
  BY <1>3 DEF Typed, DriverTyped
<1>5. kind # "arrays" /\ given' = given => PointersTyped'
  BY <1>1, <1>2, AdvancePointers
<1>6. QED
  BY <1>2, <1>3, <1>4, <1>5

\* The objects.
LEMMA ObjectSteps ==
  ASSUME Typed, DoAcquire \/ DoRetain \/ DoRelease
  PROVE  Typed'
<1>1. PICK kind \in {"acquire", "retain", "release"} : AtStep(kind) /\ Advance
  BY DEF DoAcquire, DoRetain, DoRelease
<1>2. UNCHANGED <<queue, current, cached, devices, sum, given, locked>>
  BY DEF DoAcquire, DoRetain, DoRelease, choice, result
<1>3. /\ CodeTyped' /\ DriverTyped' /\ UNCHANGED <<backend, machine, phase, call, arrays, seen>>
      /\ IsStep(Head(code), Thing(backend)) /\ Head(code).do = kind /\ PointersTyped'
  BY <1>1, <1>2, StepFrame
<1>4. /\ held \in [Thing(backend) -> [refs : Nat, by : Allocator \cup {"nobody"}, on : Int]]
      /\ data \in [Thing(backend) -> Val] /\ current \in Nat
  BY DEF Typed, ObjectsTyped, DevicesTyped
<1>5. ObjectsTyped'
  <2>1. CASE DoAcquire
    <3>1. Head(code).by \in Allocator
      BY <1>3, <2>1 DEF IsStep, DoAcquire, AtStep
    <3>2. ASSUME NEW x \in Thing(backend)
          PROVE  [refs |-> held[x].refs + 1, by |-> Head(code).by,
                  on |-> IF Head(code).host THEN HostPlace ELSE current]
                   \in [refs : Nat, by : Allocator \cup {"nobody"}, on : Int]
      BY <1>4, <3>1 DEF HostPlace
    <3>3. QED
      BY <1>3, <1>4, <2>1, <3>2 DEF DoAcquire, ObjectsTyped
  <2>2. CASE DoRetain
    BY <1>3, <1>4, <2>2 DEF DoRetain, ObjectsTyped
  <2>3. CASE DoRelease
    <3>1. NotHeld \in [refs : Nat, by : Allocator \cup {"nobody"}, on : Int]
      BY DEF NotHeld, HostPlace
    <3>2. data' \in [Thing(backend) -> Val]
      BY <1>4, <2>3, OneElement DEF DoRelease
    <3>3. held' \in [Thing(backend) -> [refs : Nat, by : Allocator \cup {"nobody"}, on : Int]]
      <4>1. ASSUME NEW x \in Thing(backend), ~(held[x].refs <= 1)
            PROVE  [held[x] EXCEPT !.refs = @ - 1]
                     \in [refs : Nat, by : Allocator \cup {"nobody"}, on : Int]
        BY <1>4, <4>1
      <4>2. DOMAIN held = Thing(backend)
        BY <1>4
      <4> DEFINE gone == {x \in Head(code).what : held[x].refs <= 1}
      <4>3. held' = [x \in DOMAIN held |->
                       IF x \in gone THEN NotHeld
                       ELSE IF x \in Head(code).what THEN [held[x] EXCEPT !.refs = @ - 1]
                       ELSE held[x]]
        BY <2>3 DEF DoRelease
      <4>4. ASSUME NEW x \in Thing(backend)
            PROVE  held'[x] \in [refs : Nat, by : Allocator \cup {"nobody"}, on : Int]
        BY <1>4, <3>1, <4>1, <4>2, <4>3
      <4>5. DOMAIN held' = Thing(backend) /\ held' = [x \in DOMAIN held' |-> held'[x]]
        BY <4>2, <4>3
      <4> HIDE DEF gone
      <4>6. QED
        BY <4>4, <4>5
    <3>4. QED
      BY <1>3, <3>2, <3>3 DEF ObjectsTyped
  <2>4. QED
    BY <2>1, <2>2, <2>3
<1>6. DevicesTyped' /\ QueueTyped' /\ ResultsTyped'
  BY <1>2, <1>3 DEF Typed, DevicesTyped, QueueTyped, ResultsTyped
<1>7. QED
  BY <1>3, <1>5, <1>6 DEF Typed

LEMMA RenamedType ==
  ASSUME NEW things, NEW op, IsOperation(op, things), NEW x \in things, NEW y \in things
  PROVE  IsOperation(Renamed(op, x, y), things)
<1> DEFINE New(z) == IF z = x THEN y ELSE z
<1> DEFINE Old(z) == IF z = y /\ x \in DOMAIN op THEN x ELSE z
<1> DEFINE r == Renamed(op, x, y)
<1>1. r = [z \in {New(w) : w \in DOMAIN op} |->
             Value(op[Old(z)].k, [f \in Field |-> New(op[Old(z)].of[f])])]
  BY DEF Renamed
<1> HIDE DEF r
<1>2. DOMAIN r \subseteq things
  BY <1>1 DEF IsOperation
<1>3. ASSUME NEW z \in DOMAIN r
      PROVE  /\ r[z].k \in ArrayKernels \cup Field \cup {"Dot", "DotOnto", "zero"}
             /\ r[z].of \in [Field -> things]
  <2>1. Old(z) \in DOMAIN op
    BY <1>1
  <2> HIDE DEF Old
  <2>2. /\ op[Old(z)].k \in ArrayKernels \cup Field \cup {"Dot", "DotOnto", "zero"}
        /\ op[Old(z)].of \in [Field -> things]
    BY <2>1 DEF IsOperation
  <2>3. r[z].k = op[Old(z)].k /\ r[z].of = [f \in Field |-> New(op[Old(z)].of[f])]
    BY <1>1 DEF Value
  <2>4. QED
    BY <2>2, <2>3
<1>4. QED
  BY <1>2, <1>3 DEF IsOperation, r

LEMMA RenameTyped == ASSUME Typed, DoRename PROVE Typed'
<1> DEFINE x == Head(code).from
<1> DEFINE y == Head(code).to
<1>1. /\ AtStep("rename") /\ Advance /\ UNCHANGED <<current, cached, devices, sum, given, locked>>
      /\ held' = [held EXCEPT ![y] = held[x], ![x] = NotHeld]
      /\ data' = [data EXCEPT ![y] = data[x], ![x] = Garbage]
      /\ queue' = [i \in DOMAIN queue |-> [queue[i] EXCEPT !.op = Renamed(@, x, y)]]
  BY DEF DoRename, choice, result
<1>2. /\ CodeTyped' /\ DriverTyped' /\ UNCHANGED <<backend, machine, phase, call, arrays, seen>>
      /\ IsStep(Head(code), Thing(backend)) /\ Head(code).do = "rename" /\ PointersTyped'
  BY <1>1, StepFrame
<1>3. x \in Thing(backend) /\ y \in Thing(backend)
  BY <1>2 DEF IsStep
<1> HIDE DEF x, y
<1>4. ObjectsTyped'
  <2>1. NotHeld \in [refs : Nat, by : Allocator \cup {"nobody"}, on : Int] /\ Garbage \in Val
    BY OneElement DEF NotHeld, HostPlace
  <2>2. QED
    BY <1>1, <1>2, <1>3, <2>1 DEF Typed, ObjectsTyped
<1>5. QueueTyped'
  <2>1. queue \in Seq(Range(queue)) /\ \A i \in DOMAIN queue : IsOperation(queue[i].op, Thing(backend))
    BY DEF Typed, QueueTyped
  <2>2. DOMAIN queue' = DOMAIN queue /\ queue' = [i \in DOMAIN queue' |-> queue'[i]]
    BY <1>1
  <2>3. queue' \in Seq(Range(queue'))
    BY <2>1, <2>2, Mapped
  <2>4. ASSUME NEW i \in DOMAIN queue'
        PROVE  /\ queue'[i] = [op |-> queue'[i].op, on |-> queue'[i].on]
               /\ IsOperation(queue'[i].op, Thing(backend)) /\ queue'[i].on \in Nat
    <3>1. /\ queue'[i] = [queue[i] EXCEPT !.op = Renamed(@, x, y)]
          /\ queue[i] = [op |-> queue[i].op, on |-> queue[i].on] /\ queue[i].on \in Nat
      BY <1>1, <2>2 DEF Typed, QueueTyped
    <3>2. IsOperation(Renamed(queue[i].op, x, y), Thing(backend))
      BY <1>3, <2>1, <2>2, RenamedType
    <3>3. queue'[i] = [op |-> Renamed(queue[i].op, x, y), on |-> queue[i].on]
      BY <3>1
    <3>4. QED
      BY <3>1, <3>2, <3>3
  <2>5. QED
    BY <1>2, <2>3, <2>4 DEF QueueTyped
<1>6. DevicesTyped' /\ ResultsTyped'
  BY <1>1, <1>2 DEF Typed, DevicesTyped, ResultsTyped
<1>7. QED
  BY <1>2, <1>4, <1>5, <1>6 DEF Typed

LEMMA PresentType ==
  ASSUME Typed
  PROVE  /\ machine.index \in Nat /\ machine.devices \in Nat
         /\ Present \in Seq(0 .. machine.devices - 1) /\ Len(Present) = machine.devices
<1>1. machine.index \in Nat /\ machine.devices \in Nat
  BY MachinesCounted DEF Typed, DriverTyped
<1>2. Present \in [1 .. machine.devices -> 0 .. machine.devices - 1]
  BY <1>1 DEF Present
<1>3. QED
  BY <1>1, <1>2, SeqDef, LenProperties DEF Present

\* The device and the list of devices.
LEMMA DeviceSteps ==
  ASSUME Typed, DoSelect \/ DoList
  PROVE  Typed'
<1>1. PICK kind \in {"select", "list"} : AtStep(kind) /\ Advance
  BY DEF DoSelect, DoList
<1>2. UNCHANGED <<held, data, queue, sum, given, locked>>
  BY DEF DoSelect, DoList, store, result
<1>3. /\ CodeTyped' /\ DriverTyped' /\ UNCHANGED <<backend, machine, phase, call, arrays, seen>>
      /\ PointersTyped'
  BY <1>1, <1>2, StepFrame
<1>4. DevicesTyped'
  <2>1. /\ machine.index \in Nat /\ Present \in Seq(0 .. machine.devices - 1)
        /\ devices \in Seq(0 .. machine.devices - 1)
        /\ <<>> \in Seq(0 .. machine.devices - 1) /\ current \in Nat /\ cached \in BOOLEAN
    BY PresentType, EmptySeq DEF Typed, DevicesTyped
  <2>2. devices \o Present \in Seq(0 .. machine.devices - 1)
    BY <2>1, ConcatProperties
  <2>3. CASE DoSelect
    BY <1>3, <2>1, <2>3 DEF DoSelect, DevicesTyped
  <2>4. CASE DoList
    <3>1. devices' \in {<<>>, devices, devices \o Present, Present}
      BY <2>4 DEF DoList
    <3>2. cached' \in BOOLEAN /\ current' = current
      BY <2>4 DEF DoList
    <3>3. QED
      BY <1>3, <2>1, <2>2, <3>1, <3>2 DEF DevicesTyped
  <2>5. QED
    BY <2>3, <2>4
<1>5. ObjectsTyped' /\ QueueTyped' /\ ResultsTyped'
  BY <1>2, <1>3 DEF Typed, ObjectsTyped, QueueTyped, ResultsTyped
<1>6. QED
  BY <1>3, <1>4, <1>5 DEF Typed

LEMMA RefuseTyped == ASSUME Typed, Refuse PROVE Typed'
<1>1. /\ UNCHANGED <<backend, machine, calls, arrays, seen, held, data, queue, current, cached, devices,
                     sum, given, locked>>
      /\ phase' = "refused" /\ call' = "none" /\ code' = <<>>
  BY DEF Refuse, stable, store, choice, result
<1>2. <<>> \in Seq(Range(<<>>)) /\ DOMAIN <<>> = {}
  BY EmptySeq
<1>3. DriverTyped' /\ CodeTyped' /\ PointersTyped'
  BY <1>1, <1>2 DEF Typed, DriverTyped, CodeTyped, PointersTyped
<1>4. ObjectsTyped' /\ DevicesTyped' /\ QueueTyped' /\ ResultsTyped'
  BY <1>1 DEF Typed, ObjectsTyped, DevicesTyped, QueueTyped, ResultsTyped
<1>5. QED
  BY <1>3, <1>4 DEF Typed

LEMMA SubmitTyped == ASSUME Typed, DoSubmit PROVE Typed'
<1> DEFINE e == [op |-> Head(code).op, on |-> current]
<1>1. /\ AtStep("submit") /\ Advance /\ queue' = Append(queue, e)
      /\ UNCHANGED <<held, data, current, cached, devices, sum, given, locked>>
  BY DEF DoSubmit, choice, result
<1>2. /\ CodeTyped' /\ DriverTyped' /\ UNCHANGED <<backend, machine, phase, call, arrays, seen>>
      /\ IsStep(Head(code), Thing(backend)) /\ Head(code).do = "submit" /\ PointersTyped'
  BY <1>1, StepFrame
<1>3. /\ IsOperation(e.op, Thing(backend)) /\ e.on \in Nat /\ e = [op |-> e.op, on |-> e.on]
  BY <1>2 DEF IsStep, Typed, DevicesTyped
<1>4. QueueTyped'
  <2> HIDE DEF e
  <2>1. queue \in Seq(Range(queue))
    BY DEF Typed, QueueTyped
  <2>2. /\ queue' \in Seq(Range(queue'))
        /\ \A j \in DOMAIN queue' : queue'[j] = e \/ \E k \in DOMAIN queue : queue'[j] = queue[k]
    BY <1>1, <2>1, Appended
  <2>3. QED
    BY <1>2, <1>3, <2>2 DEF Typed, QueueTyped
<1>5. ObjectsTyped' /\ DevicesTyped' /\ ResultsTyped'
  BY <1>1, <1>2 DEF Typed, ObjectsTyped, DevicesTyped, ResultsTyped
<1>6. QED
  BY <1>2, <1>4, <1>5 DEF Typed

\* What the host does itself, and what it waits for.
LEMMA HostSteps ==
  ASSUME Typed, Passes \/ DoWait \/ DoAccess \/ DoLeave \/ DoRun \/ DoSum
  PROVE  Typed'
<1>1. PICK kind \in {"check", "wait", "access", "leave", "run", "sum"} : AtStep(kind) /\ Advance
  BY DEF Passes, DoWait, DoAccess, DoLeave, DoRun, DoSum
<1>2. UNCHANGED <<held, queue, current, cached, devices, given>>
  BY DEF Passes, DoWait, DoAccess, DoLeave, DoRun, DoSum, store, choice, result
<1>3. /\ CodeTyped' /\ DriverTyped' /\ UNCHANGED <<backend, machine, phase, call, arrays, seen>>
      /\ IsStep(Head(code), Thing(backend)) /\ Head(code).do = kind /\ PointersTyped'
  BY <1>1, <1>2, StepFrame
<1>4. data' \in [Thing(backend) -> Val]
  <2>1. CASE DoRun
    <3>1. IsOperation(Head(code).op, Thing(backend)) /\ data' = Effect(Head(code).op)
      BY <1>3, <2>1 DEF DoRun, AtStep, IsStep
    <3>2. QED
      BY <3>1, EffectType DEF Typed
  <2>2. CASE ~DoRun
    BY <2>2 DEF Typed, ObjectsTyped, Passes, DoWait, DoAccess, DoLeave, DoSum, store
  <2>3. QED
    BY <2>1, <2>2
<1>5. sum' \in Val /\ locked' \subseteq Thing(backend)
  <2>1. sum \in Val /\ locked \subseteq Thing(backend) /\ data \in [Thing(backend) -> Val]
    BY DEF Typed, ResultsTyped, ObjectsTyped
  <2>2. CASE DoSum
    BY <1>3, <2>1, <2>2 DEF DoSum, AtStep, IsStep
  <2>3. CASE DoAccess
    BY <1>3, <2>1, <2>3 DEF DoAccess, AtStep, IsStep
  <2>4. CASE DoLeave
    BY <2>1, <2>4 DEF DoLeave
  <2>5. CASE Passes \/ DoWait \/ DoRun
    BY <2>1, <2>5 DEF Passes, DoWait, DoRun, result
  <2>6. QED
    BY <2>2, <2>3, <2>4, <2>5
<1>6. ObjectsTyped' /\ ResultsTyped'
  BY <1>2, <1>3, <1>4, <1>5 DEF Typed, ObjectsTyped, ResultsTyped
<1>7. DevicesTyped' /\ QueueTyped'
  BY <1>2, <1>3 DEF Typed, DevicesTyped, QueueTyped
<1>8. QED
  BY <1>3, <1>6, <1>7 DEF Typed

LEMMA HandOutTyped == ASSUME Typed, DoHandOut PROVE Typed'
<1>1. /\ AtStep("arrays") /\ Advance /\ given' = Head(code).from
      /\ UNCHANGED <<held, data, queue, current, cached, devices, sum, locked>>
  BY DEF DoHandOut, store, choice
<1>2. /\ CodeTyped' /\ DriverTyped' /\ UNCHANGED <<backend, machine, phase, call, arrays, seen>>
      /\ IsStep(Head(code), Thing(backend)) /\ Head(code).do = "arrays"
  BY <1>1, StepFrame
<1>3. given' \in [Field -> Thing(backend)]
  BY <1>1, <1>2 DEF IsStep
<1>4. PointersTyped' /\ ResultsTyped'
  BY <1>1, <1>2, <1>3 DEF Typed, PointersTyped, ResultsTyped
<1>5. ObjectsTyped' /\ DevicesTyped' /\ QueueTyped'
  BY <1>1, <1>2 DEF Typed, ObjectsTyped, DevicesTyped, QueueTyped
<1>6. QED
  BY <1>2, <1>4, <1>5 DEF Typed

LEMMA ExecuteTyped == ASSUME Typed, Execute PROVE Typed'
<1>1. PICK i \in DOMAIN queue : data' = Effect(queue[i].op) /\ queue' = RemoveAt(queue, i)
  BY DEF Execute
<1>2. UNCHANGED <<backend, machine, phase, call, calls, arrays, seen, code, held, current, cached, devices,
                 sum, given, locked>>
  BY DEF Execute, stable, driver, choice, result
<1>3. queue \in Seq(Range(queue)) /\ IsOperation(queue[i].op, Thing(backend))
  BY DEF Typed, QueueTyped
<1>4. /\ queue' \in Seq(Range(queue'))
      /\ \A j \in DOMAIN queue' : \E k \in DOMAIN queue : queue'[j] = queue[k]
  BY <1>1, <1>3, Removed
<1>5. data' \in [Thing(backend) -> Val]
  BY <1>1, <1>3, EffectType DEF Typed
<1>6. QueueTyped' /\ ObjectsTyped'
  BY <1>2, <1>4, <1>5 DEF Typed, QueueTyped, ObjectsTyped
<1>7. DriverTyped' /\ CodeTyped' /\ DevicesTyped' /\ ResultsTyped' /\ PointersTyped'
  BY <1>2 DEF Typed, DriverTyped, CodeTyped, DevicesTyped, ResultsTyped, PointersTyped
<1>8. QED
  BY <1>6, <1>7 DEF Typed

LEMMA TypedNext == ASSUME Typed, [Next]_vars PROVE Typed'
<1>1. CASE UNCHANGED vars
  BY <1>1 DEF vars, stable, driver, store, choice, result, Typed, DriverTyped, CodeTyped,
              ObjectsTyped, DevicesTyped, QueueTyped, ResultsTyped, PointersTyped
<1>2. CASE Step
  BY <1>2, ObjectSteps, RenameTyped, DeviceSteps, RefuseTyped, SubmitTyped, HostSteps, HandOutTyped
     DEF Step
<1>3. QED
  BY <1>1, <1>2, DriverTypes, ReturnTyped, ExecuteTyped DEF Next

LEMMA SessionsTyped == Spec => []Typed
BY TypedInit, TypedNext, PTL DEF Spec

\* Every variable of a session has its type.
THEOREM SessionTypes == Spec => []TypeOK
BY SessionsTyped, TypedTypeOK, PTL
----------------------------------------------------------------------------
(* The device                                                              *)

\* Steps that put something on the current device.
Places(s) == s.do = "submit" \/ (s.do = "acquire" /\ ~s.host)

NeverSelects(steps) == \A i \in DOMAIN steps : steps[i].do # "select"

NeverPlaces(steps) == \A i \in DOMAIN steps : ~Places(steps[i])

\* The device is selected before anything is put on one.
SelectsFirst(steps) ==
  \E i \in DOMAIN steps : /\ steps[i].do = "select"
                          /\ \A j \in DOMAIN steps : j < i => ~Places(steps[j])

\* The number of the device is compared with their count before the selection
\* and before any work.
CountsFirst(steps) ==
  \E i \in DOMAIN steps : /\ steps[i].do = "check" /\ steps[i].why = "count"
                          /\ \A j \in DOMAIN steps : j < i => steps[j].do \notin {"select", "submit"}

\* On a machine where more than the first device may be asked for, a backend
\* leaves all to the first, or selects before it places anything; or it
\* allocates before, and refuses a device that is not there.
ProgramsSelect ==
  \A b \in Backends : \A m \in Machines(b) :
    \/ m.index = 0
    \/ ~Selects(b) /\ \A c \in Call : NeverSelects(Program(b, c))
    \/ SelectsFirst(Program(b, "construct")) /\ NeverPlaces(Program(b, "list"))
    \/ /\ m.index >= m.devices /\ CountsFirst(Program(b, "construct"))
       /\ NeverSelects(Program(b, "list")) /\ NeverPlaces(Program(b, "list"))

\* The device of --device is the current one, for good.
Chosen ==
  \/ current = machine.index
  \/ /\ ~Selects(backend) /\ NeverSelects(code)
     /\ \A c \in Call : NeverSelects(Program(backend, c))

Early == phase \in {"start", "listed", "refused"} /\ call \in {"none", "list", "construct"}

\* No device is chosen yet, and nothing is on one.
Unplaced ==
  /\ Early /\ \A x \in Thing(backend) : held[x].on = HostPlace
  /\ SelectsFirst(Program(backend, "construct")) /\ NeverPlaces(Program(backend, "list"))
  /\ call = "construct" => SelectsFirst(code)
  /\ call = "list" => NeverPlaces(code)

\* The constructor is going to throw.
Doomed ==
  /\ Early /\ machine.index >= machine.devices
  /\ CountsFirst(Program(backend, "construct"))
  /\ NeverSelects(Program(backend, "list")) /\ NeverPlaces(Program(backend, "list"))
  /\ call = "construct" => CountsFirst(code)
  /\ call = "list" => NeverSelects(code) /\ NeverPlaces(code)

\* What makes SameDevice inductive: all that is on a device is on the current
\* one, which does not change once something is.
Placed ==
  /\ \A i \in DOMAIN queue : queue[i].on = current
  /\ \A x \in Thing(backend) : held[x].on \in {HostPlace, current}
  /\ Chosen \/ (queue = <<>> /\ Unplaced) \/ (queue = <<>> /\ Doomed)

LEMMA NeverTail ==
  ASSUME NEW s, s \in Seq(Range(s)), s # <<>>
  PROVE  /\ NeverSelects(s) => NeverSelects(Tail(s)) /\ Head(s).do # "select"
         /\ NeverPlaces(s) => NeverPlaces(Tail(s)) /\ ~Places(Head(s))
BY TailSteps DEF NeverSelects, NeverPlaces

LEMMA SelectsFirstTail ==
  ASSUME NEW s, s \in Seq(Range(s)), s # <<>>, SelectsFirst(s), Head(s).do # "select"
  PROVE  SelectsFirst(Tail(s)) /\ ~Places(Head(s))
<1>1. PICK i \in DOMAIN s : /\ s[i].do = "select"
                           /\ \A j \in DOMAIN s : j < i => ~Places(s[j])
  BY DEF SelectsFirst
<1>2. /\ 1 \in DOMAIN s /\ s[1] = Head(s) /\ i \in Nat /\ i > 1
      /\ i - 1 \in DOMAIN Tail(s) /\ s[i] = Tail(s)[i - 1]
  BY <1>1, TailSteps
<1>3. ASSUME NEW j \in DOMAIN Tail(s), j < i - 1 PROVE ~Places(Tail(s)[j])
  <2>1. j \in Nat /\ j + 1 \in DOMAIN s /\ Tail(s)[j] = s[j + 1]
    BY TailSteps
  <2>2. j + 1 < i
    BY <1>2, <1>3, <2>1
  <2>3. QED
    BY <1>1, <2>1, <2>2
<1>4. QED
  BY <1>1, <1>2, <1>3 DEF SelectsFirst

LEMMA CountsFirstTail ==
  ASSUME NEW s, s \in Seq(Range(s)), s # <<>>, CountsFirst(s),
         ~(Head(s).do = "check" /\ Head(s).why = "count")
  PROVE  CountsFirst(Tail(s)) /\ Head(s).do \notin {"select", "submit"}
<1>1. PICK i \in DOMAIN s :
        /\ s[i].do = "check" /\ s[i].why = "count"
        /\ \A j \in DOMAIN s : j < i => s[j].do \notin {"select", "submit"}
  BY DEF CountsFirst
<1>2. /\ 1 \in DOMAIN s /\ s[1] = Head(s) /\ i \in Nat /\ i > 1
      /\ i - 1 \in DOMAIN Tail(s) /\ s[i] = Tail(s)[i - 1]
  BY <1>1, TailSteps
<1>3. ASSUME NEW j \in DOMAIN Tail(s), j < i - 1
      PROVE  Tail(s)[j].do \notin {"select", "submit"}
  <2>1. j \in Nat /\ j + 1 \in DOMAIN s /\ Tail(s)[j] = s[j + 1]
    BY TailSteps
  <2>2. j + 1 < i
    BY <1>2, <1>3, <2>1
  <2>3. QED
    BY <1>1, <2>1, <2>2
<1>4. QED
  BY <1>1, <1>2, <1>3 DEF CountsFirst

LEMMA PlacedInit == ASSUME ProgramsSelect, Init PROVE Placed
<1>1. /\ backend \in Backends /\ machine \in Machines(backend) /\ DOMAIN queue = {}
      /\ queue = <<>> /\ current = 0 /\ phase = "start" /\ call = "none"
      /\ \A x \in Thing(backend) : held[x].on = HostPlace
  BY DEF Init, NotHeld
<1>2. NeverSelects(code)
  BY DEF Init, NeverSelects
<1>3. Chosen \/ Unplaced \/ Doomed
  BY <1>1, <1>2 DEF ProgramsSelect, Chosen, Unplaced, Doomed, Early
<1>4. QED
  BY <1>1, <1>3 DEF Placed

LEMMA EnterPlaced ==
  ASSUME Placed, NEW c \in Call, NEW from \in {"start", "ready", "given", "compared"}, Enter(c, from),
         from = "start" => c \in {"list", "construct"}
  PROVE  Placed'
<1>1. /\ UNCHANGED <<backend, machine, phase, held, queue, current>>
      /\ call' = c /\ code' = Program(backend, c) /\ phase = from
  BY DEF Enter, stable, store, choice
<1>2. Chosen => Chosen'
  BY <1>1 DEF Chosen
<1>3. Unplaced => Unplaced'
  BY <1>1 DEF Unplaced, Early
<1>4. Doomed => Doomed'
  BY <1>1 DEF Doomed, Early
<1>5. QED
  BY <1>1, <1>2, <1>3, <1>4 DEF Placed

LEMMA DriverPlaced == ASSUME Typed, Placed, Driver PROVE Placed'
<1>1. CASE Enumerate \/ Construct \/ TakeArrays \/ Destroy
  BY <1>1, EnterPlaced DEF Enumerate, Construct, TakeArrays, Destroy, Call
<1>2. ASSUME NEW k \in Callable(backend), CallKernel(k) PROVE Placed'
  <2>1. k \in Call
    BY <1>2, ProgramsTyped DEF Typed, DriverTyped, Call
  <2>2. QED
    BY <1>2, <2>1, EnterPlaced DEF CallKernel
<1>3. CASE Compare
  <2>1. /\ UNCHANGED <<backend, machine, call, code, held, queue, current>> /\ phase = "given"
    BY <1>3 DEF Compare, stable, store, choice
  <2>2. Chosen
    BY <2>1 DEF Placed, Unplaced, Doomed, Early
  <2>3. QED
    BY <2>1, <2>2 DEF Placed, Chosen
<1>4. QED
  BY <1>1, <1>2, <1>3 DEF Driver

LEMMA ReturnPlaced == ASSUME Placed, Return PROVE Placed'
<1>1. /\ UNCHANGED <<backend, machine, code, held, queue, current>>
      /\ call # "none" /\ code = <<>> /\ DOMAIN code = {} /\ call' = "none"
      /\ phase' = PhaseAfter(call)
  BY DEF Return, stable, store, choice
<1>2. Chosen => Chosen'
  BY <1>1 DEF Chosen
<1>3. ~SelectsFirst(code) /\ ~CountsFirst(code)
  BY <1>1 DEF SelectsFirst, CountsFirst
<1>4. Unplaced => Unplaced'
  BY <1>1, <1>3 DEF Unplaced, Early, PhaseAfter
<1>5. Doomed => Doomed'
  BY <1>1, <1>3 DEF Doomed, Early, PhaseAfter
<1>6. QED
  BY <1>1, <1>2, <1>4, <1>5 DEF Placed

LEMMA RefusePlaced == ASSUME Typed, Placed, Refuse PROVE Placed'
<1>1. /\ UNCHANGED <<backend, machine, held, queue, current>>
      /\ phase' = "refused" /\ call' = "none" /\ code' = <<>> /\ DOMAIN <<>> = {}
  BY DEF Refuse, stable, store, choice
<1>2. Chosen => Chosen'
  BY <1>1 DEF Chosen, NeverSelects
<1>3. Unplaced => Unplaced'
  BY <1>1 DEF Unplaced, Early
<1>4. Doomed => Doomed'
  BY <1>1 DEF Doomed, Early
<1>5. QED
  BY <1>1, <1>2, <1>3, <1>4 DEF Placed

\* A step other than the selection leaves the choice as it is.
LEMMA ChoiceAdvances ==
  ASSUME Typed, NEW kind, AtStep(kind), Advance, kind # "select", current' = current
  PROVE  /\ UNCHANGED <<backend, machine>> /\ Head(code).do = kind
         /\ Chosen => Chosen'
         /\ Unplaced => /\ ~Places(Head(code))
                        /\ (\A x \in Thing(backend) : held'[x].on = HostPlace) => Unplaced'
         /\ Doomed /\ ~(kind = "check" /\ Head(code).why = "count") => Doomed' /\ kind # "submit"
<1>1. /\ code \in Seq(Range(code)) /\ code # <<>> /\ call # "none" /\ Head(code).do = kind
      /\ code' = Tail(code) /\ UNCHANGED <<backend, machine, phase, call>>
  BY DEF Typed, CodeTyped, AtStep, Advance, stable, driver
<1>2. Chosen => Chosen'
  BY <1>1, NeverTail DEF Chosen
<1>3. ASSUME Unplaced
      PROVE  /\ ~Places(Head(code))
             /\ (\A x \in Thing(backend) : held'[x].on = HostPlace) => Unplaced'
  <2>1. CASE call = "construct"
    BY <1>1, <1>3, <2>1, SelectsFirstTail DEF Unplaced, Early
  <2>2. CASE call = "list"
    BY <1>1, <1>3, <2>2, NeverTail DEF Unplaced, Early
  <2>3. QED
    BY <1>1, <1>3, <2>1, <2>2 DEF Unplaced, Early
<1>4. ASSUME Doomed, ~(kind = "check" /\ Head(code).why = "count")
      PROVE  Doomed' /\ kind # "submit"
  <2>1. CASE call = "construct"
    BY <1>1, <1>4, <2>1, CountsFirstTail DEF Doomed, Early
  <2>2. CASE call = "list"
    BY <1>1, <1>4, <2>2, NeverTail DEF Doomed, Early, Places
  <2>3. QED
    BY <1>1, <1>4, <2>1, <2>2 DEF Doomed, Early
<1>5. QED
  BY <1>1, <1>2, <1>3, <1>4

LEMMA AcquirePlaced == ASSUME Typed, Placed, DoAcquire PROVE Placed'
<1>1. /\ AtStep("acquire") /\ Advance /\ queue' = queue /\ current' = current
  BY DEF DoAcquire, choice
<1>2. ASSUME NEW x \in Thing(backend)
      PROVE  held'[x].on \in {held[x].on, IF Head(code).host THEN HostPlace ELSE current}
  BY DEF DoAcquire, Typed, ObjectsTyped
<1>3. UNCHANGED <<backend, machine>> /\ Head(code).do = "acquire"
  BY <1>1, ChoiceAdvances
<1>4. Unplaced => Unplaced'
  <2>1. Unplaced => Head(code).host
    BY <1>1, ChoiceAdvances DEF Places
  <2>2. QED
    BY <1>1, <1>2, <2>1, ChoiceAdvances DEF Unplaced
<1>5. Chosen => Chosen'
  BY <1>1, ChoiceAdvances
<1>6. Doomed => Doomed'
  BY <1>1, ChoiceAdvances
<1>7. QED
  BY <1>1, <1>2, <1>3, <1>4, <1>5, <1>6 DEF Placed

\* No other step allocates.
LEMMA HeldPlaced ==
  ASSUME Typed, Placed, DoRetain \/ DoRelease \/ DoRename
  PROVE  Placed'
<1>1. PICK kind \in {"retain", "release", "rename"} : AtStep(kind) /\ Advance
  BY DEF DoRetain, DoRelease, DoRename
<1>2. /\ UNCHANGED <<backend, machine>> /\ current' = current /\ Head(code).do = kind
      /\ IsStep(Head(code), Thing(backend))
  BY <1>1, StepFrame DEF DoRetain, DoRelease, DoRename, choice
<1>3. ASSUME NEW x \in Thing(backend)
      PROVE  held'[x].on = HostPlace \/ \E y \in Thing(backend) : held'[x].on = held[y].on
  <2>1. held \in [Thing(backend) -> [refs : Nat, by : Allocator \cup {"nobody"}, on : Int]]
    BY DEF Typed, ObjectsTyped
  <2>2. CASE DoRetain
    BY <2>1, <2>2 DEF DoRetain
  <2>3. CASE DoRelease
    BY <2>1, <2>3 DEF DoRelease, NotHeld
  <2>4. CASE DoRename
    BY <1>2, <2>1, <2>4 DEF DoRename, NotHeld, AtStep, IsStep
  <2>5. QED
    BY <2>2, <2>3, <2>4
<1>4. /\ DOMAIN queue' = DOMAIN queue /\ \A i \in DOMAIN queue : queue'[i].on = queue[i].on
      /\ queue = <<>> => queue' = <<>>
  <2>1. CASE DoRename
    <3>1. queue' = [i \in DOMAIN queue |->
                      [queue[i] EXCEPT !.op = Renamed(@, Head(code).from, Head(code).to)]]
      BY <2>1 DEF DoRename
    <3>2. \A i \in DOMAIN queue : queue[i] = [op |-> queue[i].op, on |-> queue[i].on]
      BY DEF Typed, QueueTyped
    <3>3. \A i \in DOMAIN queue : queue'[i].on = queue[i].on
      <4>1. SUFFICES ASSUME NEW i \in DOMAIN queue PROVE queue'[i].on = queue[i].on
        OBVIOUS
      <4>2. queue'[i] = [queue[i] EXCEPT !.op = Renamed(@, Head(code).from, Head(code).to)]
        BY <3>1
      <4>3. "on" \in DOMAIN queue[i]
        BY <3>2
      <4>4. QED
        BY <4>2, <4>3
    <3>4. QED
      BY <3>1, <3>3
  <2>2. CASE DoRetain \/ DoRelease
    BY <2>2 DEF DoRetain, DoRelease
  <2>3. QED
    BY <2>1, <2>2
<1>5. Chosen => Chosen'
  BY <1>1, <1>2, ChoiceAdvances
<1>6. Unplaced => Unplaced'
  BY <1>1, <1>2, <1>3, ChoiceAdvances DEF Unplaced
<1>7. Doomed => Doomed'
  BY <1>1, <1>2, ChoiceAdvances
<1>8. QED
  BY <1>2, <1>3, <1>4, <1>5, <1>6, <1>7 DEF Placed

LEMMA SelectPlaced == ASSUME Typed, Placed, DoSelect PROVE Placed'
<1>1. /\ AtStep("select") /\ Advance /\ current' = machine.index /\ UNCHANGED <<held, queue>>
  BY DEF DoSelect, store
<1>2. /\ code \in Seq(Range(code)) /\ code # <<>> /\ call # "none" /\ Head(code).do = "select"
      /\ UNCHANGED <<backend, machine>>
  BY <1>1 DEF Typed, CodeTyped, AtStep, Advance, stable
<1>3. Chosen'
  BY <1>1, <1>2 DEF Chosen
<1>4. ~Doomed
  BY <1>2, NeverTail, CountsFirstTail DEF Doomed, Early
<1>5. CASE Chosen
  <2>1. current' = current
    BY <1>1, <1>2, <1>5, NeverTail DEF Chosen
  <2>2. QED
    BY <1>1, <1>2, <1>3, <2>1 DEF Placed
<1>6. CASE queue = <<>> /\ Unplaced
  BY <1>1, <1>2, <1>3, <1>6 DEF Placed, Unplaced
<1>7. QED
  BY <1>4, <1>5, <1>6 DEF Placed

LEMMA SubmitPlaced == ASSUME Typed, Placed, DoSubmit PROVE Placed'
<1> DEFINE e == [op |-> Head(code).op, on |-> current]
<1>1. /\ AtStep("submit") /\ Advance /\ queue' = Append(queue, e) /\ UNCHANGED <<held, current>>
  BY DEF DoSubmit, choice
<1>2. UNCHANGED <<backend, machine>> /\ Head(code).do = "submit"
  BY <1>1, ChoiceAdvances
<1>3. Chosen /\ Chosen'
  <2>1. ~Unplaced /\ ~Doomed
    BY <1>1, <1>2, ChoiceAdvances DEF Places
  <2>2. QED
    BY <1>1, <2>1, ChoiceAdvances DEF Placed
<1>4. \A j \in DOMAIN queue' : queue'[j] = e \/ \E k \in DOMAIN queue : queue'[j] = queue[k]
  <2> HIDE DEF e
  <2>1. queue \in Seq(Range(queue))
    BY DEF Typed, QueueTyped
  <2>2. QED
    BY <1>1, <2>1, Appended
<1>5. \A j \in DOMAIN queue' : queue'[j].on = current
  BY <1>4 DEF Placed
<1>6. QED
  BY <1>1, <1>2, <1>3, <1>5 DEF Placed

LEMMA OtherPlaced ==
  ASSUME Typed, Placed,
         DoList \/ Passes \/ DoWait \/ DoAccess \/ DoLeave \/ DoRun \/ DoSum \/ DoHandOut
  PROVE  Placed'
<1>1. PICK kind \in {"list", "check", "wait", "access", "leave", "run", "sum", "arrays"} :
        AtStep(kind) /\ Advance
  BY DEF DoList, Passes, DoWait, DoAccess, DoLeave, DoRun, DoSum, DoHandOut
<1>2. UNCHANGED <<held, queue, current>>
  BY DEF DoList, Passes, DoWait, DoAccess, DoLeave, DoRun, DoSum, DoHandOut, store, choice
<1>3. UNCHANGED <<backend, machine>> /\ Head(code).do = kind
  BY <1>1, <1>2, ChoiceAdvances
<1>4. Chosen => Chosen'
  BY <1>1, <1>2, ChoiceAdvances
<1>5. Unplaced => Unplaced'
  BY <1>1, <1>2, ChoiceAdvances DEF Unplaced
<1>6. Doomed => Doomed'
  <2>1. Doomed => ~(kind = "check" /\ Head(code).why = "count")
    <3>1. SUFFICES ASSUME Doomed, kind = "check", Head(code).why = "count" PROVE FALSE
      OBVIOUS
    <3>2. Passes
      BY <1>1, <3>1 DEF AtStep, DoList, DoWait, DoAccess, DoLeave, DoRun, DoSum, DoHandOut
    <3>3. QED
      BY <3>1, <3>2 DEF Passes, Fails, Doomed
  <2>2. QED
    BY <1>1, <1>2, <2>1, ChoiceAdvances
<1>7. QED
  BY <1>2, <1>3, <1>4, <1>5, <1>6 DEF Placed

LEMMA ExecutePlaced == ASSUME Typed, Placed, Execute PROVE Placed'
<1>1. PICK i \in DOMAIN queue : queue' = RemoveAt(queue, i)
  BY DEF Execute
<1>2. UNCHANGED <<backend, machine, phase, call, code, held, current>>
  BY DEF Execute, stable, driver, choice
<1>3. queue \in Seq(Range(queue)) /\ queue # <<>>
  BY <1>1 DEF Typed, QueueTyped
<1>4. \A j \in DOMAIN queue' : \E k \in DOMAIN queue : queue'[j] = queue[k]
  BY <1>1, <1>3, Removed
<1>5. QED
  BY <1>2, <1>3, <1>4 DEF Placed, Chosen

LEMMA PlacedNext == ASSUME Typed, Placed, [Next]_vars PROVE Placed'
<1>1. CASE UNCHANGED vars
  BY <1>1 DEF vars, stable, driver, store, choice, Placed, Chosen, Unplaced, Doomed, Early
<1>2. CASE Step
  BY <1>2, AcquirePlaced, HeldPlaced, SelectPlaced, RefusePlaced, SubmitPlaced, OtherPlaced DEF Step
<1>3. QED
  BY <1>1, <1>2, DriverPlaced, ReturnPlaced, ExecutePlaced DEF Next

LEMMA OperationTouches ==
  ASSUME NEW things, NEW op, IsOperation(op, things)
  PROVE  Touches(op) \subseteq things
<1>1. Writes(op) \subseteq things
  BY DEF Writes, IsOperation
<1>2. ASSUME NEW y \in DOMAIN op, NEW f \in Operands(op[y].k) PROVE op[y].of[f] \in things
  <2>1. Operands(op[y].k) \subseteq Field
    BY DEF Operands, Field
  <2>2. QED
    BY <2>1 DEF IsOperation
<1>3. Reads(op) \subseteq things
  BY <1>2 DEF Reads
<1>4. QED
  BY <1>1, <1>3 DEF Touches

LEMMA PlacedSameDevice == ASSUME Typed, Placed PROVE SameDevice
<1>1. SUFFICES ASSUME NEW i \in DOMAIN queue
               PROVE  /\ Selects(backend) => queue[i].on = machine.index
                      /\ \A x \in Touches(queue[i].op) : held[x].on \in {HostPlace, queue[i].on}
  BY DEF SameDevice
<1>2. queue # <<>> /\ Chosen /\ queue[i].on = current
  BY <1>1 DEF Placed
<1>3. Selects(backend) => queue[i].on = machine.index
  BY <1>2 DEF Chosen
<1>4. Touches(queue[i].op) \subseteq Thing(backend)
  <2>1. IsOperation(queue[i].op, Thing(backend))
    BY DEF Typed, QueueTyped
  <2>2. QED
    BY <2>1, OperationTouches
<1>5. QED
  BY <1>2, <1>3, <1>4 DEF Placed

\* All work runs on the device of --device, on memory of that device or of the
\* host, however many devices there are.
THEOREM SessionsStayOnDevice ==
  ASSUME ProgramsSelect
  PROVE  Spec => []SameDevice
<1>1. Init => Placed
  BY PlacedInit
<1>2. Typed /\ Placed /\ [Next]_vars => Placed'
  BY PlacedNext
<1>3. Typed /\ Placed => SameDevice
  BY PlacedSameDevice
<1>4. QED
  BY <1>1, <1>2, <1>3, SessionsTyped, PTL DEF Spec
----------------------------------------------------------------------------
(* The checks of the constructor                                           *)

\* What makes a check throw on the machine m, when the list of devices is
\* complete.
Rejects(why, m) ==
  CASE why \in {"count", "listed"} -> m.index >= m.devices
    [] why = "first"   -> m.index # 0
    [] why = "size"    -> ~m.tiled
    [] why = "fp64"    -> ~m.fp64
    [] why = "memory"  -> ~m.fits[m.index]
    [] why = "memory0" -> ~m.fits[0]
    [] why = "build"   -> m.build = "failure"
    [] why = "kernel"  -> m.build # "built"

NeverChecks(steps) == \A i \in DOMAIN steps : steps[i].do # "check"

\* One of the steps throws on m.
Throws(steps, m) == \E i \in DOMAIN steps : steps[i].do = "check" /\ Rejects(steps[i].why, m)

LooksUp(step) == step.do = "check" /\ step.why = "listed"

\* Before the list of devices is looked at, nothing empties it or adds to it.
Undisturbed(steps) ==
  \A i, j \in DOMAIN steps :
    LooksUp(steps[i]) /\ j < i /\ steps[j].do = "list" => steps[j].how \notin {"clear", "append"}

\* And it is made.
Listed(steps) ==
  \A i \in DOMAIN steps :
    LooksUp(steps[i]) => \E j \in DOMAIN steps : j < i /\ steps[j].do = "list"

\* Only the constructor throws; its checks are those of what the backend asks
\* of its machine, and it lists the devices before it looks at the list.
ProgramsCheck ==
  \A b \in Backends :
    /\ \A c \in Call \ {"construct"} : NeverChecks(Program(b, c))
    /\ \A m \in Machines(b) : Throws(Program(b, "construct"), m) <=> ~Usable(b, m)
    /\ Undisturbed(Program(b, "construct")) /\ Listed(Program(b, "construct"))

Complete == cached /\ Len(devices) = machine.devices

\* What makes RefusesTheUnusable inductive: in the constructor, the checks to
\* come decide, and those that look at the list will find it complete.
Judged ==
  /\ call \in {"list", "construct"} => phase = "start"
  /\ call \notin {"none", "list", "construct"} => phase \in {"ready", "compared"}
  /\ phase = "start" => call \in {"none", "list", "construct"}
  /\ phase = "start" /\ call = "none" => ~cached
  /\ phase = "refused" => ~Usable(backend, machine)
  /\ phase \in {"ready", "given", "compared", "gone"} => Usable(backend, machine)
  /\ call # "construct" => NeverChecks(code)
  /\ call = "construct" =>
       /\ Throws(code, machine) <=> ~Usable(backend, machine)
       /\ Undisturbed(code)
       /\ Complete \/ (~cached /\ Listed(code)) \/ \A i \in DOMAIN code : ~LooksUp(code[i])

LEMMA JudgedInit == Init => Judged
<1>1. SUFFICES ASSUME Init PROVE Judged
  OBVIOUS
<1>2. DOMAIN code = {}
  BY <1>1 DEF Init
<1>3. QED
  BY <1>1, <1>2 DEF Init, Judged, NeverChecks

LEMMA EnterJudged ==
  ASSUME ProgramsCheck, Typed, Judged, NEW c \in Call,
         NEW from \in {"start", "ready", "compared"}, Enter(c, from), c \in {"list", "construct"} <=> from = "start"
  PROVE  Judged'
<1>1. /\ UNCHANGED <<backend, machine, phase, cached, devices>> /\ phase = from /\ call = "none"
      /\ call' = c /\ code' = Program(backend, c) /\ c # "none"
  BY DEF Enter, stable, choice, Call, Kernel, ArrayKernels
<1>2. backend \in Backends /\ machine \in Machines(backend)
  BY DEF Typed, DriverTyped
<1>3. c # "construct" => NeverChecks(code')
  BY <1>1, <1>2 DEF ProgramsCheck
<1>4. c = "construct" => /\ Throws(code', machine) <=> ~Usable(backend, machine)
                         /\ Undisturbed(code') /\ ~cached /\ Listed(code')
  BY <1>1, <1>2 DEF ProgramsCheck, Judged
<1>5. QED
  BY <1>1, <1>3, <1>4 DEF Judged, Complete

LEMMA DriverJudged == ASSUME ProgramsCheck, Typed, Judged, Driver PROVE Judged'
<1>1. CASE Enumerate \/ Construct \/ TakeArrays \/ Destroy
  BY <1>1, EnterJudged DEF Enumerate, Construct, TakeArrays, Destroy, Call
<1>2. ASSUME NEW k \in Callable(backend), CallKernel(k) PROVE Judged'
  <2>1. k \in Kernel
    BY <1>2, ProgramsTyped DEF Typed, DriverTyped
  <2>2. k \in Call /\ k \notin {"list", "construct"}
    BY <2>1 DEF Call, Kernel, ArrayKernels
  <2>3. QED
    BY <1>2, <2>2, EnterJudged DEF CallKernel
<1>3. CASE Compare
  <2>1. /\ UNCHANGED <<backend, machine, call, code, cached, devices>>
        /\ phase = "given" /\ call = "none" /\ phase' = "compared"
    BY <1>3 DEF Compare, stable, choice
  <2>2. QED
    BY <2>1 DEF Judged
<1>4. QED
  BY <1>1, <1>2, <1>3 DEF Driver

\* A constructor that has made all its checks is right to return.
LEMMA ReturnJudged == ASSUME Typed, Judged, Return PROVE Judged'
<1>1. /\ UNCHANGED <<backend, machine, code, cached, devices>>
      /\ call # "none" /\ code = <<>> /\ DOMAIN code = {} /\ call' = "none"
      /\ phase' = PhaseAfter(call)
  BY DEF Return, stable, choice
<1>2. call \in Call /\ phase \in {"start", "ready", "given", "compared", "gone", "listed", "refused"}
  BY <1>1 DEF Typed, DriverTyped
<1>3. call \in {"list", "construct"} \/ phase \in {"ready", "compared"}
  BY <1>1, <1>2 DEF Judged
<1>4. call = "construct" => Usable(backend, machine)
  BY <1>1 DEF Judged, Throws
<1>5. NeverChecks(code')
  BY <1>1 DEF NeverChecks
<1>6. QED
  BY <1>1, <1>2, <1>3, <1>4, <1>5 DEF Judged, PhaseAfter

\* In the constructor a check throws for what it is about.
LEMMA LookUpFinds ==
  ASSUME Typed, Judged, call = "construct", AtStep("check"), Head(code).why \in Reason
  PROVE  Fails(Head(code).why) <=> Rejects(Head(code).why, machine)
<1>1. /\ code \in Seq(Range(code)) /\ code # <<>> /\ Head(code).do = "check"
      /\ 1 \in DOMAIN code /\ code[1] = Head(code) /\ \A i \in DOMAIN code : i \in Nat \ {0}
  BY AtStepTyped, TailSteps DEF Typed, CodeTyped
<1>2. CASE Head(code).why = "listed"
  <2>1. ~Listed(code)
    <3>1. \A i \in DOMAIN code : ~(i < 1)
      BY <1>1
    <3>2. QED
      BY <1>1, <1>2, <3>1 DEF Listed, LooksUp
  <2>2. Complete
    BY <1>1, <1>2, <2>1 DEF Judged, LooksUp
  <2>3. QED
    BY <1>2, <2>2 DEF Complete, Fails, Rejects
<1>3. CASE Head(code).why # "listed"
  BY <1>3 DEF Fails, Rejects, Reason
<1>4. QED
  BY <1>2, <1>3

LEMMA RefuseJudged == ASSUME Typed, Judged, Refuse PROVE Judged'
<1>1. /\ UNCHANGED <<backend, machine, cached, devices>> /\ phase' = "refused" /\ call' = "none"
      /\ code' = <<>> /\ AtStep("check") /\ Fails(Head(code).why)
  BY DEF Refuse, stable, choice
<1>2. /\ code \in Seq(Range(code)) /\ code # <<>> /\ call # "none" /\ Head(code).do = "check"
      /\ 1 \in DOMAIN code /\ code[1] = Head(code) /\ Head(code).why \in Reason
      /\ \A i \in DOMAIN code : i \in Nat \ {0}
  BY <1>1, AtStepTyped, TailSteps DEF Typed, CodeTyped, IsStep
<1>3. call = "construct"
  BY <1>2 DEF Judged, NeverChecks
<1>4. Rejects(Head(code).why, machine)
  BY <1>1, <1>2, <1>3, LookUpFinds
<1>5. ~Usable(backend, machine)
  BY <1>2, <1>3, <1>4 DEF Judged, Throws
<1>6. NeverChecks(code')
  BY <1>1 DEF NeverChecks
<1>7. QED
  BY <1>1, <1>5, <1>6 DEF Judged

LEMMA NeverChecksTail ==
  ASSUME NEW s, s \in Seq(Range(s)), s # <<>>, NeverChecks(s)
  PROVE  NeverChecks(Tail(s)) /\ Head(s).do # "check"
BY TailSteps DEF NeverChecks

LEMMA ThrowsTail ==
  ASSUME NEW s, s \in Seq(Range(s)), s # <<>>, NEW m,
         ~(Head(s).do = "check" /\ Rejects(Head(s).why, m))
  PROVE  Throws(Tail(s), m) <=> Throws(s, m)
<1>1. ASSUME Throws(s, m) PROVE Throws(Tail(s), m)
  <2>1. PICK i \in DOMAIN s : s[i].do = "check" /\ Rejects(s[i].why, m)
    BY <1>1 DEF Throws
  <2>2. i # 1 /\ i \in Nat \ {0}
    BY <2>1, TailSteps
  <2>3. i - 1 \in DOMAIN Tail(s) /\ s[i] = Tail(s)[i - 1]
    BY <2>2, TailSteps
  <2>4. QED
    BY <2>1, <2>3 DEF Throws
<1>2. ASSUME Throws(Tail(s), m) PROVE Throws(s, m)
  BY <1>2, TailSteps DEF Throws
<1>3. QED
  BY <1>1, <1>2

LEMMA ListTail ==
  ASSUME NEW s, s \in Seq(Range(s)), s # <<>>
  PROVE  /\ Undisturbed(s) => Undisturbed(Tail(s))
         /\ Listed(s) /\ Head(s).do # "list" => Listed(Tail(s))
         /\ (\A i \in DOMAIN s : ~LooksUp(s[i])) => \A i \in DOMAIN Tail(s) : ~LooksUp(Tail(s)[i])
         /\ Undisturbed(s) /\ Head(s).do = "list" /\ Head(s).how \in {"clear", "append"} =>
              \A i \in DOMAIN Tail(s) : ~LooksUp(Tail(s)[i])
         /\ Listed(s) => ~LooksUp(Head(s))
<1>1. ASSUME Undisturbed(s) PROVE Undisturbed(Tail(s))
  <2>1. SUFFICES ASSUME NEW i \in DOMAIN Tail(s), NEW j \in DOMAIN Tail(s),
                        LooksUp(Tail(s)[i]), j < i, Tail(s)[j].do = "list"
                 PROVE  Tail(s)[j].how \notin {"clear", "append"}
    BY DEF Undisturbed
  <2>2. /\ i \in Nat /\ j \in Nat /\ i + 1 \in DOMAIN s /\ j + 1 \in DOMAIN s
        /\ Tail(s)[i] = s[i + 1] /\ Tail(s)[j] = s[j + 1]
    BY TailSteps
  <2>3. j + 1 < i + 1
    BY <2>1, <2>2
  <2>4. QED
    BY <1>1, <2>1, <2>2, <2>3 DEF Undisturbed
<1>2. ASSUME Listed(s), Head(s).do # "list" PROVE Listed(Tail(s))
  <2>1. SUFFICES ASSUME NEW i \in DOMAIN Tail(s), LooksUp(Tail(s)[i])
                 PROVE  \E j \in DOMAIN Tail(s) : j < i /\ Tail(s)[j].do = "list"
    BY DEF Listed
  <2>2. i \in Nat /\ i + 1 \in DOMAIN s /\ Tail(s)[i] = s[i + 1]
    BY TailSteps
  <2>3. PICK j \in DOMAIN s : j < i + 1 /\ s[j].do = "list"
    BY <1>2, <2>1, <2>2 DEF Listed
  <2>4. j \in Nat \ {0} /\ j # 1
    BY <1>2, <2>3, TailSteps
  <2>5. j - 1 \in DOMAIN Tail(s) /\ Tail(s)[j - 1] = s[j] /\ j - 1 < i
    BY <2>2, <2>3, <2>4, TailSteps
  <2>6. QED
    BY <2>3, <2>5
<1>3. ASSUME Undisturbed(s), Head(s).do = "list", Head(s).how \in {"clear", "append"},
             NEW i \in DOMAIN Tail(s)
      PROVE  ~LooksUp(Tail(s)[i])
  <2>1. /\ 1 \in DOMAIN s /\ s[1] = Head(s) /\ i \in Nat \ {0} /\ i + 1 \in DOMAIN s
        /\ Tail(s)[i] = s[i + 1]
    BY TailSteps
  <2>2. 1 < i + 1
    BY <2>1
  <2>3. QED
    BY <1>3, <2>1, <2>2 DEF Undisturbed
<1>4. ASSUME Listed(s) PROVE ~LooksUp(Head(s))
  <2>1. 1 \in DOMAIN s /\ s[1] = Head(s) /\ \A j \in DOMAIN s : j \in Nat \ {0}
    BY TailSteps
  <2>2. \A j \in DOMAIN s : ~(j < 1)
    BY <2>1
  <2>3. QED
    BY <1>4, <2>1, <2>2 DEF Listed
<1>5. (\A i \in DOMAIN s : ~LooksUp(s[i])) => \A i \in DOMAIN Tail(s) : ~LooksUp(Tail(s)[i])
  BY TailSteps
<1>6. QED
  BY <1>1, <1>2, <1>3, <1>4, <1>5

LEMMA ListJudged == ASSUME Typed, Judged, DoList PROVE Judged'
<1>1. /\ AtStep("list") /\ Advance
      /\ devices' = CASE Head(code).how = "clear"             -> <<>>
                      [] Head(code).how = "once" /\ cached    -> devices
                      [] Head(code).how = "append"            -> devices \o Present
                      [] OTHER                                -> Present
      /\ cached' = (cached \/ Head(code).how # "clear")
  BY DEF DoList
<1>2. /\ code \in Seq(Range(code)) /\ code # <<>> /\ call # "none" /\ Head(code).do = "list"
      /\ code' = Tail(code) /\ UNCHANGED <<backend, machine, phase, call>>
  BY <1>1 DEF Typed, CodeTyped, AtStep, Advance, stable, driver
<1>3. CASE call # "construct"
  BY <1>2, <1>3, NeverChecksTail DEF Judged
<1>4. CASE call = "construct"
  <2>1. Undisturbed(code) /\ (Throws(code, machine) <=> ~Usable(backend, machine))
    BY <1>4 DEF Judged
  <2>2. Undisturbed(code') /\ (Throws(code', machine) <=> ~Usable(backend, machine))
    BY <1>2, <2>1, ListTail, ThrowsTail
  <2>3. CASE \A i \in DOMAIN code' : ~LooksUp(code'[i])
    BY <1>2, <1>4, <2>2, <2>3 DEF Judged
  <2>4. CASE ~ \A i \in DOMAIN code' : ~LooksUp(code'[i])
    <3>1. Head(code).how \notin {"clear", "append"}
      BY <1>2, <2>1, <2>4, ListTail
    <3>2. Complete \/ ~cached
      BY <1>2, <1>4, <2>4, ListTail DEF Judged
    <3>3. cached' /\ (devices' = Present \/ (Complete /\ devices' = devices))
      BY <1>1, <3>1, <3>2 DEF Complete
    <3>4. Complete'
      BY <1>2, <3>3, PresentType DEF Complete
    <3>5. QED
      BY <1>2, <1>4, <2>2, <3>4 DEF Judged
  <2>5. QED
    BY <2>3, <2>4
<1>5. QED
  BY <1>3, <1>4

\* Steps that leave the list of devices as it is, a check that passes among them.
LEMMA OtherJudged ==
  ASSUME Typed, Judged, NEW kind, AtStep(kind), Advance, kind # "list",
         UNCHANGED <<cached, devices>>, kind = "check" => ~Fails(Head(code).why)
  PROVE  Judged'
<1>1. /\ code \in Seq(Range(code)) /\ code # <<>> /\ call # "none" /\ Head(code).do = kind
      /\ code' = Tail(code) /\ UNCHANGED <<backend, machine, phase, call>>
      /\ IsStep(Head(code), Thing(backend))
  BY AtStepTyped DEF Typed, CodeTyped, AtStep, Advance, stable, driver
<1>2. CASE call # "construct"
  BY <1>1, <1>2, NeverChecksTail DEF Judged
<1>3. CASE call = "construct"
  <2>1. Undisturbed(code) /\ (Throws(code, machine) <=> ~Usable(backend, machine))
    BY <1>3 DEF Judged
  <2>2. kind = "check" => ~Rejects(Head(code).why, machine)
    BY <1>1, <1>3, LookUpFinds DEF IsStep
  <2>3. Undisturbed(code') /\ (Throws(code', machine) <=> ~Usable(backend, machine))
    BY <1>1, <2>1, <2>2, ListTail, ThrowsTail
  <2>4. \/ Complete' \/ (~cached' /\ Listed(code'))
        \/ \A i \in DOMAIN code' : ~LooksUp(code'[i])
    <3>1. Complete \/ (~cached /\ Listed(code)) \/ \A i \in DOMAIN code : ~LooksUp(code[i])
      BY <1>3 DEF Judged
    <3>2. Complete => Complete'
      BY <1>1 DEF Complete
    <3>3. QED
      BY <1>1, <3>1, <3>2, ListTail
  <2>5. QED
    BY <1>1, <1>3, <2>3, <2>4 DEF Judged
<1>4. QED
  BY <1>2, <1>3

LEMMA StepJudged == ASSUME Typed, Judged, Step PROVE Judged'
<1>1. CASE DoAcquire \/ DoRetain \/ DoRelease \/ DoRename \/ DoSubmit \/ DoRun
  BY <1>1, OtherJudged DEF DoAcquire, DoRetain, DoRelease, DoRename, DoSubmit, DoRun, choice
<1>2. CASE DoSelect \/ DoWait \/ DoAccess \/ DoLeave \/ DoSum \/ DoHandOut
  BY <1>2, OtherJudged DEF DoSelect, DoWait, DoAccess, DoLeave, DoSum, DoHandOut, choice
<1>3. CASE Passes
  BY <1>3, OtherJudged DEF Passes, choice
<1>4. QED
  BY <1>1, <1>2, <1>3, ListJudged, RefuseJudged DEF Step

LEMMA JudgedNext == ASSUME ProgramsCheck, Typed, Judged, [Next]_vars PROVE Judged'
<1>1. CASE UNCHANGED vars
  BY <1>1 DEF vars, stable, driver, choice, Judged, Complete
<1>2. CASE Execute
  BY <1>2 DEF Execute, stable, driver, choice, Judged, Complete
<1>3. QED
  BY <1>1, <1>2, DriverJudged, ReturnJudged, StepJudged DEF Next

\* The constructor throws if, and only if, the machine lacks something that the
\* backend asks for, on any machine, if its checks are those of what it asks.
THEOREM SessionsRefuse ==
  ASSUME ProgramsCheck
  PROVE  Spec => []RefusesTheUnusable
<1>1. Init => Judged
  BY JudgedInit
<1>2. Typed /\ Judged /\ [Next]_vars => Judged'
  BY JudgedNext
<1>3. Typed /\ Judged => RefusesTheUnusable
  BY DEF Typed, DriverTyped, Judged, RefusesTheUnusable
<1>4. QED
  BY <1>1, <1>2, <1>3, SessionsTyped, PTL DEF Spec
----------------------------------------------------------------------------
(* Nothing is used that is not held, or freed twice: the book of what is   *)
(* held, and the methods that keep it                                      *)

\* What is not held.
Nobody == [refs |-> 0, by |-> "nobody"]

\* References and allocators, without the places.
Book(things) == [things -> [refs : Nat, by : Allocator \cup {"nobody"}]]

\* The book after a step.
After(o, s) ==
  [x \in DOMAIN o |->
     CASE s.do = "acquire" /\ x \in s.what -> [refs |-> o[x].refs + 1, by |-> s.by]
       [] s.do = "retain" /\ x \in s.what  -> [refs |-> o[x].refs + 1, by |-> o[x].by]
       [] s.do = "release" /\ x \in s.what ->
            IF o[x].refs <= 1 THEN Nobody ELSE [refs |-> o[x].refs - 1, by |-> o[x].by]
       [] s.do = "rename" /\ x = s.from    -> Nobody
       [] s.do = "rename" /\ x = s.to /\ x # s.from -> o[s.from]
       [] OTHER                            -> o[x]]

\* What pending work may touch after a step, if before it that was p.
Busy(p, s) ==
  CASE s.do = "submit" -> p \cup Touches(s.op)
    [] s.do = "wait"   -> {}
    [] s.do = "rename" -> {IF x = s.from THEN s.to ELSE x : x \in p}
    [] OTHER           -> p

\* A step that uses what is held, and frees what it owns.
Careful(s, o, p) ==
  /\ s.do \in {"submit", "run"} => \A x \in Touches(s.op) : o[x].refs > 0
  /\ s.do = "sum" => o[s.from].refs > 0
  /\ s.do \in {"acquire", "retain", "release"} => s.what \subseteq DOMAIN o
  /\ s.do = "acquire" => \A x \in s.what : o[x].refs = 0
  /\ s.do = "release" =>
       \A x \in s.what : o[x].refs > 0 /\ o[x].by = s.by /\ (x \in p => o[x].refs > 1)
  /\ s.do = "rename" => o[s.from].refs > 0 /\ o[s.to].refs = 0

\* Careful steps that lead from one book to another.
Leads(steps, o, p, o2, p2) ==
  \E own, busy :
    /\ own[1] = o /\ busy[1] = p
    /\ own[Len(steps) + 1] = o2 /\ busy[Len(steps) + 1] = p2
    /\ \A i \in DOMAIN steps : /\ Careful(steps[i], own[i], busy[i])
                               /\ own[i + 1] = After(own[i], steps[i])
                               /\ busy[i + 1] = Busy(busy[i], steps[i])

\* Where the driver calls a method.
PhaseBefore(c) == CASE c \in {"list", "construct"} -> "start"
                    [] c = "destroy"               -> "given"
                    [] OTHER                       -> "ready"

\* A book for each phase, such that every method leads from the book of the
\* phase it is called in to that of the phase it leaves behind.
Accounts(b, st) ==
  /\ \A x \in Thing(b) : st["start"][x] = Nobody
  /\ \A h \in {"start", "listed", "ready", "given", "gone"} : st[h] \in Book(Thing(b))
  /\ \A c \in Callable(b) \cup {"list", "construct", "get_arrays", "destroy"} :
       \E p : Leads(Program(b, c), st[PhaseBefore(c)], {}, st[PhaseAfter(c)], p)
  /\ \A i \in DOMAIN Program(b, "get_arrays") :
       LET s == Program(b, "get_arrays")[i]
       IN s.do = "arrays" => \A f \in Field : st["given"][s.from[f]].refs > 0
  /\ \A x \in Thing(b) : st["gone"][x].refs > 0 <=> x \in Kept(b)

\* What a backend's methods have to be; OwnershipProofs shows it of all but one.
ProgramsOwn == \A b \in Backends : \E st : Accounts(b, st)

LEMMA LeadsNowhere ==
  ASSUME NEW o, NEW p, NEW o2, NEW p2, Leads(<<>>, o, p, o2, p2)
  PROVE  o2 = o /\ p2 = p
BY EmptySeq DEF Leads

LEMMA LeadsTail ==
  ASSUME NEW s, s \in Seq(Range(s)), s # <<>>, NEW o, NEW p, NEW o2, NEW p2,
         Leads(s, o, p, o2, p2)
  PROVE  Careful(Head(s), o, p) /\ Leads(Tail(s), After(o, Head(s)), Busy(p, Head(s)), o2, p2)
<1>1. PICK own, busy :
        /\ own[1] = o /\ busy[1] = p
        /\ own[Len(s) + 1] = o2 /\ busy[Len(s) + 1] = p2
        /\ \A i \in DOMAIN s : /\ Careful(s[i], own[i], busy[i])
                               /\ own[i + 1] = After(own[i], s[i])
                               /\ busy[i + 1] = Busy(busy[i], s[i])
  BY DEF Leads
<1>2. /\ 1 \in DOMAIN s /\ s[1] = Head(s)
      /\ \A i \in DOMAIN Tail(s) : i \in Nat \ {0} /\ i + 1 \in DOMAIN s /\ Tail(s)[i] = s[i + 1]
  BY TailSteps
<1>3. Len(s) \in Nat \ {0} /\ Len(Tail(s)) = Len(s) - 1 /\ DOMAIN Tail(s) = 1 .. Len(s) - 1
  <2> DEFINE T == Range(s)
  <2>1. s \in Seq(T)
    OBVIOUS
  <2> HIDE DEF T
  <2>2. Tail(s) \in Seq(T) /\ Len(Tail(s)) = Len(s) - 1 /\ Len(s) \in Nat \ {0}
    BY <2>1, HeadTailProperties, EmptySeq, LenProperties
  <2>3. QED
    BY <2>2, LenProperties
<1> DEFINE own2 == [i \in 1 .. Len(s) |-> own[i + 1]]
<1> DEFINE busy2 == [i \in 1 .. Len(s) |-> busy[i + 1]]
<1>4. own2[1] = After(o, Head(s)) /\ busy2[1] = Busy(p, Head(s)) /\ Careful(Head(s), o, p)
  BY <1>1, <1>2, <1>3
<1>5. own2[Len(Tail(s)) + 1] = o2 /\ busy2[Len(Tail(s)) + 1] = p2
  BY <1>1, <1>3
<1>6. ASSUME NEW i \in DOMAIN Tail(s)
      PROVE  /\ Careful(Tail(s)[i], own2[i], busy2[i])
             /\ own2[i + 1] = After(own2[i], Tail(s)[i])
             /\ busy2[i + 1] = Busy(busy2[i], Tail(s)[i])
  <2>1. i + 1 \in DOMAIN s /\ Tail(s)[i] = s[i + 1] /\ i \in 1 .. Len(s) /\ i + 1 \in 1 .. Len(s)
    BY <1>2, <1>3
  <2>2. own2[i] = own[i + 1] /\ own2[i + 1] = own[(i + 1) + 1]
    BY <2>1
  <2>3. busy2[i] = busy[i + 1] /\ busy2[i + 1] = busy[(i + 1) + 1]
    BY <2>1
  <2>4. QED
    BY <1>1, <2>1, <2>2, <2>3
<1> HIDE DEF own2, busy2
<1>7. QED
  BY <1>4, <1>5, <1>6 DEF Leads

LEMMA BookAfter ==
  ASSUME NEW things, NEW o \in Book(things), NEW s, IsStep(s, things)
  PROVE  After(o, s) \in Book(things)
<1> DEFINE entries == [refs : Nat, by : Allocator \cup {"nobody"}]
<1>1. o \in [things -> entries] /\ Nobody \in entries
  BY DEF Book, Nobody
<1>2. SUFFICES ASSUME NEW x \in things PROVE After(o, s)[x] \in entries
  <2>1. DOMAIN After(o, s) = things /\ After(o, s) = [x \in DOMAIN After(o, s) |-> After(o, s)[x]]
    BY <1>1 DEF After
  <2> HIDE DEF entries
  <2>2. QED
    BY <1>2, <2>1 DEF Book, entries
<1>3. o[x] \in entries /\ o[x].refs \in Nat /\ o[x].by \in Allocator \cup {"nobody"}
  BY <1>1
<1>4. CASE s.do = "acquire" /\ x \in s.what
  <2>1. After(o, s)[x] = [refs |-> o[x].refs + 1, by |-> s.by]
    BY <1>1, <1>4 DEF After
  <2>2. QED
    BY <1>3, <1>4, <2>1 DEF IsStep
<1>5. CASE s.do = "retain" /\ x \in s.what
  BY <1>1, <1>3, <1>5 DEF After
<1>6. CASE s.do = "release" /\ x \in s.what
  <2>1. After(o, s)[x] = IF o[x].refs <= 1 THEN Nobody ELSE [refs |-> o[x].refs - 1, by |-> o[x].by]
    BY <1>1, <1>6 DEF After
  <2>2. QED
    BY <1>1, <1>3, <2>1
<1>7. CASE s.do = "rename" /\ x = s.from
  BY <1>1, <1>7 DEF After
<1>8. CASE s.do = "rename" /\ x = s.to /\ x # s.from
  <2>1. s.from \in things /\ After(o, s)[x] = o[s.from]
    BY <1>1, <1>8 DEF After, IsStep
  <2> HIDE DEF entries
  <2>2. QED
    BY <1>1, <2>1
<1>9. CASE /\ ~(s.do \in {"acquire", "retain", "release"} /\ x \in s.what)
           /\ ~(s.do = "rename" /\ x \in {s.from, s.to})
  BY <1>1, <1>3, <1>9 DEF After
<1>10. QED
  BY <1>4, <1>5, <1>6, <1>7, <1>8, <1>9

LEMMA RenamedTouches ==
  ASSUME NEW things, NEW op, IsOperation(op, things), NEW x, NEW y
  PROVE  Touches(Renamed(op, x, y)) \subseteq {IF z = x THEN y ELSE z : z \in Touches(op)}
<1> DEFINE New(z) == IF z = x THEN y ELSE z
<1> DEFINE Old(z) == IF z = y /\ x \in DOMAIN op THEN x ELSE z
<1> DEFINE r == Renamed(op, x, y)
<1>1. r = [z \in {New(w) : w \in DOMAIN op} |->
             Value(op[Old(z)].k, [f \in Field |-> New(op[Old(z)].of[f])])]
  BY DEF Renamed
<1> HIDE DEF r
<1>2. Writes(r) \subseteq {New(z) : z \in Touches(op)}
  BY <1>1 DEF Writes, Touches
<1>3. ASSUME NEW z \in DOMAIN r, NEW f \in Operands(r[z].k)
      PROVE  \E w \in Touches(op) : r[z].of[f] = New(w)
  <2>1. Old(z) \in DOMAIN op
    BY <1>1
  <2> HIDE DEF Old
  <2>2. r[z].k = op[Old(z)].k /\ r[z].of = [g \in Field |-> New(op[Old(z)].of[g])]
    BY <1>1 DEF Value
  <2>3. f \in Operands(op[Old(z)].k) /\ f \in Field
    BY <1>3, <2>2 DEF Operands, Field
  <2>4. op[Old(z)].of[f] \in Touches(op)
    BY <2>1, <2>3 DEF Touches, Reads
  <2>5. QED
    BY <2>2, <2>3, <2>4
<1>4. Reads(r) \subseteq {New(z) : z \in Touches(op)}
  BY <1>3 DEF Reads
<1>5. QED
  BY <1>2, <1>4 DEF Touches, r

----------------------------------------------------------------------------
(* The book during a session                                               *)

\* The book a phase is entered with.
PhaseOfBook == IF phase = "compared" THEN "given" ELSE phase

\* The book is that of what is held.
Books(o) ==
  /\ o \in Book(Thing(backend))
  /\ \A x \in Thing(backend) : held[x].refs = o[x].refs /\ held[x].by = o[x].by

\* Pending work touches p, and what is in p is held.
Covers(o, p) ==
  /\ \A i \in DOMAIN queue : Touches(queue[i].op) \subseteq p
  /\ \A x \in p : x \in Thing(backend) /\ o[x].refs > 0

\* The pointers of get_arrays point to what is held after it.
Points(st) ==
  /\ phase = "given" => call = "none" /\ \A f \in Field : st["given"][given[f]].refs > 0
  /\ call = "get_arrays" =>
       /\ \/ \A f \in Field : st["given"][given[f]].refs > 0
          \/ \E i \in DOMAIN code : code[i].do = "arrays"
       /\ \A i \in DOMAIN code : code[i].do = "arrays" =>
            \A f \in Field : st["given"][code[i].from[f]].refs > 0

\* The book now, and how the rest of the method leads to the next one.
OnTrack(st, o, p) ==
  /\ phase \in {"refused", "listed", "gone"} => call = "none"
  /\ call = "none" /\ phase # "refused" => code = <<>> /\ o = st[PhaseOfBook]
  /\ call # "none" => \E q : Leads(code, o, p, st[PhaseAfter(call)], q)

\* Whatever happens, the host is in a method that leads from the book of now
\* to that of the next phase.  That is inductive, and UsesOnlyLive is not: it
\* does not say what the steps to come rely on.
Entered(st, o, p) ==
  Accounts(backend, st) /\ Books(o) /\ Covers(o, p) /\ Points(st) /\ OnTrack(st, o, p)

Owning == \E st, o, p : Entered(st, o, p)

LEMMA OwningInit == ASSUME ProgramsOwn, Init PROVE Owning
<1>1. /\ backend \in Backends /\ phase = "start" /\ call = "none" /\ code = <<>> /\ queue = <<>>
      /\ held = [x \in Thing(backend) |-> NotHeld]
  BY DEF Init
<1>2. PICK st : Accounts(backend, st)
  BY <1>1 DEF ProgramsOwn
<1>3. Books(st["start"])
  BY <1>1, <1>2 DEF Books, Accounts, NotHeld, Nobody
<1>4. Covers(st["start"], {})
  BY <1>1 DEF Covers
<1>5. Points(st) /\ OnTrack(st, st["start"], {})
  BY <1>1 DEF Points, OnTrack, PhaseOfBook
<1>6. QED
  BY <1>2, <1>3, <1>4, <1>5 DEF Owning, Entered

LEMMA EnterOwning ==
  ASSUME Typed, Blocking, NEW st, NEW o, NEW p, Entered(st, o, p),
         NEW c \in Callable(backend) \cup {"list", "construct", "get_arrays", "destroy"},
         NEW from, Enter(c, from), c # "none",
         from = IF c = "destroy" THEN "compared" ELSE PhaseBefore(c)
  PROVE  Entered(st, o, {})' /\ o = st[PhaseBefore(c)]
<1>1. /\ UNCHANGED <<backend, machine, phase, held, queue, given>>
      /\ phase = from /\ call = "none" /\ call' = c /\ code' = Program(backend, c)
      /\ queue = <<>>
  BY DEF Enter, stable, store, choice, result, Blocking
<1>2. Entered(st, o, p)
  OBVIOUS
<1>3. phase \notin {"refused", "listed", "gone"} /\ PhaseOfBook = PhaseBefore(c) /\ phase # "given"
  BY <1>1 DEF PhaseBefore, PhaseOfBook
<1>4. o = st[PhaseBefore(c)]
  BY <1>1, <1>2, <1>3 DEF Entered, OnTrack
<1>5. \E q : Leads(Program(backend, c), o, {}, st[PhaseAfter(c)], q)
  BY <1>2, <1>4 DEF Entered, Accounts
<1>6. OnTrack(st, o, {})'
  BY <1>1, <1>3, <1>5 DEF OnTrack
<1>7. Points(st)'
  <2>1. c = "get_arrays" => \E i \in DOMAIN Program(backend, c) : Program(backend, c)[i].do = "arrays"
    BY <1>1, ProgramsTyped DEF Typed, DriverTyped
  <2>2. QED
    BY <1>1, <1>2, <1>3, <2>1 DEF Entered, Accounts, Points
<1>8. Accounts(backend, st)' /\ Books(o)' /\ Covers(o, {})'
  BY <1>1, <1>2 DEF Entered, Books, Covers, Accounts
<1>9. QED
  BY <1>4, <1>6, <1>7, <1>8 DEF Entered

\* The driver enters a method where it may, or compares.
LEMMA DriverEnters ==
  ASSUME Typed, Driver
  PROVE  \/ Compare
         \/ \E c \in Callable(backend) \cup {"list", "construct", "get_arrays", "destroy"} :
              c # "none" /\ Enter(c, IF c = "destroy" THEN "compared" ELSE PhaseBefore(c))
<1>1. CASE Enumerate \/ Construct \/ TakeArrays \/ Destroy
  BY <1>1 DEF Enumerate, Construct, TakeArrays, Destroy, PhaseBefore
<1>2. ASSUME NEW k \in Callable(backend), CallKernel(k)
      PROVE  Enter(k, "ready") /\ k # "none" /\ k # "destroy" /\ PhaseBefore(k) = "ready"
  <2>1. k \in Kernel
    BY <1>2, ProgramsTyped DEF Typed, DriverTyped
  <2>2. k \in {"Copy", "Mul", "Add", "Triad", "Nstream", "Dot"}
    BY <2>1 DEF Kernel, ArrayKernels
  <2>3. QED
    BY <1>2, <2>2 DEF PhaseBefore, CallKernel
<1>3. QED
  BY <1>1, <1>2 DEF Driver

LEMMA CompareOwning ==
  ASSUME NEW st, NEW o, NEW p, Entered(st, o, p), Compare
  PROVE  Entered(st, o, p)'
<1>1. /\ UNCHANGED <<backend, machine, call, code, held, queue, given>> /\ phase = "given"
      /\ phase' = "compared" /\ call = "none"
  BY DEF Compare, stable, store, choice, result
<1>2. Books(o)' /\ Covers(o, p)' /\ Accounts(backend, st)'
  BY <1>1 DEF Entered, Books, Covers
<1>3. Points(st)' /\ OnTrack(st, o, p)'
  BY <1>1 DEF Entered, Points, OnTrack, PhaseOfBook
<1>4. QED
  BY <1>2, <1>3 DEF Entered

LEMMA ReturnOwning ==
  ASSUME NEW st, NEW o, NEW p, Entered(st, o, p), Return
  PROVE  Entered(st, o, p)'
<1>1. /\ UNCHANGED <<backend, machine, code, held, queue, given>>
      /\ call # "none" /\ code = <<>> /\ DOMAIN code = {} /\ call' = "none"
      /\ phase' = PhaseAfter(call)
  BY DEF Return, stable, store, choice, result
<1>2. Entered(st, o, p)
  OBVIOUS
<1>3. o = st[PhaseAfter(call)]
  BY <1>1, <1>2, LeadsNowhere DEF Entered, OnTrack
<1>4. PhaseAfter(call) \notin {"refused", "compared"}
      /\ (PhaseAfter(call) = "given" => call = "get_arrays")
  BY DEF PhaseAfter
<1>5. OnTrack(st, o, p)' /\ Points(st)'
  BY <1>1, <1>2, <1>3, <1>4 DEF Entered, OnTrack, Points, PhaseOfBook
<1>6. Books(o)' /\ Covers(o, p)' /\ Accounts(backend, st)'
  BY <1>1, <1>2 DEF Entered, Books, Covers
<1>7. QED
  BY <1>5, <1>6 DEF Entered

LEMMA RefuseOwning ==
  ASSUME NEW st, NEW o, NEW p, Entered(st, o, p), Refuse
  PROVE  Entered(st, o, p)'
<1>1. /\ UNCHANGED <<backend, machine, held, queue, given>>
      /\ call' = "none" /\ code' = <<>> /\ phase' = "refused"
  BY DEF Refuse, stable, store, choice, result
<1>2. OnTrack(st, o, p)' /\ Points(st)'
  BY <1>1 DEF OnTrack, Points
<1>3. Books(o)' /\ Covers(o, p)' /\ Accounts(backend, st)'
  BY <1>1 DEF Entered, Books, Covers
<1>4. QED
  BY <1>2, <1>3 DEF Entered

LEMMA ExecuteOwning ==
  ASSUME Typed, NEW st, NEW o, NEW p, Entered(st, o, p), Execute
  PROVE  Entered(st, o, p)'
<1>1. PICK i \in DOMAIN queue : queue' = RemoveAt(queue, i)
  BY DEF Execute
<1>2. UNCHANGED <<backend, machine, phase, call, code, held, given>>
  BY DEF Execute, stable, driver, choice, result
<1>3. queue \in Seq(Range(queue))
  BY DEF Typed, QueueTyped
<1>4. \A j \in DOMAIN queue' : \E k \in DOMAIN queue : queue'[j] = queue[k]
  BY <1>1, <1>3, Removed
<1>5. OnTrack(st, o, p)' /\ Points(st)' /\ Books(o)' /\ Accounts(backend, st)'
  BY <1>2 DEF Entered, OnTrack, Points, Books, PhaseOfBook
<1>6. Covers(o, p)'
  BY <1>2, <1>4 DEF Entered, Covers
<1>7. QED
  BY <1>5, <1>6 DEF Entered

\* Every other step of a method leads on.
LEMMA AdvanceOwning ==
  ASSUME Typed, NEW st, NEW o, NEW p, Entered(st, o, p), NEW kind, AtStep(kind), Advance,
         NEW o2, o2 = After(o, Head(code)), NEW p2, p2 = Busy(p, Head(code)),
         Books(o2)', Covers(o2, p2)', kind # "arrays" => given' = given,
         kind = "arrays" => given' = Head(code).from
  PROVE  Entered(st, o2, p2)'
<1>1. /\ code \in Seq(Range(code)) /\ code # <<>> /\ call # "none" /\ Head(code).do = kind
      /\ code' = Tail(code) /\ UNCHANGED <<backend, machine, phase, call>>
  BY DEF Typed, CodeTyped, AtStep, Advance, stable, driver
<1>2. PICK q : Leads(code, o, p, st[PhaseAfter(call)], q)
  BY <1>1 DEF Entered, OnTrack
<1>3. Leads(code', o2, p2, st[PhaseAfter(call)], q)
  BY <1>1, <1>2, LeadsTail
<1>4. OnTrack(st, o2, p2)'
  BY <1>1, <1>3 DEF OnTrack, Entered
<1>5. /\ 1 \in DOMAIN code /\ code[1] = Head(code)
      /\ \A i \in DOMAIN Tail(code) : i + 1 \in DOMAIN code /\ Tail(code)[i] = code[i + 1]
      /\ \A i \in DOMAIN code : i \in Nat /\ (i > 1 => i - 1 \in DOMAIN Tail(code) /\ code[i] = Tail(code)[i - 1])
  BY <1>1, TailSteps
<1>6. Points(st)'
  <2>1. phase = "given" => call = "none"
    BY DEF Entered, Points
  <2>2. SUFFICES ASSUME call = "get_arrays"
                 PROVE  /\ \/ \A f \in Field : st["given"][given'[f]].refs > 0
                           \/ \E i \in DOMAIN code' : code'[i].do = "arrays"
                        /\ \A i \in DOMAIN code' : code'[i].do = "arrays" =>
                             \A f \in Field : st["given"][code'[i].from[f]].refs > 0
    BY <1>1, <2>1 DEF Points
  <2>3. \A i \in DOMAIN code : code[i].do = "arrays" =>
          \A f \in Field : st["given"][code[i].from[f]].refs > 0
    BY <2>2 DEF Entered, Points
  <2>4. \A i \in DOMAIN code' : code'[i].do = "arrays" =>
          \A f \in Field : st["given"][code'[i].from[f]].refs > 0
    BY <1>1, <1>5, <2>3
  <2>5. CASE kind = "arrays"
    BY <1>1, <1>5, <2>3, <2>4, <2>5
  <2>6. CASE kind # "arrays" /\ \A f \in Field : st["given"][given[f]].refs > 0
    BY <2>4, <2>6
  <2>7. CASE kind # "arrays" /\ \E i \in DOMAIN code : code[i].do = "arrays"
    <3>1. PICK i \in DOMAIN code : code[i].do = "arrays"
      BY <2>7
    <3>2. i > 1
      BY <1>1, <1>5, <2>7, <3>1
    <3>3. QED
      BY <1>1, <1>5, <2>4, <3>1, <3>2
  <2>8. QED
    BY <2>2, <2>5, <2>6, <2>7 DEF Entered, Points
<1>7. Accounts(backend, st)'
  BY <1>1 DEF Entered
<1>8. QED
  BY <1>4, <1>6, <1>7 DEF Entered

\* The steps that change no book.
LEMMA AfterSame ==
  ASSUME NEW things, NEW o \in Book(things), NEW s,
         s.do \notin {"acquire", "retain", "release", "rename"}
  PROVE  After(o, s) = o
BY DEF After, Book

\* What the host is about to do is careful.
LEMMA HeadCareful ==
  ASSUME Typed, NEW st, NEW o, NEW p, Entered(st, o, p), NEW kind, AtStep(kind)
  PROVE  /\ Careful(Head(code), o, p) /\ IsStep(Head(code), Thing(backend)) /\ Head(code).do = kind
         /\ o \in Book(Thing(backend)) /\ DOMAIN o = Thing(backend) /\ DOMAIN held = Thing(backend)
         /\ After(o, Head(code)) \in Book(Thing(backend))
<1>1. code \in Seq(Range(code)) /\ code # <<>> /\ call # "none" /\ Head(code).do = kind
  BY DEF Typed, CodeTyped, AtStep
<1>2. IsStep(Head(code), Thing(backend))
  BY AtStepTyped DEF Typed
<1>3. o \in Book(Thing(backend)) /\ DOMAIN o = Thing(backend) /\ DOMAIN held = Thing(backend)
  BY DEF Entered, Books, Book, Typed, ObjectsTyped
<1>4. PICK q : Leads(code, o, p, st[PhaseAfter(call)], q)
  BY <1>1 DEF Entered, OnTrack
<1>5. Careful(Head(code), o, p)
  BY <1>1, <1>4, LeadsTail
<1>6. QED
  BY <1>1, <1>2, <1>3, <1>5, BookAfter

LEMMA ObjectsOwning ==
  ASSUME Typed, NEW st, NEW o, NEW p, Entered(st, o, p), DoAcquire \/ DoRetain \/ DoRelease,
         NEW o2, o2 = After(o, Head(code)), NEW p2, p2 = Busy(p, Head(code))
  PROVE  Entered(st, o2, p2)'
<1>1. PICK kind \in {"acquire", "retain", "release"} : AtStep(kind) /\ Advance
  BY DEF DoAcquire, DoRetain, DoRelease
<1>2. Entered(st, o, p)
  OBVIOUS
<1>3. UNCHANGED <<queue, given, backend>>
  BY DEF DoAcquire, DoRetain, DoRelease, result, Advance, stable
<1> DEFINE s == Head(code)
<1>4. /\ Careful(s, o, p) /\ s.do = kind /\ o \in Book(Thing(backend)) /\ DOMAIN o = Thing(backend)
      /\ DOMAIN held = Thing(backend) /\ After(o, s) \in Book(Thing(backend))
  BY <1>1, <1>2, HeadCareful
<1>5. o2 = After(o, s)
  OBVIOUS
<1>6. p2 = p
  BY <1>1, <1>4 DEF Busy
<1>7. s.what \subseteq Thing(backend) /\ \A x \in s.what : o[x].refs \in Nat
  BY <1>1, <1>4 DEF Careful, Book
<1>8. ASSUME NEW x \in Thing(backend)
      PROVE  /\ held'[x].refs = o2[x].refs /\ held'[x].by = o2[x].by
             /\ x \in p => o2[x].refs > 0
  <2>1. held[x].refs = o[x].refs /\ held[x].by = o[x].by /\ o[x].refs \in Nat
    BY <1>2, <1>4 DEF Entered, Books, Book
  <2>2. held[x] \in [refs : Nat, by : Allocator \cup {"nobody"}, on : Int]
    BY DEF Typed, ObjectsTyped
  <2>3. x \in p => o[x].refs > 0
    BY <1>2 DEF Entered, Covers
  <2>4. CASE DoAcquire
    <3>1. s.do = "acquire"
      BY <2>4 DEF DoAcquire, AtStep
    <3>2. o2[x] = IF x \in s.what THEN [refs |-> o[x].refs + 1, by |-> s.by] ELSE o[x]
      BY <1>4, <1>5, <3>1 DEF After
    <3>3. held'[x] = IF x \in s.what THEN [refs |-> held[x].refs + 1, by |-> s.by,
                                           on |-> IF s.host THEN HostPlace ELSE current]
                     ELSE held[x]
      BY <1>4, <2>4 DEF DoAcquire
    <3> HIDE DEF s
    <3>4. QED
      BY <2>1, <2>3, <3>2, <3>3
  <2>5. CASE DoRetain
    <3>1. s.do = "retain"
      BY <2>5 DEF DoRetain, AtStep
    <3>2. o2[x] = IF x \in s.what THEN [refs |-> o[x].refs + 1, by |-> o[x].by] ELSE o[x]
      BY <1>4, <1>5, <3>1 DEF After
    <3>3. held'[x] = IF x \in s.what THEN [held[x] EXCEPT !.refs = @ + 1] ELSE held[x]
      BY <1>4, <2>5 DEF DoRetain
    <3> HIDE DEF s
    <3>4. QED
      BY <2>1, <2>2, <2>3, <3>2, <3>3
  <2>6. CASE DoRelease
    <3>1. s.do = "release"
      BY <2>6 DEF DoRelease, AtStep
    <3>2. o2[x] = IF x \notin s.what THEN o[x]
                  ELSE IF o[x].refs <= 1 THEN Nobody ELSE [refs |-> o[x].refs - 1, by |-> o[x].by]
      BY <1>4, <1>5, <3>1 DEF After
    <3>3. held'[x] = IF x \notin s.what THEN held[x]
                     ELSE IF held[x].refs <= 1 THEN NotHeld
                     ELSE [held[x] EXCEPT !.refs = @ - 1]
      BY <1>4, <2>6 DEF DoRelease
    <3>4. x \in s.what /\ x \in p => o[x].refs > 1
      <4>1. \A z \in s.what : z \in p => o[z].refs > 1
        BY <1>4, <3>1 DEF Careful
      <4>2. QED
        BY <4>1
    <3> HIDE DEF s
    <3>5. QED
      BY <2>1, <2>2, <2>3, <3>2, <3>3, <3>4 DEF NotHeld, Nobody
  <2>7. QED
    BY <2>4, <2>5, <2>6
<1>9. Books(o2)' /\ Covers(o2, p2)'
  BY <1>2, <1>3, <1>4, <1>5, <1>6, <1>8 DEF Books, Covers, Entered
<1>10. QED
  BY <1>1, <1>3, <1>9, AdvanceOwning

LEMMA RenameOwning ==
  ASSUME Typed, NEW st, NEW o, NEW p, Entered(st, o, p), DoRename,
         NEW o2, o2 = After(o, Head(code)), NEW p2, p2 = Busy(p, Head(code))
  PROVE  Entered(st, o2, p2)'
<1> DEFINE s == Head(code)
<1> DEFINE x == s.from
<1> DEFINE y == s.to
<1>1. /\ AtStep("rename") /\ Advance /\ UNCHANGED <<given, backend>>
      /\ held' = [held EXCEPT ![y] = held[x], ![x] = NotHeld]
      /\ queue' = [i \in DOMAIN queue |-> [queue[i] EXCEPT !.op = Renamed(@, x, y)]]
  BY DEF DoRename, result, Advance, stable
<1>2. Entered(st, o, p)
  OBVIOUS
<1>3. /\ Careful(s, o, p) /\ IsStep(s, Thing(backend)) /\ s.do = "rename"
      /\ o \in Book(Thing(backend)) /\ DOMAIN o = Thing(backend)
      /\ DOMAIN held = Thing(backend) /\ After(o, s) \in Book(Thing(backend))
  BY <1>1, <1>2, HeadCareful
<1>4. x \in Thing(backend) /\ y \in Thing(backend) /\ o[x].refs > 0 /\ o[y].refs = 0 /\ x # y
  BY <1>3 DEF Careful, IsStep
<1>5. o2 = After(o, s)
  OBVIOUS
<1>6. p2 = Busy(p, s)
  OBVIOUS
<1>7. p2 = {IF z = x THEN y ELSE z : z \in p}
  BY <1>3, <1>6 DEF Busy
<1>8. o2 = [z \in Thing(backend) |-> IF z = x THEN Nobody ELSE IF z = y THEN o[x] ELSE o[z]]
  BY <1>3, <1>5 DEF After
<1> HIDE DEF x, y
<1>9. Books(o2)'
  <2>1. ASSUME NEW z \in Thing(backend) PROVE held'[z].refs = o2[z].refs /\ held'[z].by = o2[z].by
    <3>1. held[z].refs = o[z].refs /\ held[z].by = o[z].by /\ held[x].refs = o[x].refs /\ held[x].by = o[x].by
      BY <1>2, <1>4 DEF Entered, Books
    <3>2. QED
      BY <1>1, <1>3, <1>4, <1>8, <3>1 DEF NotHeld, Nobody
  <2>2. QED
    BY <1>1, <1>3, <1>5, <2>1 DEF Books
<1>10. Covers(o2, p2)'
  <2>1. ASSUME NEW i \in DOMAIN queue' PROVE Touches(queue'[i].op) \subseteq p2
    <3>1. queue[i] = [op |-> queue[i].op, on |-> queue[i].on] /\ IsOperation(queue[i].op, Thing(backend))
          /\ i \in DOMAIN queue
      BY <1>1, <2>1 DEF Typed, QueueTyped
    <3>2. queue'[i] = [queue[i] EXCEPT !.op = Renamed(@, x, y)]
      BY <1>1, <3>1
    <3>3. queue'[i].op = Renamed(queue[i].op, x, y)
      BY <3>1, <3>2
    <3>4. Touches(Renamed(queue[i].op, x, y)) \subseteq {IF z = x THEN y ELSE z : z \in Touches(queue[i].op)}
      BY <3>1, RenamedTouches
    <3>5. Touches(queue[i].op) \subseteq p
      BY <1>2, <3>1 DEF Entered, Covers
    <3>6. QED
      BY <1>7, <3>3, <3>4, <3>5
  <2>2. ASSUME NEW z \in p2 PROVE z \in Thing(backend) /\ o2[z].refs > 0
    <3>1. PICK w \in p : z = IF w = x THEN y ELSE w
      BY <1>7
    <3>2. w \in Thing(backend) /\ o[w].refs > 0
      BY <1>2 DEF Entered, Covers
    <3>3. QED
      BY <1>4, <1>8, <3>1, <3>2
  <2>3. QED
    BY <1>1, <2>1, <2>2 DEF Covers
<1>11. QED
  BY <1>1, <1>9, <1>10, AdvanceOwning

LEMMA SubmitOwning ==
  ASSUME Typed, NEW st, NEW o, NEW p, Entered(st, o, p), DoSubmit,
         NEW o2, o2 = After(o, Head(code)), NEW p2, p2 = Busy(p, Head(code))
  PROVE  Entered(st, o2, p2)'
<1> DEFINE e == [op |-> Head(code).op, on |-> current]
<1>1. AtStep("submit") /\ Advance /\ queue' = Append(queue, e) /\ UNCHANGED <<held, given, backend>>
  BY DEF DoSubmit, result, Advance, stable
<1>2. Entered(st, o, p)
  OBVIOUS
<1>3. /\ Careful(Head(code), o, p) /\ IsStep(Head(code), Thing(backend)) /\ Head(code).do = "submit"
      /\ o \in Book(Thing(backend))
  BY <1>1, <1>2, HeadCareful
<1>4. o2 = o
  BY <1>3, AfterSame
<1>6. p2 = p \cup Touches(e.op)
  BY <1>3 DEF Busy
<1>7. Touches(e.op) \subseteq Thing(backend) /\ \A x \in Touches(e.op) : o[x].refs > 0
  BY <1>3, OperationTouches DEF IsStep, Careful
<1> HIDE DEF e
<1>8. \A j \in DOMAIN queue' : queue'[j] = e \/ \E k \in DOMAIN queue : queue'[j] = queue[k]
  <2>1. queue \in Seq(Range(queue))
    BY DEF Typed, QueueTyped
  <2>2. QED
    BY <1>1, <2>1, Appended
<1>9. Books(o2)' /\ Covers(o2, p2)'
  BY <1>1, <1>2, <1>4, <1>6, <1>7, <1>8 DEF Entered, Books, Covers
<1>10. QED
  BY <1>1, <1>9, AdvanceOwning

LEMMA OtherOwning ==
  ASSUME Typed, NEW st, NEW o, NEW p, Entered(st, o, p),
         DoSelect \/ DoList \/ Passes \/ DoWait \/ DoAccess \/ DoLeave \/ DoRun \/ DoSum \/ DoHandOut,
         NEW o2, o2 = After(o, Head(code)), NEW p2, p2 = Busy(p, Head(code))
  PROVE  Entered(st, o2, p2)'
<1>1. PICK kind \in {"select", "list", "check", "wait", "access", "leave", "run", "sum", "arrays"} :
        /\ AtStep(kind) /\ Advance
        /\ kind = "wait" => queue = <<>>
        /\ IF kind = "arrays" THEN given' = Head(code).from ELSE given' = given
  BY DEF DoSelect, DoList, Passes, DoWait, DoAccess, DoLeave, DoRun, DoSum, DoHandOut, Drained, result
<1>2. UNCHANGED <<held, queue, backend>>
  BY DEF DoSelect, DoList, Passes, DoWait, DoAccess, DoLeave, DoRun, DoSum, DoHandOut, store,
         Advance, stable
<1>3. Head(code).do = kind /\ o \in Book(Thing(backend))
  BY <1>1, HeadCareful
<1>4. o2 = o
  BY <1>1, <1>3, AfterSame
<1>5. p2 = IF kind = "wait" THEN {} ELSE p
  BY <1>1, <1>3 DEF Busy
<1>6. Books(o2)' /\ Covers(o2, p2)'
  BY <1>1, <1>2, <1>4, <1>5 DEF Entered, Books, Covers
<1>7. QED
  BY <1>1, <1>6, AdvanceOwning

\* Every step that does not throw leads from one book to the next.
LEMMA StepOwning ==
  ASSUME Typed, NEW st, NEW o, NEW p, Entered(st, o, p), Step, ~Refuse,
         NEW o2, o2 = After(o, Head(code)), NEW p2, p2 = Busy(p, Head(code))
  PROVE  Entered(st, o2, p2)'
BY ObjectsOwning, RenameOwning, SubmitOwning, OtherOwning DEF Step

LEMMA StutterOwning ==
  ASSUME NEW st, NEW o, NEW p, Entered(st, o, p), UNCHANGED vars
  PROVE  Entered(st, o, p)'
<1>1. UNCHANGED <<backend, machine, phase, call, code, held, queue, given>>
  BY DEF vars, stable, driver, store, choice, result
<1>2. Accounts(backend, st)' /\ Books(o)' /\ Covers(o, p)' /\ Points(st)'
  BY <1>1 DEF Entered, Books, Covers, Points
<1>3. OnTrack(st, o, p)'
  BY <1>1 DEF Entered, OnTrack, PhaseOfBook
<1>4. QED
  BY <1>2, <1>3 DEF Entered

LEMMA OwningNext == ASSUME Typed, Blocking, Owning, [Next]_vars PROVE Owning'
<1>1. PICK st, o, p : Entered(st, o, p)
  BY DEF Owning
<1>2. CASE Driver
  <2>1. CASE Compare
    BY <1>1, <2>1, CompareOwning DEF Owning
  <2>2. CASE ~Compare
    <3>1. PICK c \in Callable(backend) \cup {"list", "construct", "get_arrays", "destroy"} :
            c # "none" /\ Enter(c, IF c = "destroy" THEN "compared" ELSE PhaseBefore(c))
      BY <1>2, <2>2, DriverEnters
    <3>2. Entered(st, o, {})'
      BY <1>1, <3>1, EnterOwning
    <3>3. QED
      BY <3>2 DEF Owning
  <2>3. QED
    BY <2>1, <2>2
<1>3. CASE Step /\ ~Refuse
  <2>1. PICK o2, p2 : o2 = After(o, Head(code)) /\ p2 = Busy(p, Head(code))
    OBVIOUS
  <2>2. Entered(st, o2, p2)'
    BY <1>1, <1>3, <2>1, StepOwning
  <2>3. QED
    BY <2>2 DEF Owning
<1>4. CASE Refuse \/ Return \/ Execute \/ UNCHANGED vars
  BY <1>1, <1>4, RefuseOwning, ReturnOwning, ExecuteOwning, StutterOwning DEF Owning
<1>5. QED
  BY <1>2, <1>3, <1>4 DEF Next

LEMMA OwningLive == ASSUME Typed, Owning PROVE UsesOnlyLive /\ FreesItsOwn
<1>1. PICK st, o, p : Entered(st, o, p)
  BY DEF Owning
<1>2. \A x \in Thing(backend) : held[x].refs = o[x].refs /\ held[x].by = o[x].by
  BY <1>1 DEF Entered, Books
<1>3. ASSUME NEW i \in DOMAIN queue, NEW x \in Touches(queue[i].op) PROVE Held(x)
  BY <1>1, <1>2 DEF Entered, Covers, Held
<1>4. ASSUME AtStep("run"), NEW x \in Touches(Head(code).op) PROVE Held(x)
  <2>1. x \in Thing(backend) /\ o[x].refs > 0
    BY <1>1, <1>4, HeadCareful, OperationTouches DEF Careful, IsStep
  <2>2. QED
    BY <1>2, <2>1 DEF Held
<1>5. AtStep("sum") => Held(Head(code).from)
  BY <1>1, <1>2, HeadCareful DEF Careful, IsStep, Held
<1>6. ASSUME phase = "given", NEW f \in Field PROVE Held(given[f])
  <2>1. given[f] \in Thing(backend)
    BY <1>6 DEF Typed, PointersTyped
  <2>2. call = "none" /\ st["given"][given[f]].refs > 0 /\ o = st["given"]
    BY <1>1, <1>6 DEF Entered, Points, OnTrack, PhaseOfBook
  <2>3. QED
    BY <1>2, <2>1, <2>2 DEF Held
<1>7. ASSUME AtStep("release"), NEW x \in Head(code).what
      PROVE  Held(x) /\ held[x].by = Head(code).by
  <2>1. Careful(Head(code), o, p) /\ Head(code).do = "release" /\ DOMAIN o = Thing(backend)
    BY <1>1, <1>7, HeadCareful
  <2>2. x \in Thing(backend) /\ o[x].refs > 0 /\ o[x].by = Head(code).by
    BY <1>7, <2>1 DEF Careful
  <2>3. QED
    BY <1>2, <2>2 DEF Held
<1>8. ASSUME AtStep("acquire"), NEW x \in Head(code).what PROVE ~Held(x)
  BY <1>1, <1>2, <1>8, HeadCareful DEF Careful, Held
<1>9. AtStep("rename") => Held(Head(code).from) /\ ~Held(Head(code).to)
  BY <1>1, <1>2, HeadCareful DEF Careful, IsStep, Held
<1>10. ASSUME phase = "gone", NEW x \in Thing(backend) PROVE Held(x) <=> x \in Kept(backend)
  <2>1. o = st["gone"]
    BY <1>1, <1>10 DEF Entered, OnTrack, PhaseOfBook
  <2>2. st["gone"][x].refs > 0 <=> x \in Kept(backend)
    BY <1>1, <1>10 DEF Entered, Accounts
  <2>3. QED
    BY <1>2, <1>10, <2>1, <2>2 DEF Held
<1>11. QED
  BY <1>3, <1>4, <1>5, <1>6, <1>7, <1>8, <1>9, <1>10 DEF UsesOnlyLive, FreesItsOwn

\* Memory is freed once, by the function that belongs to its allocator, no
\* pointer to memory in use is overwritten, and the destructor frees all but
\* what the class never does: if the methods keep a book.
THEOREM SessionsFreeOwn ==
  ASSUME ProgramsDrain, ProgramsOwn
  PROVE  Spec => []FreesItsOwn
<1>1. Init => Owning
  BY OwningInit
<1>2. Typed /\ Blocking /\ Owning /\ [Next]_vars => Owning'
  BY OwningNext
<1>3. Typed /\ Owning => FreesItsOwn
  BY OwningLive
<1>4. QED
  BY <1>1, <1>2, <1>3, SessionsTyped, SessionsBlock, PTL DEF Spec

\* Neither the device nor the host nor the pointers of get_arrays touch memory
\* that is not allocated, in whatever order the runtime does the work: if the
\* methods keep a book and wait for what they submit.
THEOREM SessionsUseLive ==
  ASSUME ProgramsDrain, ProgramsOwn
  PROVE  Spec => []UsesOnlyLive
<1>1. Init => Owning
  BY OwningInit
<1>2. Typed /\ Blocking /\ Owning /\ [Next]_vars => Owning'
  BY OwningNext
<1>3. Typed /\ Owning => UsesOnlyLive
  BY OwningLive
<1>4. QED
  BY <1>1, <1>2, <1>3, SessionsTyped, SessionsBlock, PTL DEF Spec
----------------------------------------------------------------------------
(* What a session computes: methods that compute the right thing when they *)
(* are read one step after the other, whatever the device does meanwhile   *)

\* What is sure of the objects before a step of a method: which of them pending
\* work may touch, what they will contain when that work is done, for those of
\* which it is known, and which it may still have to write.
View(p, d, w) == [busy |-> p, known |-> d, due |-> w]

\* Knowledge without some of the objects.
Forget(d, xs) == [x \in DOMAIN d \ xs |-> d[x]]

\* The contents that are known, when op has been done.
Learned(d, op) ==
  [x \in DOMAIN d \cup Writes(op) |-> IF x \in Writes(op) THEN Evaluate(op[x], d) ELSE d[x]]

\* A careful step frees nothing that pending work touches.
Known(v, s) ==
  CASE s.do \in {"submit", "run"} -> Learned(v.known, s.op)
    [] s.do = "release"           -> Forget(v.known, s.what \ v.busy)
    [] s.do = "rename"            -> Forget(v.known, {s.from, s.to})
    [] OTHER                      -> v.known

Due(w, s) == CASE s.do = "submit" -> w \cup Writes(s.op)
               [] s.do = "wait"   -> {}
               [] s.do = "access" -> w \ s.what
               [] OTHER           -> w

Viewed(v, s) == View(Busy(v.busy, s), Known(v, s), Due(v.due, s))

\* A step whose outcome is sure: it reads what is known, touches nothing that
\* pending work touches, and gives the caller the sum t.
Sure(s, v, t) ==
  /\ s.do \in {"submit", "run"} => /\ Reads(s.op) \subseteq DOMAIN v.known
                                   /\ Touches(s.op) \cap v.busy = {}
  /\ s.do = "sum" => s.from \in DOMAIN v.known \ v.due /\ v.known[s.from] = t
  /\ s.do = "rename" => v.busy = {}

\* Steps all of them sure, after which d is known.
Teaches(steps, v, t, d) ==
  \E views : /\ views[1] = v /\ views[Len(steps) + 1].known = d
             /\ \A i \in DOMAIN steps : /\ Sure(steps[i], views[i], t)
                                        /\ views[i + 1] = Viewed(views[i], steps[i])

LEMMA TeachesNothing ==
  ASSUME NEW v, NEW t, NEW d, Teaches(<<>>, v, t, d)
  PROVE  d = v.known
BY EmptySeq DEF Teaches

LEMMA TeachesTail ==
  ASSUME NEW s, s \in Seq(Range(s)), s # <<>>, NEW v, NEW t, NEW d, Teaches(s, v, t, d)
  PROVE  Sure(Head(s), v, t) /\ Teaches(Tail(s), Viewed(v, Head(s)), t, d)
<1>1. PICK views : /\ views[1] = v /\ views[Len(s) + 1].known = d
                   /\ \A i \in DOMAIN s : /\ Sure(s[i], views[i], t)
                                          /\ views[i + 1] = Viewed(views[i], s[i])
  BY DEF Teaches
<1>2. /\ 1 \in DOMAIN s /\ s[1] = Head(s)
      /\ \A i \in DOMAIN Tail(s) : i \in Nat \ {0} /\ i + 1 \in DOMAIN s /\ Tail(s)[i] = s[i + 1]
  BY TailSteps
<1>3. Len(s) \in Nat \ {0} /\ Len(Tail(s)) = Len(s) - 1 /\ DOMAIN Tail(s) = 1 .. Len(s) - 1
  <2> DEFINE T == Range(s)
  <2>1. s \in Seq(T)
    OBVIOUS
  <2> HIDE DEF T
  <2>2. Tail(s) \in Seq(T) /\ Len(Tail(s)) = Len(s) - 1 /\ Len(s) \in Nat \ {0}
    BY <2>1, HeadTailProperties, EmptySeq, LenProperties
  <2>3. QED
    BY <2>2, LenProperties
<1> DEFINE later == [i \in 1 .. Len(s) |-> views[i + 1]]
<1>4. later[1] = Viewed(v, Head(s)) /\ Sure(Head(s), v, t)
  BY <1>1, <1>2, <1>3
<1>5. later[Len(Tail(s)) + 1].known = d
  BY <1>1, <1>3
<1>6. ASSUME NEW i \in DOMAIN Tail(s)
      PROVE  Sure(Tail(s)[i], later[i], t) /\ later[i + 1] = Viewed(later[i], Tail(s)[i])
  <2>1. i + 1 \in DOMAIN s /\ Tail(s)[i] = s[i + 1] /\ i \in 1 .. Len(s) /\ i + 1 \in 1 .. Len(s)
    BY <1>2, <1>3
  <2>2. later[i] = views[i + 1] /\ later[i + 1] = views[(i + 1) + 1]
    BY <2>1
  <2>3. QED
    BY <1>1, <2>1, <2>2
<1> HIDE DEF later
<1>7. QED
  BY <1>4, <1>5, <1>6 DEF Teaches

\* The arrays of the backend, when its objects contain d.
InArrays(b, d) == [f \in Field |-> d[Home(b)[f]]]

Has(b, d, x) == Objects(Home(b)) \subseteq DOMAIN d /\ InArrays(b, d) = x

\* What dot returns for one element.
ProductOf(x) == DotOf([i \in Idx(1) |-> x])

NothingKnown == [x \in {} |-> Garbage]

Entering(d) == View({}, d, {})

\* The methods, one step after the other: the constructor starts the arrays,
\* a kernel leaves in them what it has to and gives no sum but their product,
\* and the pointers of get_arrays lead to what they contain.
Computes(b) ==
  /\ \E d : /\ Teaches(Program(b, "construct"), Entering(NothingKnown),
                       ProductOf(StartCell), d)
            /\ Has(b, d, StartCell)
  /\ \A k \in Callable(b), d \in [Objects(Home(b)) -> Val] :
       \E d2 : /\ Teaches(Program(b, k), Entering(d), ProductOf(InArrays(b, d)), d2)
               /\ Has(b, d2, Apply(k, InArrays(b, d)))
  /\ \A d \in [Objects(Home(b)) -> Val] :
       \E d2 :
         /\ Teaches(Program(b, "get_arrays"), Entering(d), ProductOf(InArrays(b, d)), d2)
         /\ \A i \in DOMAIN Program(b, "get_arrays") :
              LET s == Program(b, "get_arrays")[i]
              IN s.do = "arrays" =>
                   \A f \in Field : s.from[f] \in DOMAIN d2 /\ d2[s.from[f]] = InArrays(b, d)[f]
  /\ \A c \in {"list", "destroy"} : \A i \in DOMAIN Program(b, c) : Program(b, c)[i].do # "sum"

\* What the methods of a backend have to be.
ProgramsCompute == \A b \in Backends : Computes(b)
----------------------------------------------------------------------------
(* What is known during a session                                          *)

\* What is known is so when the pending work is done, no part of which
\* disturbs another.
Knows(d, w) ==
  /\ DOMAIN d \subseteq Thing(backend)
  /\ \A x \in DOMAIN d :
       /\ \A i \in DOMAIN queue :
            x \in Writes(queue[i].op) => d[x] = Evaluate(queue[i].op[x], data)
       /\ (\A i \in DOMAIN queue : x \notin Writes(queue[i].op)) => d[x] = data[x]
  /\ \A i, j \in DOMAIN queue : i # j => Touches(queue[i].op) \cap Touches(queue[j].op) = {}
  /\ \A i \in DOMAIN queue : Writes(queue[i].op) \subseteq w

\* What the rest of a method leads to, when the arrays were x at its start.
Reaches(d, x) ==
  CASE call = "construct"  -> x = StartCell /\ Has(backend, d, StartCell)
    [] call = "get_arrays" ->
         /\ \/ \A f \in Field : given[f] \in DOMAIN d /\ d[given[f]] = x[f]
            \/ \E i \in DOMAIN code : code[i].do = "arrays"
         /\ \A i \in DOMAIN code : code[i].do = "arrays" =>
              \A f \in Field : code[i].from[f] \in DOMAIN d /\ d[code[i].from[f]] = x[f]
    [] call \in Kernel     -> Has(backend, d, Apply(call, x))
    [] OTHER               -> TRUE

Learning(p) ==
  \E d, w, d2 : /\ Knows(d, w) /\ Teaches(code, View(p, d, w), DotOf(arrays), d2)
                /\ Reaches(d2, arrays[0])

\* The arrays of the contract between two calls, whatever held them.
AtRest ==
  /\ phase = "start" => arrays = [i \in Idx(1) |-> StartCell]
  /\ phase = "ready" /\ call = "none" => arrays = [i \in Idx(1) |-> Contents]
  /\ phase = "given" => arrays = [i \in Idx(1) |-> [f \in Field |-> data[given[f]]]]
  /\ call \in {"list", "destroy"} => \A i \in DOMAIN code : code[i].do # "sum"

\* What makes the refinement go through: between two calls the backend holds the
\* arrays of the contract, and in a method what is known leads there.
Follows(st, o, p) ==
  /\ Entered(st, o, p) /\ Computes(backend) /\ AtRest
  /\ call \notin {"none", "list", "destroy"} => Learning(p)

Following == \E st, o, p : Follows(st, o, p)

\* Expressions that read the same have the same value.
LEMMA EvaluateReads ==
  ASSUME NEW e, NEW d, NEW d2,
         e.k \in ArrayKernels \cup Field \cup {"Dot", "DotOnto", "zero"},
         \A f \in Operands(e.k) : d[e.of[f]] = d2[e.of[f]]
  PROVE  Evaluate(e, d) = Evaluate(e, d2)
<1> DEFINE x == [f \in Field |-> d[e.of[f]]]
<1> DEFINE y == [f \in Field |-> d2[e.of[f]]]
<1>1. \A f \in Operands(e.k) : f \in Field /\ x[f] = y[f]
  BY DEF Operands, Field
<1>2. Evaluate(e, d) = CASE e.k \in ArrayKernels -> Written(e.k, x)
                         [] e.k \in Field        -> StartCell[e.k]
                         [] e.k = "Dot"          -> DotOf([i \in Idx(1) |-> x])
                         [] e.k = "DotOnto"      -> Plus(x["c"], DotOf([i \in Idx(1) |-> x]))
                         [] e.k = "zero"         -> OfInt(0)
  BY DEF Evaluate
<1>3. Evaluate(e, d2) = CASE e.k \in ArrayKernels -> Written(e.k, y)
                         [] e.k \in Field        -> StartCell[e.k]
                         [] e.k = "Dot"          -> DotOf([i \in Idx(1) |-> y])
                         [] e.k = "DotOnto"      -> Plus(y["c"], DotOf([i \in Idx(1) |-> y]))
                         [] e.k = "zero"         -> OfInt(0)
  BY DEF Evaluate
<1> HIDE DEF x, y
<1>4. CASE e.k \in ArrayKernels
  <2>1. Written(e.k, x) = Written(e.k, y)
    BY <1>1, <1>4 DEF Written, ArrayKernels, Operands, Field
  <2>2. QED
    BY <1>2, <1>3, <1>4, <2>1 DEF ArrayKernels, Field
<1>5. CASE e.k \in Field \cup {"zero"}
  BY <1>2, <1>3, <1>5 DEF ArrayKernels, Field
<1>6. CASE e.k \in {"Dot", "DotOnto"}
  <2>1. x["a"] = y["a"] /\ x["b"] = y["b"] /\ (e.k = "DotOnto" => x["c"] = y["c"])
    BY <1>1, <1>6 DEF Operands, Field
  <2>2. DotOf([i \in Idx(1) |-> x]) = DotOf([i \in Idx(1) |-> y])
    BY <2>1 DEF DotOf
  <2>3. QED
    BY <1>2, <1>3, <1>6, <2>1, <2>2 DEF ArrayKernels, Field
<1>7. QED
  BY <1>4, <1>5, <1>6

\* Removing one element leaves the others where they are, or one place before.
LEMMA RemovedAt ==
  ASSUME NEW q, q \in Seq(Range(q)), NEW i \in DOMAIN q, NEW r, r = RemoveAt(q, i)
  PROVE  /\ \A j \in DOMAIN r : /\ j \in Nat
                               /\ (IF j < i THEN j ELSE j + 1) \in DOMAIN q \ {i}
                               /\ r[j] = q[IF j < i THEN j ELSE j + 1]
         /\ \A k \in DOMAIN q \ {i} : \E j \in DOMAIN r : r[j] = q[k]
<1> DEFINE T == Range(q)
           u == SubSeq(q, 1, i - 1)
           z == SubSeq(q, i + 1, Len(q))
<1>1. Len(q) \in Nat /\ DOMAIN q = 1 .. Len(q) /\ i \in 1 .. Len(q)
  <2> HIDE DEF T
  <2>1. q \in Seq(T) BY DEF T
  <2>2. QED BY <2>1, LenProperties
<1>2. \A k \in 1 .. Len(q) : q[k] \in T
  BY <1>1 DEF Range
<1>3. u \in Seq(T) /\ Len(u) = i - 1 /\ \A k \in 1 .. i - 1 : u[k] = q[k]
  <2>1. \A k \in 1 .. i - 1 : q[k] \in T
    BY <1>1, <1>2
  <2> HIDE DEF T
  <2>2. QED BY <1>1, <2>1, SubSeqProperties
<1>4. z \in Seq(T) /\ Len(z) = Len(q) - i /\ \A k \in 1 .. Len(q) - i : z[k] = q[k + i]
  <2>1. \A k \in i + 1 .. Len(q) : q[k] \in T
    BY <1>1, <1>2
  <2> HIDE DEF T
  <2>2. QED BY <1>1, <2>1, SubSeqProperties
<1>5. /\ Len(u \o z) = Len(q) - 1 /\ DOMAIN (u \o z) = 1 .. Len(q) - 1
      /\ \A k \in 1 .. Len(q) - 1 : (u \o z)[k] = IF k < i THEN q[k] ELSE q[k + 1]
  <2> HIDE DEF T, u, z
  <2>1. /\ Len(u \o z) = Len(u) + Len(z) /\ u \o z \in Seq(T)
        /\ \A k \in 1 .. Len(u) + Len(z) : (u \o z)[k] = IF k <= Len(u) THEN u[k] ELSE z[k - Len(u)]
    BY <1>3, <1>4, ConcatProperties
  <2>2. Len(u \o z) = Len(q) - 1 /\ DOMAIN (u \o z) = 1 .. Len(q) - 1
    <3>1. Len(u) + Len(z) = Len(q) - 1
      BY <1>1, <1>3, <1>4
    <3>2. DOMAIN (u \o z) = 1 .. Len(u \o z)
      BY <2>1, LenProperties
    <3>3. QED
      BY <2>1, <3>1, <3>2
  <2>3. ASSUME NEW k \in 1 .. Len(q) - 1 PROVE (u \o z)[k] = IF k < i THEN q[k] ELSE q[k + 1]
    <3>1. (u \o z)[k] = IF k <= i - 1 THEN u[k] ELSE z[k - (i - 1)]
      <4>1. Len(u) = i - 1 /\ k \in 1 .. Len(u) + Len(z)
        BY <1>1, <1>3, <1>4
      <4>2. QED
        BY <2>1, <4>1
    <3>2. CASE k < i
      <4>1. k <= i - 1 /\ k \in 1 .. i - 1
        BY <1>1, <3>2
      <4>2. QED
        BY <1>3, <3>1, <3>2, <4>1
    <3>3. CASE ~(k < i)
      <4>1. k - (i - 1) \in 1 .. Len(q) - i /\ (k - (i - 1)) + i = k + 1
        BY <1>1, <3>3
      <4>2. QED
        <5>1. (u \o z)[k] = z[k - (i - 1)]
          BY <1>1, <3>1, <3>3
        <5>2. z[k - (i - 1)] = q[(k - (i - 1)) + i]
          BY <1>4, <4>1
        <5>3. QED
          BY <3>3, <4>1, <5>1, <5>2
    <3>4. QED
      BY <3>2, <3>3
  <2>4. QED
    BY <2>2, <2>3
<1>6. r = u \o z
  BY DEF RemoveAt
<1> HIDE DEF u, z, T
<1>7. PICK n \in Nat : n = Len(q)
  BY <1>1
<1>8. DOMAIN q = 1 .. n /\ DOMAIN r = 1 .. n - 1 /\ i \in 1 .. n
      /\ \A k \in 1 .. n - 1 : r[k] = IF k < i THEN q[k] ELSE q[k + 1]
  BY <1>1, <1>5, <1>6, <1>7
<1>9. ASSUME NEW k \in DOMAIN q, k # i PROVE \E j \in DOMAIN r : r[j] = q[k]
  <2>1. CASE k < i
    BY <1>8, <1>9, <2>1
  <2>2. CASE i < k
    <3>1. k - 1 \in DOMAIN r /\ ~(k - 1 < i) /\ (k - 1) + 1 = k
      BY <1>8, <2>2
    <3>2. QED
      BY <1>8, <3>1
  <2>3. QED
    BY <1>8, <1>9, <2>1, <2>2
<1>10. ASSUME NEW j \in DOMAIN r
       PROVE  /\ j \in Nat
              /\ (IF j < i THEN j ELSE j + 1) \in DOMAIN q \ {i}
              /\ r[j] = q[IF j < i THEN j ELSE j + 1]
  BY <1>8
<1>11. QED
  BY <1>9, <1>10

\* Appending one element leaves the others where they are.
LEMMA AppendedAt ==
  ASSUME NEW q, q \in Seq(Range(q)), NEW e, NEW r, r = Append(q, e)
  PROVE  /\ \A j \in DOMAIN r : (j \in DOMAIN q /\ r[j] = q[j]) \/ (j \notin DOMAIN q /\ r[j] = e)
         /\ \E j \in DOMAIN r : r[j] = e
         /\ \A j \in DOMAIN q : j \in DOMAIN r /\ r[j] = q[j]
         /\ \A j, k \in DOMAIN r : j \notin DOMAIN q /\ k \notin DOMAIN q => j = k
<1> DEFINE T == Range(q) \cup {e}
<1>1. q \in Seq(T) /\ e \in T
  BY SeqMonotonic
<1> HIDE DEF T
<1>2. /\ r \in Seq(T) /\ Len(r) = Len(q) + 1 /\ r[Len(q) + 1] = e
      /\ \A j \in 1 .. Len(q) : r[j] = q[j]
  BY <1>1, AppendProperties
<1>3. Len(q) \in Nat /\ DOMAIN q = 1 .. Len(q) /\ DOMAIN r = 1 .. Len(q) + 1
  BY <1>1, <1>2, LenProperties
<1>4. PICK n \in Nat : n = Len(q)
  BY <1>3
<1>5. DOMAIN q = 1 .. n /\ DOMAIN r = 1 .. n + 1 /\ r[n + 1] = e /\ \A j \in 1 .. n : r[j] = q[j]
  BY <1>2, <1>3, <1>4
<1>6. \A j \in DOMAIN r : (j \in DOMAIN q /\ r[j] = q[j]) \/ (j = n + 1 /\ j \notin DOMAIN q /\ r[j] = e)
  BY <1>5
<1>7. n + 1 \in DOMAIN r /\ \A j \in DOMAIN q : j \in DOMAIN r
  BY <1>5
<1>8. \E j \in DOMAIN r : r[j] = e
  BY <1>5, <1>7
<1>9. \A j \in DOMAIN q : j \in DOMAIN r /\ r[j] = q[j]
  BY <1>5, <1>7
<1>10. \A j, k \in DOMAIN r : j \notin DOMAIN q /\ k \notin DOMAIN q => j = k
  BY <1>6
<1>11. QED
  BY <1>6, <1>8, <1>9, <1>10

LEMMA OperandsRead ==
  ASSUME NEW things, NEW op, IsOperation(op, things), NEW x \in Writes(op), NEW f \in Operands(op[x].k)
  PROVE  /\ op[x].of[f] \in Reads(op) /\ op[x].of[f] \in things
         /\ op[x].k \in ArrayKernels \cup Field \cup {"Dot", "DotOnto", "zero"}
<1>1. f \in Field
  BY DEF Operands, Field
<1>2. QED
  BY <1>1 DEF IsOperation, Writes, Reads

\* The device does what it was given: what is known is so a little earlier.
LEMMA ExecuteKnows ==
  ASSUME Typed, NEW d, NEW w, Knows(d, w), Execute
  PROVE  Knows(d, w)'
<1>1. PICK i \in DOMAIN queue : data' = Effect(queue[i].op) /\ queue' = RemoveAt(queue, i)
  BY DEF Execute
<1>2. backend' = backend /\ DOMAIN data = Thing(backend)
  BY DEF Execute, stable, Typed, ObjectsTyped
<1>3. \A j \in DOMAIN queue : IsOperation(queue[j].op, Thing(backend))
  BY DEF Typed, QueueTyped
<1> DEFINE At(j) == IF j < i THEN j ELSE j + 1
<1>4. /\ i \in Nat
      /\ \A j \in DOMAIN queue' : j \in Nat /\ At(j) \in DOMAIN queue \ {i} /\ queue'[j] = queue[At(j)]
      /\ \A k \in DOMAIN queue \ {i} : \E j \in DOMAIN queue' : queue'[j] = queue[k]
  <2>1. queue \in Seq(Range(queue))
    BY DEF Typed, QueueTyped
  <2>2. i \in Nat
    BY <2>1, TailSteps
  <2>3. QED
    BY <1>1, <2>1, <2>2, RemovedAt
<1>5. \A j, k \in DOMAIN queue' : j # k => At(j) # At(k)
  BY <1>4
<1> HIDE DEF At
<1>6. \A x \in Thing(backend) :
        data'[x] = IF x \in Writes(queue[i].op) THEN Evaluate(queue[i].op[x], data) ELSE data[x]
  BY <1>1, <1>2 DEF Effect
<1>7. \A k \in DOMAIN queue \ {i} : Touches(queue[k].op) \cap Touches(queue[i].op) = {}
  BY DEF Knows
<1>8. ASSUME NEW k \in DOMAIN queue \ {i}, NEW x \in Writes(queue[k].op)
      PROVE  Evaluate(queue[k].op[x], data') = Evaluate(queue[k].op[x], data)
  <2>1. ASSUME NEW f \in Operands(queue[k].op[x].k)
        PROVE  data'[queue[k].op[x].of[f]] = data[queue[k].op[x].of[f]]
    <3>1. queue[k].op[x].of[f] \in Reads(queue[k].op) /\ queue[k].op[x].of[f] \in Thing(backend)
      BY <1>3, <1>8, <2>1, OperandsRead
    <3>2. queue[k].op[x].of[f] \notin Writes(queue[i].op)
      BY <1>7, <1>8, <3>1 DEF Touches
    <3>3. QED
      BY <1>6, <3>1, <3>2
  <2>2. queue[k].op[x].k \in ArrayKernels \cup Field \cup {"Dot", "DotOnto", "zero"}
    BY <1>3, <1>8 DEF IsOperation, Writes
  <2>3. QED
    BY <2>1, <2>2, EvaluateReads
<1>9. ASSUME NEW x \in DOMAIN d, NEW j \in DOMAIN queue', x \in Writes(queue'[j].op)
      PROVE  d[x] = Evaluate(queue'[j].op[x], data')
  <2>1. At(j) \in DOMAIN queue \ {i} /\ queue'[j] = queue[At(j)]
    BY <1>4, <1>9
  <2>2. d[x] = Evaluate(queue[At(j)].op[x], data)
    BY <1>9, <2>1 DEF Knows
  <2>3. QED
    BY <1>8, <1>9, <2>1, <2>2
<1>10. ASSUME NEW x \in DOMAIN d, \A j \in DOMAIN queue' : x \notin Writes(queue'[j].op)
       PROVE  d[x] = data'[x]
  <2>1. x \in Thing(backend)
    BY <1>10 DEF Knows
  <2>2. \A k \in DOMAIN queue \ {i} : x \notin Writes(queue[k].op)
    BY <1>4, <1>10
  <2>3. CASE x \in Writes(queue[i].op)
    BY <1>6, <1>10, <2>1, <2>3 DEF Knows
  <2>4. CASE x \notin Writes(queue[i].op)
    BY <1>6, <1>10, <2>1, <2>2, <2>4 DEF Knows
  <2>5. QED
    BY <2>3, <2>4
<1>11. \A j, k \in DOMAIN queue' : j # k => Touches(queue'[j].op) \cap Touches(queue'[k].op) = {}
  BY <1>4, <1>5 DEF Knows
<1>12. \A j \in DOMAIN queue' : Writes(queue'[j].op) \subseteq w
  BY <1>4 DEF Knows
<1>13. DOMAIN d \subseteq Thing(backend')
  BY <1>2 DEF Knows
<1>14. QED
  BY <1>9, <1>10, <1>11, <1>12, <1>13 DEF Knows

\* What an operation is going to write is known, if what it reads is, and if it
\* touches nothing that is pending.
LEMMA LearnedEvaluates ==
  ASSUME Typed, NEW st, NEW o, NEW p, Entered(st, o, p), NEW d, NEW w, Knows(d, w),
         NEW op, IsOperation(op, Thing(backend)), Reads(op) \subseteq DOMAIN d, Touches(op) \cap p = {}
  PROVE  /\ \A x \in Writes(op) : Evaluate(op[x], d) = Evaluate(op[x], data)
         /\ \A i \in DOMAIN queue : Touches(queue[i].op) \cap Touches(op) = {}
         /\ Writes(op) \subseteq Thing(backend)
<1>1. \A i \in DOMAIN queue : Touches(queue[i].op) \subseteq p
  BY DEF Entered, Covers
<1>2. \A y \in Reads(op) : d[y] = data[y]
  BY <1>1 DEF Knows, Touches
<1>3. ASSUME NEW x \in Writes(op) PROVE Evaluate(op[x], d) = Evaluate(op[x], data)
  <2>1. \A f \in Operands(op[x].k) : d[op[x].of[f]] = data[op[x].of[f]]
    BY <1>2, <1>3, OperandsRead
  <2>2. op[x].k \in ArrayKernels \cup Field \cup {"Dot", "DotOnto", "zero"}
    BY <1>3 DEF IsOperation, Writes
  <2>3. QED
    BY <2>1, <2>2, EvaluateReads
<1>4. Writes(op) \subseteq Thing(backend)
  BY DEF IsOperation, Writes
<1>5. QED
  BY <1>1, <1>3, <1>4

LEMMA SubmitKnows ==
  ASSUME Typed, NEW st, NEW o, NEW p, Entered(st, o, p), NEW d, NEW w, Knows(d, w), DoSubmit,
         NEW t, Sure(Head(code), View(p, d, w), t),
         NEW d2, d2 = Known(View(p, d, w), Head(code)), NEW w2, w2 = Due(w, Head(code))
  PROVE  Knows(d2, w2)'
<1> DEFINE e == [op |-> Head(code).op, on |-> current]
<1>1. AtStep("submit") /\ Advance /\ queue' = Append(queue, e) /\ data' = data /\ backend' = backend
  BY DEF DoSubmit, Advance, stable
<1>2. Head(code).do = "submit" /\ IsOperation(e.op, Thing(backend))
  BY <1>1, AtStepTyped DEF Typed, IsStep
<1>3. Reads(e.op) \subseteq DOMAIN d /\ Touches(e.op) \cap p = {}
  BY <1>2 DEF Sure, View
<1>4. d2 = Learned(d, e.op) /\ w2 = w \cup Writes(e.op)
  BY <1>2 DEF Known, View, Due
<1>5. /\ \A x \in Writes(e.op) : Evaluate(e.op[x], d) = Evaluate(e.op[x], data)
      /\ \A i \in DOMAIN queue : Touches(queue[i].op) \cap Touches(e.op) = {}
      /\ Writes(e.op) \subseteq Thing(backend)
  BY <1>2, <1>3, LearnedEvaluates
<1> HIDE DEF e
<1>6. \A j \in DOMAIN queue' : (j \in DOMAIN queue /\ queue'[j] = queue[j])
                              \/ (j \notin DOMAIN queue /\ queue'[j] = e)
  <2>1. queue \in Seq(Range(queue))
    BY DEF Typed, QueueTyped
  <2>2. QED
    BY <1>1, <2>1, AppendedAt
<1>7. \E j \in DOMAIN queue' : queue'[j] = e
  <2>1. queue \in Seq(Range(queue))
    BY DEF Typed, QueueTyped
  <2>2. QED
    BY <1>1, <2>1, AppendedAt
<1>8. \A k \in DOMAIN queue : k \in DOMAIN queue' /\ queue'[k] = queue[k]
  <2>1. queue \in Seq(Range(queue))
    BY DEF Typed, QueueTyped
  <2>2. QED
    BY <1>1, <2>1, AppendedAt
<1>9. DOMAIN d2 = DOMAIN d \cup Writes(e.op)
      /\ \A x \in DOMAIN d2 : d2[x] = IF x \in Writes(e.op) THEN Evaluate(e.op[x], d) ELSE d[x]
  BY <1>4 DEF Learned
<1>10. DOMAIN d2 \subseteq Thing(backend)
  BY <1>5, <1>9 DEF Knows
<1>11. ASSUME NEW x \in DOMAIN d2, NEW j \in DOMAIN queue', x \in Writes(queue'[j].op)
       PROVE  d2[x] = Evaluate(queue'[j].op[x], data)
  <2>1. CASE j \in DOMAIN queue /\ queue'[j] = queue[j]
    <3>1. x \notin Writes(e.op)
      BY <1>5, <1>11, <2>1 DEF Touches
    <3>2. QED
      BY <1>9, <1>11, <2>1, <3>1 DEF Knows
  <2>2. CASE queue'[j] = e
    BY <1>5, <1>9, <1>11, <2>2
  <2>3. QED
    BY <1>6, <1>11, <2>1, <2>2
<1>12. ASSUME NEW x \in DOMAIN d2, \A j \in DOMAIN queue' : x \notin Writes(queue'[j].op)
       PROVE  d2[x] = data[x]
  <2>1. x \notin Writes(e.op)
    BY <1>7, <1>12
  <2>2. \A k \in DOMAIN queue : x \notin Writes(queue[k].op)
    BY <1>8, <1>12
  <2>3. QED
    BY <1>9, <1>12, <2>1, <2>2 DEF Knows
<1>13. ASSUME NEW j \in DOMAIN queue', NEW k \in DOMAIN queue', j # k
       PROVE  Touches(queue'[j].op) \cap Touches(queue'[k].op) = {}
  <2>1. j \notin DOMAIN queue /\ k \notin DOMAIN queue => j = k
    <3>1. queue \in Seq(Range(queue))
      BY DEF Typed, QueueTyped
    <3>2. QED
      BY <1>1, <3>1, AppendedAt
  <2>2. QED
    BY <1>5, <1>6, <1>13, <2>1 DEF Knows
<1>14. \A j \in DOMAIN queue' : Writes(queue'[j].op) \subseteq w2
  BY <1>4, <1>6 DEF Knows
<1>15. QED
  BY <1>1, <1>10, <1>11, <1>12, <1>13, <1>14 DEF Knows

LEMMA RunKnows ==
  ASSUME Typed, NEW st, NEW o, NEW p, Entered(st, o, p), NEW d, NEW w, Knows(d, w), DoRun,
         NEW t, Sure(Head(code), View(p, d, w), t),
         NEW d2, d2 = Known(View(p, d, w), Head(code)), NEW w2, w2 = Due(w, Head(code))
  PROVE  Knows(d2, w2)'
<1> DEFINE op == Head(code).op
<1>1. AtStep("run") /\ queue' = queue /\ data' = Effect(op) /\ backend' = backend
  BY DEF DoRun, Advance, stable
<1>2. Head(code).do = "run" /\ IsOperation(op, Thing(backend)) /\ DOMAIN data = Thing(backend)
  BY <1>1, AtStepTyped DEF Typed, IsStep, ObjectsTyped
<1>3. Reads(op) \subseteq DOMAIN d /\ Touches(op) \cap p = {}
  BY <1>2 DEF Sure, View
<1>4. d2 = Learned(d, op) /\ w2 = w
  BY <1>2 DEF Known, View, Due
<1> HIDE DEF op
<1>5. /\ \A x \in Writes(op) : Evaluate(op[x], d) = Evaluate(op[x], data)
      /\ \A i \in DOMAIN queue : Touches(queue[i].op) \cap Touches(op) = {}
      /\ Writes(op) \subseteq Thing(backend)
  BY <1>2, <1>3, LearnedEvaluates
<1>6. \A x \in Thing(backend) : data'[x] = IF x \in Writes(op) THEN Evaluate(op[x], data) ELSE data[x]
  BY <1>1, <1>2 DEF Effect
<1>7. DOMAIN d2 = DOMAIN d \cup Writes(op)
      /\ \A x \in DOMAIN d2 : d2[x] = IF x \in Writes(op) THEN Evaluate(op[x], d) ELSE d[x]
  BY <1>4 DEF Learned
<1>8. DOMAIN d2 \subseteq Thing(backend)
  BY <1>5, <1>7 DEF Knows
<1>9. ASSUME NEW x \in DOMAIN d2, NEW i \in DOMAIN queue, x \in Writes(queue[i].op)
      PROVE  d2[x] = Evaluate(queue[i].op[x], data')
  <2>1. x \in DOMAIN d /\ d2[x] = d[x] /\ d[x] = Evaluate(queue[i].op[x], data)
    BY <1>5, <1>7, <1>9 DEF Touches, Knows
  <2>2. IsOperation(queue[i].op, Thing(backend))
    BY DEF Typed, QueueTyped
  <2>3. ASSUME NEW f \in Operands(queue[i].op[x].k)
        PROVE  data'[queue[i].op[x].of[f]] = data[queue[i].op[x].of[f]]
    <3>1. queue[i].op[x].of[f] \in Reads(queue[i].op) /\ queue[i].op[x].of[f] \in Thing(backend)
      BY <1>9, <2>2, <2>3, OperandsRead
    <3>2. queue[i].op[x].of[f] \notin Writes(op)
      BY <1>5, <3>1 DEF Touches
    <3>3. QED
      BY <1>6, <3>1, <3>2
  <2>4. queue[i].op[x].k \in ArrayKernels \cup Field \cup {"Dot", "DotOnto", "zero"}
    BY <1>9, <2>2 DEF IsOperation, Writes
  <2>5. Evaluate(queue[i].op[x], data') = Evaluate(queue[i].op[x], data)
    BY <2>3, <2>4, EvaluateReads
  <2>6. QED
    BY <2>1, <2>5
<1>10. ASSUME NEW x \in DOMAIN d2, \A i \in DOMAIN queue : x \notin Writes(queue[i].op)
       PROVE  d2[x] = data'[x]
  BY <1>5, <1>6, <1>7, <1>8, <1>10 DEF Knows
<1>11. /\ \A i, j \in DOMAIN queue : i # j => Touches(queue[i].op) \cap Touches(queue[j].op) = {}
       /\ \A i \in DOMAIN queue : Writes(queue[i].op) \subseteq w
  BY DEF Knows
<1>12. QED
  BY <1>1, <1>4, <1>8, <1>9, <1>10, <1>11 DEF Knows

\* Pending work touches nothing that is freed.
LEMMA ReleaseKnows ==
  ASSUME Typed, NEW st, NEW o, NEW p, Entered(st, o, p), NEW d, NEW w, Knows(d, w), DoRelease,
         NEW d2, d2 = Known(View(p, d, w), Head(code)), NEW w2, w2 = Due(w, Head(code))
  PROVE  Knows(d2, w2)'
<1> DEFINE gone == {x \in Head(code).what : held[x].refs <= 1}
<1>1. /\ AtStep("release") /\ queue' = queue /\ backend' = backend
      /\ data' = [x \in DOMAIN data |-> IF x \in gone THEN Garbage ELSE data[x]]
  BY DEF DoRelease, Advance, stable
<1>2. Careful(Head(code), o, p) /\ Head(code).do = "release" /\ DOMAIN o = Thing(backend)
  BY <1>1, HeadCareful
<1>3. Head(code).what \subseteq Thing(backend)
      /\ \A x \in Head(code).what : x \in p => o[x].refs > 1
  BY <1>2 DEF Careful
<1>4. \A x \in Thing(backend) : held[x].refs = o[x].refs /\ o[x].refs \in Nat
  BY DEF Entered, Books, Book
<1>5. \A x \in gone : x \in Head(code).what /\ ~(o[x].refs > 1)
  BY <1>3, <1>4
<1>6. gone \subseteq Head(code).what \ p
  BY <1>3, <1>5
<1>7. d2 = Forget(d, Head(code).what \ p) /\ w2 = w
  BY <1>2 DEF Known, View, Due
<1> HIDE DEF gone
<1>8. DOMAIN data = Thing(backend)
  BY DEF Typed, ObjectsTyped
<1>9. DOMAIN d2 \subseteq DOMAIN d \ gone /\ \A x \in DOMAIN d2 : d2[x] = d[x] /\ x \in Thing(backend)
  BY <1>6, <1>7 DEF Forget, Knows
<1>10. ASSUME NEW x \in DOMAIN d2, NEW i \in DOMAIN queue, x \in Writes(queue[i].op)
       PROVE  d2[x] = Evaluate(queue[i].op[x], data')
  <2>1. x \in DOMAIN d /\ d2[x] = d[x] /\ d[x] = Evaluate(queue[i].op[x], data)
    BY <1>9, <1>10 DEF Knows
  <2>2. IsOperation(queue[i].op, Thing(backend)) /\ Touches(queue[i].op) \subseteq p
    BY DEF Typed, QueueTyped, Entered, Covers
  <2>3. ASSUME NEW f \in Operands(queue[i].op[x].k)
        PROVE  data'[queue[i].op[x].of[f]] = data[queue[i].op[x].of[f]]
    <3>1. queue[i].op[x].of[f] \in Reads(queue[i].op) /\ queue[i].op[x].of[f] \in Thing(backend)
      BY <1>10, <2>2, <2>3, OperandsRead
    <3>2. queue[i].op[x].of[f] \notin gone
      BY <1>6, <2>2, <3>1 DEF Touches
    <3>3. QED
      BY <1>1, <1>8, <3>1, <3>2
  <2>4. queue[i].op[x].k \in ArrayKernels \cup Field \cup {"Dot", "DotOnto", "zero"}
    BY <1>10, <2>2 DEF IsOperation, Writes
  <2>5. Evaluate(queue[i].op[x], data') = Evaluate(queue[i].op[x], data)
    BY <2>3, <2>4, EvaluateReads
  <2>6. QED
    BY <2>1, <2>5
<1>11. ASSUME NEW x \in DOMAIN d2, \A i \in DOMAIN queue : x \notin Writes(queue[i].op)
       PROVE  d2[x] = data'[x]
  <2>1. d2[x] = d[x] /\ d[x] = data[x] /\ x \in Thing(backend) /\ x \notin gone
    BY <1>9, <1>11 DEF Knows
  <2>2. QED
    BY <1>1, <1>8, <2>1
<1>12. /\ \A i, j \in DOMAIN queue : i # j => Touches(queue[i].op) \cap Touches(queue[j].op) = {}
       /\ \A i \in DOMAIN queue : Writes(queue[i].op) \subseteq w
  BY DEF Knows
<1>13. QED
  BY <1>1, <1>7, <1>9, <1>10, <1>11, <1>12 DEF Knows

\* No work is pending when a pointer is renamed.
LEMMA RenameKnows ==
  ASSUME Typed, NEW st, NEW o, NEW p, Entered(st, o, p), NEW d, NEW w, Knows(d, w), DoRename,
         NEW t, Sure(Head(code), View(p, d, w), t),
         NEW d2, d2 = Known(View(p, d, w), Head(code)), NEW w2, w2 = Due(w, Head(code))
  PROVE  Knows(d2, w2)'
<1> DEFINE x == Head(code).from
<1> DEFINE y == Head(code).to
<1>1. /\ AtStep("rename") /\ backend' = backend
      /\ data' = [data EXCEPT ![y] = data[x], ![x] = Garbage]
      /\ queue' = [i \in DOMAIN queue |-> [queue[i] EXCEPT !.op = Renamed(@, x, y)]]
  BY DEF DoRename, Advance, stable
<1>2. Head(code).do = "rename"
  BY <1>1 DEF AtStep
<1>3. p = {} /\ d2 = Forget(d, {x, y}) /\ w2 = w
  BY <1>2 DEF Sure, View, Known, Due
<1> HIDE DEF x, y
<1>4. ASSUME NEW i \in DOMAIN queue' PROVE Touches(queue'[i].op) = {} /\ Writes(queue'[i].op) = {}
  <2>1. queue[i] = [op |-> queue[i].op, on |-> queue[i].on] /\ IsOperation(queue[i].op, Thing(backend))
        /\ i \in DOMAIN queue
    BY <1>1, <1>4 DEF Typed, QueueTyped
  <2>2. queue'[i] = [queue[i] EXCEPT !.op = Renamed(@, x, y)]
    BY <1>1, <2>1
  <2>3. queue'[i].op = Renamed(queue[i].op, x, y)
    BY <2>1, <2>2
  <2>4. Touches(queue[i].op) = {}
    BY <1>3, <2>1 DEF Entered, Covers
  <2>5. Touches(Renamed(queue[i].op, x, y)) \subseteq {IF z = x THEN y ELSE z : z \in Touches(queue[i].op)}
    BY <2>1, RenamedTouches
  <2>6. Touches(queue'[i].op) = {}
    BY <2>3, <2>4, <2>5
  <2>7. QED
    BY <2>6 DEF Touches
<1>5. \A i \in DOMAIN queue : Writes(queue[i].op) = {}
  BY <1>3 DEF Entered, Covers, Touches
<1>6. DOMAIN data = Thing(backend)
  BY DEF Typed, ObjectsTyped
<1>7. DOMAIN d2 = DOMAIN d \ {x, y}
      /\ \A z \in DOMAIN d2 : d2[z] = d[z] /\ z \in Thing(backend) /\ d[z] = data[z] /\ z # x /\ z # y
  BY <1>3, <1>5 DEF Forget, Knows
<1>8. ASSUME NEW z \in DOMAIN d2 PROVE d2[z] = data'[z]
  <2>1. z \in DOMAIN data /\ z # x /\ z # y /\ d2[z] = data[z]
    BY <1>6, <1>7
  <2>2. PICK m : m = [data EXCEPT ![y] = data[x]] /\ data' = [m EXCEPT ![x] = Garbage]
    BY <1>1
  <2>3. DOMAIN m = DOMAIN data /\ m[z] = data[z]
    BY <2>1, <2>2
  <2>4. data'[z] = m[z]
    BY <2>1, <2>2, <2>3
  <2>5. QED
    BY <2>1, <2>3, <2>4
<1>9. DOMAIN d2 \subseteq Thing(backend')
  BY <1>1, <1>7
<1>10. /\ \A i, j \in DOMAIN queue' : i # j => Touches(queue'[i].op) \cap Touches(queue'[j].op) = {}
       /\ \A i \in DOMAIN queue' : Writes(queue'[i].op) \subseteq w2
       /\ \A z : \A i \in DOMAIN queue' : z \notin Writes(queue'[i].op)
  BY <1>4
<1>11. QED
  BY <1>8, <1>9, <1>10 DEF Knows

LEMMA OtherKnows ==
  ASSUME Typed, NEW p, NEW d, NEW w, Knows(d, w),
         \/ DoAcquire \/ DoRetain \/ DoSelect \/ DoList \/ Passes
         \/ DoWait \/ DoAccess \/ DoLeave \/ DoSum \/ DoHandOut,
         NEW d2, d2 = Known(View(p, d, w), Head(code)), NEW w2, w2 = Due(w, Head(code))
  PROVE  Knows(d2, w2)'
<1>1. PICK kind \in {"acquire", "retain", "select", "list", "check", "wait", "access", "leave", "sum", "arrays"} :
        /\ AtStep(kind)
        /\ kind = "wait" => queue = <<>>
        /\ kind = "access" => \A i \in DOMAIN queue : Writes(queue[i].op) \cap Head(code).what = {}
  BY DEF DoAcquire, DoRetain, DoSelect, DoList, Passes, DoWait, DoAccess, DoLeave, DoSum, DoHandOut, Drained
<1>2. UNCHANGED <<data, queue, backend>>
  BY DEF DoAcquire, DoRetain, DoSelect, DoList, Passes, DoWait, DoAccess, DoLeave, DoSum, DoHandOut, store,
         Advance, stable
<1>3. Head(code).do = kind
  BY <1>1 DEF AtStep
<1>4. d2 = d
  BY <1>1, <1>3 DEF Known, View
<1>5. w2 = CASE kind = "wait" -> {} [] kind = "access" -> w \ Head(code).what [] OTHER -> w
  BY <1>1, <1>3 DEF Due
<1>6. \A i \in DOMAIN queue : Writes(queue[i].op) \subseteq w2
  BY <1>1, <1>5 DEF Knows
<1>7. QED
  BY <1>2, <1>4, <1>6 DEF Knows

\* What is known after a step that does not throw.
LEMMA StepKnows ==
  ASSUME Typed, NEW st, NEW o, NEW p, Entered(st, o, p), NEW d, NEW w, Knows(d, w), Step, ~Refuse,
         NEW t, Sure(Head(code), View(p, d, w), t),
         NEW d2, d2 = Known(View(p, d, w), Head(code)), NEW w2, w2 = Due(w, Head(code))
  PROVE  Knows(d2, w2)'
BY SubmitKnows, RunKnows, ReleaseKnows, RenameKnows, OtherKnows DEF Step

\* What the rest of a method leads to, it still leads to after a step.
LEMMA AdvanceReaches ==
  ASSUME Typed, NEW d, NEW x, Reaches(d, x), NEW kind, AtStep(kind), Advance,
         given' = IF kind = "arrays" THEN Head(code).from ELSE given
  PROVE  Reaches(d, x)'
<1>1. /\ code \in Seq(Range(code)) /\ code # <<>> /\ call # "none" /\ Head(code).do = kind
      /\ code' = Tail(code) /\ UNCHANGED <<backend, call>>
  BY DEF Typed, CodeTyped, AtStep, Advance, stable, driver
<1>2. CASE call # "get_arrays"
  BY <1>1, <1>2 DEF Reaches, Kernel, ArrayKernels
<1>3. CASE call = "get_arrays"
  <2>1. /\ 1 \in DOMAIN code /\ code[1] = Head(code)
        /\ \A i \in DOMAIN Tail(code) : i + 1 \in DOMAIN code /\ Tail(code)[i] = code[i + 1]
        /\ \A i \in DOMAIN code : i \in Nat \ {0} /\ (i > 1 => i - 1 \in DOMAIN Tail(code) /\ code[i] = Tail(code)[i - 1])
    BY <1>1, TailSteps
  <2>2. /\ \/ \A f \in Field : given[f] \in DOMAIN d /\ d[given[f]] = x[f]
           \/ \E i \in DOMAIN code : code[i].do = "arrays"
        /\ \A i \in DOMAIN code : code[i].do = "arrays" =>
             \A f \in Field : code[i].from[f] \in DOMAIN d /\ d[code[i].from[f]] = x[f]
    BY <1>3 DEF Reaches, Kernel, ArrayKernels
  <2>3. \A i \in DOMAIN code' : code'[i].do = "arrays" =>
          \A f \in Field : code'[i].from[f] \in DOMAIN d /\ d[code'[i].from[f]] = x[f]
    BY <1>1, <2>1, <2>2
  <2>4. \/ \A f \in Field : given'[f] \in DOMAIN d /\ d[given'[f]] = x[f]
        \/ \E i \in DOMAIN code' : code'[i].do = "arrays"
    <3>1. CASE kind = "arrays"
      BY <1>1, <2>1, <2>2, <3>1
    <3>2. CASE kind # "arrays" /\ \A f \in Field : given[f] \in DOMAIN d /\ d[given[f]] = x[f]
      BY <3>2
    <3>3. CASE kind # "arrays" /\ \E i \in DOMAIN code : code[i].do = "arrays"
      <4>1. PICK i \in DOMAIN code : code[i].do = "arrays"
        BY <3>3
      <4>2. i > 1
        BY <1>1, <2>1, <3>3, <4>1
      <4>3. QED
        BY <1>1, <2>1, <4>1, <4>2
    <3>4. QED
      BY <2>2, <3>1, <3>2, <3>3
  <2>5. QED
    BY <1>1, <1>3, <2>3, <2>4 DEF Reaches
<1>4. QED
  BY <1>2, <1>3

\* A step of a method that does not throw.
LEMMA StepAdvances ==
  ASSUME Typed, Step, ~Refuse
  PROVE  \E kind : /\ AtStep(kind) /\ Advance
                   /\ given' = IF kind = "arrays" THEN Head(code).from ELSE given
<1>1. CASE DoAcquire \/ DoRetain \/ DoRelease
  <2>1. PICK kind \in {"acquire", "retain", "release"} : AtStep(kind) /\ Advance
    BY <1>1 DEF DoAcquire, DoRetain, DoRelease
  <2>2. given' = given
    BY <1>1 DEF DoAcquire, DoRetain, DoRelease, result
  <2>3. QED
    BY <2>1, <2>2
<1>2. CASE DoRename \/ DoSelect \/ DoList \/ Passes \/ DoSubmit
  <2>1. PICK kind \in {"rename", "select", "list", "check", "submit"} : AtStep(kind) /\ Advance
    BY <1>2 DEF DoRename, DoSelect, DoList, Passes, DoSubmit
  <2>2. given' = given
    BY <1>2 DEF DoRename, DoSelect, DoList, Passes, DoSubmit, result
  <2>3. QED
    BY <2>1, <2>2
<1>3. CASE DoWait \/ DoAccess \/ DoLeave \/ DoRun \/ DoSum
  <2>1. PICK kind \in {"wait", "access", "leave", "run", "sum"} : AtStep(kind) /\ Advance
    BY <1>3 DEF DoWait, DoAccess, DoLeave, DoRun, DoSum
  <2>2. given' = given
    BY <1>3 DEF DoWait, DoAccess, DoLeave, DoRun, DoSum, result
  <2>3. QED
    BY <2>1, <2>2
<1>4. CASE DoHandOut
  BY <1>4 DEF DoHandOut
<1>5. QED
  BY <1>1, <1>2, <1>3, <1>4 DEF Step

\* What is sure of the next step of a method, and what is known after it.
LEMMA NextSure ==
  ASSUME Typed, NEW p, code # <<>>, NEW d, NEW w, NEW d2, NEW t,
         Teaches(code, View(p, d, w), t, d2)
  PROVE  /\ Sure(Head(code), View(p, d, w), t)
         /\ Teaches(Tail(code), View(Busy(p, Head(code)), Known(View(p, d, w), Head(code)),
                                     Due(w, Head(code))), t, d2)
<1> DEFINE v == View(p, d, w)
<1>1. code \in Seq(Range(code))
  BY DEF Typed, CodeTyped
<1>2. Viewed(v, Head(code)) = View(Busy(p, Head(code)), Known(v, Head(code)), Due(w, Head(code)))
  BY DEF Viewed, View
<1> HIDE DEF v
<1>3. Teaches(code, v, t, d2)
  BY DEF v
<1>4. Sure(Head(code), v, t) /\ Teaches(Tail(code), Viewed(v, Head(code)), t, d2)
  BY <1>1, <1>3, TeachesTail
<1>5. QED
  BY <1>2, <1>4 DEF v

LEMMA StepFollows ==
  ASSUME Typed, NEW st, NEW o, NEW p, Follows(st, o, p), Step, ~Refuse
  PROVE  Following'
<1>1. PICK o2, p2 : o2 = After(o, Head(code)) /\ p2 = Busy(p, Head(code))
  OBVIOUS
<1>2. Entered(st, o, p)
  BY DEF Follows
<1>3. Entered(st, o2, p2)'
  BY <1>1, <1>2, StepOwning
<1>4. PICK kind : /\ AtStep(kind) /\ Advance
                  /\ given' = IF kind = "arrays" THEN Head(code).from ELSE given
  BY StepAdvances
<1>5. /\ code \in Seq(Range(code)) /\ code # <<>> /\ call # "none"
      /\ code' = Tail(code) /\ UNCHANGED <<backend, phase, call, arrays>>
  BY <1>4 DEF Typed, CodeTyped, AtStep, Advance, stable, driver
<1>6. phase # "given"
  BY <1>2, <1>5 DEF Entered, Points
<1>7. AtRest'
  <2>1. \A i \in DOMAIN Tail(code) : i + 1 \in DOMAIN code /\ Tail(code)[i] = code[i + 1]
    BY <1>5, TailSteps
  <2>2. QED
    BY <1>5, <1>6, <2>1 DEF Follows, AtRest
<1>8. Computes(backend)'
  BY <1>5 DEF Follows
<1>9. ASSUME call \notin {"none", "list", "destroy"} PROVE Learning(p2)'
  <2>1. PICK d, w, d2 : /\ Knows(d, w) /\ Teaches(code, View(p, d, w), DotOf(arrays), d2)
                        /\ Reaches(d2, arrays[0])
    BY <1>9 DEF Follows, Learning
  <2>2. PICK e, u : e = Known(View(p, d, w), Head(code)) /\ u = Due(w, Head(code))
    OBVIOUS
  <2>3. Sure(Head(code), View(p, d, w), DotOf(arrays))
        /\ Teaches(code', View(p2, e, u), DotOf(arrays), d2)
    BY <1>1, <1>5, <2>1, <2>2, NextSure
  <2>4. Knows(e, u)'
    BY <1>2, <2>1, <2>2, <2>3, StepKnows
  <2>5. PICK x : x = arrays[0]
    OBVIOUS
  <2>6. Reaches(d2, x)'
    BY <1>4, <2>1, <2>5, AdvanceReaches
  <2>7. DotOf(arrays)' = DotOf(arrays) /\ arrays'[0] = x
    BY <1>5, <2>5
  <2>8. Reaches(d2, arrays[0])'
    BY <2>6, <2>7 DEF Reaches
  <2>9. Teaches(code, View(p2, e, u), DotOf(arrays), d2)'
    BY <2>3, <2>7
  <2>10. QED
    BY <2>4, <2>8, <2>9 DEF Learning
<1>10. Follows(st, o2, p2)'
  BY <1>3, <1>5, <1>7, <1>8, <1>9 DEF Follows
<1>11. QED
  BY <1>10 DEF Following

\* What a method gives its caller for a sum is that of the contract.
LEMMA SumFollows ==
  ASSUME Typed, NEW st, NEW o, NEW p, Follows(st, o, p), DoSum
  PROVE  sum' = DotOf(arrays)
<1>1. AtStep("sum") /\ sum' = data[Head(code).from]
  BY DEF DoSum
<1>2. /\ code \in Seq(Range(code)) /\ code # <<>> /\ call # "none" /\ Head(code).do = "sum"
  BY <1>1 DEF Typed, CodeTyped, AtStep
<1>3. 1 \in DOMAIN code /\ code[1] = Head(code)
  BY <1>2, TailSteps
<1>4. call \notin {"none", "list", "destroy"}
  BY <1>2, <1>3 DEF Follows, AtRest
<1>5. PICK d, w, d2 : Knows(d, w) /\ Teaches(code, View(p, d, w), DotOf(arrays), d2)
  BY <1>4 DEF Follows, Learning
<1>6. Sure(Head(code), View(p, d, w), DotOf(arrays))
  BY <1>2, <1>5, NextSure
<1>7. Head(code).from \in DOMAIN d \ w /\ d[Head(code).from] = DotOf(arrays)
  BY <1>2, <1>6 DEF Sure, View
<1>8. \A i \in DOMAIN queue : Head(code).from \notin Writes(queue[i].op)
  BY <1>5, <1>7 DEF Knows
<1>9. QED
  BY <1>1, <1>5, <1>7, <1>8 DEF Knows

\* When nothing is pending, what the objects hold is known.
LEMMA KnowsNow ==
  ASSUME queue = <<>>, NEW d, DOMAIN d \subseteq Thing(backend), \A x \in DOMAIN d : d[x] = data[x]
  PROVE  Knows(d, {})
BY DEF Knows

\* The arrays of the backend between two calls.
LEMMA HomeNow ==
  ASSUME Typed, NEW d, d = [x \in Objects(Home(backend)) |-> data[x]]
  PROVE  /\ d \in [Objects(Home(backend)) -> Val] /\ InArrays(backend, d) = Contents
         /\ Objects(Home(backend)) \subseteq Thing(backend)
<1>1. Home(backend) \in [Field -> Thing(backend)] /\ data \in [Thing(backend) -> Val]
  BY ProgramsTyped DEF Typed, DriverTyped, ObjectsTyped
<1>2. Objects(Home(backend)) \subseteq Thing(backend)
      /\ \A f \in Field : Home(backend)[f] \in Objects(Home(backend))
  BY <1>1 DEF Objects
<1>3. QED
  BY <1>1, <1>2 DEF InArrays, Contents

LEMMA EnterFollows ==
  ASSUME Typed, Blocking, NEW st, NEW o, NEW p, Follows(st, o, p),
         NEW c \in Callable(backend) \cup {"list", "construct", "get_arrays", "destroy"},
         NEW from, Enter(c, from), c # "none",
         from = IF c = "destroy" THEN "compared" ELSE PhaseBefore(c)
  PROVE  Follows(st, o, {})'
<1>1. /\ UNCHANGED <<backend, phase, data, queue, given, arrays>>
      /\ phase = from /\ call = "none" /\ call' = c /\ code' = Program(backend, c)
      /\ queue = <<>>
  BY DEF Enter, stable, store, choice, result, Blocking
<1>2. Entered(st, o, p) /\ Computes(backend) /\ AtRest
  BY DEF Follows
<1>3. Entered(st, o, {})' /\ o = st[PhaseBefore(c)]
  BY <1>2, EnterOwning
<1>4. Computes(backend)'
  BY <1>1, <1>2
<1>5. phase # "given"
  BY <1>1 DEF PhaseBefore
<1>6. AtRest'
  <2>1. c \in {"list", "destroy"} => \A i \in DOMAIN Program(backend, c) : Program(backend, c)[i].do # "sum"
    BY <1>2 DEF Computes
  <2>2. QED
    BY <1>1, <1>2, <1>5, <2>1 DEF AtRest
<1>7. 0 \in Idx(1)
  BY DEF Idx
<1>8. ASSUME c = "construct" PROVE Learning({})'
  <2>1. arrays = [i \in Idx(1) |-> StartCell] /\ o = st["start"]
    BY <1>1, <1>2, <1>3, <1>8 DEF AtRest, PhaseBefore
  <2>2. PICK d2 : /\ Teaches(Program(backend, "construct"), Entering(NothingKnown),
                             ProductOf(StartCell), d2)
                  /\ Has(backend, d2, StartCell)
    BY <1>2 DEF Computes
  <2>3. Knows(NothingKnown, {})
    BY <1>1, KnowsNow DEF NothingKnown
  <2>4. Knows(NothingKnown, {})'
    BY <1>1, <2>3 DEF Knows
  <2>5. DotOf(arrays) = ProductOf(StartCell) /\ arrays[0] = StartCell
    BY <1>7, <2>1 DEF ProductOf
  <2>6. Teaches(code', View({}, NothingKnown, {}), DotOf(arrays), d2)
    BY <1>1, <1>8, <2>1, <2>2, <2>5 DEF Entering
  <2>7. Reaches(d2, arrays[0])'
    <3>1. Has(backend', d2, StartCell) /\ call' = "construct" /\ arrays'[0] = StartCell
      BY <1>1, <1>8, <2>2, <2>5
    <3>2. QED
      BY <3>1 DEF Reaches, Kernel, ArrayKernels
  <2>8. Teaches(code, View({}, NothingKnown, {}), DotOf(arrays), d2)'
    BY <1>1, <2>6
  <2>9. QED
    BY <2>4, <2>7, <2>8 DEF Learning
<1>9. ASSUME c \in Callable(backend) \cup {"get_arrays"} PROVE Learning({})'
  <2>1. PICK d : d = [x \in Objects(Home(backend)) |-> data[x]]
    OBVIOUS
  <2>2. /\ d \in [Objects(Home(backend)) -> Val] /\ InArrays(backend, d) = Contents
        /\ Objects(Home(backend)) \subseteq Thing(backend)
    BY <2>1, HomeNow
  <2>3. c \in Kernel \cup {"get_arrays"} /\ PhaseBefore(c) = "ready" /\ c # "destroy"
    BY <1>9, ProgramsTyped DEF Typed, DriverTyped, Kernel, ArrayKernels, PhaseBefore
  <2>4. arrays = [i \in Idx(1) |-> Contents] /\ o = st["ready"]
    BY <1>1, <1>2, <1>3, <2>3 DEF AtRest
  <2>5. Knows(d, {})
    BY <1>1, <2>1, <2>2, KnowsNow
  <2>6. Knows(d, {})'
    BY <1>1, <2>5 DEF Knows
  <2>7. DotOf(arrays) = ProductOf(InArrays(backend, d)) /\ arrays[0] = InArrays(backend, d)
    BY <1>7, <2>2, <2>4 DEF ProductOf
  <2>8. \E d2 : /\ Teaches(Program(backend, c), Entering(d), ProductOf(InArrays(backend, d)), d2)
                /\ Reaches(d2, InArrays(backend, d))'
    <3>1. CASE c = "get_arrays"
      <4>1. PICK d2 :
              /\ Teaches(Program(backend, c), Entering(d), ProductOf(InArrays(backend, d)), d2)
              /\ \A i \in DOMAIN Program(backend, c) :
                   Program(backend, c)[i].do = "arrays" =>
                     \A f \in Field : /\ Program(backend, c)[i].from[f] \in DOMAIN d2
                                      /\ d2[Program(backend, c)[i].from[f]] = InArrays(backend, d)[f]
        BY <1>2, <2>2, <3>1 DEF Computes
      <4>2. \E i \in DOMAIN Program(backend, c) : Program(backend, c)[i].do = "arrays"
        BY <3>1, ProgramsTyped DEF Typed, DriverTyped
      <4>3. Reaches(d2, InArrays(backend, d))'
        BY <1>1, <3>1, <4>1, <4>2 DEF Reaches, Kernel, ArrayKernels
      <4>4. QED
        BY <4>1, <4>3
    <3>2. CASE c # "get_arrays"
      <4>1. PICK d2 :
              /\ Teaches(Program(backend, c), Entering(d), ProductOf(InArrays(backend, d)), d2)
              /\ Has(backend, d2, Apply(c, InArrays(backend, d)))
        BY <1>2, <1>9, <2>2, <3>2 DEF Computes
      <4>2. Reaches(d2, InArrays(backend, d))'
        BY <1>1, <2>3, <3>2, <4>1 DEF Reaches, Kernel, ArrayKernels
      <4>3. QED
        BY <4>1, <4>2
    <3>3. QED
      BY <3>1, <3>2
  <2>9. PICK d2 : /\ Teaches(Program(backend, c), Entering(d), ProductOf(InArrays(backend, d)), d2)
                  /\ Reaches(d2, InArrays(backend, d))'
    BY <2>8
  <2>10. Teaches(code, View({}, d, {}), DotOf(arrays), d2)'
    BY <1>1, <2>4, <2>7, <2>9 DEF Entering
  <2>11. Reaches(d2, arrays[0])'
    BY <1>1, <2>7, <2>9 DEF Reaches
  <2>12. QED
    BY <2>6, <2>10, <2>11 DEF Learning
<1>10. QED
  BY <1>1, <1>3, <1>4, <1>6, <1>8, <1>9 DEF Follows

LEMMA CompareFollows ==
  ASSUME NEW st, NEW o, NEW p, Follows(st, o, p), Compare
  PROVE  Follows(st, o, p)' /\ seen' = arrays /\ UNCHANGED <<arrays, sum>>
<1>1. /\ UNCHANGED <<backend, call, code, data, given, arrays, sum>> /\ phase = "given"
      /\ phase' = "compared" /\ call = "none"
      /\ seen' = [i \in Idx(1) |-> [f \in Field |-> data[given[f]]]]
  BY DEF Compare, stable, store, result
<1>2. Entered(st, o, p) /\ Computes(backend) /\ AtRest
  BY DEF Follows
<1>3. Entered(st, o, p)'
  BY <1>2, CompareOwning
<1>4. Computes(backend)' /\ AtRest'
  BY <1>1, <1>2 DEF AtRest
<1>5. QED
  BY <1>1, <1>2, <1>3, <1>4 DEF Follows, AtRest

\* The end of a method: the arrays are those of the contract.
LEMMA ReturnFollows ==
  ASSUME Typed, Settles, NEW st, NEW o, NEW p, Follows(st, o, p), Return
  PROVE  /\ Follows(st, o, p)' /\ UNCHANGED <<sum, seen>>
         /\ arrays' = IF call \in ArrayKernels THEN [i \in Idx(1) |-> Apply(call, arrays[i])] ELSE arrays
<1>1. /\ UNCHANGED <<backend, code, data, queue, given, sum, seen>>
      /\ call # "none" /\ code = <<>> /\ call' = "none" /\ phase' = PhaseAfter(call)
      /\ arrays' = IF call \in ArrayKernels \cup {"construct"}
                   THEN [i \in Idx(1) |-> Contents] ELSE arrays
  BY DEF Return, stable, store, result
<1>2. queue = <<>> /\ DOMAIN code = {}
  <2>1. DOMAIN code = {}
    BY <1>1
  <2>2. \A i \in DOMAIN queue : AwaitedFrom(queue[i].op, code, 1)
    BY DEF Settles
  <2>3. DOMAIN queue = {} /\ queue \in Seq(Range(queue))
    BY <2>1, <2>2 DEF AwaitedFrom, Settles
  <2>4. QED
    BY <2>1, <2>3, NothingLeft
<1>3. Entered(st, o, p) /\ Computes(backend) /\ AtRest
  BY DEF Follows
<1>4. Entered(st, o, p)'
  BY <1>3, ReturnOwning
<1>5. Computes(backend)'
  BY <1>1, <1>3
<1>6. /\ Contents' = Contents /\ DOMAIN Contents = Field
      /\ \A f \in Field : Contents[f] = data[Home(backend)[f]] /\ Home(backend)[f] \in Objects(Home(backend))
  <2>1. Home(backend) \in [Field -> Thing(backend)]
    BY ProgramsTyped DEF Typed, DriverTyped
  <2>2. QED
    BY <1>1, <2>1 DEF Contents, Objects
<1>7. PICK x \in Cell : arrays = [i \in Idx(1) |-> x]
  <2>1. arrays \in [Idx(1) -> Cell] /\ Idx(1) = {0}
    BY DEF Typed, ResultsTyped, Idx
  <2>2. QED
    BY <2>1
<1>8. x = [f \in Field |-> x[f]] /\ arrays[0] = x
  BY <1>7 DEF Cell, Field, Idx
<1>9. ASSUME call \notin {"list", "destroy"}
      PROVE  \E d2 : Reaches(d2, x) /\ \A y \in DOMAIN d2 : d2[y] = data[y]
  <2>1. PICK d, w, d2 : /\ Knows(d, w) /\ Teaches(<<>>, View(p, d, w), DotOf(arrays), d2)
                        /\ Reaches(d2, x)
    BY <1>1, <1>8, <1>9 DEF Follows, Learning
  <2>2. d2 = d
    BY <2>1, TeachesNothing DEF View
  <2>3. \A y \in DOMAIN d : d[y] = data[y]
    BY <1>2, <2>1 DEF Knows
  <2>4. QED
    BY <2>1, <2>2, <2>3
<1>10. ASSUME NEW z, NEW d2, Has(backend, d2, z), \A y \in DOMAIN d2 : d2[y] = data[y]
       PROVE  Contents = z
  <2>1. z = [f \in Field |-> d2[Home(backend)[f]]] /\ \A f \in Field : d2[Home(backend)[f]] = Contents[f]
    BY <1>6, <1>10 DEF Has, InArrays
  <2>2. Contents = [f \in Field |-> Contents[f]]
    BY DEF Contents
  <2>3. QED
    BY <2>1, <2>2
<1>11. ASSUME call = "construct" PROVE Contents = x /\ x = StartCell
  <2>1. PICK d2 : Reaches(d2, x) /\ \A y \in DOMAIN d2 : d2[y] = data[y]
    BY <1>9, <1>11
  <2>2. x = StartCell /\ Has(backend, d2, x)
    BY <1>11, <2>1 DEF Reaches, Kernel, ArrayKernels
  <2>3. QED
    BY <1>10, <2>1, <2>2
<1>12. call \in Kernel => Contents = Apply(call, x)
  BY <1>9, <1>10 DEF Reaches, Kernel, ArrayKernels
<1>13. call = "get_arrays" => x = [f \in Field |-> data[given[f]]]
  <2>1. ASSUME call = "get_arrays" PROVE \A f \in Field : data[given[f]] = x[f]
    BY <1>2, <1>9, <2>1 DEF Reaches, Kernel, ArrayKernels
  <2>2. QED
    BY <1>8, <2>1
<1>14. call \in Call
  BY <1>1 DEF Typed, DriverTyped
<1>15. arrays' = IF call \in ArrayKernels THEN [i \in Idx(1) |-> Apply(call, x)] ELSE arrays
  <2>1. CASE call = "construct"
    BY <1>1, <1>7, <1>11, <2>1 DEF ArrayKernels
  <2>2. CASE call # "construct"
    BY <1>1, <1>12, <2>2 DEF Kernel
  <2>3. QED
    BY <2>1, <2>2
<1>16. AtRest'
  <2>1. CASE call = "construct"
    BY <1>1, <1>6, <2>1 DEF AtRest, PhaseAfter, ArrayKernels
  <2>2. CASE call \in ArrayKernels
    BY <1>1, <1>6, <2>2 DEF AtRest, PhaseAfter, ArrayKernels
  <2>3. CASE call = "Dot"
    <3>1. Contents = x
      BY <1>12, <2>3 DEF Kernel, Apply, ArrayKernels
    <3>2. QED
      BY <1>1, <1>6, <1>7, <2>3, <3>1 DEF AtRest, PhaseAfter, ArrayKernels
  <2>4. CASE call = "get_arrays"
    BY <1>1, <1>7, <1>13, <2>4 DEF AtRest, PhaseAfter, ArrayKernels
  <2>5. CASE call \in {"list", "destroy"}
    BY <1>1, <2>5 DEF AtRest, PhaseAfter
  <2>6. QED
    BY <1>14, <2>1, <2>2, <2>3, <2>4, <2>5 DEF Call, Kernel
<1>17. Follows(st, o, p)'
  BY <1>1, <1>4, <1>5, <1>16 DEF Follows
<1>18. QED
  BY <1>1, <1>7, <1>15, <1>17

LEMMA RefuseFollows ==
  ASSUME NEW st, NEW o, NEW p, Follows(st, o, p), Refuse
  PROVE  Follows(st, o, p)'
<1>1. UNCHANGED backend /\ call' = "none" /\ code' = <<>> /\ phase' = "refused"
  BY DEF Refuse, stable
<1>2. Entered(st, o, p) /\ Computes(backend)
  BY DEF Follows
<1>3. Entered(st, o, p)'
  BY <1>2, RefuseOwning
<1>4. Computes(backend)' /\ AtRest'
  BY <1>1, <1>2 DEF AtRest
<1>5. QED
  BY <1>1, <1>3, <1>4 DEF Follows

\* The device has nothing to do between two calls.
LEMMA ExecuteFollows ==
  ASSUME Typed, Blocking, NEW st, NEW o, NEW p, Follows(st, o, p), Execute
  PROVE  Follows(st, o, p)'
<1>1. UNCHANGED <<backend, phase, call, code, given, arrays>>
  BY DEF Execute, stable, driver, result
<1>2. call # "none"
  <2>1. PICK i : i \in DOMAIN queue
    BY DEF Execute
  <2>2. QED
    BY <2>1 DEF Blocking
<1>3. Entered(st, o, p) /\ Computes(backend) /\ AtRest
  BY DEF Follows
<1>4. Entered(st, o, p)'
  BY <1>3, ExecuteOwning
<1>5. phase # "given"
  BY <1>2, <1>3 DEF Entered, Points
<1>6. Computes(backend)' /\ AtRest'
  BY <1>1, <1>2, <1>3, <1>5 DEF AtRest
<1>7. ASSUME call \notin {"none", "list", "destroy"} PROVE Learning(p)'
  <2>1. PICK d, w, d2 : /\ Knows(d, w) /\ Teaches(code, View(p, d, w), DotOf(arrays), d2)
                        /\ Reaches(d2, arrays[0])
    BY <1>7 DEF Follows, Learning
  <2>2. Knows(d, w)'
    BY <2>1, ExecuteKnows
  <2>3. Reaches(d2, arrays[0])' /\ Teaches(code, View(p, d, w), DotOf(arrays), d2)'
    BY <1>1, <2>1 DEF Reaches
  <2>4. QED
    BY <2>2, <2>3 DEF Learning
<1>8. QED
  BY <1>1, <1>4, <1>6, <1>7 DEF Follows

LEMMA StutterFollows ==
  ASSUME NEW st, NEW o, NEW p, Follows(st, o, p), UNCHANGED vars
  PROVE  Follows(st, o, p)'
<1>1. UNCHANGED <<backend, phase, call, code, data, queue, given, arrays>>
  BY DEF vars, stable, driver, store, result
<1>2. Entered(st, o, p) /\ Computes(backend) /\ AtRest
  BY DEF Follows
<1>3. Entered(st, o, p)'
  BY <1>2, StutterOwning
<1>4. Computes(backend)' /\ AtRest'
  BY <1>1, <1>2 DEF AtRest, Contents
<1>5. ASSUME Learning(p) PROVE Learning(p)'
  <2>1. PICK d, w, d2 : /\ Knows(d, w) /\ Teaches(code, View(p, d, w), DotOf(arrays), d2)
                        /\ Reaches(d2, arrays[0])
    BY <1>5 DEF Learning
  <2>2. Knows(d, w)'
    BY <1>1, <2>1 DEF Knows
  <2>3. Reaches(d2, arrays[0])' /\ Teaches(code, View(p, d, w), DotOf(arrays), d2)'
    BY <1>1, <2>1 DEF Reaches
  <2>4. QED
    BY <2>2, <2>3 DEF Learning
<1>6. QED
  BY <1>1, <1>3, <1>4, <1>5 DEF Follows

LEMMA FollowsInit == ASSUME ProgramsOwn, ProgramsCompute, Init PROVE Following
<1>1. /\ backend \in Backends /\ phase = "start" /\ call = "none" /\ code = <<>> /\ queue = <<>>
      /\ held = [x \in Thing(backend) |-> NotHeld] /\ arrays = [i \in Idx(1) |-> StartCell]
  BY DEF Init
<1>2. PICK st : Accounts(backend, st) /\ Computes(backend)
  BY <1>1 DEF ProgramsOwn, ProgramsCompute
<1>3. Books(st["start"])
  BY <1>1, <1>2 DEF Books, Accounts, NotHeld, Nobody
<1>4. Covers(st["start"], {})
  BY <1>1 DEF Covers
<1>5. Points(st) /\ OnTrack(st, st["start"], {}) /\ AtRest
  BY <1>1 DEF Points, OnTrack, PhaseOfBook, AtRest
<1>6. Follows(st, st["start"], {})
  BY <1>1, <1>2, <1>3, <1>4, <1>5 DEF Entered, Follows
<1>7. QED
  BY <1>6 DEF Following

LEMMA FollowingNext == ASSUME Typed, Settles, Following, [Next]_vars PROVE Following'
<1>1. PICK st, o, p : Follows(st, o, p)
  BY DEF Following
<1>2. Blocking
  BY SettlesBlocking
<1>3. CASE Driver
  <2>1. CASE Compare
    BY <1>1, <2>1, CompareFollows DEF Following
  <2>2. CASE ~Compare
    <3>1. PICK c \in Callable(backend) \cup {"list", "construct", "get_arrays", "destroy"} :
            c # "none" /\ Enter(c, IF c = "destroy" THEN "compared" ELSE PhaseBefore(c))
      BY <1>3, <2>2, DriverEnters
    <3>2. Follows(st, o, {})'
      BY <1>1, <1>2, <3>1, EnterFollows
    <3>3. QED
      BY <3>2 DEF Following
  <2>3. QED
    BY <2>1, <2>2
<1>4. CASE Step /\ ~Refuse
  BY <1>1, <1>4, StepFollows
<1>5. CASE Refuse \/ Return \/ Execute \/ UNCHANGED vars
  BY <1>1, <1>2, <1>5, RefuseFollows, ReturnFollows, ExecuteFollows, StutterFollows DEF Following
<1>6. QED
  BY <1>3, <1>4, <1>5 DEF Next
----------------------------------------------------------------------------
(* The refinement                                                          *)

\* Contract reads Kernels with the same constants.
LEMMA SameKernels ==
  /\ Contract!ArrayKernels = ArrayKernels /\ Contract!StartCell = StartCell
  /\ \A n : Contract!Idx(n) = Idx(n)
  /\ \A k, x : Contract!Apply(k, x) = Apply(k, x)
  /\ \A m : Contract!DotOf(m) = DotOf(m)
<1>1. Contract!ArrayKernels = ArrayKernels /\ Contract!StartCell = StartCell
  BY DEF Contract!ArrayKernels, ArrayKernels, Contract!StartCell, StartCell
<1>2. ASSUME NEW k, NEW x PROVE Contract!Apply(k, x) = Apply(k, x)
  BY <1>1 DEF Contract!Apply, Apply, Contract!Target, Target, Contract!Written, Written
<1>3. QED
  BY <1>1, <1>2 DEF Contract!Idx, Idx, Contract!DotOf, DotOf

LEMMA InitRefines == ASSUME Init PROVE Contract!StreamInit
<1>1. arrays = [i \in Idx(1) |-> StartCell] /\ sum = OfInt(0) /\ seen = [i \in {} |-> StartCell]
  BY DEF Init
<1>2. arrays = Contract!StartArrays(1)
  BY <1>1, SameKernels DEF Contract!StartArrays
<1>3. seen = Contract!NoArrays
  BY <1>1, SameKernels DEF Contract!NoArrays
<1>4. QED
  BY <1>1, <1>2, <1>3, OneElement DEF Contract!StreamInit

LEMMA NextRefines ==
  ASSUME Typed, Settles, Following, [Next]_vars
  PROVE  [Contract!StreamNext]_(Contract!streamVars)
<1>1. PICK st, o, p : Follows(st, o, p)
  BY DEF Following
<1>2. CASE Compare
  <2>1. seen' = arrays /\ UNCHANGED <<arrays, sum>>
    BY <1>1, <1>2, CompareFollows
  <2>2. QED
    BY <2>1 DEF Contract!get_arrays, Contract!StreamNext
<1>3. CASE DoSum
  <2>1. sum' = DotOf(arrays)
    BY <1>1, <1>3, SumFollows
  <2>2. UNCHANGED <<arrays, seen>>
    BY <1>3 DEF DoSum, Advance, driver
  <2>3. QED
    BY <2>1, <2>2, SameKernels DEF Contract!dot, Contract!StreamNext
<1>4. CASE Return
  <2>1. UNCHANGED <<sum, seen>>
        /\ arrays' = IF call \in ArrayKernels THEN [i \in Idx(1) |-> Apply(call, arrays[i])] ELSE arrays
    BY <1>1, <1>4, ReturnFollows
  <2>2. DOMAIN arrays = Idx(1)
    BY DEF Typed, ResultsTyped
  <2>3. CASE call \in ArrayKernels
    <3>1. Contract!Process(call) = [i \in Idx(1) |-> Apply(call, arrays[i])]
      BY <2>2, SameKernels DEF Contract!Process
    <3>2. Contract!ArrayCall(call)
      BY <2>1, <2>3, <3>1, SameKernels DEF Contract!ArrayCall
    <3>3. QED
      BY <2>3, <3>2, SameKernels DEF Contract!StreamNext
  <2>4. CASE call \notin ArrayKernels
    BY <2>1, <2>4 DEF Contract!streamVars
  <2>5. QED
    BY <2>3, <2>4
<1>5. CASE Driver /\ ~Compare
  <2>1. PICK c, from : Enter(c, from)
    BY <1>5, DriverEnters
  <2>2. QED
    BY <2>1 DEF Enter, result, Contract!streamVars
<1>6. CASE Step /\ ~DoSum
  <2>1. UNCHANGED <<arrays, seen>>
    BY <1>6 DEF Step, DoAcquire, DoRetain, DoRelease, DoRename, DoSelect, DoList, Passes, Refuse,
                DoSubmit, DoWait, DoAccess, DoLeave, DoRun, DoHandOut, Advance, driver
  <2>2. UNCHANGED sum
    BY <1>6 DEF Step, DoAcquire, DoRetain, DoRelease, DoRename, DoSelect, DoList, Passes, Refuse,
                DoSubmit, DoWait, DoAccess, DoLeave, DoRun, DoHandOut, result
  <2>3. QED
    BY <2>1, <2>2 DEF Contract!streamVars
<1>7. CASE Execute \/ UNCHANGED vars
  BY <1>7 DEF Execute, vars, driver, result, Contract!streamVars
<1>8. QED
  BY <1>2, <1>3, <1>4, <1>5, <1>6, <1>7 DEF Next

\* Sessions implement the contract of Stream.h, in whatever order the runtime
\* does the work: if the methods compute the right thing when they are read one
\* step after the other, touch no object that pending work touches, and wait
\* for what they submit.
THEOREM SessionsImplement ==
  ASSUME ProgramsDrain, ProgramsOwn, ProgramsCompute
  PROVE  Spec => Implements
<1>1. Init => Contract!StreamInit /\ Following
  BY InitRefines, FollowsInit
<1>2. Typed /\ Settles /\ Following /\ [Next]_vars => Following'
  BY FollowingNext
<1>3. Typed /\ Settles /\ Following /\ [Next]_vars => [Contract!StreamNext]_(Contract!streamVars)
  BY NextRefines
<1>4. QED
  BY <1>1, <1>2, <1>3, SessionsTyped, SessionsSettle, PTL DEF Spec, Implements, Contract!StreamSpec
=============================================================================
