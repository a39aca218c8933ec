------------------------- MODULE BabelStreamProofs -------------------------
(***************************************************************************)
(* Proofs about the driver for every set of values, array size, command    *)
(* line and repetition count: its types, and its validation.               *)
(***************************************************************************)
EXTENDS BabelStreamHistory, TLAPS

\* A kernel applied to a cell is a cell.
LEMMA ApplyCell == ASSUME NEW x \in Cell, NEW k PROVE Apply(k, x) \in Cell
<1>1. CASE k \in ArrayKernels
  <2>1. Written(k, x) \in Val
    BY <1>1, ValuesClosed DEF Written, ArrayKernels, Cell
  <2>2. Target(k) \in {"a", "b", "c"}
    BY <1>1 DEF Target
  <2>3. QED BY <1>1, <2>1, <2>2 DEF Apply, Cell
<1>2. CASE k \notin ArrayKernels
  BY <1>2 DEF Apply
<1>3. QED BY <1>1, <1>2

\* The arrays keep their length and their type when a kernel processes them.
LEMMA ProcessType ==
  ASSUME NEW n, mem \in [Idx(n) -> Cell], NEW k PROVE Process(k) \in [Idx(n) -> Cell]
BY ApplyCell DEF Process

\* The dot product of arrays is a value.
LEMMA DotType ==
  ASSUME NEW n \in Sizes \cup {0}, NEW m \in [Idx(n) -> Cell] PROVE DotOf(m) \in Val
<1>1. [i \in DOMAIN m |-> Times(m[i].a, m[i].b)] \in [Idx(n) -> Val]
  BY ValuesClosed DEF Cell
<1>2. QED BY <1>1, SumOfClosed DEF DotOf

\* A kernel that breaks its contract still leaves values.
LEMMA BrokenTypes ==
  ASSUME NEW n \in Sizes \cup {0}, mem \in [Idx(n) -> Cell], sum \in Val,
         NEW k, BrokenArrayCall(k) \/ BrokenDot
  PROVE  mem' \in [Idx(n) -> Cell] /\ sum' \in Val
<1>1. CASE BrokenArrayCall(k)
  <2>1. PICK j \in Idx(n) : \E x \in {mem[j], Apply(k, Apply(k, mem[j]))} :
          mem' = [Process(k) EXCEPT ![j] = x]
    BY <1>1 DEF BrokenArrayCall
  <2>2. mem[j] \in Cell /\ Apply(k, Apply(k, mem[j])) \in Cell
    BY ApplyCell
  <2>3. QED BY <1>1, <2>1, <2>2, ProcessType DEF BrokenArrayCall
<1>2. CASE BrokenDot
  <2>1. PICK j \in Idx(n) :
          sum' = SumOf([i \in DOMAIN mem |-> IF i = j THEN OfInt(0) ELSE Times(mem[i].a, mem[i].b)])
    BY <1>2 DEF BrokenDot
  <2>2. [i \in DOMAIN mem |-> IF i = j THEN OfInt(0) ELSE Times(mem[i].a, mem[i].b)]
          \in [Idx(n) -> Val]
    BY ValuesClosed DEF Cell
  <2>3. QED BY <1>2, <2>1, <2>2, SumOfClosed DEF BrokenDot
<1>3. QED BY <1>1, <1>2

\* The initial arrays have their type.
LEMMA StartType ==
  /\ StartCell \in Cell
  /\ \A n : StartArrays(n) \in [Idx(n) -> Cell]
  /\ NoArrays \in [Idx(0) -> Cell]
  /\ OfInt(0) \in Val
BY ValuesClosed DEF StartCell, Cell, StartArrays, NoArrays, Idx

\* bench holds one of the six kernels at each of its positions.
LEMMA BenchIds ==
  \A i \in 1 .. num_benchmarks : bench[i].id \in Kernel
<1>1. \A i \in 1 .. num_benchmarks : i \in {1, 2, 3, 4, 5, 6}
  BY DEF num_benchmarks
<1>2. /\ bench[1].id = "Copy" /\ bench[2].id = "Mul" /\ bench[3].id = "Add"
      /\ bench[4].id = "Triad" /\ bench[5].id = "Dot" /\ bench[6].id = "Nstream"
  BY DEF bench
<1>3. \A i \in {1, 2, 3, 4, 5, 6} : bench[i].id \in Kernel
  BY <1>2 DEF Kernel, ArrayKernels
<1>4. QED BY <1>1, <1>3

\* The parser's conversion stays within size_t.
LEMMA ParseUIntNat == \A n \in Int : parseUInt(n) \in Nat
BY DriverAssumption DEF parseUInt

\* A parsing step touches only the position in argv, the options and the
\* exit; it keeps the type of everything if it keeps that of those.
LEMMA ParseFrame ==
  ASSUME TypeOK, NEW option, Parse(option),
         opts' \in Options, pc' \in Phases, status' \in Statuses
  PROVE  TypeOK'
BY DEF TypeOK, Parse, streamVars, checkVars

\* What the parser reads is one of the arguments.
LEMMA ValueType ==
  ASSUME TypeOK, NEW option, Parse(option)
  PROVE  /\ option = "--arraysize" =>
              Value = Missing \/ (Value \in Int /\ (Value <= 0 \/ Value \in Sizes))
         /\ option = "--numtimes" => Value = Missing \/ Value \in Int
<1>1. argv[argi] \in Args
  BY DEF TypeOK, Parse
<1>2. QED BY <1>1, DriverAssumption DEF Parse, Value

\* Parsing keeps every variable in its type: the only sizes and repetition
\* counts it stores are positive, and at least 2.
LEMMA ParseTypes == ASSUME TypeOK, ParseNext PROVE TypeOK'
<1>0. opts \in Options /\ pc \in Phases /\ status \in Statuses
  BY DEF TypeOK
<1>e. ASSUME NEW option, Parse(option), NEW s \in Statuses, Quit(s) PROVE TypeOK'
  BY <1>e, <1>0, ParseFrame DEF Quit, Exit, Phases
<1>s. ASSUME NEW option, Parse(option), UNCHANGED <<pc, status>>, opts' \in Options PROVE TypeOK'
  BY <1>s, <1>0, ParseFrame
<1>1. CASE ParseInfo \/ ParseUnknown \/ ParseOutput \/ ParseDevice
  BY <1>0, <1>1, <1>e, <1>s DEF ParseInfo, ParseUnknown, ParseOutput, ParseDevice, Statuses
<1>2. CASE ParseSilence \/ ParseFloat
  BY <1>0, <1>2, <1>s DEF ParseSilence, ParseFloat, SetOption, Options
<1>3. CASE ParseSize
  <2>1. CASE Quit("failure")
    BY <1>3, <2>1, <1>e DEF ParseSize, Statuses
  <2>2. CASE ~Quit("failure")
    <3>1. Value \in Sizes /\ SetOption("array_size", Value)
      BY <1>3, <2>2, ValueType DEF ParseSize
    <3>2. opts' \in Options
      BY <1>0, <3>1 DEF SetOption, Options
    <3>3. QED BY <1>3, <3>1, <3>2, <1>s DEF ParseSize, SetOption
  <2>3. QED BY <2>1, <2>2
<1>4. CASE ParseTimes
  <2>1. CASE Quit("failure")
    BY <1>4, <2>1, <1>e DEF ParseTimes, Statuses
  <2>2. CASE ~Quit("failure")
    <3>1. Value \in Int /\ ~(parseUInt(Value) < 2) /\ SetOption("num_times", parseUInt(Value))
      BY <1>4, <2>2, ValueType DEF ParseTimes
    <3>2. parseUInt(Value) \in Nat \ {0, 1}
      BY <3>1, ParseUIntNat
    <3>3. opts' \in Options
      BY <1>0, <3>1, <3>2 DEF SetOption, Options
    <3>4. QED BY <1>4, <3>1, <3>3, <1>s DEF ParseTimes, SetOption
  <2>3. QED BY <2>1, <2>2
<1>5. CASE ParseOnly
  <2>1. CASE Quit("failure")
    BY <1>5, <2>1, <1>e DEF ParseOnly, Statuses
  <2>2. CASE ~Quit("failure")
    <3>1. Value \in BenchId /\ SetOption("selection", Value)
      BY <1>5, <2>2 DEF ParseOnly
    <3>2. opts' \in Options
      BY <1>0, <3>1 DEF SetOption, Options
    <3>3. QED BY <1>5, <3>1, <3>2, <1>s DEF ParseOnly, SetOption
  <2>3. QED BY <2>1, <2>2
<1>6. CASE ParseOrder
  <2>1. CASE Quit("failure")
    BY <1>6, <2>1, <1>e DEF ParseOrder, Statuses
  <2>2. CASE SetOption("order", "Isolated")
    <3>1. opts' \in Options
      BY <1>0, <2>2 DEF SetOption, Options, Orders
    <3>2. QED BY <1>6, <2>2, <3>1, <1>s DEF ParseOrder, SetOption
  <2>3. CASE UNCHANGED <<opts, pc, status>>
    BY <1>0, <1>6, <2>3, <1>s DEF ParseOrder
  <2>4. QED BY <1>6, <2>1, <2>2, <2>3 DEF ParseOrder
<1>7. CASE EndOfArguments
  BY <1>7 DEF EndOfArguments, parseVars, TypeOK, streamVars, checkVars, Phases
<1>8. QED BY <1>1, <1>2, <1>3, <1>4, <1>5, <1>6, <1>7 DEF ParseNext

LEMMA LoopPosition ==
  ASSUME TypeOK, ~LoopEnds
  PROVE  at \in Positions /\ (opts.order = "Isolated" => at.i <= num_benchmarks)
BY DEF TypeOK, LoopEnds, Positions, num_benchmarks

\* Both loops move among positions.
LEMMA AdvanceType ==
  ASSUME TypeOK, NEW p \in Positions, opts.order = "Isolated" => p.i <= num_benchmarks
  PROVE  RunAdvance(p) \in Positions /\ GoldAdvance(p) \in Positions
<1>1. /\ [p EXCEPT !.i = @ + 1] = [k |-> p.k, i |-> p.i + 1]
      /\ [p EXCEPT !.k = @ + 1] = [k |-> p.k + 1, i |-> p.i]
      /\ p.k \in Nat /\ p.i \in 1 .. 7
  BY DEF Positions, num_benchmarks
<1>2. opts.order \in {"Classic", "Isolated"}
  BY DEF TypeOK, Options, Orders
<1>3. RunAdvance(p) \in Positions
  BY <1>1, <1>2 DEF Positions, RunAdvance, num_benchmarks
<1>4. GoldAdvance(p) \in Positions
  BY <1>1, <1>2 DEF Positions, GoldAdvance, num_benchmarks
<1>5. QED BY <1>3, <1>4

LEMMA GoldType == ASSUME TypeOK, NEW k PROVE GoldCell(k) \in Cell /\ GoldSum \in Val
<1>1. gold \in Cell /\ opts.array_size \in Sizes
  BY DEF TypeOK, Options
<1>2. GoldSum \in Val
  BY <1>1, ValuesClosed, SumOfUniform DEF GoldSum, Cell
<1>3. GoldCell(k) \in Cell
  BY <1>1, ValuesClosed DEF GoldCell, Cell
<1>4. QED BY <1>2, <1>3

\* Running, reading and replaying keep every variable in its type.
LEMMA RunTypes ==
  ASSUME TypeOK, Next, ~ParseNext PROVE TypeOK'
<1>1. CASE ConstructFails
  BY <1>1 DEF TypeOK, ConstructFails, Exit, Phases, Statuses, streamVars, parseVars, checkVars
<1>2. CASE Construct
  <2>1. opts.array_size \in Sizes
    BY DEF TypeOK, Options
  <2>2. mem' \in [Idx(opts.array_size) -> Cell] /\ sum' \in Val
    BY <1>2, StartType DEF Construct
  <2>3. pc' \in Phases /\ status' \in Statuses
    BY <1>2 DEF Construct, Exit, TypeOK, Phases, Statuses
  <2>4. \E n \in Sizes \cup {0} : mem' \in [Idx(n) -> Cell]
    BY <2>1, <2>2
  <2>5. UNCHANGED <<host, parseVars, at, timings, checkVars, broken>>
    BY <1>2 DEF Construct
  <2>6. QED BY <2>2, <2>3, <2>4, <2>5 DEF TypeOK, parseVars, checkVars
<1>3. CASE RunSkip \/ ReplaySkip
  <2>1. at' \in Positions
    BY <1>3, AdvanceType, LoopPosition DEF RunSkip, ReplaySkip, InLoop
  <2>2. QED BY <1>3, <2>1 DEF TypeOK, RunSkip, ReplaySkip, streamVars, parseVars, checkVars
<1>4. CASE RunKernel \/ RunBrokenKernel
  <2>1. at' \in Positions
    BY <1>4, AdvanceType, LoopPosition DEF RunKernel, RunBrokenKernel, InLoop
  <2>2. timings' \in [1 .. num_benchmarks -> Nat]
    BY <1>4 DEF RunKernel, RunBrokenKernel, Timed, TypeOK, Options
  <2>3. PICK n \in Sizes \cup {0} : mem \in [Idx(n) -> Cell]
    BY DEF TypeOK
  <2>4. mem' \in [Idx(n) -> Cell] /\ sum' \in Val
    <3>0. sum \in Val
      BY DEF TypeOK
    <3>1. \A k : Process(k) \in [Idx(n) -> Cell]
      BY <2>3, ProcessType
    <3>2. ASSUME NEW k, ArrayCall(k) \/ dot PROVE mem' \in [Idx(n) -> Cell] /\ sum' \in Val
      BY <3>0, <3>1, <3>2, <2>3, DotType DEF dot, ArrayCall
    <3>3. ASSUME NEW k, BrokenArrayCall(k) \/ BrokenDot
          PROVE  mem' \in [Idx(n) -> Cell] /\ sum' \in Val
      BY <3>0, <3>3, <2>3, BrokenTypes
    <3>4. QED BY <1>4, <3>2, <3>3 DEF RunKernel, RunBrokenKernel
  <2>5. UNCHANGED <<host, parseVars, pc, checkVars, status>> /\ broken' \in BOOLEAN
    BY <1>4 DEF RunKernel, RunBrokenKernel, dot, ArrayCall, TypeOK
  <2>6. QED BY <2>1, <2>2, <2>4, <2>5 DEF TypeOK, parseVars, checkVars
<1>5. CASE RunEnds \/ ReplayEnds
  BY <1>5 DEF TypeOK, RunEnds, ReplayEnds, Phases, streamVars, parseVars, checkVars
<1>6. CASE ReadArrays
  BY <1>6 DEF TypeOK, ReadArrays, get_arrays, Phases, parseVars, checkVars, Start, Positions,
              num_benchmarks
<1>7. CASE Replay
  <2>1. at' \in Positions
    BY <1>7, AdvanceType, LoopPosition DEF Replay, InLoop
  <2>2. gold' \in Cell /\ goldS' \in Val
    BY <1>7, GoldType DEF Replay, TypeOK
  <2>3. QED BY <1>7, <2>1, <2>2 DEF TypeOK, Replay, streamVars, parseVars
<1>8. CASE check_solution
  <2>1. Failures \subseteq ({"sum", "a", "b", "c"} \X Nat)
    BY DEF Failures, FailedElements, Idx
  <2>2. pc' \in Phases /\ status' \in Statuses
    BY <1>8 DEF check_solution, Exit, TypeOK, Phases, Statuses
  <2>3. QED BY <1>8, <2>1, <2>2 DEF TypeOK, check_solution, streamVars, parseVars
<1>9. CASE Report
  BY <1>9 DEF TypeOK, Report, Exit, Phases, Statuses, streamVars, parseVars, checkVars
<1>10. QED BY <1>1, <1>2, <1>3, <1>4, <1>5, <1>6, <1>7, <1>8, <1>9 DEF Next

\* The program starts with values of the right types.
LEMMA InitTypes == Init => TypeOK
<1> SUFFICES ASSUME Init PROVE TypeOK
  OBVIOUS
<1>1. argv \in Seq(Args)
  <2>1. PICK n \in 0 .. MaxArgs : argv \in [1 .. n -> Args]
    BY DEF Init, CommandLines
  <2>2. QED BY <2>1, DriverAssumption
<1>2. opts \in Options
  BY DriverAssumption DEF Init, Options, BenchId, Orders
<1>3. at \in Positions
  BY DEF Init, Start, Positions, num_benchmarks
<1>4. \E n \in Sizes \cup {0} : NoArrays \in [Idx(n) -> Cell]
  BY StartType
<1>5. mem = NoArrays /\ host = NoArrays /\ sum \in Val /\ gold \in Cell /\ goldS \in Val
  BY StartType DEF Init
<1>6. timings \in [1 .. num_benchmarks -> Nat] /\ argi \in Nat \ {0}
  BY DEF Init
<1>7. pc \in Phases /\ status \in Statuses /\ failed = {} /\ broken = FALSE
  BY DEF Init, Phases, Statuses
<1>8. QED BY <1>1, <1>2, <1>3, <1>4, <1>5, <1>6, <1>7 DEF TypeOK

\* Type correctness of the driver: in particular, no command line makes it
\* run with an array size or a repetition count the parser must refuse.
THEOREM TypeCorrect == Spec => []TypeOK
<1>1. TypeOK /\ [Next]_vars => TypeOK'
  <2>1. CASE Next
    BY <2>1, ParseTypes, RunTypes
  <2>2. CASE UNCHANGED vars
    BY <2>2 DEF vars, TypeOK, streamVars, parseVars, checkVars
  <2>3. QED BY <2>1, <2>2
<1>2. QED BY InitTypes, <1>1, PTL DEF Spec
----------------------------------------------------------------------------
(* The validation of main.cpp is right for every selection, both orders,   *)
(* every array size and repetition count: IInv is inductive.               *)

\* The loops of run_all and of check_solution advance alike.
LEMMA SameLoops == \A p : GoldAdvance(p) = RunAdvance(p)
BY DEF GoldAdvance, RunAdvance

\* The components of the position after p.
LEMMA AdvanceParts ==
  ASSUME TypeOK, NEW p \in Positions
  PROVE  /\ p.k \in Nat /\ p.i \in 1 .. 7 /\ p = [k |-> p.k, i |-> p.i]
         /\ opts.order \in {"Classic", "Isolated"} /\ opts.num_times \in Nat /\ opts.num_times >= 2
         /\ RunAdvance(p) =
              IF opts.order = "Classic"
              THEN IF p.i < 6 THEN [k |-> p.k, i |-> p.i + 1] ELSE [k |-> p.k + 1, i |-> 1]
              ELSE IF Selected(p.i) /\ p.k + 1 < opts.num_times THEN [k |-> p.k + 1, i |-> p.i]
                                                                ELSE [k |-> 0, i |-> p.i + 1]
<1>1. /\ [p EXCEPT !.i = @ + 1] = [k |-> p.k, i |-> p.i + 1]
      /\ [p EXCEPT !.k = @ + 1] = [k |-> p.k + 1, i |-> p.i]
      /\ p.k \in Nat /\ p.i \in 1 .. 7 /\ p = [k |-> p.k, i |-> p.i]
  BY DEF Positions, num_benchmarks
<1>2. /\ opts.order \in {"Classic", "Isolated"}
      /\ opts.num_times \in Nat /\ opts.num_times >= 2
  BY DEF TypeOK, Options, Orders
<1>3. QED BY <1>1, <1>2 DEF RunAdvance, num_benchmarks

\* The loops end exactly at EndPosition.
LEMMA EndsAtEnd ==
  ASSUME TypeOK, LoopInv, pc \in {"run", "replay"}
  PROVE  LoopEnds <=> at = EndPosition
<1>1. at \in Positions
  BY DEF TypeOK
<1>2. QED BY <1>1, AdvanceParts DEF LoopInv, LoopEnds, EndPosition, num_benchmarks

\* An iteration keeps the counters in their range.
LEMMA LoopStep ==
  ASSUME TypeOK, LoopInv, pc \in {"run", "replay"}, ~LoopEnds,
         at' = RunAdvance(at), UNCHANGED opts
  PROVE  LoopInv'
<1>1. at \in Positions
  BY DEF TypeOK
<1>2. \A i : Selected(i)' <=> Selected(i)
  BY DEF Selected
<1>3. opts.order = "Classic" =>
        at'.i <= 6 /\ at'.k <= opts.num_times /\ (at'.k = opts.num_times => at'.i = 1)
  BY <1>1, AdvanceParts DEF LoopInv, LoopEnds, num_benchmarks
<1>4. opts.order = "Isolated" =>
        /\ at'.k < opts.num_times
        /\ at'.i > 6 \/ ~Selected(at'.i) => at'.k = 0
  <2>1. ASSUME opts.order = "Isolated", Selected(at.i), at.k + 1 < opts.num_times
        PROVE  at'.k < opts.num_times /\ at'.i = at.i /\ at.i <= 6
    BY <1>1, <2>1, AdvanceParts DEF LoopEnds, num_benchmarks
  <2>2. ASSUME opts.order = "Isolated", ~(Selected(at.i) /\ at.k + 1 < opts.num_times)
        PROVE  at'.k < opts.num_times /\ at'.k = 0
    BY <1>1, <2>2, AdvanceParts DEF LoopEnds, num_benchmarks
  <2>3. QED BY <2>1, <2>2, <1>1, AdvanceParts
<1>5. QED BY <1>1, <1>2, <1>3, <1>4, AdvanceParts DEF LoopInv, num_benchmarks

\* An iteration moves strictly forward, beyond every position not after it.
LEMMA AdvanceAfter ==
  ASSUME TypeOK
  PROVE  \A p, q \in Positions : ~After(q, p) => ~After(q, RunAdvance(p)) /\ q # RunAdvance(p)
<1> SUFFICES ASSUME NEW p \in Positions, NEW q \in Positions, ~After(q, p)
             PROVE  ~After(q, RunAdvance(p)) /\ q # RunAdvance(p)
  OBVIOUS
<1>1. q.k \in Nat /\ q.i \in 1 .. 7
  BY DEF Positions, num_benchmarks
<1>2. CASE opts.order = "Classic"
  BY <1>1, <1>2, AdvanceParts DEF After
<1>3. CASE opts.order = "Isolated"
  BY <1>1, <1>3, AdvanceParts DEF After
<1>4. QED BY <1>2, <1>3, AdvanceParts
----------------------------------------------------------------------------
\* What depends on the options alone stays while they do.
LEMMA OptionsFrame ==
  ASSUME UNCHANGED opts
  PROVE  /\ \A i : Selected(i)' = Selected(i)
         /\ \A p : RunAdvance(p)' = RunAdvance(p)
         /\ \A x : Uniform(x)' = Uniform(x)
         /\ \A p, v : IdealStep(p, v)' = IdealStep(p, v)
         /\ \A p, q : After(p, q)' = After(p, q)
         /\ EndPosition' = EndPosition
         /\ DotSelected' = DotSelected
<1>1. \A i : Selected(i)' = Selected(i)
  BY DEF Selected
<1>2. \A p : RunAdvance(p)' = RunAdvance(p)
  BY <1>1 DEF RunAdvance
<1>3. \A x : Uniform(x)' = Uniform(x)
  BY DEF Uniform
<1>4. \A p, v : IdealStep(p, v)' = IdealStep(p, v)
  BY <1>1, <1>3 DEF IdealStep
<1>5. QED BY <1>1, <1>2, <1>3, <1>4 DEF After, EndPosition, DotSelected

\* An ideal step takes values to values.
LEMMA IdealStepType ==
  ASSUME TypeOK, NEW p, NEW v \in [cell : Cell, sum : Val]
  PROVE  IdealStep(p, v) \in [cell : Cell, sum : Val]
<1>1. opts.array_size \in Sizes
  BY DEF TypeOK, Options
<1>2. Uniform(v.cell) \in [Idx(opts.array_size) -> Cell]
  BY DEF Uniform
<1>3. DotOf(Uniform(v.cell)) \in Val
  BY <1>1, <1>2, DotType
<1>4. \A k : Apply(k, v.cell) \in Cell
  BY ApplyCell
<1>5. QED BY <1>3, <1>4 DEF IdealStep

\* The positions visited stay a chain when run_all takes one step.
LEMMA IdealExtends ==
  ASSUME TypeOK, LoopInv, IdealInv, pc = "run", pc' = "run", ~LoopEnds,
         at' = RunAdvance(at), ideal' = Extended(at), UNCHANGED opts
  PROVE  IdealInv' /\ ideal'[at'] = IdealStep(at, ideal[at])
<1> DEFINE q == RunAdvance(at)
           V == [cell : Cell, sum : Val]
<1>1. /\ DOMAIN ideal \subseteq Positions /\ ideal \in [DOMAIN ideal -> V]
      /\ Start \in DOMAIN ideal /\ ideal[Start] = FirstIdeal[Start] /\ at \in DOMAIN ideal
      /\ \A p \in DOMAIN ideal \ {at} :
           RunAdvance(p) \in DOMAIN ideal /\ ideal[RunAdvance(p)] = IdealStep(p, ideal[p])
      /\ \A p \in DOMAIN ideal : ~After(p, at)
  BY DEF IdealInv, Started, Frontier
<1>2. q \in Positions
  BY AdvanceType, LoopPosition
<1>3. \A p \in DOMAIN ideal : ~After(p, q) /\ p # q
  <2>1. at \in Positions
    BY <1>1
  <2>2. QED BY <1>1, <2>1, AdvanceAfter
<1>4. /\ DOMAIN ideal' = DOMAIN ideal \cup {q}
      /\ ideal'[q] = IdealStep(at, ideal[at])
      /\ \A p \in DOMAIN ideal : ideal'[p] = ideal[p]
  BY <1>3 DEF Extended
<1>5. ideal' \in [DOMAIN ideal' -> V]
  <2>1. IdealStep(at, ideal[at]) \in V
    BY <1>1, IdealStepType
  <2>2. QED BY <1>1, <2>1 DEF Extended
<1>6. DOMAIN ideal' \subseteq Positions /\ Start \in DOMAIN ideal' /\ ideal'[Start] = FirstIdeal[Start]
  BY <1>1, <1>2, <1>4
<1>7. \A p \in DOMAIN ideal' \ {q} :
        RunAdvance(p) \in DOMAIN ideal' /\ ideal'[RunAdvance(p)] = IdealStep(p, ideal'[p])
  <2> SUFFICES ASSUME NEW p \in DOMAIN ideal
               PROVE  RunAdvance(p) \in DOMAIN ideal' /\ ideal'[RunAdvance(p)] = IdealStep(p, ideal'[p])
    BY <1>4
  <2>1. CASE p = at
    BY <1>1, <1>4, <2>1
  <2>2. CASE p # at
    BY <1>1, <1>4, <2>2
  <2>3. QED BY <2>1, <2>2
<1>8. \A p \in DOMAIN ideal' : ~After(p, q)
  <2>1. ~After(q, q)
    BY <1>2 DEF After, Positions, num_benchmarks
  <2>2. QED BY <1>3, <1>4, <2>1
<1>9. Frontier' = q /\ q \in DOMAIN ideal'
  BY <1>4 DEF Frontier
<1>10. FirstIdeal' = FirstIdeal
  BY DEF FirstIdeal, Start, StartCell
<1>11. IdealInv'
  BY <1>5, <1>6, <1>7, <1>8, <1>9, <1>10, OptionsFrame DEF IdealInv
<1>12. QED BY <1>4, <1>11
----------------------------------------------------------------------------
\* Parsing and a failing constructor leave everything as it was started.
LEMMA PreparingStep ==
  ASSUME IInv, ParseNext \/ ConstructFails, ideal' = ideal
  PROVE  IInv'
<1>1. TypeOK'
  BY ParseTypes, RunTypes DEF IInv, Next
<1>2. /\ UNCHANGED <<streamVars, at, timings, checkVars, broken>>
      /\ Preparing
      /\ (pc' \in {"parse", "construct"} /\ status' = status) \/ pc' = "exit"
  <2>1. ASSUME NEW option, Parse(option), Quit("success") \/ Quit("failure") \/ UNCHANGED <<pc, status>>
        PROVE  /\ UNCHANGED <<streamVars, at, timings, checkVars, broken>>
               /\ Preparing
               /\ (pc' \in {"parse", "construct"} /\ status' = status) \/ pc' = "exit"
    BY <2>1 DEF Parse, Quit, Exit, Preparing
  <2>2. CASE EndOfArguments \/ ConstructFails
    BY <2>2 DEF EndOfArguments, ConstructFails, Exit, Preparing
  <2>3. CASE ParseInfo \/ ParseUnknown \/ ParseOutput \/ ParseFloat \/ ParseSilence
    BY <2>1, <2>3 DEF ParseInfo, ParseUnknown, ParseOutput, ParseFloat, ParseSilence, SetOption
  <2>4. CASE ParseDevice \/ ParseSize \/ ParseTimes
    BY <2>1, <2>4 DEF ParseDevice, ParseSize, ParseTimes, SetOption
  <2>5. CASE ParseOnly \/ ParseOrder
    BY <2>1, <2>5 DEF ParseOnly, ParseOrder, SetOption
  <2>6. QED BY <2>2, <2>3, <2>4, <2>5 DEF ParseNext
<1>3. PreparingInv' /\ UnreadInv' /\ failed' = {} /\ host' = NoArrays
  BY <1>2 DEF IInv, PreparingInv, UnreadInv, Preparing, streamVars, checkVars, FirstIdeal, Start, StartCell, NoArrays
<1>4. LoopInv' /\ TimingsInv' /\ IdealInv' /\ BackendInv' /\ ReplayInv'
  BY <1>2 DEF LoopInv, TimingsInv, IdealInv, BackendInv, ReplayInv, Started
<1>5. VerdictInv'
  BY <1>2, <1>3 DEF VerdictInv, RejectsOnlyOverflow, NoArrays
<1>6. QED BY <1>1, <1>3, <1>4, <1>5 DEF IInv

\* A constructed stream holds the initial values at the first position.
LEMMA ConstructStep == ASSUME IInv, Construct, ideal' = ideal PROVE IInv'
<1>1. TypeOK'
  BY ParseTypes, RunTypes DEF IInv, Next
<1>2. /\ UNCHANGED <<host, opts, at, timings, gold, goldS, failed, broken>>
      /\ mem' = StartArrays(opts.array_size) /\ sum' = OfInt(0)
      /\ at = Start /\ ideal = FirstIdeal /\ broken = FALSE /\ failed = {}
      /\ host = NoArrays /\ gold = StartCell /\ goldS = OfInt(0) /\ status = "running"
      /\ timings = [i \in 1 .. num_benchmarks |-> 0]
      /\ (pc' = "run" /\ status' = status) \/ pc' = "exit"
  BY DEF Construct, Exit, parseVars, checkVars, IInv, PreparingInv, UnreadInv, Preparing
<1>3. opts.num_times \in Nat /\ opts.num_times >= 2 /\ opts.order \in {"Classic", "Isolated"}
  BY DEF IInv, TypeOK, Options, Orders
<1>4. PreparingInv' /\ UnreadInv' /\ ReplayInv' /\ VerdictInv'
  BY <1>2 DEF PreparingInv, UnreadInv, ReplayInv, VerdictInv, RejectsOnlyOverflow, Preparing, NoArrays
<1>5. LoopInv' /\ TimingsInv'
  BY <1>2, <1>3 DEF LoopInv, TimingsInv, Start, num_benchmarks
<1>6. IdealInv'
  <2> SUFFICES ASSUME pc' = "run" PROVE IdealInv'
    BY <1>2 DEF IdealInv, Started
  <2>1. DOMAIN ideal = {Start} /\ ideal[Start] = [cell |-> StartCell, sum |-> OfInt(0)]
        /\ ideal \in [{Start} -> [cell : Cell, sum : Val]] /\ Start \in Positions
    BY <1>2, StartType DEF FirstIdeal, Start, Positions, num_benchmarks
  <2>2. ~After(Start, Start)'
    BY DEF After, Start
  <2>3. FirstIdeal' = FirstIdeal /\ Start' = Start /\ Frontier' = Start
    BY <1>2 DEF FirstIdeal, Start, StartCell, Frontier
  <2>4. QED BY <1>2, <2>1, <2>2, <2>3 DEF IdealInv
<1>7. BackendInv'
  <2>1. StartArrays(opts.array_size) \in [Idx(opts.array_size) -> Cell]
    BY StartType
  <2>2. mem' = Uniform(StartCell)'
    BY <1>2 DEF Uniform, StartArrays
  <2>3. pc' = "run" => ideal'[Frontier'] = [cell |-> StartCell, sum |-> OfInt(0)]
    BY <1>2 DEF Frontier, FirstIdeal
  <2>4. QED BY <1>2, <2>1, <2>2, <2>3 DEF BackendInv, Started
<1>8. QED BY <1>1, <1>4, <1>5, <1>6, <1>7 DEF IInv
----------------------------------------------------------------------------
\* The invariants that say nothing of the loops of run_all survive them.
LEMMA RunFrame ==
  ASSUME IInv, pc = "run", pc' = "run", UNCHANGED <<host, opts, checkVars, status>>
  PROVE  PreparingInv' /\ UnreadInv' /\ ReplayInv' /\ VerdictInv'
BY DEF IInv, PreparingInv, UnreadInv, ReplayInv, VerdictInv, RejectsOnlyOverflow, Preparing,
       checkVars, NoArrays, StartCell

\* The timings grow with the loops.
LEMMA TimingsStep ==
  ASSUME TypeOK, LoopInv, TimingsInv, pc = "run", pc' = "run", ~LoopEnds,
         at' = RunAdvance(at), UNCHANGED opts,
         timings' = IF Selected(at.i) THEN Timed ELSE timings
  PROVE  TimingsInv'
<1>1. /\ at \in Positions /\ timings \in [1 .. 6 -> Nat] /\ num_benchmarks = 6
      /\ opts.order = "Isolated" => at.i <= 6
  BY LoopPosition DEF TypeOK, num_benchmarks
<1>2. \A i \in 1 .. 6 :
        timings[i] = IF ~Selected(i) THEN 0
                     ELSE IF opts.order = "Classic" THEN at.k + (IF i < at.i THEN 1 ELSE 0)
                     ELSE IF i < at.i THEN opts.num_times ELSE 0
  BY <1>1 DEF TimingsInv
<1>3. /\ opts.order = "Classic" => at.i <= 6
      /\ opts.order = "Isolated" => at.k < opts.num_times /\ (~Selected(at.i) => at.k = 0)
  BY <1>1, AdvanceParts DEF LoopInv
<1>4. ASSUME NEW i \in 1 .. 6, opts.order = "Classic"
      PROVE  timings'[i] = IF ~Selected(i) THEN 0 ELSE at'.k + (IF i < at'.i THEN 1 ELSE 0)
  <2>1. timings'[i] = IF Selected(at.i) /\ i = at.i THEN timings[i] + 1 ELSE timings[i]
    BY <1>1, <1>4 DEF Timed
  <2>2. at' = IF at.i < 6 THEN [k |-> at.k, i |-> at.i + 1] ELSE [k |-> at.k + 1, i |-> 1]
    BY <1>1, <1>4, AdvanceParts
  <2>3. at.k \in Nat /\ at.i \in 1 .. 6
    BY <1>1, <1>3, <1>4, AdvanceParts
  <2>4. CASE at.i < 6
    BY <1>2, <1>4, <2>1, <2>2, <2>3, <2>4
  <2>5. CASE at.i = 6
    BY <1>2, <1>4, <2>1, <2>2, <2>3, <2>5
  <2>6. QED BY <2>3, <2>4, <2>5
<1>5. ASSUME NEW i \in 1 .. 6, opts.order = "Isolated"
      PROVE  timings'[i] = IF ~Selected(i) THEN 0 ELSE IF i < at'.i THEN opts.num_times ELSE 0
  <2>1. /\ at.k \in Nat /\ at.i \in 1 .. 6 /\ opts.num_times \in Nat
        /\ at' = IF Selected(at.i) /\ at.k + 1 < opts.num_times THEN [k |-> at.k + 1, i |-> at.i]
                                                                 ELSE [k |-> 0, i |-> at.i + 1]
    BY <1>1, <1>5, AdvanceParts
  <2>2. timings'[i] = IF Selected(at.i) /\ at.k + 1 = opts.num_times /\ i = at.i
                      THEN opts.num_times ELSE timings[i]
    BY <1>1, <1>5 DEF Timed
  <2>3. CASE Selected(at.i) /\ at.k + 1 < opts.num_times
    BY <1>2, <1>5, <2>1, <2>2, <2>3
  <2>4. CASE ~(Selected(at.i) /\ at.k + 1 < opts.num_times)
    BY <1>2, <1>3, <1>5, <2>1, <2>2, <2>4
  <2>5. QED BY <2>3, <2>4
<1>6. QED BY <1>1, <1>4, <1>5, AdvanceParts, OptionsFrame DEF TimingsInv

\* One iteration of run_all, with a kernel that keeps its contract or not.
LEMMA RunStep ==
  ASSUME IInv, RunSkip \/ RunKernel \/ RunBrokenKernel, ideal' = Extended(at)
  PROVE  IInv'
<1> DEFINE k == bench[at.i].id
           v == ideal[at]
           n == opts.array_size
<1>1. TypeOK'
  BY ParseTypes, RunTypes DEF IInv, Next
<1>2. /\ pc = "run" /\ pc' = "run" /\ ~LoopEnds /\ at' = RunAdvance(at)
      /\ UNCHANGED <<host, opts, checkVars, status>>
      /\ timings' = IF Selected(at.i) THEN Timed ELSE timings
  BY DEF RunSkip, RunKernel, RunBrokenKernel, InLoop, streamVars, parseVars, dot, ArrayCall
<1>3. PreparingInv' /\ UnreadInv' /\ ReplayInv' /\ VerdictInv'
  BY <1>2, RunFrame
<1>4. LoopInv' /\ TimingsInv'
  BY <1>2, LoopStep, TimingsStep DEF IInv
<1>5. IdealInv' /\ ideal'[at'] = IdealStep(at, v)
  BY <1>2, IdealExtends DEF IInv
<1>6. at.i \in 1 .. 6 /\ k \in Kernel
  BY <1>2, AdvanceParts, LoopPosition, BenchIds DEF IInv, LoopInv, num_benchmarks
<1>7. mem \in [Idx(n) -> Cell] /\ n \in Sizes /\ sum \in Val
      /\ (~broken => mem = Uniform(v.cell) /\ sum = v.sum)
  BY <1>2 DEF IInv, BackendInv, Started, Frontier, TypeOK, Options
<1>8. mem' \in [Idx(n) -> Cell]
  <2>1. \A key : Process(key) \in [Idx(n) -> Cell]
    BY <1>7, ProcessType
  <2>2. ASSUME NEW key, BrokenArrayCall(key) \/ BrokenDot PROVE mem' \in [Idx(n) -> Cell]
    BY <1>7, <2>2, BrokenTypes
  <2>3. QED BY <1>7, <2>1, <2>2 DEF RunSkip, RunKernel, RunBrokenKernel, streamVars, dot, ArrayCall
<1>9. ~broken' => mem' = Uniform(ideal'[at'].cell) /\ sum' = ideal'[at'].sum
  <2> SUFFICES ASSUME ~broken' PROVE mem' = Uniform(ideal'[at'].cell) /\ sum' = ideal'[at'].sum
    OBVIOUS
  <2>1. ~broken /\ (RunSkip \/ RunKernel)
    BY DEF RunSkip, RunKernel, RunBrokenKernel
  <2>2. CASE RunSkip
    BY <1>5, <1>7, <2>1, <2>2 DEF RunSkip, IdealStep, streamVars
  <2>3. CASE RunKernel /\ k = "Dot"
    BY <1>5, <1>7, <2>1, <2>3 DEF RunKernel, dot, IdealStep, Apply, ArrayKernels
  <2>4. CASE RunKernel /\ k # "Dot"
    <3>1. mem' = Process(k) /\ sum' = sum
      BY <2>4 DEF RunKernel, ArrayCall
    <3>2. Process(k) = Uniform(Apply(k, v.cell))
      BY <1>7, <2>1 DEF Process, Uniform
    <3>3. IdealStep(at, v) = [cell |-> Apply(k, v.cell), sum |-> v.sum]
      BY <2>4 DEF RunKernel, IdealStep
    <3>4. QED BY <1>5, <1>7, <2>1, <3>1, <3>2, <3>3
  <2>5. QED BY <2>1, <2>2, <2>3, <2>4
<1>10. BackendInv'
  BY <1>2, <1>8, <1>9, OptionsFrame DEF BackendInv, Frontier, Started
<1>11. QED BY <1>1, <1>3, <1>4, <1>5, <1>10 DEF IInv
\* The loops of run_all end with every timing taken.
LEMMA RunEndsStep == ASSUME IInv, RunEnds, ideal' = ideal PROVE IInv'
<1>1. TypeOK'
  BY ParseTypes, RunTypes DEF IInv, Next
<1>2. /\ pc = "run" /\ pc' = "read" /\ at = EndPosition /\ LoopEnds
      /\ UNCHANGED <<mem, sum, host, opts, at, timings, gold, goldS, failed, status, broken>>
  BY EndsAtEnd DEF RunEnds, streamVars, parseVars, checkVars, IInv
<1>3. PreparingInv' /\ UnreadInv' /\ LoopInv' /\ ReplayInv' /\ VerdictInv'
  BY <1>2 DEF IInv, PreparingInv, UnreadInv, LoopInv, ReplayInv, VerdictInv, RejectsOnlyOverflow,
              Preparing, NoArrays, StartCell
<1>4. TimingsInv'
  <2>1. \A i \in 1 .. num_benchmarks : timings[i] = IF Selected(i) THEN opts.num_times ELSE 0
    BY <1>2, AdvanceParts, SMTT(20) DEF IInv, TimingsInv, EndPosition, num_benchmarks, TypeOK, Options, Orders
  <2>2. QED BY <1>2, <2>1, OptionsFrame DEF TimingsInv, num_benchmarks
<1>5. Frontier = at /\ Frontier' = at
  BY <1>2, OptionsFrame DEF Frontier
<1>6. IdealInv' /\ BackendInv'
  <2>1. FirstIdeal' = FirstIdeal
    BY DEF FirstIdeal, Start, StartCell
  <2>2. QED BY <1>2, <1>5, <2>1, OptionsFrame DEF IInv, IdealInv, BackendInv, Started
<1>7. QED BY <1>1, <1>3, <1>4, <1>6 DEF IInv

\* The arrays are read when the backend holds its final values.
LEMMA ReadStep == ASSUME IInv, ReadArrays, ideal' = ideal PROVE IInv'
<1>1. TypeOK'
  BY ParseTypes, RunTypes DEF IInv, Next
<1>2. /\ pc = "read" /\ pc' = "replay" /\ at' = Start /\ host' = mem
      /\ UNCHANGED <<mem, sum, opts, timings, gold, goldS, failed, status, broken>>
  BY DEF ReadArrays, get_arrays, parseVars, checkVars
<1>3. opts.num_times \in Nat /\ opts.num_times >= 2 /\ opts.order \in {"Classic", "Isolated"}
  BY DEF IInv, TypeOK, Options, Orders
<1>4. LoopInv' /\ TimingsInv'
  BY <1>2, <1>3, OptionsFrame DEF IInv, LoopInv, TimingsInv, Start, num_benchmarks
<1>5. PreparingInv' /\ UnreadInv' /\ VerdictInv'
  BY <1>2 DEF IInv, PreparingInv, UnreadInv, VerdictInv, RejectsOnlyOverflow, Preparing
<1>6. Frontier = EndPosition /\ Frontier' = EndPosition /\ Final' = Final
  BY <1>2, OptionsFrame DEF Frontier, Final
<1>7. FirstIdeal' = FirstIdeal /\ Start' = Start
  BY DEF FirstIdeal, Start, StartCell
<1>8. IdealInv'
  BY <1>2, <1>6, <1>7, OptionsFrame DEF IInv, IdealInv, Started
<1>9. BackendInv'
  BY <1>2, <1>6, OptionsFrame DEF IInv, BackendInv, Started, Final
<1>10. ReplayInv'
  <2>1. Start \in DOMAIN ideal /\ ideal[Start] = [cell |-> StartCell, sum |-> OfInt(0)]
    BY <1>2 DEF IInv, IdealInv, Started, FirstIdeal
  <2>2. gold = StartCell /\ goldS = OfInt(0)
    BY <1>2 DEF IInv, UnreadInv
  <2>3. QED BY <1>2, <2>1, <2>2 DEF ReplayInv
<1>11. QED BY <1>1, <1>4, <1>5, <1>8, <1>9, <1>10 DEF IInv

\* The scalars of the replay follow the kernels.
LEMMA GoldIsIdeal ==
  ASSUME TypeOK, NEW i \in 1 .. num_benchmarks, NEW v, gold = v.cell, goldS = v.sum, Selected(i),
         v \in [cell : Cell, sum : Val], NEW p \in Positions, p.i = i
  PROVE  LET k == bench[i].id IN
         IdealStep(p, v) = [cell |-> GoldCell(k), sum |-> IF k = "Dot" THEN GoldSum ELSE goldS]
<1> DEFINE k == bench[i].id
<1>1. gold \in Cell /\ gold = [a |-> gold.a, b |-> gold.b, c |-> gold.c]
  BY DEF TypeOK, Cell
<1>2. GoldCell(k) = Apply(k, gold)
  <2>1. k \in Kernel
    BY BenchIds
  <2>2. QED BY <1>1, <2>1 DEF GoldCell, Apply, Written, Target, Kernel, ArrayKernels
<1>3. GoldSum = DotOf(Uniform(gold))
  <2>1. opts.array_size \in Sizes
    BY DEF TypeOK, Options
  <2>2. Times(gold.a, gold.b) \in Val
    BY <1>1, ValuesClosed DEF Cell
  <2>3. [j \in DOMAIN Uniform(gold) |-> Times(Uniform(gold)[j].a, Uniform(gold)[j].b)]
          = [j \in Idx(opts.array_size) |-> Times(gold.a, gold.b)]
    BY DEF Uniform
  <2>4. QED BY <2>1, <2>2, <2>3, SumOfUniform DEF GoldSum, DotOf
<1>4. QED BY <1>2, <1>3 DEF IdealStep

\* One iteration of the replay.
LEMMA ReplayStep == ASSUME IInv, ReplaySkip \/ Replay, ideal' = ideal PROVE IInv'
<1>1. TypeOK'
  BY ParseTypes, RunTypes DEF IInv, Next
<1>2. /\ pc = "replay" /\ pc' = "replay" /\ ~LoopEnds /\ at' = RunAdvance(at)
      /\ UNCHANGED <<mem, sum, host, opts, timings, failed, status, broken>>
  BY SameLoops DEF ReplaySkip, Replay, InLoop, streamVars, parseVars, checkVars
<1>3. LoopInv'
  BY <1>2, LoopStep DEF IInv
<1>4. PreparingInv' /\ UnreadInv' /\ TimingsInv' /\ VerdictInv'
  BY <1>2, OptionsFrame DEF IInv, PreparingInv, UnreadInv, TimingsInv, VerdictInv,
       RejectsOnlyOverflow, Preparing
<1>5. Frontier = EndPosition /\ Frontier' = EndPosition /\ Final' = Final /\ FirstIdeal' = FirstIdeal
  BY <1>2, OptionsFrame DEF Frontier, Final, FirstIdeal, Start, StartCell
<1>6. IdealInv' /\ BackendInv'
  BY <1>2, <1>5, OptionsFrame DEF IInv, IdealInv, BackendInv, Started
<1>7. /\ at \in DOMAIN ideal /\ gold = ideal[at].cell /\ goldS = ideal[at].sum
      /\ DOMAIN ideal \subseteq Positions /\ ideal[at] \in [cell : Cell, sum : Val]
  BY <1>2 DEF IInv, ReplayInv, IdealInv, Started
<1>8. at' \in DOMAIN ideal /\ ideal[at'] = IdealStep(at, ideal[at])
  <2>1. at # EndPosition
    BY <1>2, EndsAtEnd DEF IInv
  <2>2. QED BY <1>2, <1>5, <1>7, <2>1 DEF IInv, IdealInv, Started
<1>9. IdealStep(at, ideal[at]) = [cell |-> gold', sum |-> goldS']
  <2>1. CASE ReplaySkip
    BY <1>7, <2>1 DEF ReplaySkip, IdealStep, checkVars
  <2>2. CASE Replay
    <3>1. at \in Positions /\ at.i \in 1 .. num_benchmarks /\ Selected(at.i)
      BY <1>2, <1>7, <2>2, AdvanceParts, LoopPosition DEF Replay, IInv, LoopInv, num_benchmarks
    <3>2. QED BY <1>7, <2>2, <3>1, GoldIsIdeal DEF Replay, IInv
  <2>3. QED BY <2>1, <2>2
<1>10. ReplayInv'
  BY <1>2, <1>8, <1>9 DEF ReplayInv
<1>11. QED BY <1>1, <1>3, <1>4, <1>6, <1>10 DEF IInv

\* The replay ends where the loops of run_all ended.
LEMMA ReplayEndsStep == ASSUME IInv, ReplayEnds, ideal' = ideal PROVE IInv'
<1>1. TypeOK'
  BY ParseTypes, RunTypes DEF IInv, Next
<1>2. /\ pc = "replay" /\ pc' = "check" /\ at = EndPosition
      /\ UNCHANGED <<mem, sum, host, opts, at, timings, gold, goldS, failed, status, broken>>
  BY EndsAtEnd DEF ReplayEnds, streamVars, parseVars, checkVars, IInv
<1>3. Frontier = EndPosition /\ Frontier' = EndPosition /\ Final' = Final /\ FirstIdeal' = FirstIdeal
  BY <1>2, OptionsFrame DEF Frontier, Final, FirstIdeal, Start, StartCell
<1>4. PreparingInv' /\ UnreadInv' /\ LoopInv' /\ TimingsInv' /\ VerdictInv'
  BY <1>2, OptionsFrame DEF IInv, PreparingInv, UnreadInv, LoopInv, TimingsInv, VerdictInv,
       RejectsOnlyOverflow, Preparing
<1>5. IdealInv' /\ BackendInv'
  BY <1>2, <1>3, OptionsFrame DEF IInv, IdealInv, BackendInv, Started
<1>6. ReplayInv'
  BY <1>2, <1>3 DEF IInv, ReplayInv, Final
<1>7. QED BY <1>1, <1>4, <1>5, <1>6 DEF IInv
----------------------------------------------------------------------------
\* A comparison that succeeds certifies the tolerance; one of a value with
\* itself fails only for a value that is not finite.
LEMMA Comparison ==
  /\ \A is, should, mrel : Same(is, should, mrel) => Agree(is, should, mrel)
  /\ \A v : \A mrel \in Tolerance : ~Same(v, v, mrel) => v \notin Finite
  /\ max_rel \in Tolerance /\ max_rel_dot \in Tolerance
<1>1. \A is, should, mrel : Same(is, should, mrel) => Agree(is, should, mrel)
  BY DEF Same, Agree
<1>2. \A v : \A mrel \in Tolerance : ~Same(v, v, mrel) => v \notin Finite
  BY WithinAssumption DEF Same
<1>3. max_rel \in Tolerance /\ max_rel_dot \in Tolerance
  BY DEF max_rel, max_rel_dot, Precision, Tolerance
<1>4. QED
  BY <1>1, <1>2, <1>3

\* The verdict: a failure means an overflow or a broken backend, and no
\* failure means that the results are the ideal ones up to the tolerance.
LEMMA CheckStep == ASSUME IInv, check_solution, ideal' = ideal PROVE IInv'
<1>1. TypeOK'
  BY ParseTypes, RunTypes DEF IInv, Next
<1>2. /\ pc = "check" /\ failed' = Failures
      /\ \/ pc' = "report" /\ status' = status
         \/ pc' = "exit" /\ status' = "failure"
      /\ pc' = "report" => Failures = {} \/ opts.silence_errors
      /\ UNCHANGED <<mem, sum, host, opts, at, timings, gold, goldS, broken>>
  BY DEF check_solution, Exit, streamVars, parseVars, IInv, TypeOK, Options
<1>3. Frontier = EndPosition /\ Final' = Final /\ FirstIdeal' = FirstIdeal
      /\ Frontier' = EndPosition
  <2>1. EndPosition' = EndPosition /\ pc # "run" /\ pc' # "run"
    BY <1>2, OptionsFrame
  <2>2. Final' = Final
    BY <2>1 DEF Final
  <2>3. QED BY <2>1, <2>2 DEF Frontier, FirstIdeal, Start, StartCell
<1>4. /\ host \in [Idx(opts.array_size) -> Cell] /\ gold = Final.cell /\ goldS = Final.sum
      /\ gold \in Cell
      /\ ~broken => host = Uniform(Final.cell) /\ sum = Final.sum
  BY <1>2, <1>3 DEF IInv, BackendInv, ReplayInv, Started, Final, TypeOK
<1>5. PreparingInv' /\ UnreadInv' /\ LoopInv' /\ TimingsInv'
  BY <1>2, OptionsFrame DEF IInv, PreparingInv, UnreadInv, LoopInv, TimingsInv, Preparing
<1>6. IdealInv' /\ BackendInv' /\ ReplayInv'
  <2>1. CASE pc' = "exit"
    BY <2>1 DEF IdealInv, BackendInv, ReplayInv, Started
  <2>2. CASE pc' = "report"
    BY <1>2, <1>3, <2>2, OptionsFrame DEF IInv, IdealInv, BackendInv, ReplayInv, Started
  <2>3. QED BY <1>2, <2>1, <2>2
<1>7. Failures # {} /\ ~broken => Overflowed
  <2> SUFFICES ASSUME Failures # {}, ~broken PROVE Overflowed
    OBVIOUS
  <2>1. CASE FailedSum
    <3>1. DotSelected /\ ~Same(Final.sum, Final.sum, max_rel_dot)
      BY <1>4, <2>1 DEF FailedSum, DotSelected
    <3>2. QED BY <3>1, Comparison DEF Overflowed
  <2>2. CASE ~FailedSum
    <3>1. PICK x \in {"a", "b", "c"} \X Idx(opts.array_size) : ~Same(host[x[2]][x[1]], gold[x[1]], max_rel)
      BY <2>2 DEF Failures, FailedElements
    <3>2. host[x[2]] = gold /\ x[1] \in {"a", "b", "c"}
      BY <1>4, <3>1 DEF Uniform
    <3>3. ~Same(Final.cell[x[1]], Final.cell[x[1]], max_rel)
      BY <1>4, <3>1, <3>2
    <3>4. QED BY <3>2, <3>3, Comparison DEF Overflowed
  <2>3. QED BY <2>1, <2>2
<1>8. Failures = {} => Certified
  <2> SUFFICES ASSUME Failures = {} PROVE Certified
    OBVIOUS
  <2>1. FailedElements = {} /\ ~FailedSum
    BY DEF Failures
  <2>2. ASSUME NEW j \in Idx(opts.array_size), NEW f \in {"a", "b", "c"}
        PROVE  Agree(host[j][f], Final.cell[f], max_rel)
    <3>1. <<f, j>> \in {"a", "b", "c"} \X Idx(opts.array_size)
      OBVIOUS
    <3>2. Same(host[j][f], gold[f], max_rel)
      BY <2>1, <3>1 DEF FailedElements
    <3>3. QED BY <1>4, <3>2, Comparison
  <2>3. ASSUME DotSelected PROVE Agree(sum, Final.sum, max_rel_dot)
    <3>1. Same(sum, goldS, max_rel_dot)
      BY <2>1, <2>3 DEF FailedSum, DotSelected
    <3>2. QED BY <1>4, <3>1, Comparison
  <2>4. QED BY <2>2, <2>3 DEF Certified
<1>9. Overflowed' = Overflowed /\ Certified' = Certified
  BY <1>2, <1>3, OptionsFrame DEF Overflowed, Certified, Agree, max_rel, max_rel_dot, Precision
<1>10. VerdictInv'
  <2>1. RejectsOnlyOverflow'
    BY <1>2, <1>7, <1>9 DEF RejectsOnlyOverflow
  <2>2. status' = "success" => pc' = "report"
    BY <1>2
  <2>3. pc' = "report" => opts'.silence_errors \/ Certified'
    BY <1>2, <1>8, <1>9
  <2>4. QED BY <2>1, <2>2, <2>3 DEF VerdictInv
<1>11. QED BY <1>1, <1>5, <1>6, <1>10 DEF IInv

\* Reporting changes nothing that was validated.
LEMMA ReportStep == ASSUME IInv, Report, ideal' = ideal PROVE IInv'
<1>1. TypeOK'
  BY ParseTypes, RunTypes DEF IInv, Next
<1>2. /\ pc = "report" /\ pc' = "exit" /\ status' = "success"
      /\ UNCHANGED <<mem, sum, host, opts, at, timings, gold, goldS, failed, broken>>
  BY DEF Report, Exit, streamVars, parseVars, checkVars
<1>3. Overflowed' = Overflowed /\ Certified' = Certified
  BY <1>2, OptionsFrame DEF Overflowed, Certified, Agree, max_rel, max_rel_dot, Precision, Final
<1>4. VerdictInv'
  BY <1>2, <1>3 DEF IInv, VerdictInv, RejectsOnlyOverflow
<1>5. QED BY <1>1, <1>2, <1>4 DEF IInv, PreparingInv, UnreadInv, LoopInv, TimingsInv, IdealInv,
              BackendInv, ReplayInv, Preparing, Started

\* Stuttering keeps the invariant.
LEMMA StutterStep == ASSUME IInv, UNCHANGED hvars PROVE IInv'
<1>1. UNCHANGED <<mem, sum, host, argv, argi, opts, pc, at, timings, gold, goldS, failed, status,
                  broken, ideal>>
  BY DEF hvars, vars, streamVars, parseVars, checkVars
<1>2. TypeOK'
  BY <1>1 DEF IInv, TypeOK
<1>3. /\ FirstIdeal' = FirstIdeal /\ Frontier' = Frontier /\ Final' = Final
      /\ Overflowed' = Overflowed /\ Certified' = Certified
  BY <1>1, OptionsFrame DEF FirstIdeal, Start, StartCell, Frontier, Final, Overflowed, Certified, Agree,
                             max_rel, max_rel_dot, Precision
<1>4. PreparingInv' /\ UnreadInv' /\ LoopInv' /\ TimingsInv'
  <2>1. PreparingInv' /\ UnreadInv'
    BY <1>1, <1>3 DEF IInv, PreparingInv, UnreadInv, Preparing, Start, NoArrays, StartCell
  <2>2. LoopInv' /\ TimingsInv'
    BY <1>1, OptionsFrame DEF IInv, LoopInv, TimingsInv
  <2>3. QED BY <2>1, <2>2
<1>5. IdealInv' /\ BackendInv'
  BY <1>1, <1>3, OptionsFrame DEF IInv, IdealInv, BackendInv, Started
<1>6. ReplayInv' /\ VerdictInv'
  BY <1>1, <1>3 DEF IInv, ReplayInv, VerdictInv, RejectsOnlyOverflow
<1>7. QED BY <1>2, <1>4, <1>5, <1>6 DEF IInv
----------------------------------------------------------------------------
\* IInv is an invariant of the driver with its history: the two loops visit
\* the same chain of ideal values, whatever is selected and in either order.
THEOREM InductiveInvariant == HSpec => []IInv
<1>1. HInit => IInv
  <2> SUFFICES ASSUME HInit PROVE IInv
    OBVIOUS
  <2>1. TypeOK
    BY InitTypes DEF HInit
  <2>2. PreparingInv /\ UnreadInv
    BY DEF HInit, Init, PreparingInv, UnreadInv
  <2>3. LoopInv /\ TimingsInv /\ IdealInv /\ BackendInv /\ ReplayInv
    BY DEF HInit, Init, LoopInv, TimingsInv, IdealInv, BackendInv, ReplayInv, Started
  <2>4. VerdictInv
    BY DEF HInit, Init, VerdictInv, RejectsOnlyOverflow
  <2>5. QED BY <2>1, <2>2, <2>3, <2>4 DEF IInv
<1>2. IInv /\ [HNext]_hvars => IInv'
  <2> SUFFICES ASSUME IInv, [HNext]_hvars PROVE IInv'
    OBVIOUS
  <2>1. CASE HNext /\ (ParseNext \/ ConstructFails)
    <3>1. pc # "run"
      BY <2>1 DEF ParseNext, ConstructFails, Parse, ParseInfo, ParseUnknown, ParseOutput, ParseFloat,
           ParseSilence, ParseDevice, ParseSize, ParseTimes, ParseOnly, ParseOrder, EndOfArguments
    <3>2. QED BY <2>1, <3>1, PreparingStep DEF HNext, InLoop
  <2>2. CASE HNext /\ Construct
    BY <2>2, ConstructStep DEF HNext, InLoop, Construct
  <2>3. CASE HNext /\ (RunSkip \/ RunKernel \/ RunBrokenKernel)
    BY <2>3, RunStep DEF HNext, InLoop, RunSkip, RunKernel, RunBrokenKernel
  <2>4. CASE HNext /\ RunEnds
    BY <2>4, RunEndsStep DEF HNext, InLoop, RunEnds
  <2>5. CASE HNext /\ ReadArrays
    BY <2>5, ReadStep DEF HNext, InLoop, ReadArrays
  <2>6. CASE HNext /\ (ReplaySkip \/ Replay)
    BY <2>6, ReplayStep DEF HNext, InLoop, ReplaySkip, Replay
  <2>7. CASE HNext /\ ReplayEnds
    BY <2>7, ReplayEndsStep DEF HNext, InLoop, ReplayEnds
  <2>8. CASE HNext /\ check_solution
    BY <2>8, CheckStep DEF HNext, InLoop, check_solution
  <2>9. CASE HNext /\ Report
    BY <2>9, ReportStep DEF HNext, InLoop, Report
  <2>10. CASE UNCHANGED hvars
    BY <2>10, StutterStep
  <2>11. QED BY <2>1, <2>2, <2>3, <2>4, <2>5, <2>6, <2>7, <2>8, <2>9, <2>10 DEF HNext, Next
<1>3. QED BY <1>1, <1>2, PTL DEF HSpec
\* The history variable only observes.
THEOREM HistoryOnly == HSpec => Spec
<1>1. HInit => Init
  BY DEF HInit
<1>2. [HNext]_hvars => [Next]_vars
  BY DEF HNext, hvars
<1>3. QED BY <1>1, <1>2, PTL DEF HSpec, Spec

\* The validation rejects a backend that kept its contract only where a
\* correct value overflows: for every selection, order, size and count.
THEOREM ValidationSound == HSpec => []RejectsOnlyOverflow
<1>1. IInv => RejectsOnlyOverflow
  BY DEF IInv, VerdictInv
<1>2. QED BY <1>1, InductiveInvariant, PTL

\* A run that ends in success has handed out what a correct backend holds at
\* every index, up to the tolerance of the comparison, whatever one kernel
\* missed or repeated, and for whatever relation the tolerance is.
THEOREM ValidationComplete == HSpec => []CertifiesIdeal
<1>1. IInv => CertifiesIdeal
  <2> SUFFICES ASSUME IInv, Validated PROVE Certified
    BY DEF CertifiesIdeal
  <2>1. pc = "exit"
    BY DEF IInv, UnreadInv, Validated
  <2>2. QED BY <2>1 DEF IInv, VerdictInv, Validated
<1>2. QED BY <1>1, InductiveInvariant, PTL

\* Every timing the report reads has been taken, in either order.
THEOREM ReportSound == HSpec => []TimingsReportable
<1>1. IInv => TimingsReportable
  BY DEF IInv, TimingsInv, TimingsReportable
<1>2. QED BY <1>1, InductiveInvariant, PTL
=============================================================================
