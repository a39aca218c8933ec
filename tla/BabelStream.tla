---------------------------- MODULE BabelStream ----------------------------
(***************************************************************************)
(* The driver, src/main.cpp: it parses the command line, constructs a      *)
(* Stream, runs the selected kernels in one of two orders, reads the       *)
(* arrays back, replays the same kernels on three scalars and compares,    *)
(* and reports timings or exits with a failure.                            *)
(*                                                                         *)
(* A command line is a sequence of <<option, value>> pairs.  Options that  *)
(* only change the output (--csv and the units) are one option, and the    *)
(* index after --device only matters to the construction of the stream,    *)
(* which may fail for reasons outside this module.                         *)
(***************************************************************************)
EXTENDS BlockingStream, FiniteSets

CONSTANTS
  Args,           \* the <<option, value>> pairs a user may type
  MaxArgs,        \* bound on the options of one command line
  Missing,        \* the value of an option that is last and has none, or
                  \* has one that is not a number
  DefaultSize, DefaultTimes,
  WordMax,        \* 2^w for the w bits of size_t
  MaxLength,      \* std::vector<double>::max_size()
  Within(_, _, _),\* |is - should| <= max(|is|, |should|) * tolerance, in T
  MayBreak        \* TRUE to let a kernel break its contract

ASSUME DriverAssumption ==
  /\ DefaultSize \in Sizes
  /\ DefaultTimes \in Nat /\ DefaultTimes >= 2 /\ DefaultTimes <= MaxLength
  /\ WordMax \in Nat \ {0} /\ MaxLength \in Nat /\ MaxArgs \in Nat
  /\ MayBreak \in BOOLEAN
  /\ \A x \in Args :
       /\ x[1] = "--arraysize" => x[2] = Missing \/ (x[2] \in Int /\ (x[2] <= 0 \/ x[2] \in Sizes))
       /\ x[1] = "--numtimes"  => x[2] = Missing \/ x[2] \in Int

\* A tolerance is a multiple of the epsilon of T, and Within the comparison of
\* two finite values by it: a difference of zero is within every tolerance.
Tolerance == {"float", "double"} \X {100, 10000000}

ASSUME WithinAssumption ==
  /\ \A t \in Tolerance : \A x, y \in Finite : Within(x, y, t) \in BOOLEAN
  /\ \A t \in Tolerance : \A x \in Finite : Within(x, x, t)

VARIABLES
  argv, argi,     \* the command line and the position of the parser in it
  opts,           \* array_size, num_times, selection, order, use_float, ...
  pc,             \* the phase of the program
  at,             \* the loop counters k and i of run_all and check_solution
  timings,        \* length of timings[i]
  gold, goldS,    \* the replayed scalars
  failed,         \* the comparisons that failed
  status,         \* how the process ended
  broken          \* some kernel has broken the contract of Stream.h

parseVars == <<argv, argi, opts>>
checkVars == <<gold, goldS, failed>>
vars == <<streamVars, parseVars, pc, at, timings, checkVars, status, broken>>

Orders == {"Classic", "Isolated"}
Phases == {"parse", "construct", "run", "read", "replay", "check", "report", "exit"}
Statuses == {"running", "success", "failure", "abort"}
Start  == [k |-> 0, i |-> 1]

Selected(i) == run_benchmark(opts.selection, bench[i])

CommandLines ==
  {s \in UNION {[1 .. n -> Args] : n \in 0 .. MaxArgs} :
     \A j \in DOMAIN s : s[j][2] = Missing => j = Len(s)}

Init ==
  /\ argv \in CommandLines
  /\ argi = 1
  /\ opts = [array_size |-> DefaultSize, num_times |-> DefaultTimes, selection |-> "Classic",
             order |-> "Classic", use_float |-> FALSE, silence_errors |-> FALSE]
  /\ mem = NoArrays /\ host = NoArrays /\ sum = OfInt(0)
  /\ pc = "parse" /\ at = Start /\ status = "running"
  /\ timings = [i \in 1 .. num_benchmarks |-> 0]
  /\ gold = StartCell /\ goldS = OfInt(0) /\ failed = {}
  /\ broken = FALSE

Exit(s) == pc' = "exit" /\ status' = s
----------------------------------------------------------------------------
(* parseArguments                                                          *)

\* strtoull accepts a minus sign and wraps.
parseUInt(n) == n % WordMax

Parse(option) ==
  /\ pc = "parse" /\ argi <= Len(argv) /\ argv[argi][1] = option
  /\ argi' = argi + 1
  /\ UNCHANGED <<streamVars, argv, at, timings, checkVars, broken>>

Value == argv[argi][2]

SetOption(field, value) == /\ opts' = [opts EXCEPT ![field] = value]
                           /\ UNCHANGED <<pc, status>>

Quit(s) == Exit(s) /\ UNCHANGED opts

\* --list, --help, --print-names
ParseInfo == Parse("--help") /\ Quit("success")

ParseUnknown == Parse("unknown") /\ Quit("failure")

\* --csv and the units
ParseOutput == Parse("--csv") /\ UNCHANGED <<opts, pc, status>>

ParseFloat == Parse("--float") /\ SetOption("use_float", TRUE)

ParseSilence == Parse("--silence-errors") /\ SetOption("silence_errors", TRUE)

ParseDevice ==
  /\ Parse("--device")
  /\ IF Value = Missing THEN Quit("failure") ELSE UNCHANGED <<opts, pc, status>>

ParseSize ==
  /\ Parse("--arraysize")
  /\ IF Value = Missing \/ Value <= 0
     THEN Quit("failure")
     ELSE SetOption("array_size", Value)

\* Mutant of ParseTimes: the lower bound is forgotten.
UncheckedParseTimes ==
  /\ Parse("--numtimes")
  /\ IF Value = Missing THEN Quit("failure") ELSE SetOption("num_times", parseUInt(Value))

ParseTimes ==
  /\ Parse("--numtimes")
  /\ IF Value = Missing \/ parseUInt(Value) < 2
     THEN Quit("failure")
     ELSE SetOption("num_times", parseUInt(Value))

ParseOnly ==
  /\ Parse("--only")
  /\ IF Value \in BenchId THEN SetOption("selection", Value) ELSE Quit("failure")

\* Only "Isolated" has an effect; every other name is skipped.
ParseOrder ==
  /\ Parse("--order")
  /\ \/ Value = Missing    /\ Quit("failure")
     \/ Value = "Isolated" /\ SetOption("order", Value)
     \/ Value \notin {Missing, "Isolated"} /\ UNCHANGED <<opts, pc, status>>

EndOfArguments ==
  /\ pc = "parse" /\ argi > Len(argv)
  /\ pc' = "construct"
  /\ UNCHANGED <<streamVars, parseVars, at, timings, checkVars, status, broken>>
----------------------------------------------------------------------------
(* run and run_all                                                         *)

\* A constructor throws (no such device, no memory) and nobody catches.
ConstructFails ==
  /\ pc = "construct" /\ Exit("abort")
  /\ UNCHANGED <<streamVars, parseVars, at, timings, checkVars, broken>>

\* make_stream, `T sum{}`, and the reserve of timings in run_all, which
\* throws std::length_error beyond max_size().
Construct ==
  /\ pc = "construct"
  /\ mem' = StartArrays(opts.array_size) /\ sum' = OfInt(0) /\ UNCHANGED host
  /\ IF opts.num_times > MaxLength THEN Exit("abort") ELSE pc' = "run" /\ UNCHANGED status
  /\ UNCHANGED <<parseVars, at, timings, checkVars, broken>>

\* Classic: for k, for i.  Isolated: for i, for k, skipping a whole row.
RunAdvance(p) ==
  IF opts.order = "Classic"
  THEN IF p.i < num_benchmarks THEN [p EXCEPT !.i = @ + 1] ELSE [k |-> p.k + 1, i |-> 1]
  ELSE IF Selected(p.i) /\ p.k + 1 < opts.num_times THEN [p EXCEPT !.k = @ + 1]
                                                    ELSE [k |-> 0, i |-> p.i + 1]

LoopEnds == \/ opts.order = "Classic"  /\ at.k = opts.num_times
            \/ opts.order = "Isolated" /\ at.i > num_benchmarks

InLoop(phase) == pc = phase /\ ~LoopEnds

\* Mutant of Timed: resize to the last counter instead of the count.
ShortTimed ==
  IF opts.order = "Classic"
  THEN [timings EXCEPT ![at.i] = @ + 1]
  ELSE IF at.k + 1 = opts.num_times THEN [timings EXCEPT ![at.i] = at.k] ELSE timings

\* Classic appends one time per call, Isolated writes all of them at the end.
Timed ==
  IF opts.order = "Classic"
  THEN [timings EXCEPT ![at.i] = @ + 1]
  ELSE IF at.k + 1 = opts.num_times THEN [timings EXCEPT ![at.i] = opts.num_times] ELSE timings

RunSkip ==
  /\ InLoop("run") /\ ~Selected(at.i)
  /\ at' = RunAdvance(at)
  /\ UNCHANGED <<streamVars, parseVars, pc, timings, checkVars, status, broken>>

RunKernel ==
  /\ InLoop("run") /\ Selected(at.i)
  /\ at' = RunAdvance(at) /\ timings' = Timed
  /\ IF bench[at.i].id = "Dot" THEN dot ELSE ArrayCall(bench[at.i].id)
  /\ UNCHANGED <<parseVars, pc, checkVars, status, broken>>

\* A backend misses one element, or processes it twice (once per run).
BrokenArrayCall(k) ==
  /\ k \in ArrayKernels
  /\ \E j \in DOMAIN mem : \E x \in {mem[j], Apply(k, Apply(k, mem[j]))} :
        mem' = [Process(k) EXCEPT ![j] = x]
  /\ UNCHANGED sum

BrokenDot ==
  /\ \E j \in DOMAIN mem :
        sum' = SumOf([i \in DOMAIN mem |->
                        IF i = j THEN OfInt(0) ELSE Times(mem[i].a, mem[i].b)])
  /\ UNCHANGED mem

RunBrokenKernel ==
  /\ MayBreak /\ ~broken /\ InLoop("run") /\ Selected(at.i)
  /\ at' = RunAdvance(at) /\ timings' = Timed /\ broken' = TRUE
  /\ IF bench[at.i].id = "Dot" THEN BrokenDot ELSE BrokenArrayCall(bench[at.i].id)
  /\ UNCHANGED <<host, parseVars, pc, checkVars, status>>

RunEnds ==
  /\ pc = "run" /\ LoopEnds
  /\ pc' = "read"
  /\ UNCHANGED <<streamVars, parseVars, at, timings, checkVars, status, broken>>

ReadArrays ==
  /\ pc = "read" /\ get_arrays
  /\ pc' = "replay" /\ at' = Start
  /\ UNCHANGED <<parseVars, timings, checkVars, status, broken>>
----------------------------------------------------------------------------
(* check_solution and the report                                           *)

\* Mutant of GoldCell: Nstream assigns instead of accumulating.
AssigningGoldCell(k) ==
  CASE k = "Copy"               -> [gold EXCEPT !.c = gold.a]
    [] k = "Mul"                -> [gold EXCEPT !.b = Times(startScalar, gold.c)]
    [] k = "Add"                -> [gold EXCEPT !.c = Plus(gold.a, gold.b)]
    [] k \in {"Triad", "Nstream"} -> [gold EXCEPT !.a = Plus(gold.b, Times(startScalar, gold.c))]
    [] OTHER                    -> gold

\* Updates of the scalars due to one benchmark.
GoldCell(k) ==
  CASE k = "Copy"    -> [gold EXCEPT !.c = gold.a]
    [] k = "Mul"     -> [gold EXCEPT !.b = Times(startScalar, gold.c)]
    [] k = "Add"     -> [gold EXCEPT !.c = Plus(gold.a, gold.b)]
    [] k = "Triad"   -> [gold EXCEPT !.a = Plus(gold.b, Times(startScalar, gold.c))]
    [] k = "Nstream" -> [gold EXCEPT !.a = Plus(gold.a, Plus(gold.b, Times(startScalar, gold.c)))]
    [] OTHER         -> gold

\* Mutant of GoldSum: the product of one index, not of all.
OneGoldSum == Times(gold.a, gold.b)

GoldSum == Times(Times(gold.a, gold.b), OfInt(opts.array_size))

\* Mutant of GoldAdvance: the inner loop of Isolated does not count.
StuckGoldAdvance(p) ==
  IF opts.order = "Classic"
  THEN IF p.i < num_benchmarks THEN [p EXCEPT !.i = @ + 1] ELSE [k |-> p.k + 1, i |-> 1]
  ELSE IF Selected(p.i) /\ p.k + 1 < opts.num_times THEN p ELSE [k |-> 0, i |-> p.i + 1]

GoldAdvance(p) ==
  IF opts.order = "Classic"
  THEN IF p.i < num_benchmarks THEN [p EXCEPT !.i = @ + 1] ELSE [k |-> p.k + 1, i |-> 1]
  ELSE IF Selected(p.i) /\ p.k + 1 < opts.num_times THEN [p EXCEPT !.k = @ + 1]
                                                    ELSE [k |-> 0, i |-> p.i + 1]

ReplaySkip ==
  /\ InLoop("replay") /\ ~Selected(at.i)
  /\ at' = GoldAdvance(at)
  /\ UNCHANGED <<streamVars, parseVars, pc, timings, checkVars, status, broken>>

Replay ==
  /\ InLoop("replay") /\ Selected(at.i)
  /\ at' = GoldAdvance(at)
  /\ gold' = GoldCell(bench[at.i].id)
  /\ goldS' = IF bench[at.i].id = "Dot" THEN GoldSum ELSE goldS
  /\ UNCHANGED <<streamVars, parseVars, pc, timings, failed, status, broken>>

ReplayEnds ==
  /\ pc = "replay" /\ LoopEnds
  /\ pc' = "check"
  /\ UNCHANGED <<streamVars, parseVars, at, timings, checkVars, status, broken>>

\* T is float or double, and epsilon belongs to it.
Precision == IF opts.use_float THEN "float" ELSE "double"

max_rel     == <<Precision, 100>>
max_rel_dot == <<Precision, 10000000>>    \* more than 1 for float

\* `diff <= largest * mrel`: with one infinity both sides are infinite, with
\* two equal ones or a NaN the difference is NaN and the comparison false.
Same(is, should, mrel) ==
  IF {is, should} \subseteq Finite
  THEN Within(is, should, mrel)
  ELSE {is, should} \subseteq Finite \cup Infinite /\ is # should

\* The sum counts only when the dot kernel was among those run.
FailedSum == /\ \E i \in 1 .. num_benchmarks : bench[i].id = "Dot" /\ Selected(i)
             /\ ~Same(sum, goldS, max_rel_dot)

\* Mutant of FailedElements: the comparison skips the last index.
MostFailedElements ==
  {x \in {"a", "b", "c"} \X Idx(opts.array_size - 1) : ~Same(host[x[2]][x[1]], gold[x[1]], max_rel)}

FailedElements ==
  {x \in {"a", "b", "c"} \X Idx(opts.array_size) : ~Same(host[x[2]][x[1]], gold[x[1]], max_rel)}

Failures == FailedElements \cup IF FailedSum THEN {<<"sum", 0>>} ELSE {}

check_solution ==
  /\ pc = "check"
  /\ failed' = Failures
  /\ IF Failures # {} /\ ~opts.silence_errors
     THEN Exit("failure")
     ELSE pc' = "report" /\ UNCHANGED status
  /\ UNCHANGED <<streamVars, parseVars, at, timings, gold, goldS, broken>>

\* minmax_element and the average from begin()+1, then return from main.
Report ==
  /\ pc = "report" /\ Exit("success")
  /\ UNCHANGED <<streamVars, parseVars, at, timings, checkVars, broken>>
----------------------------------------------------------------------------
ParseNext == \/ ParseInfo \/ ParseUnknown \/ ParseOutput \/ ParseFloat \/ ParseSilence
             \/ ParseDevice \/ ParseSize \/ ParseTimes \/ ParseOnly \/ ParseOrder \/ EndOfArguments

Next == \/ ParseNext
        \/ ConstructFails \/ Construct
        \/ RunSkip \/ RunKernel \/ RunBrokenKernel \/ RunEnds \/ ReadArrays
        \/ ReplaySkip \/ Replay \/ ReplayEnds \/ check_solution \/ Report

Spec == Init /\ [][Next]_vars
----------------------------------------------------------------------------
Options == [array_size : Sizes, num_times : Nat \ {0, 1}, selection : BenchId,
            order : Orders, use_float : BOOLEAN, silence_errors : BOOLEAN]

Positions == [k : Nat, i : 1 .. num_benchmarks + 1]

\* Every variable has its type; in particular the program never runs with
\* an array size or a repetition count that the parser must refuse.
TypeOK ==
  /\ argv \in Seq(Args) /\ argi \in Nat \ {0}
  /\ opts \in Options
  /\ \E n \in Sizes \cup {0} : mem \in [Idx(n) -> Cell]
  /\ \E n \in Sizes \cup {0} : host \in [Idx(n) -> Cell]
  /\ sum \in Val /\ gold \in Cell /\ goldS \in Val
  /\ pc \in Phases /\ status \in Statuses
  /\ at \in Positions
  /\ timings \in [1 .. num_benchmarks -> Nat]
  /\ failed \subseteq ({"sum", "a", "b", "c"} \X Nat)
  /\ broken \in BOOLEAN

\* When run() reports, every benchmark that was selected has exactly
\* num_times timings and at least two, and the others none: so begin()+1 is
\* a valid start for minmax_element and num_times - 1 a valid divisor,
\* whichever of the two loops filled the vectors.
TimingsReportable ==
  pc = "report" =>
    \A i \in 1 .. num_benchmarks :
      timings[i] = IF Selected(i) THEN opts.num_times ELSE 0

\* Every command line leads the process to its end.
Termination == <>(pc = "exit")
=============================================================================
