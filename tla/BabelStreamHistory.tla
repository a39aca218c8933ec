------------------------- MODULE BabelStreamHistory -------------------------
(***************************************************************************)
(* BabelStream with a history variable that says what a correct backend    *)
(* holds: ideal[p] is the (uniform) cell of the arrays and the sum before  *)
(* the position p of run_all's loops.  It changes nothing the program      *)
(* does, and lets the validation be judged by something else than itself.  *)
(***************************************************************************)
EXTENDS BabelStream

VARIABLE ideal

hvars == <<vars, ideal>>

Uniform(x) == [j \in Idx(opts.array_size) |-> x]

\* The effect of position p of the loops on an ideal stream.
IdealStep(p, v) ==
  IF Selected(p.i)
  THEN [cell |-> Apply(bench[p.i].id, v.cell),
        sum  |-> IF bench[p.i].id = "Dot" THEN DotOf(Uniform(v.cell)) ELSE v.sum]
  ELSE v

Extended(p) ==
  [q \in DOMAIN ideal \cup {RunAdvance(p)} |->
     IF q = RunAdvance(p) THEN IdealStep(p, ideal[p]) ELSE ideal[q]]

FirstIdeal == [p \in {Start} |-> [cell |-> StartCell, sum |-> OfInt(0)]]

HInit == Init /\ ideal = FirstIdeal

HNext == /\ Next
         /\ ideal' = IF InLoop("run") THEN Extended(at) ELSE ideal

HSpec == HInit /\ [][HNext]_hvars

\* The program has one thread, and the operating system keeps running it.
FairSpec == HSpec /\ WF_hvars(HNext)
----------------------------------------------------------------------------
\* The position both loops end at.
EndPosition == IF opts.order = "Classic" THEN [k |-> opts.num_times, i |-> 1]
                                         ELSE [k |-> 0, i |-> num_benchmarks + 1]

Final == ideal[EndPosition]

DotSelected == \E i \in 1 .. num_benchmarks : bench[i].id = "Dot" /\ Selected(i)

Overflowed == \/ \E f \in {"a", "b", "c"} : Final.cell[f] \notin Finite
              \/ DotSelected /\ Final.sum \notin Finite

\* A run whose backend kept the contract of Stream.h fails validation only
\* because a correct value has overflowed: check_solution replays the
\* kernels run_all ran, in the same order and as often, for every selection
\* and both orders.
RejectsOnlyOverflow == failed # {} /\ ~broken => Overflowed

Validated == status = "success" /\ host # NoArrays /\ ~opts.silence_errors

\* What is handed out is no NaN, and finite values agree within the tolerance.
Agree(is, should, mrel) ==
  /\ {is, should} \subseteq Finite \cup Infinite
  /\ {is, should} \subseteq Finite => Within(is, should, mrel)

Certified ==
  /\ \A j \in Idx(opts.array_size), f \in {"a", "b", "c"} :
       Agree(host[j][f], Final.cell[f], max_rel)
  /\ DotSelected => Agree(sum, Final.sum, max_rel_dot)

\* A run that ends in success without --silence-errors has handed out, at
\* every index of the three arrays and as the sum, what a correct backend
\* holds, up to the tolerance of the comparison: an element that a kernel
\* missed or repeated comes through only while the difference it has made by
\* the end of the run is within the tolerance.
CertifiesIdeal == Validated => Certified

\* check_solution announces a "relative tolerance check" with "a higher
\* tolerance" for reductions: a relative check tells zero from every other
\* finite value, so a dot product that missed every element is not validated.
CertifiesSum ==
  Validated /\ DotSelected /\ sum = OfInt(0) /\ Final.sum \in Finite => Final.sum = OfInt(0)

\* main.cpp says of the replay that it "calculates the answer exactly", so
\* a backend that kept its contract passes validation.
CorrectBackendPasses == ~broken => failed = {}
----------------------------------------------------------------------------
(* The inductive invariant behind the properties above.                    *)

Preparing == pc \in {"parse", "construct"}
Started   == pc \in {"run", "read", "replay", "check", "report"}

\* Nothing has happened before the loops of run_all.
PreparingInv ==
  Preparing => /\ at = Start /\ sum = OfInt(0) /\ ideal = FirstIdeal
               /\ broken = FALSE /\ timings = [i \in 1 .. num_benchmarks |-> 0]

\* The arrays are read after the loops, and compared after the replay.
UnreadInv == /\ Preparing \/ pc \in {"run", "read"} =>
                  host = NoArrays /\ gold = StartCell /\ goldS = OfInt(0)
             /\ pc \notin {"report", "exit"} => failed = {}
             /\ pc # "exit" => status = "running"

\* Where the two loops can be.
LoopInv ==
  pc \in {"run", "replay"} =>
    IF opts.order = "Classic"
    THEN at.i <= num_benchmarks /\ at.k <= opts.num_times /\ (at.k = opts.num_times => at.i = 1)
    ELSE /\ at.k < opts.num_times
         /\ at.i > num_benchmarks \/ ~Selected(at.i) => at.k = 0

\* How far each vector of timings has grown.
TimingsInv ==
  /\ pc = "run" =>
       \A i \in 1 .. num_benchmarks :
         timings[i] = IF ~Selected(i) THEN 0
                      ELSE IF opts.order = "Classic" THEN at.k + (IF i < at.i THEN 1 ELSE 0)
                      ELSE IF i < at.i THEN opts.num_times ELSE 0
  /\ pc \in {"read", "replay", "check", "report"} =>
       \A i \in 1 .. num_benchmarks : timings[i] = IF Selected(i) THEN opts.num_times ELSE 0

\* The ideal values visited so far form one chain from Start to Frontier.
After(p, q) == IF opts.order = "Classic" THEN p.k > q.k \/ (p.k = q.k /\ p.i > q.i)
                                         ELSE p.i > q.i \/ (p.i = q.i /\ p.k > q.k)

Frontier == IF pc = "run" THEN at ELSE EndPosition

IdealInv ==
  Started =>
    /\ DOMAIN ideal \subseteq Positions
    /\ ideal \in [DOMAIN ideal -> [cell : Cell, sum : Val]]
    /\ Start \in DOMAIN ideal /\ ideal[Start] = FirstIdeal[Start]
    /\ Frontier \in DOMAIN ideal
    /\ \A p \in DOMAIN ideal \ {Frontier} :
         RunAdvance(p) \in DOMAIN ideal /\ ideal[RunAdvance(p)] = IdealStep(p, ideal[p])
    /\ pc = "run" => \A p \in DOMAIN ideal : ~After(p, at)

\* A backend that kept its contract holds the ideal values.
BackendInv ==
  /\ Started => mem \in [Idx(opts.array_size) -> Cell]
  /\ pc \in {"replay", "check", "report"} => host \in [Idx(opts.array_size) -> Cell]
  /\ Started /\ ~broken => mem = Uniform(ideal[Frontier].cell) /\ sum = ideal[Frontier].sum
  /\ pc \in {"replay", "check", "report"} /\ ~broken => host = Uniform(Final.cell)

\* The replay walks along the same chain.
ReplayInv ==
  /\ pc = "replay" => /\ at \in DOMAIN ideal
                      /\ gold = ideal[at].cell /\ goldS = ideal[at].sum
  /\ pc \in {"check", "report"} => gold = Final.cell /\ goldS = Final.sum

VerdictInv ==
  /\ RejectsOnlyOverflow
  /\ pc = "report" \/ (pc = "exit" /\ status = "success" /\ host # NoArrays) =>
       opts.silence_errors \/ Certified

IInv == /\ TypeOK /\ PreparingInv /\ UnreadInv /\ LoopInv /\ TimingsInv
        /\ IdealInv /\ BackendInv /\ ReplayInv /\ VerdictInv
=============================================================================
