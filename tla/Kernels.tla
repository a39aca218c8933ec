------------------------------ MODULE Kernels ------------------------------
(***************************************************************************)
(* The arithmetic every BabelStream program shares: the benchmark table    *)
(* (src/benchmark.h), the effect of each kernel on one element of the      *)
(* three arrays, and the scalar replay main.cpp validates against.         *)
(*                                                                         *)
(* Floating-point numbers are an abstract set Val with two operations and  *)
(* a reduction.  Rounding is below the tolerance of the validation and is  *)
(* not modelled; overflow is: a value is finite, infinite, or else NaN.    *)
(***************************************************************************)
EXTENDS Integers, Sequences

CONSTANTS
  Val,             \* values of an array element, of the scalar, of a sum
  Finite, Infinite,
  Plus(_, _), Times(_, _),
  SumOf(_),        \* the reduction of a function from indices to Val
  OfInt(_),        \* the conversion T(n) of an integer
  Sizes,           \* array sizes a program may be run with
  startA, startB, startC, startScalar

ASSUME ValuesClosed ==
  /\ Finite \cup Infinite \subseteq Val /\ Finite \cap Infinite = {}
  /\ {startA, startB, startC, startScalar, OfInt(0)} \subseteq Val
  /\ \A x, y \in Val : Plus(x, y) \in Val /\ Times(x, y) \in Val

ASSUME SizesPositive == Sizes \subseteq Nat \ {0}

Idx(n) == 0 .. n - 1

ASSUME SumOfClosed ==
  \A n \in Sizes \cup {0} : \A f \in [Idx(n) -> Val] : SumOf(f) \in Val

\* A reduction of n equal values is n times the value.
ASSUME SumOfUniform ==
  \A n \in Sizes : /\ OfInt(n) \in Val
                   /\ \A v \in Val : SumOf([i \in Idx(n) |-> v]) = Times(v, OfInt(n))
----------------------------------------------------------------------------
ArrayKernels == {"Copy", "Mul", "Add", "Triad", "Nstream"}

\* enum class BenchId: the six kernels and the two groups
Kernel  == ArrayKernels \cup {"Dot"}
BenchId == Kernel \cup {"Classic", "All"}

num_benchmarks == 6

\* The table, in the order the kernels run "for validation purposes".
bench ==
  << [id |-> "Copy",    classic |-> TRUE],  [id |-> "Mul",     classic |-> TRUE],
     [id |-> "Add",     classic |-> TRUE],  [id |-> "Triad",   classic |-> TRUE],
     [id |-> "Dot",     classic |-> TRUE],  [id |-> "Nstream", classic |-> FALSE] >>

run_benchmark(selection, b) ==
  \/ selection = "All"
  \/ selection = "Classic" /\ b.classic
  \/ selection = b.id
----------------------------------------------------------------------------
(* One index i of the three arrays is a cell [a, b, c].                    *)
Cell == [a : Val, b : Val, c : Val]

StartCell == [a |-> startA, b |-> startB, c |-> startC]

\* The array a kernel writes, and the value it writes at an index.
Target(k) == CASE k \in {"Copy", "Add"} -> "c"
               [] k = "Mul"             -> "b"
               [] OTHER                 -> "a"

Written(k, x) ==
  CASE k = "Copy"    -> x.a
    [] k = "Mul"     -> Times(startScalar, x.c)
    [] k = "Add"     -> Plus(x.a, x.b)
    [] k = "Triad"   -> Plus(x.b, Times(startScalar, x.c))
    [] k = "Nstream" -> Plus(x.a, Plus(x.b, Times(startScalar, x.c)))

Apply(k, x) == IF k \in ArrayKernels THEN [x EXCEPT ![Target(k)] = Written(k, x)] ELSE x

\* The dot kernel's answer for the arrays mem.
DotOf(mem) == SumOf([i \in DOMAIN mem |-> Times(mem[i].a, mem[i].b)])
=============================================================================
