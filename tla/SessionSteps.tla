---------------------------- MODULE SessionSteps ----------------------------
(***************************************************************************)
(* What the methods of a stream object do, as sequences of steps.  A step  *)
(* is one call into the runtime the backend is written for; the step       *)
(* machine that runs them is StreamSession.                                *)
(*                                                                         *)
(* One object stands for one allocation, and one element for an array: the *)
(* index spaces are the subject of DeviceStream and IndexSpaces.           *)
(***************************************************************************)
EXTENDS Kernels

Field == {"a", "b", "c"}

Call == Kernel \cup {"list", "construct", "get_arrays", "destroy"}

\* What every stream keeps somewhere: one object per array.
Arrays(a, b, c) == [f \in Field |-> CASE f = "a" -> a [] f = "b" -> b [] f = "c" -> c]

Here   == Arrays("a", "b", "c")          \* the members of a backend on the host
Device == Arrays("d_a", "d_b", "d_c")    \* arrays of the device
Host   == Arrays("h_a", "h_b", "h_c")    \* copies of them for the validation

Objects(m) == {m[f] : f \in DOMAIN m}
----------------------------------------------------------------------------
(* Operations: a function from the objects written to what is written, an  *)
(* expression over the elements of three objects.                          *)

Value(k, m) == [k |-> k, of |-> m]

\* The arrays an expression reads.
Operands(k) == CASE k = "Copy"           -> {"a"}
                 [] k = "Mul"            -> {"c"}
                 [] k \in {"Add", "Dot"} -> {"a", "b"}
                 [] k = "DotOnto"        -> Field
                 [] k = "Triad"          -> {"b", "c"}
                 [] k = "Nstream"        -> Field
                 [] OTHER                -> {}

\* The kernel k on the arrays m, writing the array Target(k).
Loop(k, m) == [x \in {m[Target(k)]} |-> Value(k, m)]

StartArray(f, m) == [x \in {m[f]} |-> Value(f, m)]

\* init_arrays(initA, initB, initC)
StartLoop(m) == [x \in Objects(m) |-> Value(CHOOSE f \in Field : m[f] = x, m)]

Products(m, sums) == [x \in {sums} |-> Value("Dot", m)]

\* A reduction that starts from what the result holds.
ProductsOnto(m, sums) == [x \in {sums} |-> Value("DotOnto", Arrays(m["a"], m["b"], sums))]

Zero(x) == [y \in {x} |-> Value("zero", Arrays(x, x, x))]

Move(from, to) == [y \in {to} |-> Value("Copy", Arrays(from, from, from))]

MoveArrays(from, to) ==
  [y \in Objects(to) |-> LET f == CHOOSE g \in Field : to[g] = y
                         IN Value("Copy", Arrays(from[f], from[f], from[f]))]

Writes(op) == DOMAIN op

Reads(op) == UNION {{op[y].of[f] : f \in Operands(op[y].k)} : y \in DOMAIN op}

Touches(op) == Writes(op) \cup Reads(op)

\* The value of an expression, when the objects hold d.
Evaluate(e, d) ==
  LET x == [f \in Field |-> d[e.of[f]]]
  IN CASE e.k \in ArrayKernels -> Written(e.k, x)
       [] e.k \in Field        -> StartCell[e.k]
       [] e.k = "Dot"          -> DotOf([i \in Idx(1) |-> x])
       [] e.k = "DotOnto"      -> Plus(x["c"], DotOf([i \in Idx(1) |-> x]))
       [] e.k = "zero"         -> OfInt(0)
\* An operation on the given objects.
IsOperation(op, things) ==
  /\ DOMAIN op \subseteq things
  /\ \A x \in DOMAIN op : /\ op[x].k \in ArrayKernels \cup Field \cup {"Dot", "DotOnto", "zero"}
                         /\ op[x].of \in [Field -> things]
----------------------------------------------------------------------------
(* Steps                                                                   *)

\* What hands out memory and handles.
Allocator == {"malloc", "new", "vector", "array", "local", "cuda", "cudaHost", "stream", "hip",
              "hipHost", "usm", "map", "data", "futhark", "config", "context", "cl"}

\* Memory and handles: allocated on the host or on the current device, freed
\* by the function that belongs to the allocator, counted where they can be
\* shared.
Acquire(xs, by)   == [do |-> "acquire", what |-> xs, by |-> by, host |-> TRUE]
AcquireOn(xs, by) == [do |-> "acquire", what |-> xs, by |-> by, host |-> FALSE]
Retain(xs)        == [do |-> "retain", what |-> xs]
Release(xs, by)   == [do |-> "release", what |-> xs, by |-> by]
Rename(x, y)      == [do |-> "rename", from |-> x, to |-> y]

\* The choice of the device.
Select     == [do |-> "select"]
List(how)  == [do |-> "list", how |-> how]
Check(why) == [do |-> "check", why |-> why]

\* Work for the device, work the host does itself, and waiting.
Submit(op) == [do |-> "submit", op |-> op]
Wait       == [do |-> "wait"]
Run(op)    == [do |-> "run", op |-> op]

\* The life of a host accessor: it waits for the work that writes what it will
\* read, and until it dies no work may touch that.
Access(xs) == [do |-> "access", what |-> xs]
Leave(xs)  == [do |-> "leave", what |-> xs]

\* What the caller gets.
ReturnSum(x) == [do |-> "sum", from |-> x]
HandOut(m)   == [do |-> "arrays", from |-> m]

\* A library call or a parallel region that returns when its work is done.
Blockingly(op) == <<Submit(op), Wait>>

\* A variable of the method itself.
WithLocal(x, steps) == <<Acquire({x}, "local")>> \o steps \o <<Release({x}, "local")>>

\* What a constructor may find wrong.
Reason == {"count", "first", "listed", "size", "fp64", "memory", "memory0", "build", "kernel"}

\* A step of a backend that has the given objects.
IsStep(s, things) ==
  /\ s.do = "acquire" => s.by \in Allocator
  /\ s.do = "check" => s.why \in Reason
  /\ s.do = "rename" => s.from \in things /\ s.to \in things
  /\ s.do \in {"submit", "run"} => IsOperation(s.op, things)
  /\ s.do = "access" => s.what \subseteq things
  /\ s.do = "sum" => s.from \in things
  /\ s.do = "arrays" => s.from \in [Field -> things]
=============================================================================
