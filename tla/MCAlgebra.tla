------------------------------ MODULE MCAlgebra ------------------------------
(***************************************************************************)
(* Values for the constants of Kernels.  The kernels use only addition and *)
(* multiplication of 0.1, 0.2, 0 and 0.4, and the decimal fractions map    *)
(* homomorphically to the integers modulo a prime P other than 2 and 5:    *)
(* whatever equality the exact arithmetic satisfies, its image does, and   *)
(* for a large P distinct results almost always stay distinct.  The        *)
(* saturating arithmetic keeps magnitudes instead: Huge stands for the     *)
(* first value that overflows to infinity.                                 *)
(***************************************************************************)
EXTENDS Integers, FiniteSetsExt

CONSTANTS P, Huge

ModVal         == 0 .. P - 1
ModPlus(x, y)  == (x + y) % P
ModTimes(x, y) == (x * y) % P
ModOfInt(n)    == n % P
ModSum(f)      == MapThenSumSet(LAMBDA i : f[i], DOMAIN f) % P

Tenth      == CHOOSE x \in ModVal : (10 * x) % P = 1
MCStartA   == Tenth
MCStartB   == ModTimes(2, Tenth)
MCStartC   == 0
MCScalar   == ModTimes(4, Tenth)

Saturate(x)    == IF x > Huge THEN Huge ELSE x
SatVal         == 0 .. Huge
SatFinite      == SatVal \ {Huge}
SatInfinite    == {Huge}
SatPlus(x, y)  == Saturate(x + y)
SatTimes(x, y) == IF Huge \in {x, y} THEN Huge ELSE Saturate(x * y)
SatSum(f)      == Saturate(MapThenSumSet(LAMBDA i : f[i], DOMAIN f))
SatOfInt(n)    == Saturate(n)
=============================================================================
