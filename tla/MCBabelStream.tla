--------------------------- MODULE MCBabelStream ---------------------------
(***************************************************************************)
(* Small command lines for BabelStream.  size_t has 4 bits, a vector holds *)
(* at most 7 doubles, the defaults are 2 elements and 2 times.             *)
(*                                                                         *)
(* The tolerances keep the order of those of the code, and are coarse, so  *)
(* that small numbers can fall on either side of them: one that accepts no *)
(* difference between numbers below 64, two that accept a difference of    *)
(* half the larger one, and one that accepts every difference.             *)
(***************************************************************************)
EXTENDS BabelStreamHistory, MCAlgebra, TLC

Flags(options) == options \X {""}

MCArgs ==
  Flags({"--help", "unknown", "--csv", "--float", "--silence-errors"})
  \cup ({"--device"} \X {Missing, 0})
  \cup ({"--arraysize"} \X {Missing, 0, 1})
  \cup ({"--numtimes"} \X {Missing, -1, 1, 3})
  \cup ({"--only"} \X {Missing, "Classic", "All", "Nstream", "Dot", "nonsense"})
  \cup ({"--order"} \X {Missing, "Classic", "Isolated"})

OneIn == (<<"double", 100>> :> 64) @@ (<<"double", 10000000>> :> 2)
         @@ (<<"float", 100>> :> 2) @@ (<<"float", 10000000>> :> 1)

MCWithin(x, y, tolerance) == (Max({x, y}) - Min({x, y})) * OneIn[tolerance] <= Max({x, y})
=============================================================================
