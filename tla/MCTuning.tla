------------------------------ MODULE MCTuning ------------------------------
(***************************************************************************)
(* SyclTuning on small devices.                                            *)
(***************************************************************************)
EXTENDS SyclTuning, MCAlgebra, TLC

\* Sizes of 1, 2 and 4 stand for 256, 512 and 1024.
Defaults(kind) == CASE kind = "intel" -> [wg |-> 4, gpc |-> 2, unroll |-> 2]
                    [] kind = "gpu"   -> [wg |-> 2, gpc |-> 2, unroll |-> 1]
                    [] kind = "cpu"   -> [wg |-> 1, gpc |-> 1, unroll |-> 1]

TwoFour == <<2, 4>>
Four    == <<4>>
OneTwo  == <<1, 2>>
Gpc(kind) == IF kind = "intel" THEN <<1, 3>> ELSE <<1, 2>>

Nothing == [o \in Options |-> Unset]

\* Overrides: none, one of them, not a number, out of range, or all.
Overrides ==
  {Nothing}
  \cup {[Nothing EXCEPT ![o] = v] : o \in {"wg", "Copy", "dot_wg", "unroll"}, v \in {NotANumber, 3}}
  \cup {[Nothing EXCEPT !["gpc"] = v] : v \in {5, 8}}
  \cup {[Nothing EXCEPT !["manual"] = v] : v \in {0, 1}}

Flags == {<<Unset, Unset>>, <<1, 0>>, <<0, 1>>, <<1, 1>>}

Environments ==
  {[o \in Options |-> CASE o = "stream_autotune" -> f[1]
                        [] o = "dot_autotune"    -> f[2]
                        [] OTHER                 -> e[o]] : e \in Overrides, f \in Flags}

\* A device without compute units is not excluded by the code.
Devices == {[kind |-> "intel", max_wg |-> 4, units |-> 2], [kind |-> "gpu", max_wg |-> 3, units |-> 1],
            [kind |-> "cpu", max_wg |-> 1, units |-> 0]}

SmallSystems == {[kind |-> d.kind, max_wg |-> d.max_wg, units |-> d.units, env |-> e] :
                   d \in Devices, e \in Environments}
=============================================================================
