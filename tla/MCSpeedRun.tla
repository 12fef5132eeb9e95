----------------------------- MODULE MCSpeedRun -----------------------------
(***************************************************************************)
(* Instances of SpeedRun for TLC.  A startup run that finds no snapshot    *)
(* goes the way of a manual one, so StartupOnly meets both ways through    *)
(* the preflight; the runs about stops leave the preflight out.            *)
(***************************************************************************)
EXTENDS SpeedRun, TLC

CONSTANTS r1, r2, s1, s2

TwoRunners  == {r1, r2}
TwoStops    == {s1, s2}
OneStop     == {s1}
ManualOnly  == {"manual"}
StartupOnly == {"startup"}
Symmetry == Permutations(TwoRunners) \union Permutations(TwoStops)
=============================================================================
