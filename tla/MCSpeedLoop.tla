---------------------------- MODULE MCSpeedLoop ----------------------------
(***************************************************************************)
(* Instance of SpeedLoop for TLC: the loop, one other trigger, no stop.    *)
(***************************************************************************)
EXTENDS SpeedLoop

CONSTANTS loop, other

LoopAndOther == {loop, other}
LoopTriggers == {"startup", "scheduled", "manual"}
=============================================================================
