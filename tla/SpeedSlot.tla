----------------------------- MODULE SpeedSlot -----------------------------
(***************************************************************************)
(* What the scheduler promises the rest of the daemon about speedtests:    *)
(* one slot, held by at most one run at a time; the network used only      *)
(* while the slot is held, in one stretch per run; a run counted as served *)
(* at most once, after its stretch and before the slot is free again.      *)
(***************************************************************************)
EXTENDS Integers

VARIABLES
    holder,  \* id of the run that has the slot, 0 when it is free
    onWire,  \* is a test using the network
    used,    \* has the holder used the network
    counted, \* was the holder counted as served
    served   \* runs counted

slotVars == <<holder, onWire, used, counted, served>>

Init ==
    /\ holder = 0 /\ onWire = FALSE /\ used = FALSE /\ counted = FALSE
    /\ served = 0

Take ==
    /\ holder = 0
    /\ holder' \in Nat \ {0}
    /\ UNCHANGED <<onWire, used, counted, served>>

StartTest ==
    /\ holder # 0 /\ ~onWire /\ ~used
    /\ onWire' = TRUE
    /\ UNCHANGED <<holder, used, counted, served>>

FinishTest ==
    /\ onWire
    /\ onWire' = FALSE /\ used' = TRUE
    /\ UNCHANGED <<holder, counted, served>>

Count ==
    /\ used /\ ~counted
    /\ counted' = TRUE /\ served' = served + 1
    /\ UNCHANGED <<holder, onWire, used>>

Free ==
    /\ holder # 0 /\ ~onWire
    /\ holder' = 0 /\ used' = FALSE /\ counted' = FALSE
    /\ UNCHANGED <<onWire, served>>

Next == Take \/ StartTest \/ FinishTest \/ Count \/ Free

Spec == Init /\ [][Next]_slotVars
=============================================================================
