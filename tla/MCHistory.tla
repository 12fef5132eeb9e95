------------------------------ MODULE MCHistory ------------------------------
(***************************************************************************)
(* Instances for TLC of what the store, and the log ring beside it, do     *)
(* with the history they keep, and of the digests that tell it.  The       *)
(* models do not share state: the one a behaviour is about is chosen       *)
(* first, and the others stay where they began.                            *)
(***************************************************************************)
EXTENDS Retention, Restore, Rebuild, Uptime, SpeedLedger, LogRing, Digest

VARIABLE explored

\* Clocks of the zone: one that never changes, and ones put forward, put back
\* over midnight and put back twice.
Instants == 1..LastTime + DayLength
Plain == [s \in Instants |-> 0]
Later == [s \in Instants |-> IF s < 3 THEN 0 ELSE 1]
Back == [s \in Instants |-> IF s < 4 THEN 2 ELSE 0]
Twice == [s \in Instants |-> IF s < 2 THEN 1 ELSE IF s < 4 THEN 0 ELSE 2]
ZoneClocks == {Plain, Later, Back, Twice}

RtOffered == explored # "retention" => rtKeep = CHOOSE w \in Windows : TRUE
RsOffered == explored # "restore" => rsCut = CHOOSE c \in Cutoffs : TRUE
UtOffered == explored # "uptime" => utPauses = {}

\* With a dashboard open, it meets a clear, or a restart from one snapshot, but
\* not the faults of the file; without one, the file meets all of them.
Spent(wipes, crashes, touches, ticks, posts) ==
    lrCount = [logged |-> 0, clears |-> wipes, crashes |-> crashes, touches |-> touches, ticks |-> ticks, posts |-> posts]
LrOffered ==
    IF explored = "log" /\ lrPane.open
    THEN Spent(0, MaxCrashes, MaxTouches, MaxTicks, 0) \/ Spent(MaxWipes, 0, MaxTouches, MaxTicks - 1, 0)
    ELSE Spent(0, 0, 0, 0, MaxPosts) /\ ~lrPane.open

DgOffered == explored # "digest" => dgFreq = Min(Periods)

Init ==
    /\ explored \in {"retention", "restore", "rebuild", "uptime", "ledger", "log", "digest"}
    /\ RtInit /\ RtOffered
    /\ RsInit /\ RsOffered
    /\ RbInit
    /\ UtInit /\ UtOffered
    /\ SlInit
    /\ LrInit /\ LrOffered
    /\ DgInit /\ DgOffered

Next ==
    /\ UNCHANGED explored
    /\ \/ explored = "retention" /\ RtNext /\ UNCHANGED <<rsVars, rbVars, utVars, slVars, lrVars, dgVars>>
       \/ explored = "restore"   /\ RsNext /\ UNCHANGED <<rtVars, rbVars, utVars, slVars, lrVars, dgVars>>
       \/ explored = "rebuild"   /\ RbNext /\ UNCHANGED <<rtVars, rsVars, utVars, slVars, lrVars, dgVars>>
       \/ explored = "uptime"    /\ UtNext /\ UNCHANGED <<rtVars, rsVars, rbVars, slVars, lrVars, dgVars>>
       \/ explored = "ledger"    /\ SlNext /\ UNCHANGED <<rtVars, rsVars, rbVars, utVars, lrVars, dgVars>>
       \/ explored = "log"       /\ LrNext /\ UNCHANGED <<rtVars, rsVars, rbVars, utVars, slVars, dgVars>>
       \/ explored = "digest"    /\ DgNext /\ UNCHANGED <<rtVars, rsVars, rbVars, utVars, slVars, lrVars>>

vars == <<explored, rtVars, rsVars, rbVars, utVars, slVars, lrVars, dgVars>>
Spec == Init /\ [][Next]_vars

HistoryTypeOK == RtTypeOK /\ RsTypeOK /\ RbTypeOK /\ UtTypeOK /\ SlTypeOK /\ LrTypeOK /\ DgTypeOK
=============================================================================
