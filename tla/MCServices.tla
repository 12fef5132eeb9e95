----------------------------- MODULE MCServices -----------------------------
(***************************************************************************)
(* Instances for TLC of the components around the measurements.  They do   *)
(* not share state, so one run explores the states of each: the component  *)
(* it is about is chosen first, and the others stay where they began.      *)
(***************************************************************************)
EXTENDS QuickSetup, Settings, SignIn, AccessScope, BestOf, ServerSeat, ServerHealth, NetinfoRefresh,
        ReconnectGate, DnsProbe

VARIABLE explored

\* Two servers a few milliseconds apart, and the ranked lists they appear in:
\* either one ahead, within noise or beyond it, one or both not pinged, one missing.
TwoServers == {"a", "b"}
TrueRates == [s \in TwoServers |-> IF s = "a" THEN 10 ELSE 12]
Ranked(s, ms, t, tms) == <<[id |-> s, ms |-> ms], [id |-> t, ms |-> tms]>>
RankedLists ==
    {Ranked("a", 10, "b", 11), Ranked("b", 10, "a", 11), Ranked("a", 10, "b", 14), Ranked("b", 10, "a", 14),
     Ranked("a", 10, "b", 0), Ranked("b", 10, "a", 0), Ranked("a", 0, "b", 0),
     <<[id |-> "a", ms |-> 10]>>, <<[id |-> "b", ms |-> 10]>>}

AcOffered ==
    explored # "access" => ~acChosen.login /\ ~acChosen.network /\ acDisk.local = "unset"
                           /\ ~acDisk.enabled /\ ~acDisk.pass
QsOffered == explored # "setup" => ~qsDisk.history /\ ~qsDisk.config

RgOffered == explored # "reconnect" => rgInterval = Min(Intervals)
DnOffered == explored # "dns" => dnSwitch.dns

Init ==
    /\ explored \in {"setup", "settings", "signin", "access", "engine", "seat", "health", "netinfo",
                  "reconnect", "dns"}
    /\ QsInit /\ QsOffered
    /\ StInit /\ SiInit
    /\ AcInit /\ AcOffered
    /\ BoInit /\ SeInit /\ ShInit /\ NiInit /\ RgInit /\ RgOffered
    /\ DnInit /\ DnOffered

Next ==
    /\ UNCHANGED explored
    /\ \/ explored = "setup"    /\ QsNext /\ UNCHANGED <<stVars, siVars, acVars, boVars, seVars, shVars, niVars, rgVars, dnVars>>
       \/ explored = "settings" /\ StNext /\ UNCHANGED <<qsVars, siVars, acVars, boVars, seVars, shVars, niVars, rgVars, dnVars>>
       \/ explored = "signin"   /\ SiNext /\ UNCHANGED <<qsVars, stVars, acVars, boVars, seVars, shVars, niVars, rgVars, dnVars>>
       \/ explored = "access"   /\ AcNext /\ UNCHANGED <<qsVars, stVars, siVars, boVars, seVars, shVars, niVars, rgVars, dnVars>>
       \/ explored = "engine"   /\ BoNext /\ UNCHANGED <<qsVars, stVars, siVars, acVars, seVars, shVars, niVars, rgVars, dnVars>>
       \/ explored = "seat"     /\ SeNext /\ UNCHANGED <<qsVars, stVars, siVars, acVars, boVars, shVars, niVars, rgVars, dnVars>>
       \/ explored = "health"   /\ ShNext /\ UNCHANGED <<qsVars, stVars, siVars, acVars, boVars, seVars, niVars, rgVars, dnVars>>
       \/ explored = "netinfo"  /\ NiNext /\ UNCHANGED <<qsVars, stVars, siVars, acVars, boVars, seVars, shVars, rgVars, dnVars>>
       \/ explored = "reconnect" /\ RgNext /\ UNCHANGED <<qsVars, stVars, siVars, acVars, boVars, seVars, shVars, niVars, dnVars>>
       \/ explored = "dns"      /\ DnNext /\ UNCHANGED <<qsVars, stVars, siVars, acVars, boVars, seVars, shVars, niVars, rgVars>>

vars == <<explored, qsVars, stVars, siVars, acVars, boVars, seVars, shVars, niVars, rgVars, dnVars>>
Spec == Init /\ [][Next]_vars

ServicesTypeOK == QsTypeOK /\ StTypeOK /\ SiTypeOK /\ AcTypeOK /\ BoTypeOK /\ SeTypeOK /\ ShTypeOK /\ NiTypeOK
                  /\ RgTypeOK /\ DnTypeOK
=============================================================================
