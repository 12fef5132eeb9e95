----------------------------- MODULE HistoryProofs -----------------------------
(***************************************************************************)
(* Theorems about what is kept of the past: the database a start runs on,  *)
(* the digests that tell what happened, the restore of a backup beside a   *)
(* cleanup, the cleanup under a clock that is set, the recent log with its *)
(* copies on disk and on a dashboard, and the rows that speedtests leave   *)
(* with what is read off them, for any numbers of rows.                    *)
(***************************************************************************)
EXTENDS Rebuild, Digest, Restore, Retention, LogRing, SpeedLedger, SumTheorems, FiniteSetTheorems,
        SequenceTheorems, WellFoundedInduction, TLAPS

-----------------------------------------------------------------------------
(* Rebuild: the database a start runs on                                   *)

Kinds == {"none", "partial", "rebuilt", "fresh", "install"}
Files == [id : Nat, kind : Kinds, consented : BOOLEAN, hold : BOOLEAN, damaged : BOOLEAN]
Stages == {"down", "finish", "open", "running", "build", "building", "aside", "aside wal", "place"}

RbShape ==
    /\ rbPath \in [main : Files, wal : Nat] /\ rbBuilt \in Files
    /\ rbAside \in [main : SUBSET Files, wal : SUBSET Nat]
    /\ rbProc \in [pc : Stages, rebuild : BOOLEAN, firstRun : BOOLEAN]
    /\ rbMade \in Nat

\* Some database moved aside was past its offer.
WasConsented == \E f \in rbAside.main : f.consented

\* What is at the path is whole, and answers for what is aside; its log is its own.
PathIsWhole ==
    IF rbPath.main.id = 0 THEN rbPath.main = NoFile
    ELSE /\ rbPath.main.kind \in {"fresh", "install", "rebuilt"}
         /\ rbPath.main.kind = "fresh" => rbPath.main.id = 1
         /\ rbPath.main.kind = "rebuilt" => rbPath.main.hold
         /\ WasConsented => rbPath.main.consented
         /\ rbPath.wal \in {0, rbPath.main.id}

\* With nothing at the path, there never was anything, or a whole replacement
\* waits beside it.
SomethingIsThere ==
    rbPath.main.id = 0 =>
        IF rbBuilt.kind = "none" THEN rbMade = 0 /\ rbAside.main = {} /\ rbPath.wal = 0
        ELSE rbBuilt.kind = "rebuilt" /\ (WasConsented => rbBuilt.consented)

BuiltIsWhole ==
    /\ rbBuilt.kind = "rebuilt" => rbBuilt.hold
    /\ rbBuilt.kind # "none" => rbBuilt.id # 0

\* Where a start is, and what it has made sure of by then.
StageTrue ==
    /\ rbProc.pc = "running" => rbPath.main.id # 0 /\ rbPath.wal = rbPath.main.id
    /\ rbProc.pc = "open" /\ rbPath.main.id = 0 => rbBuilt.kind = "none"
    /\ rbProc.pc \in {"build", "building", "aside"} => rbPath.main.id # 0
    /\ rbProc.pc \in {"build", "building"} /\ rbProc.firstRun => ~rbPath.main.consented
    /\ rbProc.pc = "building" => rbBuilt.kind = "partial"
    /\ rbProc.pc = "aside" => rbBuilt.kind = "rebuilt" /\ (rbPath.main.consented => rbBuilt.consented)
    /\ rbProc.pc \in {"aside wal", "place"} => rbPath.main.id = 0 /\ rbBuilt.kind = "rebuilt"
    /\ rbProc.pc = "place" => rbPath.wal = 0

RbInv == RbShape /\ PathIsWhole /\ SomethingIsThere /\ BuiltIsWhole /\ StageTrue

\* The constants of the model: no file is one of the files, at no stage of a start.
LEMMA NoFileIs ==
    /\ NoFile \in Files /\ NoFile.id = 0 /\ NoFile.kind = "none" /\ ~NoFile.consented
    /\ Exited \in [pc : Stages, rebuild : BOOLEAN, firstRun : BOOLEAN] /\ Exited.pc = "down" /\ ~Exited.firstRun
  BY DEF NoFile, Exited, Files, Kinds, Stages

\* Where nothing was ever made, nothing is needed.
LEMMA RbInvInit == ASSUME RbInit PROVE RbInv
<1>1. /\ rbPath = [main |-> NoFile, wal |-> 0] /\ rbBuilt = NoFile /\ rbAside = [main |-> {}, wal |-> {}]
      /\ rbProc = Exited /\ rbMade = 0
  BY DEF RbInit
<1>2. RbShape
  BY <1>1, NoFileIs DEF RbShape
<1>3. QED BY <1>1, <1>2, NoFileIs DEF RbInv, PathIsWhole, SomethingIsThere, BuiltIsWhole, StageTrue

\* A step that only moves the start on.
LEMMA Moves ==
    ASSUME RbShape, NEW pc \in Stages, rbProc' = [rbProc EXCEPT !.pc = pc]
    PROVE  /\ rbProc' \in [pc : Stages, rebuild : BOOLEAN, firstRun : BOOLEAN]
           /\ rbProc'.pc = pc /\ rbProc'.firstRun = rbProc.firstRun
  BY DEF RbShape

\* The fields of what is at the path and aside, spelled out.
LEMMA PathIs ==
    ASSUME RbShape
    PROVE  /\ rbPath = [main |-> rbPath.main, wal |-> rbPath.wal] /\ rbPath.main \in Files /\ rbPath.wal \in Nat
           /\ rbAside = [main |-> rbAside.main, wal |-> rbAside.wal]
           /\ rbAside.main \in SUBSET Files /\ rbAside.wal \in SUBSET Nat
           /\ rbPath.main = [id |-> rbPath.main.id, kind |-> rbPath.main.kind, consented |-> rbPath.main.consented,
                             hold |-> rbPath.main.hold, damaged |-> rbPath.main.damaged]
  BY DEF RbShape, Files

\* The start ends, whatever the reason.
LEMMA ExitKeeps ==
    ASSUME RbInv, rbProc' = Exited, UNCHANGED <<rbPath, rbBuilt, rbAside, rbMade>>
    PROVE  RbInv'
<1>1. RbShape'
  BY NoFileIs DEF RbInv, RbShape
<1>2. PathIsWhole' /\ SomethingIsThere' /\ BuiltIsWhole'
  BY DEF RbInv, PathIsWhole, SomethingIsThere, BuiltIsWhole, WasConsented
<1>3. StageTrue'
  BY NoFileIs DEF StageTrue
<1>4. QED BY <1>1, <1>2, <1>3 DEF RbInv

\* Damage to the file at the path takes no file away.
LEMMA DamageKeeps == ASSUME RbInv, Damage PROVE RbInv'
<1> DEFINE new == [rbPath.main EXCEPT !.damaged = TRUE]
<1>1. /\ rbProc.pc = "down" /\ rbPath.main.id # 0 /\ rbPath' = [rbPath EXCEPT !.main.damaged = TRUE]
      /\ UNCHANGED <<rbBuilt, rbAside, rbProc, rbMade>> /\ RbShape
  BY DEF Damage, At, RbInv
<1>2. rbPath'.main = new /\ rbPath'.wal = rbPath.wal /\ rbPath' = [main |-> new, wal |-> rbPath.wal]
  BY <1>1, PathIs
<1>3. /\ new \in Files /\ new.id = rbPath.main.id /\ new.kind = rbPath.main.kind
      /\ new.consented = rbPath.main.consented /\ new.hold = rbPath.main.hold
  BY <1>1, PathIs DEF Files
<1> HIDE DEF new
<1>4. RbShape'
  BY <1>1, <1>2, <1>3, PathIs DEF RbShape
<1>5. PathIsWhole' /\ SomethingIsThere' /\ BuiltIsWhole' /\ StageTrue'
  BY <1>1, <1>2, <1>3 DEF RbInv, PathIsWhole, SomethingIsThere, BuiltIsWhole, StageTrue, WasConsented
<1>6. QED BY <1>4, <1>5 DEF RbInv

\* A clean stop writes the log into the file it belongs to.
LEMMA StopKeeps == ASSUME RbInv, CleanStop PROVE RbInv'
<1>1. /\ rbProc.pc = "running" /\ rbPath' = [rbPath EXCEPT !.wal = 0] /\ rbProc' = Exited
      /\ UNCHANGED <<rbBuilt, rbAside, rbMade>> /\ RbShape
  BY DEF CleanStop, At, Exit, RbInv
<1>2. rbPath' = [main |-> rbPath.main, wal |-> 0] /\ rbPath'.main = rbPath.main /\ rbPath'.wal = 0
  BY <1>1, PathIs
<1>3. RbShape'
  BY <1>1, <1>2, PathIs, NoFileIs DEF RbShape
<1>4. PathIsWhole' /\ SomethingIsThere' /\ BuiltIsWhole' /\ StageTrue'
  BY <1>1, <1>2, NoFileIs DEF RbInv, PathIsWhole, SomethingIsThere, BuiltIsWhole, StageTrue, WasConsented
<1>5. QED BY <1>3, <1>4 DEF RbInv

\* A start that begins, or skips to its end, renames nothing yet.
LEMMA BeginKeeps == ASSUME RbInv, Begin \/ FinishSkipped PROVE RbInv'
<1>1. UNCHANGED <<rbPath, rbBuilt, rbAside, rbMade>> /\ RbShape
  BY DEF Begin, FinishSkipped, RbInv
<1>2. /\ rbProc' \in [pc : Stages, rebuild : BOOLEAN, firstRun : BOOLEAN]
      /\ rbProc'.pc = "finish" \/ (rbProc'.pc = "open" /\ ~Unfinished)
  <2>1. CASE Begin
    BY <2>1 DEF Begin, Exited, Stages
  <2>2. CASE FinishSkipped
    BY <1>1, <2>2, Moves DEF FinishSkipped, To, Stages
  <2>3. QED BY <2>1, <2>2
<1>3. RbShape'
  BY <1>1, <1>2 DEF RbShape
<1>4. PathIsWhole' /\ SomethingIsThere' /\ BuiltIsWhole'
  BY <1>1 DEF RbInv, PathIsWhole, SomethingIsThere, BuiltIsWhole, WasConsented
<1>5. StageTrue'
  BY <1>1, <1>2 DEF StageTrue, Unfinished
<1>6. QED BY <1>3, <1>4, <1>5 DEF RbInv

\* A damaged database goes aside once its replacement is whole.
LEMMA AsideMainKeeps == ASSUME RbInv, AsideMain("aside", "aside wal") PROVE RbInv'
<1>1. rbProc.pc = "aside" /\ UNCHANGED <<rbBuilt, rbMade>> /\ RbShape
  BY DEF AsideMain, At, RbInv
<1>2. CASE Exit /\ UNCHANGED <<rbPath, rbAside>>
  BY <1>1, <1>2, ExitKeeps DEF Exit
<1>3. CASE /\ rbAside' = [rbAside EXCEPT !.main = @ \cup ({rbPath.main} \ {NoFile})]
           /\ rbPath' = [rbPath EXCEPT !.main = NoFile]
           /\ To("aside wal")
  <2>1. rbPath' = [main |-> NoFile, wal |-> rbPath.wal]
    BY <1>1, <1>3, PathIs
  <2>2. rbAside' = [main |-> rbAside.main \cup ({rbPath.main} \ {NoFile}), wal |-> rbAside.wal]
    BY <1>1, <1>3, PathIs
  <2>3. /\ rbProc' \in [pc : Stages, rebuild : BOOLEAN, firstRun : BOOLEAN]
        /\ rbProc'.pc = "aside wal"
    BY <1>1, <1>3, Moves DEF To, Stages
  <2>4. RbShape'
    BY <1>1, <2>1, <2>2, <2>3, PathIs, NoFileIs DEF RbShape
  <2>5. /\ rbBuilt.kind = "rebuilt" /\ (rbPath.main.consented => rbBuilt.consented)
        /\ rbPath.main.id # 0 /\ (WasConsented => rbPath.main.consented)
    BY <1>1 DEF RbInv, StageTrue, PathIsWhole
  <2>6. WasConsented' => rbBuilt.consented
    BY <2>2, <2>5 DEF WasConsented
  <2>7. PathIsWhole' /\ SomethingIsThere' /\ BuiltIsWhole' /\ StageTrue'
    BY <1>1, <2>1, <2>3, <2>5, <2>6, NoFileIs DEF RbInv, PathIsWhole, SomethingIsThere, BuiltIsWhole, StageTrue
  <2>8. QED BY <2>4, <2>7 DEF RbInv
<1>4. QED BY <1>2, <1>3 DEF AsideMain

\* Its log follows, in the start that moved it or in one that finishes for it.
LEMMA AsideWalKeeps ==
    ASSUME RbInv, NEW from, AsideWal(from, "place"), from = "aside wal" \/ (from = "finish" /\ Unfinished)
    PROVE  RbInv'
<1>1. rbProc.pc = from /\ UNCHANGED <<rbBuilt, rbMade>> /\ RbShape
  BY DEF AsideWal, At, RbInv
<1>2. CASE Exit /\ UNCHANGED <<rbPath, rbAside>>
  BY <1>1, <1>2, ExitKeeps DEF Exit
<1>3. CASE /\ rbAside' = [rbAside EXCEPT !.wal = @ \cup ({rbPath.wal} \ {0})]
           /\ rbPath' = [rbPath EXCEPT !.wal = 0]
           /\ To("place")
  <2>1. rbPath' = [main |-> rbPath.main, wal |-> 0]
    BY <1>1, <1>3, PathIs
  <2>2. rbAside' = [main |-> rbAside.main, wal |-> rbAside.wal \cup ({rbPath.wal} \ {0})]
    BY <1>1, <1>3, PathIs
  <2>3. /\ rbProc' \in [pc : Stages, rebuild : BOOLEAN, firstRun : BOOLEAN]
        /\ rbProc'.pc = "place"
    BY <1>1, <1>3, Moves DEF To, Stages
  <2>4. RbShape'
    BY <1>1, <2>1, <2>2, <2>3, PathIs DEF RbShape
  <2>5. rbPath.main.id = 0 /\ rbBuilt.kind = "rebuilt"
    BY <1>1 DEF RbInv, StageTrue, SomethingIsThere, Unfinished
  <2>6. PathIsWhole' /\ SomethingIsThere' /\ BuiltIsWhole' /\ StageTrue'
    BY <1>1, <2>1, <2>2, <2>3, <2>5 DEF RbInv, PathIsWhole, SomethingIsThere, BuiltIsWhole, StageTrue, WasConsented
  <2>7. QED BY <2>4, <2>6 DEF RbInv
<1>4. QED BY <1>2, <1>3 DEF AsideWal

\* Every placing leaves something whole at the path or aside.
LEMMA PlaceKeeps == ASSUME RbInv, Place PROVE RbInv'
<1>1. rbProc.pc = "place" /\ UNCHANGED <<rbAside, rbMade>> /\ RbShape
  BY DEF Place, At, RbInv
<1>2. CASE Exit /\ UNCHANGED <<rbPath, rbBuilt>>
  BY <1>1, <1>2, ExitKeeps DEF Exit
<1>3. CASE rbPath' = [rbPath EXCEPT !.main = rbBuilt] /\ rbBuilt' = NoFile /\ To("open")
  <2>1. rbPath' = [main |-> rbBuilt, wal |-> rbPath.wal]
    BY <1>1, <1>3, PathIs
  <2>2. rbProc' \in [pc : Stages, rebuild : BOOLEAN, firstRun : BOOLEAN] /\ rbProc'.pc = "open"
    BY <1>1, <1>3, Moves DEF To, Stages
  <2>3. RbShape'
    BY <1>1, <1>3, <2>1, <2>2, PathIs, NoFileIs DEF RbShape
  <2>4. /\ rbBuilt.kind = "rebuilt" /\ (WasConsented => rbBuilt.consented) /\ rbPath.wal = 0
        /\ rbBuilt.hold /\ rbBuilt.id # 0
    BY <1>1 DEF RbInv, StageTrue, SomethingIsThere, BuiltIsWhole
  <2>5. PathIsWhole' /\ SomethingIsThere' /\ BuiltIsWhole' /\ StageTrue'
    BY <1>1, <1>3, <2>1, <2>2, <2>4, NoFileIs
       DEF RbInv, PathIsWhole, SomethingIsThere, BuiltIsWhole, StageTrue, WasConsented
  <2>6. QED BY <2>3, <2>5 DEF RbInv
<1>4. QED BY <1>2, <1>3 DEF Place


\* Opening: what is made where nothing ever was, what runs as it is, and what
\* is to be rebuilt.
LEMMA OpenKeeps == ASSUME RbInv, OpenDatabase PROVE RbInv'
<1>1. rbProc.pc = "open" /\ UNCHANGED <<rbBuilt, rbAside>> /\ RbShape
  BY DEF OpenDatabase, At, RbInv
<1>2. CASE rbPath.main.id = 0
  <2> DEFINE new == [id |-> 1, kind |-> "fresh", consented |-> FALSE, hold |-> FALSE, damaged |-> FALSE]
  <2>1. rbBuilt.kind = "none" /\ rbMade = 0 /\ rbAside.main = {} /\ rbPath.wal = 0
    BY <1>1, <1>2 DEF RbInv, StageTrue, SomethingIsThere
  <2>2. rbMade' = 1 /\ rbPath' = [main |-> new, wal |-> 1] /\ To("running")
    BY <1>2, <2>1 DEF OpenDatabase
  <2>3. /\ rbProc' \in [pc : Stages, rebuild : BOOLEAN, firstRun : BOOLEAN]
        /\ rbProc'.pc = "running"
    BY <1>1, <2>2, Moves DEF To, Stages
  <2>4. new \in Files /\ new.id = 1 /\ new.kind = "fresh"
    BY DEF Files, Kinds
  <2> HIDE DEF new
  <2>5. RbShape'
    BY <1>1, <2>2, <2>3, <2>4 DEF RbShape
  <2>6. ~WasConsented'
    BY <1>1, <2>1 DEF WasConsented
  <2>7. PathIsWhole' /\ SomethingIsThere' /\ BuiltIsWhole' /\ StageTrue'
    BY <1>1, <2>2, <2>3, <2>4, <2>6 DEF RbInv, PathIsWhole, SomethingIsThere, BuiltIsWhole, StageTrue
  <2>8. QED BY <2>5, <2>7 DEF RbInv
<1>3. CASE rbPath.main.id # 0 /\ ~rbPath.main.damaged
  <2>1. rbMade' = rbMade
    BY <1>3 DEF OpenDatabase
  <2>2. CASE Exit /\ UNCHANGED rbPath
    BY <1>1, <2>1, <2>2, ExitKeeps DEF Exit
  <2>3. CASE To("running") /\ rbPath' = [rbPath EXCEPT !.wal = IF @ = 0 THEN rbPath.main.id ELSE @]
    <3>1. rbPath' = [main |-> rbPath.main, wal |-> IF rbPath.wal = 0 THEN rbPath.main.id ELSE rbPath.wal]
      BY <1>1, <2>3, PathIs
    <3>2. rbPath.wal \in {0, rbPath.main.id}
      BY <1>3 DEF RbInv, PathIsWhole
    <3>3. rbPath'.main = rbPath.main /\ rbPath'.wal = rbPath.main.id
      BY <3>1, <3>2
    <3>4. rbPath.main.id \in Nat
      BY <1>1, PathIs DEF Files
    <3>5. /\ rbProc' \in [pc : Stages, rebuild : BOOLEAN, firstRun : BOOLEAN]
          /\ rbProc'.pc = "running"
      BY <1>1, <2>3, Moves DEF To, Stages
    <3>6. rbPath' \in [main : Files, wal : Nat]
      BY <1>1, <3>1, <3>4, PathIs
    <3>7. RbShape'
      BY <1>1, <2>1, <3>5, <3>6 DEF RbShape
    <3>8. PathIsWhole' /\ SomethingIsThere' /\ BuiltIsWhole' /\ StageTrue'
      BY <1>1, <1>3, <2>1, <3>3, <3>5
         DEF RbInv, PathIsWhole, SomethingIsThere, BuiltIsWhole, StageTrue, WasConsented
    <3>9. QED BY <3>7, <3>8 DEF RbInv
  <2>4. QED BY <1>3, <2>2, <2>3 DEF OpenDatabase
<1>4. CASE rbPath.main.id # 0 /\ rbPath.main.damaged
  <2>1. /\ UNCHANGED <<rbPath, rbMade>>
        /\ \E read \in BOOLEAN :
              IF rbProc.rebuild
              THEN rbProc' = [rbProc EXCEPT !.pc = "build", !.firstRun = read /\ ~rbPath.main.consented]
              ELSE Exit
    BY <1>4 DEF OpenDatabase
  <2>2. CASE Exit
    BY <1>1, <2>1, <2>2, ExitKeeps DEF Exit
  <2>3. CASE \E read \in BOOLEAN :
               rbProc' = [rbProc EXCEPT !.pc = "build", !.firstRun = read /\ ~rbPath.main.consented]
    <3>1. PICK read \in BOOLEAN :
               rbProc' = [rbProc EXCEPT !.pc = "build", !.firstRun = read /\ ~rbPath.main.consented]
      BY <2>3
    <3>2. (read /\ ~rbPath.main.consented) \in BOOLEAN
      OBVIOUS
    <3>3. /\ rbProc'.pc = "build" /\ rbProc'.firstRun = (read /\ ~rbPath.main.consented)
          /\ rbProc' \in [pc : Stages, rebuild : BOOLEAN, firstRun : BOOLEAN]
      BY <1>1, <3>1, <3>2 DEF RbShape, Stages
    <3>4. rbProc'.firstRun => ~rbPath.main.consented
      BY <3>3
    <3>5. RbShape'
      BY <1>1, <2>1, <3>3 DEF RbShape
    <3>6. PathIsWhole' /\ SomethingIsThere' /\ BuiltIsWhole' /\ StageTrue'
      BY <1>1, <1>4, <2>1, <3>3, <3>4
         DEF RbInv, PathIsWhole, SomethingIsThere, BuiltIsWhole, StageTrue, WasConsented
    <3>7. QED BY <3>5, <3>6 DEF RbInv
  <2>4. QED BY <2>1, <2>2, <2>3
<1>5. QED BY <1>2, <1>3, <1>4

\* A build starts beside the path.
LEMMA BuildStartsKeeps == ASSUME RbInv, BuildStarts PROVE RbInv'
<1>1. /\ rbProc.pc = "build" /\ rbMade' = rbMade + 1 /\ To("building") /\ UNCHANGED <<rbPath, rbAside>>
      /\ rbBuilt' = [NoFile EXCEPT !.id = rbMade', !.kind = "partial"] /\ RbShape
  BY DEF BuildStarts, At, RbInv
<1>2. rbMade' \in Nat /\ rbMade' # 0
  BY <1>1 DEF RbShape
<1>3. rbBuilt' \in Files /\ rbBuilt'.kind = "partial" /\ rbBuilt'.id # 0
  BY <1>1, <1>2 DEF NoFile, Files, Kinds
<1>4. /\ rbProc' \in [pc : Stages, rebuild : BOOLEAN, firstRun : BOOLEAN]
      /\ rbProc'.pc = "building" /\ rbProc'.firstRun = rbProc.firstRun
  BY <1>1, Moves DEF To, Stages
<1>5. rbPath.main.id # 0 /\ (rbProc.firstRun => ~rbPath.main.consented)
  BY <1>1 DEF RbInv, StageTrue
<1>6. RbShape'
  BY <1>1, <1>2, <1>3, <1>4 DEF RbShape
<1>7. PathIsWhole' /\ SomethingIsThere' /\ BuiltIsWhole' /\ StageTrue'
  BY <1>1, <1>3, <1>4, <1>5 DEF RbInv, PathIsWhole, SomethingIsThere, BuiltIsWhole, StageTrue, WasConsented
<1>8. QED BY <1>6, <1>7 DEF RbInv

\* What a build ends with is whole and carries the consent.
LEMMA BuildEndsKeeps == ASSUME RbInv, BuildEnds PROVE RbInv'
<1>1. rbProc.pc = "building" /\ UNCHANGED <<rbPath, rbAside, rbMade>> /\ RbShape
  BY DEF BuildEnds, At, RbInv
<1>2. /\ rbPath.main.id # 0 /\ (rbProc.firstRun => ~rbPath.main.consented)
      /\ rbBuilt.kind = "partial" /\ rbBuilt.id # 0
  BY <1>1 DEF RbInv, StageTrue, BuiltIsWhole
<1>3. CASE rbBuilt' = NoFile /\ Exit
  <2>1. rbBuilt' = NoFile /\ rbProc' = Exited
    BY <1>3 DEF Exit
  <2>2. RbShape'
    BY <1>1, <2>1, NoFileIs DEF RbShape
  <2>3. PathIsWhole' /\ SomethingIsThere' /\ BuiltIsWhole' /\ StageTrue'
    BY <1>1, <1>2, <2>1, NoFileIs
       DEF RbInv, PathIsWhole, SomethingIsThere, BuiltIsWhole, StageTrue, WasConsented
  <2>4. QED BY <2>2, <2>3 DEF RbInv
<1>4. CASE /\ rbBuilt' = [rbBuilt EXCEPT !.kind = "rebuilt", !.consented = ~rbProc.firstRun, !.hold = TRUE]
           /\ To("aside")
  <2> DEFINE past == ~rbProc.firstRun
  <2>1. past \in BOOLEAN
    OBVIOUS
  <2>2. rbBuilt' = [rbBuilt EXCEPT !.kind = "rebuilt", !.consented = past, !.hold = TRUE]
    BY <1>4
  <2>3. rbPath.main.consented => past
    BY <1>2
  <2> HIDE DEF past
  <2>4. /\ rbBuilt' \in Files /\ rbBuilt'.kind = "rebuilt" /\ rbBuilt'.consented = past /\ rbBuilt'.hold
        /\ rbBuilt'.id # 0
    BY <1>1, <1>2, <2>1, <2>2 DEF RbShape, Files, Kinds
  <2>5. /\ rbProc' \in [pc : Stages, rebuild : BOOLEAN, firstRun : BOOLEAN]
        /\ rbProc'.pc = "aside"
    BY <1>1, <1>4, Moves DEF To, Stages
  <2>6. RbShape'
    BY <1>1, <2>4, <2>5 DEF RbShape
  <2>7. PathIsWhole' /\ SomethingIsThere' /\ BuiltIsWhole' /\ StageTrue'
    BY <1>1, <1>2, <2>3, <2>4, <2>5
       DEF RbInv, PathIsWhole, SomethingIsThere, BuiltIsWhole, StageTrue, WasConsented
  <2>8. QED BY <2>6, <2>7 DEF RbInv
<1>5. QED BY <1>3, <1>4 DEF BuildEnds

\* The operator's settings go to the file the daemon runs on.
LEMMA ConfigureKeeps == ASSUME RbInv, Configure PROVE RbInv'
<1>1. rbProc.pc = "running" /\ UNCHANGED <<rbBuilt, rbAside, rbProc, rbMade>> /\ RbShape
  BY DEF Configure, At, RbInv
<1>2. rbPath.main.id # 0 /\ rbPath.wal = rbPath.main.id
  BY <1>1 DEF RbInv, StageTrue
<1>3. CASE rbPath' = [rbPath EXCEPT !.main.consented = TRUE]
  <2> DEFINE new == [rbPath.main EXCEPT !.consented = TRUE]
  <2>1. rbPath' = [main |-> new, wal |-> rbPath.wal]
    BY <1>1, <1>3, PathIs
  <2>2. /\ new \in Files /\ new.id = rbPath.main.id /\ new.kind = rbPath.main.kind
        /\ new.consented /\ new.hold = rbPath.main.hold
    BY <1>1, PathIs DEF Files
  <2> HIDE DEF new
  <2>3. RbShape'
    BY <1>1, <2>1, <2>2, PathIs DEF RbShape
  <2>4. PathIsWhole' /\ SomethingIsThere' /\ BuiltIsWhole' /\ StageTrue'
    BY <1>1, <1>2, <2>1, <2>2 DEF RbInv, PathIsWhole, SomethingIsThere, BuiltIsWhole, StageTrue, WasConsented
  <2>5. QED BY <2>3, <2>4 DEF RbInv
<1>4. CASE rbPath' = [rbPath EXCEPT !.main.hold = FALSE, !.main.kind = "install"]
  <2> DEFINE new == [rbPath.main EXCEPT !.hold = FALSE, !.kind = "install"]
  <2>1. rbPath' = [main |-> new, wal |-> rbPath.wal]
    BY <1>1, <1>4, PathIs
  <2>2. /\ new \in Files /\ new.id = rbPath.main.id /\ new.kind = "install"
        /\ new.consented = rbPath.main.consented
    BY <1>1, PathIs DEF Files, Kinds
  <2> HIDE DEF new
  <2>3. RbShape'
    BY <1>1, <2>1, <2>2, PathIs DEF RbShape
  <2>4. PathIsWhole' /\ SomethingIsThere' /\ BuiltIsWhole' /\ StageTrue'
    BY <1>1, <1>2, <2>1, <2>2 DEF RbInv, PathIsWhole, SomethingIsThere, BuiltIsWhole, StageTrue, WasConsented
  <2>5. QED BY <2>3, <2>4 DEF RbInv
<1>5. QED BY <1>3, <1>4 DEF Configure

\* Every step of the rebuild keeps its invariant.
LEMMA RbInvNext == ASSUME RbInv, [RbNext]_rbVars PROVE RbInv'
<1>1. CASE Damage BY <1>1, DamageKeeps
<1>2. CASE Die BY <1>2, ExitKeeps DEF Die, Exit
<1>3. CASE CleanStop BY <1>3, StopKeeps
<1>4. CASE Begin \/ FinishSkipped BY <1>4, BeginKeeps
<1>5. CASE FinishAsides BY <1>5, AsideWalKeeps DEF FinishAsides
<1>6. CASE Place BY <1>6, PlaceKeeps
<1>7. CASE OpenDatabase BY <1>7, OpenKeeps
<1>8. CASE BuildStarts BY <1>8, BuildStartsKeeps
<1>9. CASE BuildEnds BY <1>9, BuildEndsKeeps
<1>10. CASE AsideMain("aside", "aside wal") BY <1>10, AsideMainKeeps
<1>11. CASE AsideWal("aside wal", "place") BY <1>11, AsideWalKeeps
<1>12. CASE Configure BY <1>12, ConfigureKeeps
<1>13. CASE UNCHANGED rbVars
  BY <1>13 DEF rbVars, RbInv, RbShape, PathIsWhole, SomethingIsThere, BuiltIsWhole, StageTrue, WasConsented
<1>14. QED
  BY <1>1, <1>2, <1>3, <1>4, <1>5, <1>6, <1>7, <1>8, <1>9, <1>10, <1>11, <1>12, <1>13 DEF RbNext

\* Whatever dies and whatever is damaged, and wherever a start was when it
\* ended: what is at the path is whole and its log is its own, a replacement
\* waits beside an empty path or nothing was ever there, and what answers for a
\* database moved aside knows that the install was past its offer.
THEOREM StartsAreRecoverable == RbSpec => []RbInv
<1>1. QED BY RbInvInit, RbInvNext, PTL DEF RbSpec

\* The daemon runs on the install's own database or on a whole replacement that
\* holds access and remembers the consent, never on a brand-new store where
\* another was, and never through another's log.
THEOREM DaemonRunsOnItsStore == RbSpec => []RunsOnItsStore
<1>1. ASSUME RbInv PROVE RunsOnItsStore
  BY <1>1 DEF RbInv, PathIsWhole, StageTrue, WasConsented, RunsOnItsStore, At
<1>2. QED BY <1>1, StartsAreRecoverable, PTL

-----------------------------------------------------------------------------
(* Digest: what is told of the time that passes                            *)

DgShape ==
    /\ dgNow \in Nat \ {0} /\ dgStored \in Nat /\ dgFreq \in Nat
    /\ dgMem \in [last : Nat, pending : Nat]
    /\ dgLoop \in [at : {"down", "started", "waiting", "delivered"}, due : Int]
    /\ dgTold.until \in Nat /\ dgLapsed \in BOOLEAN /\ dgForgot \in BOOLEAN

\* A tick comes when it is due, and the one after a delivery a check interval later.
TicksInTime ==
    /\ ~dgLapsed => dgNow <= dgLoop.due
    /\ dgLoop.at = "delivered" => dgLoop.due <= dgTold.until + CheckInterval

\* A window that is retried starts no earlier than the watermark it was made from.
RetryIsLate ==
    dgMem.pending # 0 =>
        /\ dgMem.last <= dgMem.pending
        /\ dgMem.last = 0 => dgStored # 0 /\ dgStored <= dgMem.pending

\* While what was told is known, the watermark is where it ended, in memory or
\* in the table; a retry starts there, and so does the window of a tick in time.
WatermarkKnown ==
    ~dgForgot /\ dgLoop.at # "delivered" =>
        /\ dgTold.until <= dgNow /\ dgStored <= dgTold.until
        /\ dgMem.last \in {0, dgTold.until} /\ (dgMem.last = 0 => dgStored = dgTold.until)
        /\ dgMem.pending # 0 => dgMem.pending >= dgTold.until
        /\ ~dgLapsed /\ dgMem.pending # 0 => dgMem.pending = dgTold.until
        /\ ~dgLapsed /\ dgTold.until # 0 /\ dgFreq # 0 /\ dgMem.pending = 0 =>
              dgLoop.due <= dgTold.until + dgFreq + CheckInterval

DgInv == DgShape /\ TicksInTime /\ RetryIsLate /\ WatermarkKnown

\* Max of two integers is one of them, and below neither.
LEMMA HigherOfTwo ==
    ASSUME NEW a \in Int, NEW b \in Int
    PROVE  Max({a, b}) \in {a, b} /\ Max({a, b}) >= a /\ Max({a, b}) >= b
<1>1. \E m \in {a, b} : \A n \in {a, b} : m >= n
  <2>1. CASE a >= b BY <2>1
  <2>2. CASE b >= a BY <2>2
  <2>3. QED BY <2>1, <2>2
<1>2. QED BY <1>1 DEF Max

\* The fields of the digest's state, spelled out.
LEMMA DgFields ==
    ASSUME DgShape
    PROVE  /\ dgNow \in Nat /\ dgNow > 0 /\ dgStored \in Nat /\ dgFreq \in Nat /\ dgTold.until \in Nat
           /\ dgMem.last \in Nat /\ dgMem.pending \in Nat
           /\ dgMem = [last |-> dgMem.last, pending |-> dgMem.pending]
           /\ dgLoop.due \in Int /\ dgLoop = [at |-> dgLoop.at, due |-> dgLoop.due]
           /\ CheckInterval \in Nat
  BY DigestAssumption DEF DgShape

\* The copies in memory, less what the clock contradicts.
LEMMA MemoryIs ==
    ASSUME DgShape, RetryIsLate
    PROVE  /\ Memory \in [last : Nat, pending : Nat]
           /\ Memory.last \in {0, dgMem.last} /\ Memory.last <= dgNow
           /\ Memory.pending \in {0, dgMem.pending} /\ Memory.pending <= dgNow
           /\ dgMem.last <= dgNow => Memory.last = dgMem.last
           /\ dgMem.pending <= dgNow => Memory.pending = dgMem.pending
           /\ Memory.pending # 0 => Memory.last = dgMem.last
           /\ Credible(dgStored) \in Nat /\ Credible(dgStored) \in {0, dgStored}
           /\ dgStored <= dgNow => Credible(dgStored) = dgStored
<1>1. Memory = [last |-> Credible(dgMem.last), pending |-> Credible(dgMem.pending)]
  BY DEF Memory
<1>2. \A t \in Nat : /\ Credible(t) \in Nat /\ Credible(t) \in {0, t} /\ Credible(t) <= dgNow
                     /\ t <= dgNow => Credible(t) = t
  BY DgFields DEF Credible
<1>3. Memory.last = Credible(dgMem.last) /\ Memory.pending = Credible(dgMem.pending)
  BY <1>1
<1>4. Memory.pending # 0 => dgMem.pending # 0 /\ dgMem.pending <= dgNow
  BY <1>2, <1>3, DgFields
<1>5. Memory.pending # 0 => dgMem.last <= dgNow
  BY <1>4, DgFields DEF RetryIsLate
<1>6. QED BY <1>1, <1>2, <1>3, <1>5, DgFields

\* The watermark a tick goes by.
LEMMA LastIs ==
    ASSUME DgShape, RetryIsLate, NEW last \in LastSent
    PROVE  /\ last \in Nat /\ Memory.last <= last /\ last <= dgNow
           /\ Memory.last = 0 => last = Credible(dgStored)
           /\ last = 0 => Credible(dgStored) = 0 /\ Memory.last = 0
           /\ last # 0 => last \in {Credible(dgStored), Memory.last}
<1>1. Credible(dgStored) \in Nat /\ Memory.last \in Nat /\ Memory.last <= dgNow /\ Credible(dgStored) <= dgNow
  BY MemoryIs, DgFields DEF Credible
<1>2. /\ ReadOK \in {Credible(dgStored), Memory.last}
      /\ ReadOK >= Credible(dgStored) /\ ReadOK >= Memory.last
  BY <1>1, HigherOfTwo DEF ReadOK
<1>3. last = ReadOK \/ (last = Memory.last /\ Memory.last # 0)
  BY DEF LastSent
<1>4. QED BY <1>1, <1>2, <1>3, DgFields

\* It is where the last digest ended, as long as that is known.
LEMMA WatermarkIs ==
    ASSUME DgInv, ~dgForgot, dgLoop.at # "delivered", NEW last \in LastSent
    PROVE  last = dgTold.until /\ Memory.last = dgMem.last /\ Memory.last \in {0, dgTold.until}
<1>1. DgShape /\ RetryIsLate
  BY DEF DgInv
<1>2. /\ dgTold.until <= dgNow /\ dgStored <= dgTold.until
      /\ dgMem.last \in {0, dgTold.until} /\ (dgMem.last = 0 => dgStored = dgTold.until)
  BY DEF DgInv, WatermarkKnown
<1>3. dgMem.last <= dgNow /\ dgStored <= dgNow
  BY <1>1, <1>2, DgFields
<1>4. Memory.last = dgMem.last /\ Credible(dgStored) = dgStored
  BY <1>1, <1>3, MemoryIs
<1>5. /\ last \in Nat /\ Memory.last <= last
      /\ Memory.last = 0 => last = dgStored
      /\ last = 0 => dgStored = 0 /\ Memory.last = 0
      /\ last # 0 => last \in {dgStored, Memory.last}
  BY <1>1, <1>4, LastIs
<1>6. QED BY <1>1, <1>2, <1>4, <1>5, DgFields

\* A window begins no earlier than the end of the last one told, and right there
\* unless a lapse came between; a refused window keeps its start.
LEMMA WindowStartIs ==
    ASSUME DgInv, NEW last \in LastSent, last # 0, dgFreq # 0
    PROVE  /\ WindowStart(last) \in Nat /\ WindowStart(last) # 0
           /\ Memory.pending = 0 => last <= WindowStart(last)
           /\ Memory.pending # 0 => WindowStart(last) = dgMem.pending
           /\ ~dgForgot /\ dgLoop.at # "delivered" => WindowStart(last) >= dgTold.until
           /\ ~dgForgot /\ dgLoop.at # "delivered" /\ ~dgLapsed => WindowStart(last) = dgTold.until
<1>1. DgShape /\ RetryIsLate
  BY DEF DgInv
<1>2. last \in Nat /\ last <= dgNow
  BY <1>1, LastIs
<1>3. Memory.pending \in Nat /\ Memory.pending \in {0, dgMem.pending}
  BY <1>1, MemoryIs
<1>4. CASE Memory.pending # 0
  <2>1. WindowStart(last) = dgMem.pending /\ dgMem.pending # 0
    BY <1>3, <1>4 DEF WindowStart
  <2>2. ~dgForgot /\ dgLoop.at # "delivered" =>
           dgMem.pending >= dgTold.until /\ (~dgLapsed => dgMem.pending = dgTold.until)
    BY <2>1 DEF DgInv, WatermarkKnown
  <2>3. QED BY <1>1, <1>4, <2>1, <2>2, DgFields
<1>5. CASE Memory.pending = 0
  <2>1. WindowStart(last) = IF dgNow - last > dgFreq + CheckInterval THEN dgNow - dgFreq ELSE last
    BY <1>5 DEF WindowStart, FreshStart
  <2>2. WindowStart(last) \in Nat /\ WindowStart(last) >= last /\ WindowStart(last) # 0
    BY <1>1, <1>2, <2>1, DgFields
  <2>3. ASSUME ~dgForgot, dgLoop.at # "delivered"
        PROVE  last = dgTold.until /\ (~dgLapsed => WindowStart(last) = last)
    <3>1. last = dgTold.until /\ dgTold.until <= dgNow
      BY <2>3, WatermarkIs DEF DgInv, WatermarkKnown
    <3>2. dgMem.pending = 0 \/ dgMem.pending = dgTold.until \/ dgLapsed
      BY <2>3 DEF DgInv, WatermarkKnown
    <3>3. dgMem.pending <= dgNow => dgMem.pending = 0
      BY <1>1, <1>5, MemoryIs
    <3>4. ~dgLapsed => dgMem.pending = 0
      BY <3>1, <3>2, <3>3
    <3>5. ~dgLapsed => dgLoop.due <= dgTold.until + dgFreq + CheckInterval /\ dgNow <= dgLoop.due
      BY <2>3, <3>1, <3>4 DEF DgInv, WatermarkKnown, TicksInTime
    <3>6. ~dgLapsed => ~(dgNow - last > dgFreq + CheckInterval)
      BY <1>1, <3>1, <3>5, DgFields
    <3>7. QED BY <2>1, <3>1, <3>6
  <2>4. QED BY <1>2, <1>5, <2>2, <2>3
<1>6. QED BY <1>4, <1>5

\* Two watermarks and a window after the other: the digests tile the time.
LEMMA StepTiles ==
    ASSUME DgInv, [DgNext]_dgVars, dgTold' # dgTold
    PROVE  /\ dgForgot \/ dgTold'.since >= dgTold.until
           /\ dgForgot \/ dgLapsed \/ dgTold.until = 0 \/ dgTold'.since = dgTold.until
<1>1. TickArms \/ TickSends
  BY DEF DgNext, dgVars, TickGated, TickUnread, TickNotDue, Recorded, DigestDies, DigestStarts, TimeGoes,
         DigestSetBack, CadenceSet
<1>2. dgLoop.at # "delivered" /\ dgFreq # 0
  BY <1>1 DEF TickArms, TickSends, Ticking
<1>3. CASE TickArms
  <2>1. 0 \in LastSent /\ dgTold'.since = dgNow
    BY <1>3 DEF TickArms, Told
  <2>2. ~dgForgot => dgTold.until = 0
    BY <1>2, <2>1, WatermarkIs
  <2>3. QED BY <2>1, <2>2, DgFields DEF DgInv
<1>4. CASE TickSends
  <2>1. PICK last \in LastSent \ {0} : Told(WindowStart(last))
    BY <1>4 DEF TickSends
  <2>2. dgTold'.since = WindowStart(last)
    BY <2>1 DEF Told
  <2>3. QED BY <1>2, <2>1, <2>2, WindowStartIs
<1>5. QED BY <1>1, <1>3, <1>4

\* Nothing was told before the first digest.
LEMMA DgInvInit == ASSUME DgInit PROVE DgInv
<1>1. /\ dgNow = 1 /\ dgStored = 0 /\ dgMem.last = 0 /\ dgMem.pending = 0 /\ dgLoop.due = 1 /\ dgLoop.at = "started"
      /\ dgTold.until = 0 /\ dgLapsed = FALSE /\ dgForgot = FALSE
  BY DEF DgInit, NothingKnown
<1>2. DgShape
  <2>1. dgFreq \in Nat
    BY DigestAssumption DEF DgInit
  <2>2. dgMem \in [last : Nat, pending : Nat]
    BY DEF DgInit, NothingKnown
  <2>3. dgLoop \in [at : {"down", "started", "waiting", "delivered"}, due : Int]
    BY DEF DgInit
  <2>4. dgLapsed \in BOOLEAN /\ dgForgot \in BOOLEAN
    BY <1>1, Zenon
  <2>5. dgNow \in Nat \ {0} /\ dgStored \in Nat /\ dgTold.until \in Nat
    BY <1>1
  <2>6. QED BY <2>1, <2>2, <2>3, <2>4, <2>5 DEF DgShape
<1>3. QED BY <1>1, <1>2 DEF DgInv, TicksInTime, RetryIsLate, WatermarkKnown

\* A tick that only looks: the next one is a check interval away.
LEMMA TickIs ==
    ASSUME DgShape, TickOver
    PROVE  /\ dgLoop' \in [at : {"down", "started", "waiting", "delivered"}, due : Int]
           /\ dgLoop'.at = "waiting" /\ dgLoop'.due = dgNow + CheckInterval
  BY DgFields DEF TickOver

\* A tick that is gated off drops the retry; the watermark stays.
LEMMA GatedKeeps == ASSUME DgInv, TickGated PROVE DgInv'
<1>1. /\ DgShape /\ dgLoop.at # "delivered" /\ UNCHANGED <<dgNow, dgFreq, dgStored, dgTold, dgForgot>>
      /\ dgMem' = [dgMem EXCEPT !.pending = 0] /\ TickOver /\ dgLapsed' = TRUE
  BY DEF DgInv, TickGated, Ticking, Outside
<1>2. dgMem' = [last |-> dgMem.last, pending |-> 0]
  BY <1>1, DgFields
<1>3. DgShape'
  <2>1. dgLapsed' \in BOOLEAN BY <1>1, Zenon
  <2>2. QED BY <1>1, <1>2, <2>1, TickIs, DgFields DEF DgShape
<1>4. TicksInTime' /\ RetryIsLate' /\ WatermarkKnown'
  BY <1>1, <1>2, TickIs DEF DgInv, TicksInTime, RetryIsLate, WatermarkKnown
<1>5. QED BY <1>3, <1>4 DEF DgInv

\* Nothing but the copies changes: what the clock contradicts is dropped.
LEMMA MemoryKeeps ==
    ASSUME DgInv, dgLoop.at # "delivered", TickOver, dgMem' = Memory,
           UNCHANGED <<dgNow, dgFreq, dgStored, dgTold, dgForgot>>,
           dgLapsed' \in BOOLEAN, ~dgLapsed' => ~dgLapsed,
           ~dgForgot /\ ~dgLapsed' /\ dgFreq # 0 => dgNow <= dgTold.until + dgFreq
    PROVE  DgInv'
<1>1. DgShape /\ RetryIsLate
  BY DEF DgInv
<1>2. /\ dgMem'.last \in {0, dgMem.last} /\ dgMem'.pending \in {0, dgMem.pending}
      /\ dgMem'.pending # 0 => dgMem'.last = dgMem.last
      /\ dgMem.last <= dgNow => dgMem'.last = dgMem.last
      /\ dgMem' \in [last : Nat, pending : Nat]
  BY <1>1, MemoryIs
<1>3. DgShape'
  BY <1>1, <1>2, TickIs DEF DgShape
<1>4. TicksInTime'
  <2>1. dgLoop'.at = "waiting" /\ dgLoop'.due = dgNow + CheckInterval /\ dgNow' = dgNow
    BY <1>1, TickIs
  <2>2. QED BY <1>1, <2>1, DgFields DEF TicksInTime
<1>5. RetryIsLate'
  BY <1>1, <1>2 DEF RetryIsLate
<1>6. WatermarkKnown'
  <2>1. SUFFICES ASSUME ~dgForgot
                 PROVE  WatermarkKnown'
    BY DEF WatermarkKnown
  <2>2. /\ dgTold.until <= dgNow /\ dgStored <= dgTold.until
        /\ dgMem.last \in {0, dgTold.until} /\ (dgMem.last = 0 => dgStored = dgTold.until)
        /\ dgMem.pending # 0 => dgMem.pending >= dgTold.until
        /\ ~dgLapsed /\ dgMem.pending # 0 => dgMem.pending = dgTold.until
    BY <2>1 DEF DgInv, WatermarkKnown
  <2>3. dgMem'.last = dgMem.last
    BY <1>1, <1>2, <2>2, DgFields
  <2>4. dgLoop'.due = dgNow + CheckInterval
    BY <1>1, TickIs
  <2>5. ~dgLapsed' /\ dgFreq # 0 => dgLoop'.due <= dgTold.until + dgFreq + CheckInterval
    BY <1>1, <2>1, <2>4, DgFields
  <2>6. QED BY <1>2, <2>2, <2>3, <2>5 DEF WatermarkKnown
<1>7. QED BY <1>3, <1>4, <1>5, <1>6 DEF DgInv

\* A tick that cannot read the watermark tells nothing and forgets nothing.
LEMMA UnreadKeeps == ASSUME DgInv, TickUnread PROVE DgInv'
<1>1. /\ dgLoop.at # "delivered" /\ UNCHANGED <<dgNow, dgFreq, dgStored, dgTold, dgForgot>>
      /\ dgMem' = Memory /\ TickOver /\ dgLapsed' = TRUE
  BY DEF TickUnread, Ticking, Outside
<1>2. dgLapsed' \in BOOLEAN BY <1>1, Zenon
<1>3. QED BY <1>1, <1>2, MemoryKeeps

\* Nor does a tick before its time.
LEMMA NotDueKeeps == ASSUME DgInv, TickNotDue PROVE DgInv'
<1>1. /\ DgShape /\ dgLoop.at # "delivered" /\ UNCHANGED <<dgNow, dgFreq, dgStored, dgTold, dgForgot>>
      /\ dgMem' = Memory /\ TickOver /\ dgLapsed' = dgLapsed
  BY DEF DgInv, TickNotDue, Ticking, Outside
<1>2. dgLapsed' \in BOOLEAN /\ (~dgLapsed' => ~dgLapsed)
  BY <1>1 DEF DgShape
<1>3. PICK last \in LastSent \ {0} : dgNow - last < dgFreq
  BY DEF TickNotDue
<1>4. ~dgForgot => last = dgTold.until
  BY <1>1, <1>3, WatermarkIs
<1>5. ~dgForgot => dgNow <= dgTold.until + dgFreq
  BY <1>1, <1>3, <1>4, DgFields
<1>6. ~dgForgot /\ ~dgLapsed' /\ dgFreq # 0 => dgNow <= dgTold.until + dgFreq
  BY <1>5
<1>7. QED BY <1>1, <1>2, <1>6, MemoryKeeps

\* Armed at the clock, with no retry left from before.
LEMMA ArmsKeeps == ASSUME DgInv, TickArms PROVE DgInv'
<1>1. /\ DgShape /\ RetryIsLate /\ dgLoop.at # "delivered" /\ UNCHANGED <<dgNow, dgFreq>> /\ TickOver
      /\ 0 \in LastSent /\ dgMem' = [Memory EXCEPT !.last = dgNow] /\ dgStored' \in {dgNow, dgStored}
      /\ dgTold'.until = dgNow /\ dgLapsed' = FALSE /\ dgForgot' = Misled(dgNow, dgStored')
  BY DEF DgInv, TickArms, Ticking, Outside, Told
<1>2. Memory.last = 0 /\ Credible(dgStored) = 0
  BY <1>1, LastIs
<1>3. Memory.pending = 0
  <2>1. SUFFICES ASSUME Memory.pending # 0 PROVE FALSE
    OBVIOUS
  <2>2. dgMem.last = 0 /\ Memory.pending = dgMem.pending /\ dgMem.pending <= dgNow
    BY <1>1, <1>2, <2>1, MemoryIs
  <2>3. dgStored # 0 /\ dgStored <= dgMem.pending
    BY <1>1, <2>1, <2>2 DEF RetryIsLate
  <2>4. dgStored <= dgNow
    BY <1>1, <2>2, <2>3, DgFields
  <2>5. QED BY <1>1, <1>2, <2>3, <2>4, MemoryIs
<1>4. dgMem' = [last |-> dgNow, pending |-> 0]
  BY <1>1, <1>3, MemoryIs
<1>5. dgForgot' = (dgNow > dgNow \/ dgStored' > dgNow)
  BY <1>1 DEF Misled
<1>6. DgShape'
  <2>1. dgLapsed' \in BOOLEAN BY <1>1, Zenon
  <2>2. dgForgot' \in BOOLEAN BY <1>5, Zenon
  <2>3. /\ dgMem' \in [last : Nat, pending : Nat]
        /\ dgStored' \in Nat
        /\ dgTold'.until \in Nat
    <3>1. dgNow \in Nat /\ dgStored \in Nat
      BY <1>1, DgFields
    <3>2. dgMem' \in [last : Nat, pending : Nat]
      BY <1>4, <3>1
    <3>3. dgStored' \in Nat
      BY <1>1, <3>1
    <3>4. dgTold'.until \in Nat
      BY <1>1, <3>1
    <3>5. QED BY <3>2, <3>3, <3>4
  <2>4. dgLoop' \in [at : {"down", "started", "waiting", "delivered"}, due : Int]
    BY <1>1, TickIs
  <2>5. QED BY <1>1, <2>1, <2>2, <2>3, <2>4 DEF DgShape
<1>7. dgLoop'.at = "waiting" /\ dgLoop'.due = dgNow + CheckInterval
  BY <1>1, TickIs
<1>8. TicksInTime' /\ RetryIsLate'
  BY <1>1, <1>4, <1>7, DgFields DEF TicksInTime, RetryIsLate
<1>9. WatermarkKnown'
  <2>1. ~dgForgot' => dgStored' <= dgNow
    <3>1. ~dgForgot' => ~(dgStored' > dgNow)
      BY <1>5, Zenon
    <3>2. dgStored' \in Nat
      BY <1>6 DEF DgShape
    <3>3. QED BY <1>1, <3>1, <3>2, DgFields
  <2>2. dgNow + CheckInterval <= dgNow + dgFreq + CheckInterval
    BY <1>1, DgFields
  <2>3. QED BY <1>1, <1>4, <1>7, <2>1, <2>2, DgFields DEF WatermarkKnown
<1>10. QED BY <1>6, <1>8, <1>9 DEF DgInv

\* A window is tried: delivered, refused, or delivered with its answer lost.
LEMMA SendsKeeps == ASSUME DgInv, TickSends PROVE DgInv'
<1>1. /\ DgShape /\ RetryIsLate /\ dgLoop.at # "delivered" /\ dgFreq # 0
      /\ UNCHANGED <<dgNow, dgFreq, dgStored>>
  BY DEF DgInv, TickSends, Ticking, Outside
<1>2. PICK last \in LastSent \ {0} :
        /\ dgMem' = [Memory EXCEPT !.pending = WindowStart(last)]
        /\ \/ dgLoop' = [at |-> "delivered", due |-> dgNow + CheckInterval]
              /\ Told(WindowStart(last)) /\ UNCHANGED dgForgot
           \/ TickOver /\ UNCHANGED <<dgTold, dgLapsed, dgForgot>>
           \/ TickOver /\ Told(WindowStart(last)) /\ dgForgot' = TRUE
  BY DEF TickSends
<1> DEFINE start == WindowStart(last)
<1>3. /\ start \in Nat /\ start # 0
      /\ Memory.pending = 0 => last <= start
      /\ Memory.pending # 0 => start = dgMem.pending
      /\ ~dgForgot => start >= dgTold.until
      /\ ~dgForgot /\ ~dgLapsed => start = dgTold.until
  BY <1>1, WindowStartIs
<1>4. /\ Memory \in [last : Nat, pending : Nat] /\ Memory.last \in {0, dgMem.last}
      /\ Memory.pending # 0 => Memory.last = dgMem.last
      /\ Memory.pending \in {0, dgMem.pending}
  BY <1>1, MemoryIs
<1> HIDE DEF start
<1>5. dgMem' = [last |-> Memory.last, pending |-> start]
  BY <1>2, <1>4 DEF start
<1>6. dgMem' \in [last : Nat, pending : Nat]
  BY <1>3, <1>4, <1>5
<1>7. RetryIsLate'
  <2>1. CASE Memory.pending # 0
    BY <1>1, <1>3, <1>4, <1>5, <2>1 DEF RetryIsLate
  <2>2. CASE Memory.pending = 0
    <3>1. /\ last \in Nat /\ Memory.last <= last /\ (Memory.last = 0 => last = Credible(dgStored))
          /\ Credible(dgStored) \in {0, dgStored}
      BY <1>1, LastIs, MemoryIs
    <3>2. Memory.last <= start /\ (Memory.last = 0 => dgStored # 0 /\ dgStored <= start)
      BY <1>2, <1>3, <1>4, <2>2, <3>1
    <3>3. QED BY <1>1, <1>5, <3>2 DEF RetryIsLate
  <2>3. QED BY <2>1, <2>2
<1>8. dgNow \in Nat /\ CheckInterval \in Nat /\ dgNow + CheckInterval \in Int
  BY <1>1, DgFields
<1>9. CASE TickOver /\ UNCHANGED <<dgTold, dgLapsed, dgForgot>>
  <2>1. DgShape'
    BY <1>1, <1>6, <1>9, TickIs DEF DgShape
  <2>2. dgLoop'.at = "waiting" /\ dgLoop'.due = dgNow + CheckInterval
    BY <1>1, <1>9, TickIs
  <2>3. TicksInTime'
    BY <1>1, <1>8, <2>2 DEF TicksInTime
  <2>4. WatermarkKnown'
    <3>1. SUFFICES ASSUME ~dgForgot PROVE WatermarkKnown'
      BY <1>9 DEF WatermarkKnown
    <3>2. /\ Memory.last \in {0, dgTold.until} /\ Memory.last = dgMem.last
          /\ dgTold.until <= dgNow /\ dgStored <= dgTold.until
          /\ (dgMem.last = 0 => dgStored = dgTold.until)
      BY <1>1, <1>2, <3>1, WatermarkIs DEF DgInv, WatermarkKnown
    <3>3. QED BY <1>1, <1>3, <1>5, <1>9, <3>1, <3>2 DEF WatermarkKnown
  <2>5. QED BY <1>7, <2>1, <2>3, <2>4 DEF DgInv
<1>10. CASE Told(start)
  <2>1. dgTold'.until = dgNow /\ dgLapsed' = FALSE
    BY <1>10 DEF Told
  <2>2. dgLapsed' \in BOOLEAN BY <2>1, Zenon
  <2>3. CASE dgLoop' = [at |-> "delivered", due |-> dgNow + CheckInterval] /\ UNCHANGED dgForgot
    <3>1. DgShape'
      BY <1>1, <1>6, <1>8, <2>1, <2>2, <2>3 DEF DgShape
    <3>2. TicksInTime' /\ WatermarkKnown'
      BY <1>1, <1>8, <2>1, <2>3 DEF TicksInTime, WatermarkKnown
    <3>3. QED BY <1>7, <3>1, <3>2 DEF DgInv
  <2>4. CASE TickOver /\ dgForgot' = TRUE
    <3>1. dgForgot' \in BOOLEAN BY <2>4, Zenon
    <3>2. DgShape'
      BY <1>1, <1>6, <1>8, <2>1, <2>2, <2>4, <3>1, TickIs DEF DgShape
    <3>3. TicksInTime' /\ WatermarkKnown'
      BY <1>1, <1>8, <2>1, <2>4, TickIs DEF TicksInTime, WatermarkKnown
    <3>4. QED BY <1>7, <3>2, <3>3 DEF DgInv
  <2>5. QED BY <1>2, <1>9, <2>3, <2>4 DEF start
<1>11. QED BY <1>2, <1>9, <1>10 DEF start

\* What is recorded is the end of what was told.
LEMMA RecordedKeeps == ASSUME DgInv, Recorded PROVE DgInv'
<1>1. /\ DgShape /\ dgLoop.at = "delivered" /\ dgStored' \in {dgTold.until, dgStored}
      /\ dgMem' = [last |-> dgTold.until, pending |-> 0] /\ dgLoop' = [dgLoop EXCEPT !.at = "waiting"]
      /\ dgForgot' = (dgTold.until > dgNow \/ dgStored' > dgTold.until)
      /\ UNCHANGED <<dgNow, dgFreq, dgTold, dgLapsed>>
  BY DEF DgInv, Recorded, Misled
<1>2. dgLoop' = [at |-> "waiting", due |-> dgLoop.due]
  BY <1>1, DgFields
<1>3. dgForgot' \in BOOLEAN /\ (~dgForgot' => ~(dgTold.until > dgNow) /\ ~(dgStored' > dgTold.until))
  BY <1>1, Zenon
<1>4. dgStored' \in Nat
  BY <1>1, DgFields
<1>5. DgShape'
  <2>1. dgMem' \in [last : Nat, pending : Nat]
    BY <1>1, DgFields
  <2>2. dgLoop' \in [at : {"down", "started", "waiting", "delivered"}, due : Int]
    BY <1>1, <1>2, DgFields
  <2>3. QED BY <1>1, <1>3, <1>4, <2>1, <2>2 DEF DgShape
<1>6. TicksInTime' /\ RetryIsLate'
  BY <1>1, <1>2 DEF DgInv, TicksInTime, RetryIsLate
<1>7. WatermarkKnown'
  <2>1. dgLoop.due <= dgTold.until + CheckInterval
    BY <1>1 DEF DgInv, TicksInTime
  <2>2. dgLoop.due <= dgTold.until + dgFreq + CheckInterval
    BY <1>1, <2>1, DgFields
  <2>3. ~dgForgot' => dgTold.until <= dgNow /\ dgStored' <= dgTold.until
    BY <1>1, <1>3, <1>4, DgFields
  <2>4. dgTold.until = 0 /\ dgStored' <= dgTold.until => dgStored' = dgTold.until
    BY <1>4
  <2>5. QED BY <1>1, <1>2, <2>2, <2>3, <2>4 DEF WatermarkKnown
<1>8. QED BY <1>5, <1>6, <1>7 DEF DgInv

\* A death forgets a delivery it did not record, and a watermark only the copy had.
LEMMA DiesKeeps == ASSUME DgInv, DigestDies PROVE DgInv'
<1>1. /\ DgShape /\ dgLoop' = [dgLoop EXCEPT !.at = "down"] /\ dgMem' = [last |-> 0, pending |-> 0]
      /\ dgForgot' = (dgForgot \/ dgLoop.at = "delivered" \/ dgMem.last \notin {0, dgStored})
      /\ dgLapsed' = (dgLapsed \/ dgMem.pending # 0)
      /\ UNCHANGED <<dgNow, dgStored, dgFreq, dgTold>>
  BY DEF DgInv, DigestDies, NothingKnown
<1>2. dgLoop' = [at |-> "down", due |-> dgLoop.due]
  BY <1>1, DgFields
<1>3. /\ dgForgot' \in BOOLEAN
      /\ ~dgForgot' => ~dgForgot /\ dgLoop.at # "delivered" /\ dgMem.last \in {0, dgStored}
  BY <1>1, Zenon
<1>4. dgLapsed' \in BOOLEAN /\ (~dgLapsed' => ~dgLapsed /\ dgMem.pending = 0)
  BY <1>1, Zenon
<1>5. DgShape'
  <2>1. dgLoop' \in [at : {"down", "started", "waiting", "delivered"}, due : Int]
    BY <1>1, <1>2, DgFields
  <2>2. dgMem' \in [last : Nat, pending : Nat]
    BY <1>1
  <2>3. QED BY <1>1, <1>3, <1>4, <2>1, <2>2 DEF DgShape
<1>6. TicksInTime' /\ RetryIsLate'
  BY <1>1, <1>2, <1>4 DEF DgInv, TicksInTime, RetryIsLate
<1>7. WatermarkKnown'
  <2>1. ~dgForgot' => /\ dgTold.until <= dgNow /\ dgStored = dgTold.until
                      /\ ~dgLapsed' /\ dgTold.until # 0 /\ dgFreq # 0 =>
                            dgLoop.due <= dgTold.until + dgFreq + CheckInterval
    BY <1>3, <1>4 DEF DgInv, WatermarkKnown
  <2>2. dgStored \in Nat
    BY <1>1, DgFields
  <2>3. QED BY <1>1, <1>2, <2>1, <2>2 DEF WatermarkKnown
<1>8. QED BY <1>5, <1>6, <1>7 DEF DgInv

\* The digests' loop starts with whatever is stored.
LEMMA StartsKeeps == ASSUME DgInv, DigestStarts PROVE DgInv'
<1>1. /\ DgShape /\ dgLoop.at = "down" /\ dgLoop' = [dgLoop EXCEPT !.at = "started"]
      /\ UNCHANGED <<dgNow, dgStored, dgMem, dgFreq, dgTold, dgLapsed, dgForgot>>
  BY DEF DgInv, DigestStarts
<1>2. dgLoop' = [at |-> "started", due |-> dgLoop.due]
  BY <1>1, DgFields
<1>3. DgShape'
  BY <1>1, <1>2, DgFields DEF DgShape
<1>4. TicksInTime' /\ RetryIsLate' /\ WatermarkKnown'
  BY <1>1, <1>2 DEF DgInv, TicksInTime, RetryIsLate, WatermarkKnown
<1>5. QED BY <1>3, <1>4 DEF DgInv

\* Time alone tells nothing.
LEMMA TimeKeeps == ASSUME DgInv, TimeGoes PROVE DgInv'
<1>1. /\ DgShape /\ dgNow' = dgNow + 1 /\ dgLapsed' = (dgLapsed \/ dgNow >= dgLoop.due)
      /\ UNCHANGED <<dgStored, dgMem, dgLoop, dgFreq, dgTold, dgForgot>>
  BY DEF DgInv, TimeGoes
<1>2. dgLapsed' \in BOOLEAN /\ (~dgLapsed' => ~dgLapsed /\ ~(dgNow >= dgLoop.due))
  BY <1>1, Zenon
<1>3. dgNow' \in Nat \ {0}
  BY <1>1, DgFields
<1>4. DgShape'
  BY <1>1, <1>2, <1>3 DEF DgShape
<1>5. TicksInTime'
  <2>1. ~dgLapsed' => dgNow' <= dgLoop.due
    BY <1>1, <1>2, DgFields
  <2>2. QED BY <1>1, <2>1 DEF DgInv, TicksInTime
<1>6. RetryIsLate'
  BY <1>1 DEF DgInv, RetryIsLate
<1>7. WatermarkKnown'
  <2>1. dgTold.until <= dgNow => dgTold.until <= dgNow'
    BY <1>1, DgFields
  <2>2. QED BY <1>1, <1>2, <2>1 DEF DgInv, WatermarkKnown
<1>8. QED BY <1>4, <1>5, <1>6, <1>7 DEF DgInv

\* The ticker keeps its distance; a watermark ahead of the clock is forgotten.
LEMMA SetBackKeeps == ASSUME DgInv, DigestSetBack PROVE DgInv'
<1>1. PICK t \in 1..(dgNow - 1) :
          /\ dgNow' = t /\ dgLoop' = [dgLoop EXCEPT !.due = @ - (dgNow - t)]
          /\ dgForgot' = (dgForgot \/ dgTold.until > t)
  BY DEF DigestSetBack
<1>2. DgShape /\ UNCHANGED <<dgStored, dgMem, dgFreq, dgTold, dgLapsed>>
  BY DEF DgInv, DigestSetBack
<1>3. t \in Nat \ {0} /\ t < dgNow
  BY <1>2, DgFields
<1>4. dgLoop' = [at |-> dgLoop.at, due |-> dgLoop.due - (dgNow - t)]
  BY <1>1, <1>2, DgFields
<1>5. /\ dgLoop'.at = dgLoop.at /\ dgLoop'.due = dgLoop.due - (dgNow - t) /\ dgLoop'.due \in Int
      /\ dgLoop'.due <= dgLoop.due /\ (dgNow <= dgLoop.due => t <= dgLoop'.due)
  BY <1>2, <1>3, <1>4, DgFields
<1>6. dgForgot' \in BOOLEAN /\ (~dgForgot' => ~dgForgot /\ ~(dgTold.until > t))
  BY <1>1, Zenon
<1>7. DgShape'
  <2>1. dgLoop.at \in {"down", "started", "waiting", "delivered"}
    BY <1>2 DEF DgShape
  <2>2. dgLoop' \in [at : {"down", "started", "waiting", "delivered"}, due : Int]
    BY <1>4, <1>5, <2>1
  <2>3. QED BY <1>1, <1>2, <1>3, <1>6, <2>2 DEF DgShape
<1>8. TicksInTime'
  <2>1. dgLoop.due <= dgTold.until + CheckInterval => dgLoop'.due <= dgTold.until + CheckInterval
    BY <1>2, <1>5, DgFields
  <2>2. QED BY <1>1, <1>2, <1>5, <2>1 DEF DgInv, TicksInTime
<1>9. RetryIsLate'
  BY <1>2 DEF DgInv, RetryIsLate
<1>10. WatermarkKnown'
  <2>1. ~dgForgot' => dgTold.until <= t
    BY <1>2, <1>3, <1>6, DgFields
  <2>2. dgLoop.due <= dgTold.until + dgFreq + CheckInterval =>
           dgLoop'.due <= dgTold.until + dgFreq + CheckInterval
    BY <1>2, <1>5, DgFields
  <2>3. QED BY <1>1, <1>2, <1>5, <1>6, <2>1, <2>2 DEF DgInv, WatermarkKnown
<1>11. QED BY <1>7, <1>8, <1>9, <1>10 DEF DgInv

\* A new cadence moves no window that was told.
LEMMA CadenceKeeps == ASSUME DgInv, CadenceSet PROVE DgInv'
<1>1. /\ DgShape /\ dgFreq' \in Periods \cup {0}
      /\ dgLapsed' = (dgLapsed \/ (dgFreq' # 0 /\ (dgFreq' < dgFreq \/ dgFreq = 0)))
      /\ UNCHANGED <<dgNow, dgStored, dgMem, dgLoop, dgTold, dgForgot>>
  BY DEF DgInv, CadenceSet
<1>2. dgFreq' \in Nat
  BY <1>1, DigestAssumption
<1>3. /\ dgLapsed' \in BOOLEAN
      /\ ~dgLapsed' => ~dgLapsed /\ (dgFreq' = 0 \/ (~(dgFreq' < dgFreq) /\ dgFreq # 0))
  BY <1>1, Zenon
<1>4. DgShape'
  BY <1>1, <1>2, <1>3 DEF DgShape
<1>5. TicksInTime' /\ RetryIsLate'
  BY <1>1, <1>3 DEF DgInv, TicksInTime, RetryIsLate
<1>6. WatermarkKnown'
  <2>1. ~dgLapsed' /\ dgFreq' # 0 =>
           /\ dgFreq # 0
           /\ dgLoop.due <= dgTold.until + dgFreq + CheckInterval =>
                 dgLoop.due <= dgTold.until + dgFreq' + CheckInterval
    BY <1>1, <1>2, <1>3, DgFields
  <2>2. QED BY <1>1, <1>3, <2>1 DEF DgInv, WatermarkKnown
<1>7. QED BY <1>4, <1>5, <1>6 DEF DgInv

\* Every step of the digests keeps their invariant.
LEMMA DgInvNext == ASSUME DgInv, [DgNext]_dgVars PROVE DgInv'
<1>1. CASE TickGated BY <1>1, GatedKeeps
<1>2. CASE TickUnread BY <1>2, UnreadKeeps
<1>3. CASE TickArms BY <1>3, ArmsKeeps
<1>4. CASE TickNotDue BY <1>4, NotDueKeeps
<1>5. CASE TickSends BY <1>5, SendsKeeps
<1>6. CASE Recorded BY <1>6, RecordedKeeps
<1>7. CASE DigestDies BY <1>7, DiesKeeps
<1>8. CASE DigestStarts BY <1>8, StartsKeeps
<1>9. CASE TimeGoes BY <1>9, TimeKeeps
<1>10. CASE DigestSetBack BY <1>10, SetBackKeeps
<1>11. CASE CadenceSet BY <1>11, CadenceKeeps
<1>12. CASE UNCHANGED dgVars
  BY <1>12 DEF dgVars, DgInv, DgShape, TicksInTime, RetryIsLate, WatermarkKnown
<1>13. QED
  BY <1>1, <1>2, <1>3, <1>4, <1>5, <1>6, <1>7, <1>8, <1>9, <1>10, <1>11, <1>12 DEF DgNext

\* While what arrived last is known, the watermark is where it ended, and a
\* window that was refused is kept from there, whatever fails or dies.
THEOREM WatermarkIsTold == DgSpec => []DgInv
<1>1. QED BY DgInvInit, DgInvNext, PTL DEF DgSpec

\* The digests tile the time: none begins before the end of the one before it
\* unless what was told is not known, and none after it unless nobody was there.
THEOREM DigestsDoTile == DgSpec => DigestsTile
<1>1. ASSUME DgInv, [DgNext]_dgVars
      PROVE  [dgTold' # dgTold =>
                /\ dgForgot \/ dgTold'.since >= dgTold.until
                /\ dgForgot \/ dgLapsed \/ dgTold.until = 0 \/ dgTold'.since = dgTold.until]_dgVars
  BY <1>1, StepTiles
<1>2. QED BY <1>1, WatermarkIsTold, PTL DEF DgSpec, DigestsTile

-----------------------------------------------------------------------------
(* Restore: the reply tells of every restored row that is gone, or goes    *)

RsPlaces == {"idle", "tally", "mark", "rows", "due", "ahead", "reply", "done"}
RsRows == [id : Nat \ {0}, age : {Old, New, FarAhead}, own : BOOLEAN]
Counts == [due : Nat, ahead : Nat]
RsImports ==
    [pc : RsPlaces, mark : Nat, clearedAt : Nat, oldest : {Old, FarAhead}, landed : BOOLEAN, cut : Cutoffs,
     emptied : Nat, due : Nat, ahead : Nat, there : Counts, told : SUBSET {"due", "ahead", "clear", "gone", "counted"}]
Watches == [rows : {0, 1}, cut : {0, 1, 2}, cleared : Nat, clearing : {"no", "begun", "emptied"}]
Top == 2 + rsUsed.own + rsUsed.restored

RsShape ==
    /\ rsRows \subseteq RsRows /\ IsFiniteSet(rsRows)
    /\ \A r \in rsRows : r.id <= Top
    /\ \A r, s \in rsRows : r.id = s.id => r = s
    /\ rsCut \in Cutoffs /\ rsPass \in [pc : {"off", "age", "ahead"}, cut : Cutoffs]
    /\ rsWatch \in Watches /\ rsImport \in RsImports
    /\ rsUsed \in [restored : 0..MaxRestored, own : 0..MaxOwn, clears : Nat]

\* The daemon's own old row is older than a row of its own that no cleanup
\* takes; once the table was emptied it is gone.
OwnRows ==
    /\ \A r \in rsRows : r.age \in {Old, IF r.own THEN New ELSE FarAhead}
    /\ \A r \in rsRows : r.own /\ r.age = Old =>
          /\ rsWatch.clearing # "emptied" /\ rsWatch.cleared = 0
          /\ \E s \in rsRows : s.own /\ s.age = New /\ s.id > r.id

Restored == {r \in rsRows : ~r.own}

\* Restored rows are of this restore, and no older than it knows.
RestoredLanded ==
    /\ \A r \in Restored : rsImport.landed /\ r.age >= rsImport.oldest
    /\ rsImport.landed => rsImport.pc \in {"rows", "due", "ahead", "reply", "done"}

\* Of how often the table was emptied, the restore knows no more than there was.
ClearsSeen ==
    /\ rsImport.pc \in {"mark", "rows", "due", "ahead", "reply"} => rsImport.clearedAt <= rsWatch.cleared
    /\ rsImport.pc \in {"due", "ahead", "reply"} =>
          rsImport.clearedAt <= rsImport.emptied /\ rsImport.emptied <= rsWatch.cleared

\* While the table has not been emptied since it was marked, the restored rows
\* are the ones past the mark; and the daemon's old row is never past it.
MarkStands ==
    rsImport.pc \in {"rows", "due", "ahead", "reply"} =>
        /\ \A r \in rsRows : r.own /\ r.age = Old => r.id <= rsImport.mark
        /\ rsWatch.clearing # "emptied" /\ rsWatch.cleared = rsImport.clearedAt =>
              /\ rsImport.mark = 0 \/ \E r \in rsRows : r.own /\ r.age = New /\ r.id = rsImport.mark
              /\ \A r \in Restored : r.id > rsImport.mark

\* What is counted is what is there, unless a Delete now undoes the count.
Undone == rsImport.landed /\ (rsWatch.clearing = "emptied" \/ rsWatch.cleared # rsImport.emptied)
CountsTrue ==
    /\ rsImport.pc \in {"ahead", "reply"} =>
          /\ Undone \/ rsImport.due = rsImport.there.due
          /\ \A r \in Restored : r.age < rsImport.cut => rsImport.there.due > 0
    /\ rsImport.pc = "reply" =>
          /\ Undone \/ rsImport.ahead = rsImport.there.ahead
          /\ \A r \in Restored : r.age = FarAhead => rsImport.there.ahead > 0

\* What is lost before the reply is in the watch.
LossesWatched ==
    rsImport.pc # "done" =>
        /\ <<"during", "age">> \in rsLost => rsImport.landed /\ rsWatch.rows > 0 /\ rsImport.oldest < rsWatch.cut
        /\ <<"during", "clear">> \in rsLost =>
              rsImport.landed /\ (rsWatch.clearing = "emptied" \/ rsWatch.cleared > rsImport.clearedAt)
        /\ <<"next", "age">> \notin rsLost /\ <<"next", "ahead">> \notin rsLost

\* What goes after the reply was told in it.
ReplyStands ==
    rsImport.pc = "done" =>
        /\ <<"during", "age">> \in rsLost => "gone" \in rsImport.told
        /\ <<"during", "clear">> \in rsLost => "clear" \in rsImport.told
        /\ <<"next", "age">> \in rsLost \/ (\E r \in Restored : r.age < rsImport.cut)
              => rsImport.told \cap {"due", "clear"} # {}
        /\ <<"next", "ahead">> \in rsLost \/ (\E r \in Restored : r.age = FarAhead)
              => rsImport.told \cap {"ahead", "clear"} # {}
        /\ "counted" \in rsImport.told => rsImport.there = [due |-> rsImport.due, ahead |-> rsImport.ahead]

RsInv ==
    /\ RsShape /\ OwnRows /\ RestoredLanded /\ ClearsSeen /\ MarkStands
    /\ CountsTrue /\ LossesWatched /\ ReplyStands

-----------------------------------------------------------------------------
\* Min of two integers is one of them, and above neither.
LEMMA LowerOfTwo ==
    ASSUME NEW a \in Int, NEW b \in Int
    PROVE  Min({a, b}) \in {a, b} /\ Min({a, b}) <= a /\ Min({a, b}) <= b
<1>1. \E m \in {a, b} : \A n \in {a, b} : m <= n
  <2>1. CASE a <= b BY <2>1
  <2>2. CASE b <= a BY <2>2
  <2>3. QED BY <2>1, <2>2
<1>2. QED BY <1>1 DEF Min

\* A set of numbers under a bound has a greatest.
LEMMA GreatestIs ==
    ASSUME NEW bound \in Nat, NEW ns \in SUBSET (0..bound), ns # {}
    PROVE  Max(ns) \in ns /\ \A n \in ns : n <= Max(ns)
<1> DEFINE below == {bound - n : n \in ns}
<1>1. below \subseteq Nat /\ below # {}
  <2>1. \A n \in ns : n \in 0..bound
    OBVIOUS
  <2>2. \A n \in ns : bound - n \in Nat
    BY <2>1
  <2>3. QED BY <2>2
<1>2. PICK x \in below : \A y \in below : ~(<<y, x>> \in OpToRel(<, Nat))
  BY <1>1, NatLessThanWellFounded, WFMin
<1>3. \A y \in below : x <= y
  <2>1. OpToRel(<, Nat) = {ss \in Nat \X Nat : ss[1] < ss[2]}
    BY DEF OpToRel
  <2> SUFFICES ASSUME NEW y \in below, y < x PROVE FALSE
    BY <1>1
  <2>2. <<y, x>> \in {ss \in Nat \X Nat : ss[1] < ss[2]}
    BY <1>1
  <2>3. QED BY <1>2, <2>1, <2>2
<1>4. PICK m \in ns : x = bound - m
  BY <1>2
<1>5. \A n \in ns : m >= n
  <2> SUFFICES ASSUME NEW n \in ns PROVE m >= n
    OBVIOUS
  <2>1. bound - n \in below
    OBVIOUS
  <2>2. n \in Nat /\ m \in Nat /\ bound - m <= bound - n
    BY <1>3, <1>4, <2>1
  <2>3. QED BY <2>2
<1>6. QED BY <1>5 DEF Max

\* The rowid a new row gets is past every row's.
LEMMA NextIdIs ==
    ASSUME RsShape
    PROVE  /\ NextId \in Nat \ {0} /\ NextId <= Top + 1 /\ Top \in Nat
           /\ \A r \in rsRows : r.id < NextId
           /\ NextId = 1 \/ \E r \in rsRows : r.id = NextId - 1
<1> DEFINE ids == {r.id : r \in rsRows} \cup {0}
<1>1. Top \in Nat
  BY RestoreAssumption DEF RsShape, Top
<1>2. \A r \in rsRows : r.id \in 0..Top
  BY <1>1 DEF RsShape, RsRows
<1>3. ids \in SUBSET (0..Top) /\ ids # {}
  BY <1>1, <1>2
<1> DEFINE m == Max(ids)
<1>4. m \in ids /\ \A n \in ids : n <= m
  BY <1>1, <1>3, GreatestIs
<1>5. NextId = m + 1
  BY DEF NextId
<1>6. m \in 0..Top /\ (m = 0 \/ \E r \in rsRows : r.id = m) /\ \A r \in rsRows : r.id <= m
  BY <1>3, <1>4
<1> HIDE DEF m, ids
<1>7. \A r \in rsRows : r.id \in Nat /\ r.id < m + 1
  BY <1>2, <1>6
<1>8. m + 1 - 1 = m /\ m + 1 \in Nat \ {0} /\ m + 1 <= Top + 1
  BY <1>1, <1>6
<1>9. QED BY <1>1, <1>5, <1>6, <1>7, <1>8

\* Before a restore there are no restored rows to lose.
LEMMA RsInvInit == ASSUME RsInit PROVE RsInv
<1> DEFINE one == [id |-> 1, age |-> Old, own |-> TRUE]
           two == [id |-> 2, age |-> New, own |-> TRUE]
<1>1. rsRows = {one, two} /\ rsCut \in Cutoffs /\ rsLost = {}
  BY DEF RsInit
<1>2. rsPass = [pc |-> "off", cut |-> 1] /\ rsWatch = [rows |-> 0, cut |-> 0, cleared |-> 0, clearing |-> "no"]
      /\ rsImport = NoImport /\ rsUsed = [restored |-> 0, own |-> 0, clears |-> 0]
  BY DEF RsInit
<1>3. one \in RsRows /\ two \in RsRows /\ one.id = 1 /\ two.id = 2 /\ one.age = Old /\ two.age = New /\ one.own /\ two.own
  BY DEF RsRows, Old, New
<1> HIDE DEF one, two
<1>4. IsFiniteSet(rsRows)
  <2>1. IsFiniteSet({one}) /\ IsFiniteSet({two})
    BY FS_Singleton
  <2>2. rsRows = {one} \cup {two}
    BY <1>1
  <2>3. QED BY <2>1, <2>2, FS_Union
<1>5. rsImport \in RsImports /\ rsImport.pc = "idle" /\ ~rsImport.landed
  BY <1>2 DEF NoImport, RsImports, RsPlaces, Cutoffs, Counts, Old, FarAhead
<1>6. rsWatch \in Watches /\ rsWatch.clearing = "no" /\ rsWatch.cleared = 0
  BY <1>2 DEF Watches
<1>7. rsUsed \in [restored : 0..MaxRestored, own : 0..MaxOwn, clears : Nat] /\ Top = 2
  BY <1>2, RestoreAssumption DEF Top
<1>8. rsPass \in [pc : {"off", "age", "ahead"}, cut : Cutoffs]
  BY <1>2 DEF Cutoffs
<1>9. RsShape
  BY <1>1, <1>3, <1>4, <1>5, <1>6, <1>7, <1>8 DEF RsShape
<1>10. OwnRows
  BY <1>1, <1>3, <1>6 DEF OwnRows, Old, New
<1>11. Restored = {}
  BY <1>1, <1>3 DEF Restored
<1>12. RestoredLanded /\ ClearsSeen /\ MarkStands /\ CountsTrue /\ LossesWatched /\ ReplyStands
  BY <1>1, <1>5, <1>11 DEF RestoredLanded, ClearsSeen, MarkStands, CountsTrue, LossesWatched, ReplyStands
<1>13. QED BY <1>9, <1>10, <1>12 DEF RsInv

\* A step that leaves the rows, the restore and what the watch has noted alone.
LEMMA AsideKeeps ==
    ASSUME RsInv, rsRows' = rsRows, rsImport' = rsImport, rsLost' = rsLost, rsUsed' \in [restored : 0..MaxRestored, own : 0..MaxOwn, clears : Nat],
           rsUsed'.own = rsUsed.own, rsUsed'.restored = rsUsed.restored,
           rsWatch' \in Watches, rsWatch'.cleared = rsWatch.cleared, rsWatch'.rows = rsWatch.rows, rsWatch'.cut = rsWatch.cut,
           (rsWatch'.clearing = "emptied") <=> (rsWatch.clearing = "emptied"),
           rsCut' \in Cutoffs, rsPass' \in [pc : {"off", "age", "ahead"}, cut : Cutoffs]
    PROVE  RsInv'
<1>1. RsShape'
  BY DEF RsInv, RsShape, Top
<1>2. OwnRows' /\ RestoredLanded' /\ ClearsSeen'
  BY DEF RsInv, OwnRows, RestoredLanded, ClearsSeen, Restored
<1>3. MarkStands' /\ CountsTrue' /\ LossesWatched'
  BY DEF RsInv, MarkStands, CountsTrue, Undone, LossesWatched, Restored
<1>4. ReplyStands'
  BY DEF RsInv, ReplyStands, Restored
<1>5. QED BY <1>1, <1>2, <1>3, <1>4 DEF RsInv

\* Steps that touch no row keep what is known of the rows.
LEMMA OwnWindowSteps ==
    ASSUME RsInv, PassStarts \/ SetWindow \/ ClearBegins \/ UNCHANGED rsVars
    PROVE  RsInv'
<1>1. RsShape
  BY DEF RsInv
<1>2. CASE PassStarts
  <2>1. rsPass' \in [pc : {"off", "age", "ahead"}, cut : Cutoffs]
    BY <1>1, <1>2 DEF PassStarts, RsShape
  <2>2. QED BY <1>1, <1>2, <2>1, AsideKeeps DEF PassStarts, RsShape
<1>3. CASE SetWindow
  BY <1>1, <1>3, AsideKeeps DEF SetWindow, RsShape
<1>4. CASE ClearBegins
  <2>1. rsWatch' = [rsWatch EXCEPT !.clearing = "begun"] /\ rsWatch.clearing = "no"
    BY <1>4 DEF ClearBegins
  <2>2. /\ rsWatch' \in Watches /\ rsWatch'.cleared = rsWatch.cleared /\ rsWatch'.rows = rsWatch.rows
        /\ rsWatch'.cut = rsWatch.cut /\ rsWatch'.clearing = "begun"
    BY <1>1, <2>1 DEF RsShape, Watches
  <2>3. /\ rsUsed' \in [restored : 0..MaxRestored, own : 0..MaxOwn, clears : Nat]
        /\ rsUsed'.own = rsUsed.own /\ rsUsed'.restored = rsUsed.restored
    <3>1. rsUsed' = [rsUsed EXCEPT !.clears = rsUsed.clears + 1] /\ rsUsed.clears + 1 \in Nat
      BY <1>1, <1>4 DEF ClearBegins, RsShape
    <3>2. QED BY <1>1, <3>1 DEF RsShape
  <2>4. rsRows' = rsRows /\ rsCut' = rsCut /\ rsPass' = rsPass /\ rsImport' = rsImport /\ rsLost' = rsLost
    BY <1>4 DEF ClearBegins
  <2>5. QED BY <1>1, <2>1, <2>2, <2>3, <2>4, AsideKeeps DEF RsShape
<1>5. CASE UNCHANGED rsVars
  BY <1>1, <1>5, AsideKeeps DEF rsVars, RsShape
<1>6. QED BY <1>2, <1>3, <1>4, <1>5

\* A chunk of the cleanup that takes a row of the daemon's own, or of the
\* restore: before the reply the watch notes it, and afterwards it was told.
LEMMA ChunkKeeps ==
    ASSUME RsInv, NEW arm \in {"age", "ahead"}, NEW noted \in {0, 1, 2}, NEW r \in rsRows,
           \/ arm = "age" /\ r.age < noted /\ noted <= rsCut
           \/ arm = "ahead" /\ r.age = FarAhead,
           rsRows' = rsRows \ {r}, Loses(r, arm),
           rsWatch' = IF Watching THEN [rsWatch EXCEPT !.rows = 1, !.cut = Max({@, noted})] ELSE rsWatch,
           UNCHANGED <<rsPass, rsCut, rsImport, rsUsed>>
    PROVE  RsInv'
<1>1. rsPass' = rsPass /\ rsCut' = rsCut /\ rsImport' = rsImport /\ rsUsed' = rsUsed
  OBVIOUS
<1>2. RsShape /\ r.age \in {Old, New, FarAhead} /\ rsImport.pc \in RsPlaces
  BY DEF RsInv, RsShape, RsRows, RsImports
<1>3. /\ rsWatch' \in Watches /\ rsWatch'.cleared = rsWatch.cleared /\ rsWatch'.clearing = rsWatch.clearing
      /\ Watching => rsWatch'.rows = 1 /\ rsWatch'.cut >= rsWatch.cut /\ rsWatch'.cut >= noted
      /\ ~Watching => rsWatch' = rsWatch
  <2> DEFINE cut == Max({rsWatch.cut, noted})
  <2>1. rsWatch \in Watches /\ rsWatch.cut \in {0, 1, 2}
    BY <1>2 DEF RsShape, Watches
  <2>2. cut \in {rsWatch.cut, noted} /\ cut >= rsWatch.cut /\ cut >= noted
    BY <2>1, HigherOfTwo
  <2>3. rsWatch' = IF Watching THEN [rsWatch EXCEPT !.rows = 1, !.cut = cut] ELSE rsWatch
    OBVIOUS
  <2> HIDE DEF cut
  <2>4. CASE Watching
    <3>1. rsWatch' = [rsWatch EXCEPT !.rows = 1, !.cut = cut]
      BY <2>3, <2>4
    <3>2. QED BY <2>1, <2>2, <2>4, <3>1 DEF Watches
  <2>5. CASE ~Watching
    BY <2>1, <2>3, <2>5
  <2>6. QED BY <2>4, <2>5
<1>4. r.age # New
  <2>1. rsCut \in {1, 2}
    BY <1>2 DEF RsShape, Cutoffs
  <2>2. QED BY <2>1 DEF New, FarAhead
<1>5. Restored' = Restored \ {r} /\ (~r.own => r \in Restored)
  BY DEF Restored
<1>6. RsShape'
  <2>1. rsRows' \subseteq rsRows /\ IsFiniteSet(rsRows')
    BY <1>2, FS_Subset DEF RsShape
  <2>2. QED BY <1>1, <1>2, <1>3, <2>1 DEF RsShape, Top
<1>7. OwnRows'
  BY <1>1, <1>3, <1>4 DEF RsInv, OwnRows
<1>8. RestoredLanded' /\ ClearsSeen'
  BY <1>1, <1>3, <1>5 DEF RsInv, RestoredLanded, ClearsSeen
<1>9. MarkStands'
  BY <1>1, <1>3, <1>4, <1>5 DEF RsInv, MarkStands
<1>10. CountsTrue'
  BY <1>1, <1>3, <1>5 DEF RsInv, CountsTrue, Undone
<1>11. CASE rsImport.pc # "done"
  <2>1. rsLost' = IF r.own THEN rsLost ELSE rsLost \cup {<<"during", arm>>}
    BY <1>11 DEF Loses
  <2>2. rsImport.landed => Watching
    BY <1>11 DEF RsInv, RestoredLanded, Watching, Held
  <2>3. ~r.own => rsImport.landed /\ rsImport.oldest <= r.age
    BY <1>2, <1>5 DEF RsInv, RestoredLanded, RsShape, RsImports, Old, New, FarAhead
  <2>4. rsWatch.cut \in {0, 1, 2} /\ rsWatch'.cut \in {0, 1, 2} /\ rsImport.oldest \in {1, 9} /\ r.age \in {1, 2, 9}
    BY <1>2, <1>3 DEF RsShape, Watches, RsImports, Old, New, FarAhead
  <2>5. <<"during", "age">> \in rsLost' =>
            rsImport.landed /\ rsWatch'.rows > 0 /\ rsImport.oldest < rsWatch'.cut
    <3>1. CASE <<"during", "age">> \in rsLost
      BY <1>3, <1>11, <2>2, <2>4, <3>1 DEF RsInv, LossesWatched
    <3>2. CASE ~r.own /\ arm = "age"
      BY <1>3, <2>2, <2>3, <2>4, <3>2
    <3>3. QED BY <2>1, <3>1, <3>2
  <2>6. <<"during", "clear">> \in rsLost' => <<"during", "clear">> \in rsLost
    BY <2>1
  <2>7. <<"next", "age">> \notin rsLost' /\ <<"next", "ahead">> \notin rsLost'
    BY <1>11, <2>1 DEF RsInv, LossesWatched
  <2>8. LossesWatched'
    BY <1>1, <1>3, <1>11, <2>5, <2>6, <2>7 DEF RsInv, LossesWatched
  <2>9. ReplyStands'
    BY <1>1, <1>11 DEF ReplyStands
  <2>10. QED BY <1>6, <1>7, <1>8, <1>9, <1>10, <2>8, <2>9 DEF RsInv
<1>12. CASE rsImport.pc = "done"
  <2>1. rsLost' = IF r.own \/ rsCut > rsImport.cut THEN rsLost ELSE rsLost \cup {<<"next", arm>>}
    BY <1>12 DEF Loses
  <2>2. rsCut \in {1, 2} /\ rsImport.cut \in {1, 2} /\ r.age \in {1, 2, 9}
    BY <1>2 DEF RsShape, RsImports, Cutoffs, Old, New, FarAhead
  <2>3. <<"next", "age">> \in rsLost' =>
            <<"next", "age">> \in rsLost \/ \E s \in Restored : s.age < rsImport.cut
    BY <1>5, <2>1, <2>2
  <2>4. <<"next", "ahead">> \in rsLost' =>
            <<"next", "ahead">> \in rsLost \/ \E s \in Restored : s.age = FarAhead
    BY <1>5, <2>1, <2>2 DEF FarAhead
  <2>5. \A how \in {"age", "clear"} : <<"during", how>> \in rsLost' => <<"during", how>> \in rsLost
    BY <2>1
  <2>6. LossesWatched'
    BY <1>1, <1>12 DEF LossesWatched
  <2>7. ReplyStands'
    BY <1>1, <1>5, <1>12, <2>3, <2>4, <2>5 DEF RsInv, ReplyStands
  <2>8. QED BY <1>6, <1>7, <1>8, <1>9, <1>10, <2>6, <2>7 DEF RsInv
<1>13. QED BY <1>11, <1>12

\* A cleanup's pass takes rows by its cutoff, and the watch notes it.
LEMMA PassKeeps == ASSUME RsInv, Pass PROVE RsInv'
<1>1. RsShape /\ rsPass.cut \in {1, 2} /\ rsCut \in {1, 2}
  BY DEF RsInv, RsShape, Cutoffs
<1> DEFINE cut == Min({rsPass.cut, rsCut})
<1>2. cut \in {1, 2} /\ cut <= rsCut
  BY <1>1, LowerOfTwo
<1>3. Pass <=> \/ PassDeletes("age", {r \in rsRows : r.age < cut}, cut, "ahead")
               \/ PassDeletes("ahead", {r \in rsRows : r.age = FarAhead}, 0, "off")
  BY DEF Pass
<1> HIDE DEF cut
<1>4. ASSUME NEW arm \in {"age", "ahead"}, NEW due \in SUBSET rsRows, NEW noted \in {0, 1, 2}, NEW next \in {"ahead", "off"},
             PassDeletes(arm, due, noted, next),
             \A r \in due : \/ arm = "age" /\ r.age < noted /\ noted <= rsCut
                            \/ arm = "ahead" /\ r.age = FarAhead
      PROVE  RsInv'
  <2>1. CASE due = {}
    <3>1. rsPass' \in [pc : {"off", "age", "ahead"}, cut : Cutoffs]
      BY <1>1, <1>4, <2>1 DEF PassDeletes, RsShape
    <3>2. QED BY <1>1, <1>4, <2>1, <3>1, AsideKeeps DEF PassDeletes, RsShape
  <2>2. CASE due # {}
    <3> DEFINE r == CHOOSE x \in due : \A y \in due : x.id <= y.id
    <3>1. r \in due
      <4>1. \A x \in due : x.id \in Nat
        BY <1>1 DEF RsShape, RsRows
      <4> DEFINE ids == {x.id : x \in due}
      <4>2. ids \subseteq Nat /\ ids # {}
        BY <2>2, <4>1
      <4>3. PICK i \in ids : \A j \in ids : ~(<<j, i>> \in OpToRel(<, Nat))
        BY <4>2, NatLessThanWellFounded, WFMin
      <4>4. \A j \in ids : i <= j
        <5>1. OpToRel(<, Nat) = {ss \in Nat \X Nat : ss[1] < ss[2]}
          BY DEF OpToRel
        <5> SUFFICES ASSUME NEW j \in ids, j < i PROVE FALSE
          BY <4>2
        <5>2. <<j, i>> \in {ss \in Nat \X Nat : ss[1] < ss[2]}
          BY <4>2
        <5>3. QED BY <4>3, <5>1, <5>2
      <4>5. \E x \in due : \A y \in due : x.id <= y.id
        BY <4>4
      <4>6. QED BY <4>5
    <3>2. /\ rsRows' = rsRows \ {r} /\ Loses(r, arm) /\ UNCHANGED <<rsPass, rsCut, rsImport, rsUsed>>
          /\ rsWatch' = IF Watching THEN [rsWatch EXCEPT !.rows = 1, !.cut = Max({@, noted})] ELSE rsWatch
      BY <1>4, <2>2 DEF PassDeletes
    <3> HIDE DEF r
    <3>3. r \in rsRows /\ \/ arm = "age" /\ r.age < noted /\ noted <= rsCut
                          \/ arm = "ahead" /\ r.age = FarAhead
      BY <1>4, <3>1
    <3>4. QED BY <3>2, <3>3, ChunkKeeps
  <2>3. QED BY <2>1, <2>2
<1>5. CASE PassDeletes("age", {r \in rsRows : r.age < cut}, cut, "ahead")
  BY <1>2, <1>4, <1>5
<1>6. CASE PassDeletes("ahead", {r \in rsRows : r.age = FarAhead}, 0, "off")
  BY <1>4, <1>6
<1>7. QED BY <1>3, <1>5, <1>6

-----------------------------------------------------------------------------
\* The daemon's own row, and a restored one: each past every row there is.
LEMMA OwnRowKeeps == ASSUME RsInv, OwnRow PROVE RsInv'
<1> DEFINE row == [id |-> NextId, age |-> New, own |-> TRUE]
<1>1. rsRows' = rsRows \cup {row} /\ rsUsed.own < MaxOwn /\ rsUsed' = [rsUsed EXCEPT !.own = @ + 1]
      /\ rsCut' = rsCut /\ rsPass' = rsPass /\ rsWatch' = rsWatch /\ rsImport' = rsImport /\ rsLost' = rsLost
  BY DEF OwnRow
<1>2. RsShape
  BY DEF RsInv
<1>3. /\ NextId \in Nat \ {0} /\ NextId <= Top + 1 /\ Top \in Nat /\ \A r \in rsRows : r.id < NextId
  BY <1>2, NextIdIs
<1>4. row \in RsRows /\ row.id = NextId /\ row.age = New /\ row.own
  BY <1>3 DEF RsRows
<1> HIDE DEF row
<1>5. rsUsed' \in [restored : 0..MaxRestored, own : 0..MaxOwn, clears : Nat] /\ Top' = Top + 1
  <2>1. rsUsed.own + 1 \in 0..MaxOwn /\ rsUsed.own \in Nat /\ rsUsed.restored \in Nat
    BY <1>1, <1>2, RestoreAssumption DEF RsShape
  <2>2. rsUsed' = [rsUsed EXCEPT !.own = rsUsed.own + 1]
    BY <1>1
  <2>3. QED BY <1>2, <2>1, <2>2 DEF RsShape, Top
<1>6. \A r \in rsRows : r.id \in Nat /\ r.id # row.id /\ r.id <= Top
  BY <1>2, <1>3, <1>4 DEF RsShape, RsRows
<1>7. RsShape'
  <2>1. rsRows' \subseteq RsRows
    BY <1>1, <1>2, <1>4 DEF RsShape
  <2>2. IsFiniteSet(rsRows')
    BY <1>1, <1>2, FS_AddElement DEF RsShape
  <2>3. \A r \in rsRows' : r.id <= Top'
    BY <1>1, <1>3, <1>4, <1>5, <1>6
  <2>4. \A r, s \in rsRows' : r.id = s.id => r = s
    BY <1>1, <1>2, <1>6 DEF RsShape
  <2>5. QED BY <1>1, <1>2, <1>5, <2>1, <2>2, <2>3, <2>4 DEF RsShape
<1>8. Restored' = Restored
  BY <1>1, <1>4 DEF Restored
<1>9. OwnRows'
  BY <1>1, <1>4 DEF RsInv, OwnRows, Old, New
<1>10. RestoredLanded' /\ ClearsSeen' /\ CountsTrue' /\ LossesWatched' /\ ReplyStands'
  BY <1>1, <1>8 DEF RsInv, RestoredLanded, ClearsSeen, CountsTrue, Undone, LossesWatched, ReplyStands
<1>11. MarkStands'
  BY <1>1, <1>4, <1>8 DEF RsInv, MarkStands, Old, New
<1>12. QED BY <1>7, <1>9, <1>10, <1>11 DEF RsInv

\* A restored row gets a rowid above the mark.
LEMMA ImportRowKeeps == ASSUME RsInv, ImportRow PROVE RsInv'
<1>1. PICK age \in {Old, FarAhead} :
        /\ rsRows' = rsRows \cup {[id |-> NextId, age |-> age, own |-> FALSE]}
        /\ rsImport' = [rsImport EXCEPT !.landed = TRUE, !.oldest = Min({@, age})]
  BY DEF ImportRow
<1> DEFINE row == [id |-> NextId, age |-> age, own |-> FALSE]
<1>2. rsImport.pc = "rows" /\ rsUsed.restored < MaxRestored /\ rsUsed' = [rsUsed EXCEPT !.restored = @ + 1]
      /\ rsCut' = rsCut /\ rsPass' = rsPass /\ rsWatch' = rsWatch /\ rsLost' = rsLost
  BY DEF ImportRow
<1>3. RsShape
  BY DEF RsInv
<1>4. /\ NextId \in Nat \ {0} /\ NextId <= Top + 1 /\ Top \in Nat /\ \A r \in rsRows : r.id < NextId
  BY <1>3, NextIdIs
<1>5. row \in RsRows /\ row.id = NextId /\ row.age = age /\ ~row.own
  BY <1>4 DEF RsRows
<1>6. rsRows' = rsRows \cup {row}
  BY <1>1
<1> HIDE DEF row
<1>7. rsUsed' \in [restored : 0..MaxRestored, own : 0..MaxOwn, clears : Nat] /\ Top' = Top + 1
  <2>1. rsUsed.restored + 1 \in 0..MaxRestored /\ rsUsed.own \in Nat /\ rsUsed.restored \in Nat
    BY <1>2, <1>3, RestoreAssumption DEF RsShape
  <2>2. rsUsed' = [rsUsed EXCEPT !.restored = rsUsed.restored + 1]
    BY <1>2
  <2>3. QED BY <1>3, <2>1, <2>2 DEF RsShape, Top
<1>8. \A r \in rsRows : r.id \in Nat /\ r.id # row.id /\ r.id <= Top
  BY <1>3, <1>4, <1>5 DEF RsShape, RsRows
<1>9. /\ rsImport' \in RsImports /\ rsImport'.landed /\ rsImport'.oldest \in {rsImport.oldest, age}
      /\ rsImport'.oldest <= rsImport.oldest /\ rsImport'.oldest <= age
      /\ rsImport'.pc = "rows" /\ rsImport'.mark = rsImport.mark /\ rsImport'.clearedAt = rsImport.clearedAt
  <2> DEFINE oldest == Min({rsImport.oldest, age})
  <2>1. rsImport.oldest \in Int /\ age \in Int /\ rsImport \in RsImports
    BY <1>3 DEF RsShape, RsImports, Old, FarAhead
  <2>2. oldest \in {rsImport.oldest, age} /\ oldest <= rsImport.oldest /\ oldest <= age
    BY <2>1, LowerOfTwo
  <2>3. rsImport' = [rsImport EXCEPT !.landed = TRUE, !.oldest = oldest]
    BY <1>1
  <2> HIDE DEF oldest
  <2>4. QED BY <1>2, <2>1, <2>2, <2>3 DEF RsImports
<1>10. RsShape'
  <2>1. rsRows' \subseteq RsRows
    BY <1>3, <1>5, <1>6 DEF RsShape
  <2>2. IsFiniteSet(rsRows')
    BY <1>3, <1>6, FS_AddElement DEF RsShape
  <2>3. \A r \in rsRows' : r.id <= Top'
    BY <1>4, <1>5, <1>6, <1>7, <1>8
  <2>4. \A r, s \in rsRows' : r.id = s.id => r = s
    BY <1>3, <1>6, <1>8 DEF RsShape
  <2>5. QED BY <1>2, <1>3, <1>7, <1>9, <2>1, <2>2, <2>3, <2>4 DEF RsShape
<1>11. Restored' = Restored \cup {row}
  BY <1>5, <1>6 DEF Restored
<1>12. OwnRows'
  BY <1>2, <1>5, <1>6 DEF RsInv, OwnRows
<1>13. RestoredLanded'
  <2>1. \A r \in Restored : r.age \in {1, 2, 9} /\ r.age >= rsImport.oldest
    BY <1>3 DEF RsInv, RestoredLanded, Restored, RsShape, RsRows, Old, New, FarAhead
  <2>2. rsImport.oldest \in {1, 9} /\ rsImport'.oldest \in {1, 9} /\ age \in {1, 9}
    BY <1>3, <1>9 DEF RsShape, RsImports, Old, FarAhead
  <2>3. \A r \in Restored' : r.age >= rsImport'.oldest
    BY <1>5, <1>9, <1>11, <2>1, <2>2
  <2>4. QED BY <1>9, <2>3 DEF RestoredLanded
<1>14. ClearsSeen' /\ CountsTrue' /\ ReplyStands'
  BY <1>2, <1>9 DEF RsInv, ClearsSeen, CountsTrue, ReplyStands
<1>15. LossesWatched'
  <2>1. rsImport.oldest \in {1, 9} /\ rsImport'.oldest \in {1, 9} /\ rsWatch.cut \in {0, 1, 2}
    BY <1>3, <1>9 DEF RsShape, RsImports, Watches, Old, FarAhead
  <2>2. QED BY <1>2, <1>9, <2>1 DEF RsInv, LossesWatched
<1>16. MarkStands'
  <2>1. rsImport.mark \in Nat
    BY <1>3 DEF RsShape, RsImports
  <2>2. rsWatch.clearing # "emptied" /\ rsWatch.cleared = rsImport.clearedAt => row.id > rsImport.mark
    BY <1>2, <1>4, <1>5, <2>1 DEF RsInv, MarkStands
  <2>3. QED BY <1>2, <1>5, <1>6, <1>9, <1>11, <2>2 DEF RsInv, MarkStands
<1>17. QED BY <1>10, <1>12, <1>13, <1>14, <1>15, <1>16 DEF RsInv

-----------------------------------------------------------------------------
\* Delete now: from its commit to its end the watch does not yet say so.
LEMMA ClearCommitsKeeps == ASSUME RsInv, ClearCommits PROVE RsInv'
<1>1. rsRows' = {} /\ rsWatch' = [rsWatch EXCEPT !.clearing = "emptied"] /\ rsWatch.clearing = "begun"
      /\ rsCut' = rsCut /\ rsPass' = rsPass /\ rsImport' = rsImport /\ rsUsed' = rsUsed
      /\ rsLost' = IF rsImport.pc # "done" /\ \E r \in rsRows : ~r.own THEN rsLost \cup {<<"during", "clear">>} ELSE rsLost
  BY DEF ClearCommits
<1>2. RsShape
  BY DEF RsInv
<1>3. rsWatch' \in Watches /\ rsWatch'.clearing = "emptied" /\ rsWatch'.cleared = rsWatch.cleared
      /\ rsWatch'.rows = rsWatch.rows /\ rsWatch'.cut = rsWatch.cut
  BY <1>1, <1>2 DEF RsShape, Watches
<1>4. RsShape'
  <2>1. IsFiniteSet(rsRows')
    BY <1>1, FS_EmptySet
  <2>2. QED BY <1>1, <1>2, <1>3, <2>1 DEF RsShape
<1>5. Restored' = {} /\ (\E r \in rsRows : ~r.own) = (Restored # {})
  BY <1>1 DEF Restored
<1>6. OwnRows' /\ RestoredLanded' /\ ClearsSeen'
  BY <1>1, <1>3, <1>5 DEF RsInv, OwnRows, RestoredLanded, ClearsSeen
<1>7. MarkStands'
  BY <1>1, <1>3 DEF MarkStands
<1>8. CountsTrue'
  BY <1>1, <1>3, <1>5 DEF RsInv, CountsTrue, Undone
<1>9. LossesWatched'
  <2>1. Restored # {} => rsImport.landed
    BY DEF RsInv, RestoredLanded
  <2>2. QED BY <1>1, <1>3, <1>5, <2>1 DEF RsInv, LossesWatched
<1>10. ReplyStands'
  BY <1>1, <1>5 DEF RsInv, ReplyStands
<1>11. QED BY <1>4, <1>6, <1>7, <1>8, <1>9, <1>10 DEF RsInv

\* The end of a Delete now is noted; the rows it took stay gone.
LEMMA ClearEndsKeeps == ASSUME RsInv, ClearEnds PROVE RsInv'
<1> DEFINE counted == rsWatch.clearing = "emptied" /\ Watching
           cleared == IF counted THEN rsWatch.cleared + 1 ELSE rsWatch.cleared
<1>1. rsRows' = rsRows /\ rsWatch' = [rsWatch EXCEPT !.clearing = "no", !.cleared = cleared]
      /\ rsCut' = rsCut /\ rsPass' = rsPass /\ rsImport' = rsImport /\ rsUsed' = rsUsed /\ rsLost' = rsLost
  BY DEF ClearEnds
<1>2. RsShape /\ rsWatch.cleared \in Nat
  BY DEF RsInv, RsShape, Watches
<1>3. cleared \in Nat /\ cleared >= rsWatch.cleared /\ (counted => cleared = rsWatch.cleared + 1)
      /\ (~counted => cleared = rsWatch.cleared)
  BY <1>2
<1> HIDE DEF cleared
<1>4. rsWatch' \in Watches /\ rsWatch'.clearing = "no" /\ rsWatch'.cleared = cleared
      /\ rsWatch'.rows = rsWatch.rows /\ rsWatch'.cut = rsWatch.cut
  BY <1>1, <1>2, <1>3 DEF RsShape, Watches
<1>5. RsShape' /\ Restored' = Restored
  BY <1>1, <1>2, <1>4 DEF RsShape, Restored, Top
<1>6. OwnRows'
  BY <1>1, <1>3, <1>4 DEF RsInv, OwnRows
<1>7. RestoredLanded'
  BY <1>1, <1>5 DEF RsInv, RestoredLanded
<1>8. rsImport.clearedAt \in Nat /\ rsImport.emptied \in Nat
  BY <1>2 DEF RsShape, RsImports
<1>9. ClearsSeen'
  BY <1>1, <1>2, <1>3, <1>4, <1>8 DEF RsInv, ClearsSeen
<1>10. rsImport.pc \in {"mark", "rows", "due", "ahead", "reply"} => Watching
  BY DEF Watching, Held
<1>11. MarkStands'
  <2>1. rsImport.pc \in {"rows", "due", "ahead", "reply"} /\ cleared = rsImport.clearedAt
          => rsWatch.clearing # "emptied" /\ rsWatch.cleared = rsImport.clearedAt
    BY <1>2, <1>3, <1>8, <1>10 DEF RsInv, ClearsSeen
  <2>2. QED BY <1>1, <1>4, <1>5, <2>1 DEF RsInv, MarkStands
<1>12. CountsTrue'
  <2>1. rsImport.pc \in {"ahead", "reply"} /\ Undone => Undone'
    BY <1>1, <1>2, <1>3, <1>4, <1>8, <1>10 DEF RsInv, ClearsSeen, Undone
  <2>2. QED BY <1>1, <1>5, <2>1 DEF RsInv, CountsTrue
<1>13. LossesWatched'
  <2>1. rsImport.pc # "done" /\ rsImport.landed => Watching /\ rsImport.clearedAt <= rsWatch.cleared
    BY DEF RsInv, RestoredLanded, ClearsSeen, Watching, Held
  <2>2. QED BY <1>1, <1>2, <1>3, <1>4, <1>8, <2>1 DEF RsInv, LossesWatched
<1>14. ReplyStands'
  BY <1>1, <1>5 DEF RsInv, ReplyStands
<1>15. QED BY <1>5, <1>6, <1>7, <1>9, <1>11, <1>12, <1>13, <1>14 DEF RsInv

-----------------------------------------------------------------------------
\* Up to the first row nothing of the restore is in the table.
LEMMA BeginningsKeep == ASSUME RsInv, ImportBegins \/ ImportTallies \/ ImportMarks PROVE RsInv'
<1>1. rsRows' = rsRows /\ rsCut' = rsCut /\ rsPass' = rsPass /\ rsLost' = rsLost /\ rsUsed' = rsUsed
      /\ rsImport.pc \in {"idle", "tally", "mark"}
  BY DEF ImportBegins, ImportTallies, ImportMarks
<1>2. RsShape
  BY DEF RsInv
<1>3. /\ NextId \in Nat \ {0} /\ \A r \in rsRows : r.id < NextId
      /\ NextId = 1 \/ \E r \in rsRows : r.id = NextId - 1
  BY <1>2, NextIdIs
<1>4. ~rsImport.landed /\ Restored = {} /\ Restored' = {}
  BY <1>1 DEF RsInv, RestoredLanded, Restored
<1>5. /\ rsWatch' \in Watches /\ rsWatch'.clearing = rsWatch.clearing
      /\ rsWatch'.cleared = rsWatch.cleared \/ rsWatch'.cleared = 0
      /\ rsImport.pc # "idle" => rsWatch' = rsWatch
  <2>1. CASE ImportBegins
    <3>1. rsWatch' = [rsWatch EXCEPT !.rows = 0, !.cut = 0, !.cleared = 0] /\ rsImport.pc = "idle"
      BY <2>1 DEF ImportBegins
    <3>2. QED BY <1>2, <3>1 DEF RsShape, Watches
  <2>2. CASE ImportTallies \/ ImportMarks
    BY <1>2, <2>2 DEF ImportTallies, ImportMarks, RsShape
  <2>3. QED BY <2>1, <2>2
<1>6. /\ rsImport' \in RsImports /\ rsImport'.landed = rsImport.landed /\ rsImport'.oldest = rsImport.oldest
      /\ \/ rsImport'.pc = "tally"
         \/ rsImport'.pc = "mark" /\ rsImport'.clearedAt = rsWatch.cleared /\ rsImport.pc = "tally"
         \/ rsImport'.pc = "rows" /\ rsImport.pc = "mark" /\ rsImport'.mark = NextId - 1
            /\ rsImport'.clearedAt = rsImport.clearedAt
  <2>1. CASE ImportBegins
    <3>1. rsImport' = [rsImport EXCEPT !.pc = "tally"]
      BY <2>1 DEF ImportBegins, Step
    <3>2. QED BY <1>2, <3>1 DEF RsShape, RsImports, RsPlaces
  <2>2. CASE ImportTallies
    <3>1. rsImport' = [rsImport EXCEPT !.pc = "mark", !.clearedAt = rsWatch.cleared] /\ rsImport.pc = "tally"
      BY <2>2 DEF ImportTallies
    <3>2. rsWatch.cleared \in Nat
      BY <1>2 DEF RsShape, Watches
    <3>3. QED BY <1>2, <3>1, <3>2 DEF RsShape, RsImports, RsPlaces
  <2>3. CASE ImportMarks
    <3> DEFINE mark == NextId - 1
    <3>1. rsImport' = [rsImport EXCEPT !.pc = "rows", !.mark = mark] /\ rsImport.pc = "mark"
      BY <2>3 DEF ImportMarks
    <3>2. mark \in Nat
      BY <1>3
    <3> HIDE DEF mark
    <3>3. /\ rsImport' \in RsImports /\ rsImport'.landed = rsImport.landed /\ rsImport'.oldest = rsImport.oldest
          /\ rsImport'.pc = "rows" /\ rsImport'.mark = mark /\ rsImport'.clearedAt = rsImport.clearedAt
      BY <1>2, <3>1, <3>2 DEF RsShape, RsImports, RsPlaces
    <3>4. QED BY <3>1, <3>3 DEF mark
  <2>4. QED BY <2>1, <2>2, <2>3
<1>7. RsShape'
  BY <1>1, <1>2, <1>5, <1>6 DEF RsShape, Top
<1>8. OwnRows'
  BY <1>1, <1>5 DEF RsInv, OwnRows
<1>9. RestoredLanded'
  BY <1>4, <1>6 DEF RestoredLanded
<1>10. ClearsSeen'
  <2>1. rsWatch.cleared \in Nat
    BY <1>2 DEF RsShape, Watches
  <2>2. QED BY <1>1, <1>5, <1>6, <2>1 DEF RsInv, ClearsSeen
<1>11. MarkStands'
  <2> SUFFICES ASSUME rsImport'.pc = "rows" PROVE MarkStands'
    BY <1>6 DEF MarkStands
  <2>1. rsImport'.mark = NextId - 1
    BY <1>6
  <2>2. \A r \in rsRows : r.id \in Nat \ {0} /\ r.id <= NextId - 1
    BY <1>2, <1>3 DEF RsShape, RsRows
  <2>3. NextId - 1 = 0 \/ \E r \in rsRows : r.own /\ r.age = New /\ r.id = NextId - 1
    <3>1. CASE NextId = 1
      BY <3>1
    <3>2. ASSUME NEW r \in rsRows, r.id = NextId - 1 PROVE r.own /\ r.age = New
      <4>1. r.own
        BY <1>4 DEF Restored
      <4>2. \A s \in rsRows : ~(s.id > r.id)
        BY <1>3, <2>2, <3>2
      <4>3. QED BY <4>1, <4>2 DEF RsInv, OwnRows
    <3>3. QED BY <1>3, <3>1, <3>2
  <2>4. QED BY <1>1, <1>4, <2>1, <2>2, <2>3 DEF MarkStands
<1>12. CountsTrue' /\ ReplyStands'
  BY <1>6 DEF CountsTrue, ReplyStands
<1>13. LossesWatched'
  BY <1>1, <1>4, <1>6 DEF RsInv, LossesWatched
<1>14. QED BY <1>7, <1>8, <1>9, <1>10, <1>11, <1>12, <1>13 DEF RsInv

\* A count begins by the cutoff of now, and knows whether the table was emptied.
LEMMA CountStartsKeeps == ASSUME RsInv, CountStarts PROVE RsInv'
<1>1. PICK cut \in 1..rsCut :
        rsCut' = cut /\ rsImport' = [rsImport EXCEPT !.pc = "due", !.cut = cut, !.emptied = rsWatch.cleared]
  BY DEF CountStarts
<1>2. rsRows' = rsRows /\ rsPass' = rsPass /\ rsWatch' = rsWatch /\ rsLost' = rsLost /\ rsUsed' = rsUsed
      /\ rsImport.pc = "rows"
  BY DEF CountStarts
<1>3. RsShape /\ cut \in Cutoffs /\ rsWatch.cleared \in Nat
  BY DEF RsInv, RsShape, Watches, Cutoffs
<1>4. /\ rsImport' \in RsImports /\ rsImport'.pc = "due" /\ rsImport'.emptied = rsWatch.cleared
      /\ rsImport'.clearedAt = rsImport.clearedAt /\ rsImport'.mark = rsImport.mark
      /\ rsImport'.landed = rsImport.landed /\ rsImport'.oldest = rsImport.oldest
  BY <1>1, <1>3 DEF RsShape, RsImports, RsPlaces
<1>5. RsShape' /\ Restored' = Restored
  BY <1>1, <1>2, <1>3, <1>4 DEF RsShape, Restored, Top
<1>6. OwnRows' /\ RestoredLanded' /\ ClearsSeen'
  BY <1>2, <1>3, <1>4, <1>5 DEF RsInv, OwnRows, RestoredLanded, ClearsSeen
<1>7. MarkStands' /\ CountsTrue' /\ LossesWatched' /\ ReplyStands'
  BY <1>2, <1>4, <1>5 DEF RsInv, MarkStands, CountsTrue, LossesWatched, ReplyStands
<1>8. QED BY <1>5, <1>6, <1>7 DEF RsInv

\* The count finds the restored rows and no other, for either arm of the cleanup.
LEMMA CountIsTheirs ==
    ASSUME RsInv, rsImport.pc \in {"due", "ahead"}, ~Undone,
           NEW due \in SUBSET rsRows, \A r \in due : r.own => r.age = Old
    PROVE  {r \in due : r.id > Since} = {r \in due : ~r.own}
<1>1. RsShape
  BY DEF RsInv
<1>2. /\ rsImport.clearedAt \in Nat /\ rsImport.emptied \in Nat /\ rsWatch.cleared \in Nat /\ rsImport.mark \in Nat
      /\ \A r \in rsRows : r.id \in Nat \ {0}
  BY <1>1 DEF RsShape, RsImports, Watches, RsRows
<1>3. rsImport.clearedAt <= rsImport.emptied /\ rsImport.emptied <= rsWatch.cleared
  BY DEF RsInv, ClearsSeen
<1>4. ASSUME NEW r \in due, r.own PROVE ~(r.id > Since)
  <2>1. rsWatch.cleared = 0 /\ r.id <= rsImport.mark
    BY <1>4 DEF RsInv, OwnRows, MarkStands
  <2>2. ~(rsImport.emptied > rsImport.clearedAt)
    BY <1>2, <1>3, <2>1
  <2>3. QED BY <1>2, <2>1, <2>2 DEF Since
<1>5. ASSUME NEW r \in due, ~r.own PROVE r.id > Since
  <2>1. r \in Restored /\ rsImport.landed
    BY <1>5 DEF RsInv, RestoredLanded, Restored
  <2>2. rsWatch.clearing # "emptied" /\ rsWatch.cleared = rsImport.emptied
    BY <2>1 DEF Undone
  <2>3. CASE rsImport.emptied > rsImport.clearedAt
    BY <1>2, <2>3 DEF Since
  <2>4. CASE ~(rsImport.emptied > rsImport.clearedAt)
    <3>1. rsWatch.cleared = rsImport.clearedAt
      BY <1>2, <1>3, <2>2, <2>4
    <3>2. r.id > rsImport.mark
      BY <2>1, <2>2, <3>1 DEF RsInv, MarkStands
    <3>3. QED BY <2>4, <3>2 DEF Since
  <2>5. QED BY <2>3, <2>4
<1>6. QED BY <1>4, <1>5

\* The two counts of the reply count the rows past their cutoffs.
LEMMA CountsKeep == ASSUME RsInv, CountsDue \/ CountsAhead PROVE RsInv'
<1> DEFINE arm == IF rsImport.pc = "due" THEN {r \in rsRows : r.age < rsImport.cut} ELSE {r \in rsRows : r.age = FarAhead}
           found == Cardinality({r \in arm : r.id > Since})
           theirs == Cardinality({r \in arm : ~r.own})
<1>1. rsRows' = rsRows /\ rsCut' = rsCut /\ rsPass' = rsPass /\ rsWatch' = rsWatch /\ rsLost' = rsLost /\ rsUsed' = rsUsed
  BY DEF CountsDue, CountsAhead
<1>2. RsShape /\ rsImport \in RsImports /\ rsImport.cut \in {1, 2}
  BY DEF RsInv, RsShape, RsImports, Cutoffs
<1>3. arm \subseteq rsRows /\ \A r \in arm : r.own => r.age = Old
  <2>1. \A r \in rsRows : r.own => r.age \in {Old, New}
    BY DEF RsInv, OwnRows
  <2>2. \A r \in rsRows : r.own /\ (r.age < rsImport.cut \/ r.age = FarAhead) => r.age = Old
    BY <1>2, <2>1 DEF Old, New, FarAhead
  <2>3. QED BY <2>2
<1>4. \/ rsImport.pc = "due" /\ rsImport' = [rsImport EXCEPT !.pc = "ahead", !.due = found, !.there.due = theirs]
      \/ rsImport.pc = "ahead" /\ rsImport' = [rsImport EXCEPT !.pc = "reply", !.ahead = found, !.there.ahead = theirs]
  <2>1. CASE CountsDue
    <3>1. rsImport.pc = "due"
      BY <2>1 DEF CountsDue
    <3>2. QED BY <2>1, <3>1 DEF CountsDue
  <2>2. CASE CountsAhead
    <3>1. rsImport.pc = "ahead"
      BY <2>2 DEF CountsAhead
    <3>2. QED BY <2>2, <3>1 DEF CountsAhead
  <2>3. QED BY <2>1, <2>2
<1>5. found \in Nat /\ theirs \in Nat /\ (\A r \in arm : ~r.own => theirs > 0)
  <2>1. IsFiniteSet(arm)
    BY <1>2, <1>3, FS_Subset DEF RsShape
  <2> DEFINE mine == {r \in arm : r.id > Since}
             restored == {r \in arm : ~r.own}
  <2>2. mine \subseteq arm /\ restored \subseteq arm
    OBVIOUS
  <2> HIDE DEF arm
  <2>3. IsFiniteSet(mine) /\ IsFiniteSet(restored)
    BY <2>1, <2>2, FS_Subset
  <2>4. Cardinality(mine) \in Nat /\ Cardinality(restored) \in Nat /\ (Cardinality(restored) = 0 <=> restored = {})
    BY <2>3, FS_CardinalityType, FS_EmptySet
  <2>5. \A r \in arm : ~r.own => restored # {}
    OBVIOUS
  <2> HIDE DEF mine, restored
  <2>6. \A r \in arm : ~r.own => Cardinality(restored) > 0
    BY <2>4, <2>5
  <2>7. QED BY <2>4, <2>6 DEF mine, restored
<1>6. Undone \/ found = theirs
  <2>1. rsImport.pc \in {"due", "ahead"}
    BY <1>4
  <2> HIDE DEF arm
  <2>2. QED BY <1>3, <2>1, CountIsTheirs
<1>7. \A r \in Restored : (rsImport.pc = "due" /\ r.age < rsImport.cut) \/ (rsImport.pc = "ahead" /\ r.age = FarAhead) => theirs > 0
  BY <1>5 DEF Restored
<1> HIDE DEF found, theirs, arm
<1>8. /\ rsImport' \in RsImports /\ rsImport'.landed = rsImport.landed /\ rsImport'.oldest = rsImport.oldest
      /\ rsImport'.mark = rsImport.mark /\ rsImport'.clearedAt = rsImport.clearedAt
      /\ rsImport'.emptied = rsImport.emptied /\ rsImport'.cut = rsImport.cut
      /\ \/ /\ rsImport.pc = "due" /\ rsImport'.pc = "ahead"
            /\ rsImport'.due = found /\ rsImport'.there.due = theirs
         \/ /\ rsImport.pc = "ahead" /\ rsImport'.pc = "reply"
            /\ rsImport'.due = rsImport.due /\ rsImport'.there.due = rsImport.there.due
            /\ rsImport'.ahead = found /\ rsImport'.there.ahead = theirs
  <2>1. rsImport.there \in Counts
    BY <1>2 DEF RsImports
  <2>2. CASE rsImport.pc = "due"
    <3> DEFINE there == [rsImport.there EXCEPT !.due = theirs]
    <3>1. rsImport' = [rsImport EXCEPT !.pc = "ahead", !.due = found, !.there = there]
      BY <1>4, <2>2
    <3>2. there \in Counts /\ there.due = theirs
      BY <1>5, <2>1 DEF Counts
    <3> HIDE DEF there
    <3>3. QED BY <1>2, <1>5, <2>2, <3>1, <3>2 DEF RsImports, RsPlaces
  <2>3. CASE rsImport.pc = "ahead"
    <3> DEFINE there == [rsImport.there EXCEPT !.ahead = theirs]
    <3>1. rsImport' = [rsImport EXCEPT !.pc = "reply", !.ahead = found, !.there = there]
      BY <1>4, <2>3
    <3>2. there \in Counts /\ there.due = rsImport.there.due /\ there.ahead = theirs
      BY <1>5, <2>1 DEF Counts
    <3> HIDE DEF there
    <3>3. QED BY <1>2, <1>5, <2>3, <3>1, <3>2 DEF RsImports, RsPlaces
  <2>4. QED BY <1>4, <2>2, <2>3
<1>9. RsShape' /\ Restored' = Restored /\ Undone' = Undone
  BY <1>1, <1>2, <1>8 DEF RsShape, Restored, Undone, Top
<1>10. OwnRows' /\ RestoredLanded' /\ ClearsSeen'
  BY <1>1, <1>8, <1>9 DEF RsInv, OwnRows, RestoredLanded, ClearsSeen
<1>11. MarkStands' /\ LossesWatched' /\ ReplyStands'
  BY <1>1, <1>8, <1>9 DEF RsInv, MarkStands, LossesWatched, ReplyStands
<1>12. CountsTrue'
  <2>1. CASE rsImport.pc = "due"
    BY <1>6, <1>7, <1>8, <1>9, <2>1 DEF CountsTrue
  <2>2. CASE rsImport.pc = "ahead"
    BY <1>6, <1>7, <1>8, <1>9, <2>2 DEF RsInv, CountsTrue
  <2>3. QED BY <1>8, <2>1, <2>2
<1>13. QED BY <1>9, <1>10, <1>11, <1>12 DEF RsInv

\* The reply words what was counted and what the watch saw.
LEMMA RepliesKeeps == ASSUME RsInv, Replies PROVE RsInv'
<1> DEFINE counted == ~(rsImport.landed /\ Deleting)
           told == (IF rsImport.due > 0 /\ counted THEN {"due"} ELSE {})
              \cup (IF rsImport.ahead > 0 /\ counted THEN {"ahead"} ELSE {})
              \cup (IF rsImport.landed /\ (Deleting \/ Deleted) THEN {"clear"} ELSE {})
              \cup (IF counted THEN {"counted"} ELSE {})
              \cup (IF rsWatch.rows > 0 /\ rsImport.landed /\ rsImport.oldest < rsWatch.cut
                    THEN {"gone"} ELSE {})
<1>1. rsRows' = rsRows /\ rsCut' = rsCut /\ rsPass' = rsPass /\ rsWatch' = rsWatch /\ rsLost' = rsLost /\ rsUsed' = rsUsed
      /\ rsImport.pc = "reply" /\ rsImport' = [rsImport EXCEPT !.pc = "done", !.told = told]
  BY DEF Replies
<1>2. RsShape /\ rsImport \in RsImports
  BY DEF RsInv, RsShape
<1>3. told \in SUBSET {"due", "ahead", "clear", "gone", "counted"}
  OBVIOUS
<1>4. /\ rsImport.landed /\ (Deleting \/ Deleted) => "clear" \in told
      /\ rsWatch.rows > 0 /\ rsImport.landed /\ rsImport.oldest < rsWatch.cut => "gone" \in told
      /\ counted /\ rsImport.due > 0 => "due" \in told
      /\ counted /\ rsImport.ahead > 0 => "ahead" \in told
      /\ "counted" \in told => counted
  OBVIOUS
<1>5. ~counted => "clear" \in told
  BY <1>4
<1>6. counted => ~Undone
  BY DEF Undone, Deleting
<1> HIDE DEF told, counted
<1>7. /\ rsImport' \in RsImports /\ rsImport'.pc = "done" /\ rsImport'.told = told
      /\ rsImport'.landed = rsImport.landed /\ rsImport'.oldest = rsImport.oldest /\ rsImport'.cut = rsImport.cut
      /\ rsImport'.due = rsImport.due /\ rsImport'.ahead = rsImport.ahead /\ rsImport'.there = rsImport.there
  BY <1>1, <1>2, <1>3 DEF RsImports, RsPlaces
<1>8. RsShape' /\ Restored' = Restored
  BY <1>1, <1>2, <1>7 DEF RsShape, Restored, Top
<1>9. OwnRows' /\ RestoredLanded' /\ ClearsSeen' /\ MarkStands' /\ CountsTrue' /\ LossesWatched'
  BY <1>1, <1>7, <1>8 DEF RsInv, OwnRows, RestoredLanded, ClearsSeen, MarkStands, CountsTrue, LossesWatched
<1>10. ReplyStands'
  <2>1. /\ rsImport.clearedAt \in Nat /\ rsImport.emptied \in Nat /\ rsWatch.cleared \in Nat
    BY <1>2 DEF RsShape, Watches, RsImports
  <2>2. <<"during", "age">> \in rsLost => "gone" \in told
    BY <1>1, <1>4 DEF RsInv, LossesWatched
  <2>3. <<"during", "clear">> \in rsLost => "clear" \in told
    <3>1. <<"during", "clear">> \in rsLost =>
            rsImport.landed /\ (rsWatch.clearing = "emptied" \/ rsWatch.cleared > rsImport.clearedAt)
      BY <1>1 DEF RsInv, LossesWatched
    <3>2. rsWatch.cleared > rsImport.clearedAt => Deleting \/ Deleted
      BY <2>1 DEF Deleting, Deleted
    <3>3. QED BY <1>4, <3>1, <3>2 DEF Deleting
  <2>4. <<"next", "age">> \notin rsLost /\ <<"next", "ahead">> \notin rsLost
    BY <1>1 DEF RsInv, LossesWatched
  <2>5. counted => rsImport.due = rsImport.there.due /\ rsImport.ahead = rsImport.there.ahead
    BY <1>1, <1>6 DEF RsInv, CountsTrue
  <2>6. (\E r \in Restored : r.age < rsImport.cut) => told \cap {"due", "clear"} # {}
    <3>1. (\E r \in Restored : r.age < rsImport.cut) => rsImport.there.due > 0
      BY <1>1 DEF RsInv, CountsTrue
    <3>2. QED BY <1>4, <1>5, <2>5, <3>1
  <2>7. (\E r \in Restored : r.age = FarAhead) => told \cap {"ahead", "clear"} # {}
    <3>1. (\E r \in Restored : r.age = FarAhead) => rsImport.there.ahead > 0
      BY <1>1 DEF RsInv, CountsTrue
    <3>2. QED BY <1>4, <1>5, <2>5, <3>1
  <2>8. "counted" \in told => rsImport.there = [due |-> rsImport.due, ahead |-> rsImport.ahead]
    <3>1. rsImport.there \in Counts
      BY <1>2 DEF RsImports
    <3>2. QED BY <1>4, <2>5, <3>1 DEF Counts
  <2>9. QED BY <1>1, <1>7, <1>8, <2>2, <2>3, <2>4, <2>6, <2>7, <2>8 DEF ReplyStands
<1>11. QED BY <1>8, <1>9, <1>10 DEF RsInv

\* Every step of the restore keeps its invariant.
LEMMA RsInvNext == RsInv /\ [RsNext]_rsVars => RsInv'
  BY OwnWindowSteps, PassKeeps, OwnRowKeeps, ClearCommitsKeeps, ClearEndsKeeps, BeginningsKeep,
     ImportRowKeeps, CountStartsKeeps, CountsKeep, RepliesKeeps DEF RsNext

\* The invariant of the restore holds in every state.
LEMMA RsInvHolds == RsSpec => []RsInv
  BY RsInvInit, RsInvNext, PTL DEF RsSpec

\* Rowids stay apart and in bounds, and a reply says only what it can.
THEOREM RsTypeCorrect == RsSpec => []RsTypeOK
<1>1. RsInv => RsTypeOK
  <2> SUFFICES ASSUME RsInv PROVE RsTypeOK
    OBVIOUS
  <2>1. RsShape
    BY DEF RsInv
  <2>2. \A r \in rsRows : r.id \in 1..(4 + MaxRestored + MaxOwn)
    BY <2>1, RestoreAssumption DEF RsShape, RsRows, Top
  <2>3. rsRows \subseteq [id : 1..(4 + MaxRestored + MaxOwn), age : {Old, New, FarAhead}, own : BOOLEAN]
    BY <2>1, <2>2 DEF RsShape, RsRows
  <2>4. QED BY <2>1, <2>3 DEF RsTypeOK, RsShape, RsImports
<1>2. QED BY <1>1, RsInvHolds, PTL

\* For any number of restored and own rows and however often Delete now is
\* pressed meanwhile, handleImport's reply tells of every restored row that is
\* gone or goes at the next cleanup, and counts no other.
THEOREM RepliesInFull == RsSpec => []RestoreTells
<1>1. RsInv => RestoreTells
  BY DEF RsInv, ReplyStands, RestoreTells
<1>2. QED BY <1>1, RsInvHolds, PTL

-----------------------------------------------------------------------------
(* Retention: the cleanup under a clock that is set                        *)

RtRow == [table : Tables, ts : Nat, born : Int, held : BOOLEAN]
RtClocks == [up : BOOLEAN, base : Int, settled : Int, stepSeen : BOOLEAN,
             vetted : {"none", "yes"}, frame : Int, armed : BOOLEAN]
RtArms == {"samples age", "samples ahead", "pauses age", "pauses ahead"}

RtShape ==
    /\ rtTime \in [hour : Int, off : Int, sets : Int, since : Int, returned : BOOLEAN]
    /\ rtTime.hour >= FirstHour /\ rtTime.since <= rtTime.hour
    /\ rtRows \subseteq RtRow /\ \A r \in rtRows : r.born <= rtTime.hour
    /\ rtKeep \in Int
    /\ rtClock \in RtClocks
    /\ rtPass \in [pc : {"idle", "repair"} \cup RtArms, due : BOOLEAN, start : Int, began : Int,
                   window : Int, believed : BOOLEAN]

\* The clock stands where the last look left it, and was not away meanwhile.
AsLastSeen == rtClock.up /\ ~rtTime.returned /\ rtTime.off = rtClock.base

\* Then nobody has set it since the store was opened, or since the step whose
\* settle it is serving.
StoodByLook ==
    AsLastSeen => IF rtClock.settled = 0 THEN rtTime.since = -Settle
                                         ELSE rtTime.since + Settle <= rtClock.settled

\* The frame of the paused time is the clock believed last.
FrameKnown == rtClock.up /\ ~rtClock.stepSeen /\ rtClock.vetted = "yes" => rtClock.frame = rtClock.base

\* Once the paused time is judged by the clock that stands, none of it that is
\* live lies ahead of that clock.
QuarantineKept ==
    AsLastSeen /\ ~rtClock.armed /\ ~rtClock.stepSeen =>
        \A r \in rtRows : r.table = "pauses" /\ ~r.held => r.ts <= Wall + RtSlack

\* A pass runs on a clock that the look before it believed.
PassStands ==
    rtPass.pc # "idle" =>
        /\ rtClock.up /\ ~rtClock.stepSeen
        /\ rtPass.start = rtPass.began + rtClock.base /\ rtPass.began <= rtTime.hour
        /\ rtPass.believed \/ rtTime.returned

RtInv == RtShape /\ StoodByLook /\ FrameKnown /\ QuarantineKept /\ PassStands

\* The bounds of the clock are whole numbers.
LEMMA RtNumbers ==
    /\ Jump \in Int /\ RtSlack \in Int /\ RtSlack >= 0 /\ Settle \in Int /\ Settle > 0 /\ Epoch \in Int
    /\ Windows \subseteq Int /\ Offsets \subseteq Int /\ FirstHour \in Int /\ FirstHour = 40
  BY RetentionAssumption DEF Offsets, FirstHour

\* repairFutureReachingPausesAt moves paused time into the quarantine and back,
\* and deletes nothing: every row is found under its table and its hour.
LEMMA JudgedKeeps ==
    ASSUME NEW rows, rows \subseteq RtRow, NEW at \in Int
    PROVE  /\ Judged(rows, at) \subseteq RtRow
           /\ \A j \in Judged(rows, at) : j.table = "pauses" /\ ~j.held => j.ts <= at + RtSlack
           /\ \A r \in rows : \E j \in Judged(rows, at) : j.table = r.table /\ j.born = r.born
           /\ \A j \in Judged(rows, at) : \E r \in rows : j.born = r.born
<1> USE RtNumbers
<1> DEFINE Seen(r) == IF r.table = "pauses" THEN [r EXCEPT !.held = r.ts > at + RtSlack] ELSE r
<1>1. Judged(rows, at) = {Seen(r) : r \in rows}
  BY DEF Judged
<1>2. ASSUME NEW r \in rows
      PROVE  /\ Seen(r) \in RtRow /\ Seen(r).table = r.table /\ Seen(r).born = r.born /\ Seen(r).ts = r.ts
             /\ r.table = "pauses" => (Seen(r).held <=> r.ts > at + RtSlack)
  <2>1. r \in RtRow
    OBVIOUS
  <2>2. CASE r.table # "pauses"
    BY <2>1, <2>2
  <2>3. CASE r.table = "pauses"
    <3> DEFINE away == r.ts > at + RtSlack
    <3>1. away \in BOOLEAN /\ Seen(r) = [r EXCEPT !.held = away]
      BY <2>3
    <3>2. r.table \in Tables /\ r.ts \in Nat /\ r.born \in Int /\ r.held \in BOOLEAN
      BY <2>1 DEF RtRow
    <3> HIDE DEF away
    <3>3. Seen(r) = [table |-> r.table, ts |-> r.ts, born |-> r.born, held |-> away]
      BY <2>1, <3>1, Zenon DEF RtRow
    <3>4. Seen(r).table = r.table /\ Seen(r).born = r.born /\ Seen(r).ts = r.ts /\ Seen(r).held = away
      BY <3>3
    <3>5. Seen(r) \in RtRow
      BY <3>1, <3>2, <3>3 DEF RtRow
    <3>6. QED BY <3>4, <3>5 DEF away
  <2>4. QED BY <2>2, <2>3
<1> HIDE DEF Seen
<1>3. \A r \in rows : Seen(r).table = "pauses" /\ ~Seen(r).held => Seen(r).ts <= at + RtSlack
  <2> SUFFICES ASSUME NEW r \in rows, Seen(r).table = "pauses", ~Seen(r).held PROVE Seen(r).ts <= at + RtSlack
    OBVIOUS
  <2>1. r.ts \in Int
    BY DEF RtRow
  <2>2. ~(r.ts > at + RtSlack)
    BY <1>2
  <2>3. QED BY <1>2, <2>1, <2>2
<1>4. QED BY <1>1, <1>2, <1>3

\* A store just opened, or closed, has a clock judgement of its shape.
LEMMA OpenedClockIs ==
    ASSUME NEW at \in Int, rtTime.off = at PROVE ClockAtOpen \in RtClocks /\ NotOpen \in RtClocks
<1> DEFINE early == Wall < Epoch
<1> DEFINE none == 0
<1>1. early \in BOOLEAN /\ none \in Int
  OBVIOUS
<1>2. ClockAtOpen = [up |-> TRUE, base |-> at, settled |-> none, stepSeen |-> FALSE,
                     vetted |-> "none", frame |-> none, armed |-> early]
  BY DEF ClockAtOpen
<1> HIDE DEF early, none
<1>3. ClockAtOpen \in RtClocks
  BY <1>1, <1>2 DEF RtClocks
<1>4. NotOpen \in RtClocks
  BY <1>3 DEF NotOpen, RtClocks
<1>5. QED BY <1>3, <1>4

\* The cleanup starts with nothing judged and no pass under way.
LEMMA RtInvInit == RtInit => RtInv
<1> SUFFICES ASSUME RtInit PROVE RtInv
  OBVIOUS
<1> USE RtNumbers
<1>1. rtTime = [hour |-> 40, off |-> 0, sets |-> 0, since |-> 40, returned |-> FALSE]
  BY DEF RtInit, FirstHour
<1>2. ~rtClock.up /\ rtPass.pc = "idle"
  BY DEF RtInit, NotOpen, ClockAtOpen, NoPass
<1>3. rtClock \in RtClocks
  BY <1>1, OpenedClockIs DEF RtInit
<1>4. RtShape
  <2>1. rtPass \in [pc : {"idle", "repair"} \cup RtArms, due : BOOLEAN, start : Int, began : Int,
                     window : Int, believed : BOOLEAN]
    BY DEF RtInit, NoPass
  <2>2. QED BY <1>1, <1>3, <2>1 DEF RtInit, RtShape
<1>5. QED BY <1>2, <1>4 DEF RtInv, AsLastSeen, StoodByLook, FrameKnown, QuarantineKept, PassStands

\* Opening the store judges the paused time at once, unless the clock is not set.
LEMMA RtOpenKeeps == ASSUME RtInv, RtOpen PROVE RtInv'
<1> USE RtNumbers DEF RtInv
<1>1. /\ rtTime.hour \in Int /\ rtTime.off \in Int /\ Wall \in Int
      /\ rtTime.hour >= FirstHour
  BY DEF RtShape, Wall
<1>2. /\ rtTime' \in [hour : Int, off : Int, sets : Int, since : Int, returned : BOOLEAN]
      /\ rtTime'.hour = rtTime.hour /\ rtTime'.off = rtTime.off /\ ~rtTime'.returned
      /\ rtTime'.since = -Settle
  <2>1. -Settle \in Int
    OBVIOUS
  <2>2. rtTime' = [rtTime EXCEPT !.since = -Settle, !.returned = FALSE]
    BY DEF RtOpen
  <2>3. rtTime \in [hour : Int, off : Int, sets : Int, since : Int, returned : BOOLEAN]
    BY DEF RtShape
  <2>4. QED BY <2>1, <2>2, <2>3
<1>3. Wall' = Wall
  BY <1>2 DEF Wall
<1>4. /\ rtClock' \in RtClocks /\ rtClock'.base = rtTime.off /\ rtClock'.settled = 0
      /\ ~rtClock'.stepSeen /\ rtClock'.vetted = "none" /\ (rtClock'.armed <=> Wall < Epoch)
  BY <1>1, OpenedClockIs DEF RtOpen, ClockAtOpen
<1>5. /\ rtRows' \subseteq RtRow /\ \A r \in rtRows' : r.born <= rtTime.hour
      /\ Wall >= Epoch => \A r \in rtRows' : r.table = "pauses" /\ ~r.held => r.ts <= Wall + RtSlack
  <2>1. rtRows' = Judged(rtRows, Wall) \/ (rtRows' = rtRows /\ ~(Wall >= Epoch))
    BY DEF RtOpen
  <2>2. rtRows \subseteq RtRow /\ \A r \in rtRows : r.born <= rtTime.hour
    BY DEF RtShape
  <2>3. CASE rtRows' = Judged(rtRows, Wall)
    <3>1. /\ Judged(rtRows, Wall) \subseteq RtRow
          /\ \A j \in Judged(rtRows, Wall) : j.table = "pauses" /\ ~j.held => j.ts <= Wall + RtSlack
          /\ \A j \in Judged(rtRows, Wall) : \E r \in rtRows : j.born = r.born
      BY <1>1, <2>2, JudgedKeeps
    <3>2. QED BY <2>2, <2>3, <3>1
  <2>4. QED BY <2>1, <2>2, <2>3
<1>6. rtPass' = NoPass /\ rtPass'.pc = "idle"
  BY DEF RtOpen, NoPass
<1>7. RtShape'
  <2>1. rtPass' \in [pc : {"idle", "repair"} \cup RtArms, due : BOOLEAN, start : Int, began : Int,
                     window : Int, believed : BOOLEAN]
    BY <1>6 DEF NoPass, RtShape
  <2>2. rtKeep' \in Int
    BY DEF RtOpen, RtShape
  <2>3. rtTime'.since <= rtTime'.hour
    BY <1>1, <1>2
  <2>4. QED BY <1>1, <1>2, <1>4, <1>5, <2>1, <2>2, <2>3 DEF RtShape
<1>8. StoodByLook'
  BY <1>2, <1>4 DEF StoodByLook
<1>9. FrameKnown'
  BY <1>4 DEF FrameKnown
<1>10. QuarantineKept'
  <2>1. ~rtClock'.armed => Wall >= Epoch
    BY <1>1, <1>4
  <2>2. QED BY <1>3, <1>5, <2>1 DEF QuarantineKept
<1>11. PassStands'
  BY <1>6 DEF PassStands
<1>12. QED BY <1>7, <1>8, <1>9, <1>10, <1>11

\* A store that is closed promises nothing of its clock.
LEMMA RtStopKeeps == ASSUME RtInv, RtStop PROVE RtInv'
<1> USE RtNumbers DEF RtInv
<1>1. rtPass' = NoPass /\ rtPass'.pc = "idle"
  BY DEF RtStop, NoPass
<1>2. rtClock' \in RtClocks /\ ~rtClock'.up
  BY OpenedClockIs DEF RtStop, RtShape, NotOpen, ClockAtOpen
<1>3. rtPass' \in [pc : {"idle", "repair"} \cup RtArms, due : BOOLEAN, start : Int, began : Int,
                   window : Int, believed : BOOLEAN]
  BY <1>1 DEF NoPass, RtShape
<1>4. RtShape'
  BY <1>2, <1>3 DEF RtShape, RtStop
<1>5. QED BY <1>1, <1>2, <1>4 DEF AsLastSeen, StoodByLook, FrameKnown, QuarantineKept, PassStands

\* An hour passes, and a new window is chosen, without a word about the clock.
LEMMA RtHourKeeps == ASSUME RtInv, HourPasses \/ SetRetention PROVE RtInv'
<1> USE RtNumbers DEF RtInv
<1>1. /\ rtTime' \in [hour : Int, off : Int, sets : Int, since : Int, returned : BOOLEAN]
      /\ rtTime'.hour \in {rtTime.hour, rtTime.hour + 1} /\ rtTime'.off = rtTime.off
      /\ rtTime'.since = rtTime.since /\ rtTime'.returned = rtTime.returned
      /\ rtTime.hour \in Int /\ rtTime.off \in Int /\ rtTime.since \in Int
  <2>1. rtTime \in [hour : Int, off : Int, sets : Int, since : Int, returned : BOOLEAN]
    BY DEF RtShape
  <2>2. rtTime' = rtTime \/ rtTime' = [rtTime EXCEPT !.hour = @ + 1]
    BY DEF HourPasses, SetRetention
  <2>3. QED BY <2>1, <2>2
<1>2. rtRows' = rtRows /\ rtClock' = rtClock /\ rtKeep' \in Int
  BY DEF HourPasses, SetRetention, RtShape
<1>3. /\ rtPass'.pc = rtPass.pc /\ rtPass'.start = rtPass.start /\ rtPass'.began = rtPass.began
      /\ rtPass'.believed = rtPass.believed
      /\ rtPass' \in [pc : {"idle", "repair"} \cup RtArms, due : BOOLEAN, start : Int, began : Int,
                      window : Int, believed : BOOLEAN]
  <2>1. rtPass \in [pc : {"idle", "repair"} \cup RtArms, due : BOOLEAN, start : Int, began : Int,
                    window : Int, believed : BOOLEAN]
    BY DEF RtShape
  <2>2. rtPass' = rtPass \/ \E awake \in BOOLEAN : rtPass' = [rtPass EXCEPT !.due = @ \/ awake]
    BY DEF HourPasses, SetRetention
  <2>3. QED BY <2>1, <2>2
<1>4. RtShape'
  <2>1. rtTime'.hour >= rtTime.hour
    BY <1>1
  <2>2. \A r \in rtRows : r.born \in Int
    BY DEF RtShape, RtRow
  <2>3. \A r \in rtRows : r.born <= rtTime'.hour
    BY <1>1, <2>1, <2>2 DEF RtShape
  <2>4. rtTime'.hour >= FirstHour /\ rtTime'.since <= rtTime'.hour
    BY <1>1, <2>1 DEF RtShape
  <2>5. QED BY <1>1, <1>2, <1>3, <2>3, <2>4 DEF RtShape
<1>5. AsLastSeen' = AsLastSeen
  BY <1>1, <1>2 DEF AsLastSeen
<1>6. StoodByLook'
  BY <1>1, <1>2, <1>5 DEF StoodByLook
<1>7. FrameKnown'
  BY <1>2 DEF FrameKnown
<1>8. QuarantineKept'
  <2>1. Wall' >= Wall /\ Wall \in Int /\ Wall' \in Int
    BY <1>1 DEF Wall
  <2>2. \A r \in rtRows : r.ts \in Int
    BY DEF RtShape, RtRow
  <2>3. QED BY <1>2, <1>5, <2>1, <2>2 DEF QuarantineKept
<1>9. PassStands'
  <2>1. rtPass.began \in Int
    BY DEF RtShape
  <2>2. QED BY <1>1, <1>2, <1>3, <2>1 DEF PassStands
<1>10. QED BY <1>4, <1>6, <1>7, <1>8, <1>9

\* A clock that is set is not where it was seen last, or has come back to it.
LEMMA ClockSetKeeps == ASSUME RtInv, ClockSet PROVE RtInv'
<1> USE RtNumbers DEF RtInv
<1>1. PICK o \in Offsets \ {rtTime.off} :
         rtTime' = [rtTime EXCEPT !.off = o, !.sets = @ + 1, !.since = rtTime.hour,
                                  !.returned = @ \/ (rtClock.up /\ o = rtClock.base)]
  BY DEF ClockSet
<1>2. UNCHANGED <<rtRows, rtKeep, rtClock, rtPass>>
  BY DEF ClockSet
<1>3. rtTime \in [hour : Int, off : Int, sets : Int, since : Int, returned : BOOLEAN]
  BY DEF RtShape
<1>4. /\ rtTime' \in [hour : Int, off : Int, sets : Int, since : Int, returned : BOOLEAN]
      /\ rtTime'.hour = rtTime.hour /\ rtTime'.off = o /\ rtTime'.since = rtTime.hour
      /\ rtTime'.returned <=> rtTime.returned \/ (rtClock.up /\ o = rtClock.base)
  <2> DEFINE back == rtTime.returned \/ (rtClock.up /\ o = rtClock.base)
             count == rtTime.sets + 1
             hour == rtTime.hour
  <2>1. back \in BOOLEAN /\ o \in Int /\ count \in Int /\ hour \in Int
    BY <1>3 DEF RtShape, RtClocks
  <2>2. rtTime' = [rtTime EXCEPT !.off = o, !.sets = count, !.since = hour, !.returned = back]
    BY <1>1
  <2> HIDE DEF back, count
  <2>3. /\ rtTime' \in [hour : Int, off : Int, sets : Int, since : Int, returned : BOOLEAN]
        /\ rtTime'.hour = rtTime.hour /\ rtTime'.off = o /\ rtTime'.since = rtTime.hour
        /\ rtTime'.returned = back
    BY <1>3, <2>1, <2>2
  <2>4. QED BY <2>3 DEF back
<1>5. ~AsLastSeen'
  BY <1>2, <1>4 DEF AsLastSeen
<1>6. RtShape'
  BY <1>2, <1>3, <1>4 DEF RtShape
<1>7. StoodByLook' /\ QuarantineKept'
  BY <1>5 DEF StoodByLook, QuarantineKept
<1>8. FrameKnown' /\ PassStands'
  BY <1>2, <1>4 DEF FrameKnown, PassStands
<1>9. QED BY <1>6, <1>7, <1>8

\* What MayJudge takes for the present is the clock, when the clock stands.
LEMMA ReadingIs ==
    ASSUME RtInv PROVE /\ Reading(rtClock) \in Int
                       /\ AsLastSeen /\ ~rtClock.stepSeen => Reading(rtClock) = Wall
<1> USE RtNumbers DEF RtInv
<1>1. rtTime.hour \in Int /\ rtTime.off \in Int /\ rtClock.frame \in Int /\ Wall \in Int
  BY DEF RtShape, RtClocks, Wall
<1>2. Reading(rtClock) \in Int
  BY <1>1 DEF Reading
<1>3. ASSUME AsLastSeen, ~rtClock.stepSeen PROVE Reading(rtClock) = Wall
  BY <1>1, <1>3 DEF AsLastSeen, FrameKnown, Reading, Wall
<1>4. QED BY <1>2, <1>3

\* A row is stamped by the clock, and the paused time is judged before it.
LEMMA WriteKeeps == ASSUME RtInv, NEW t \in Tables, Write(t) PROVE RtInv'
<1> USE RtNumbers DEF RtInv
<1> DEFINE row == [table |-> t, ts |-> Wall, born |-> rtTime.hour, held |-> FALSE]
<1> DEFINE judged == IF MayJudge(rtClock) THEN Judged(rtRows, Reading(rtClock)) ELSE rtRows
<1>1. rtTime.hour \in Int /\ rtTime.off \in Int /\ Wall \in Int /\ Wall' = Wall
      /\ rtTime' = rtTime /\ rtPass' = rtPass /\ rtKeep' = rtKeep
  BY DEF Write, RtShape, Wall
<1>2. rtRows' = judged \cup {row} /\ rtClock' = [rtClock EXCEPT !.armed = @ /\ ~MayJudge(rtClock)]
  BY DEF Write
<1>3. rtRows \subseteq RtRow /\ rtClock \in RtClocks /\ \A r \in rtRows : r.born <= rtTime.hour
  BY DEF RtShape
<1>4. /\ rtClock' \in RtClocks /\ rtClock'.up = rtClock.up /\ rtClock'.base = rtClock.base
      /\ rtClock'.settled = rtClock.settled /\ rtClock'.stepSeen = rtClock.stepSeen
      /\ rtClock'.vetted = rtClock.vetted /\ rtClock'.frame = rtClock.frame
      /\ rtClock'.armed <=> rtClock.armed /\ ~MayJudge(rtClock)
  <2> DEFINE owed == rtClock.armed /\ ~MayJudge(rtClock)
  <2>1. owed \in BOOLEAN /\ rtClock' = [rtClock EXCEPT !.armed = owed]
    BY <1>2
  <2> HIDE DEF owed
  <2>2. /\ rtClock' \in RtClocks /\ rtClock'.up = rtClock.up /\ rtClock'.base = rtClock.base
        /\ rtClock'.settled = rtClock.settled /\ rtClock'.stepSeen = rtClock.stepSeen
        /\ rtClock'.vetted = rtClock.vetted /\ rtClock'.frame = rtClock.frame
        /\ rtClock'.armed = owed
    BY <1>3, <2>1 DEF RtClocks
  <2>3. QED BY <2>2 DEF owed
<1>5. row \in RtRow /\ row.born = rtTime.hour /\ row.ts = Wall
  BY <1>1 DEF RtRow, Write
<1>6. judged \subseteq RtRow /\ \A j \in judged : j.born <= rtTime.hour
  <2>1. CASE MayJudge(rtClock)
    <3>1. /\ Judged(rtRows, Reading(rtClock)) \subseteq RtRow
          /\ \A j \in Judged(rtRows, Reading(rtClock)) : \E r \in rtRows : j.born = r.born
      BY <1>3, ReadingIs, JudgedKeeps
    <3>2. QED BY <1>3, <2>1, <3>1
  <2>2. CASE ~MayJudge(rtClock)
    BY <1>3, <2>2
  <2>3. QED BY <2>1, <2>2
<1> HIDE DEF row
<1>7. RtShape'
  <2>1. rtRows' \subseteq RtRow /\ \A r \in rtRows' : r.born <= rtTime.hour
    BY <1>1, <1>2, <1>5, <1>6
  <2>2. QED BY <1>1, <1>4, <2>1 DEF RtShape
<1>8. AsLastSeen' = AsLastSeen
  BY <1>1, <1>4 DEF AsLastSeen
<1>9. StoodByLook' /\ FrameKnown' /\ PassStands'
  BY <1>1, <1>4, <1>8 DEF StoodByLook, FrameKnown, PassStands
<1>10. QuarantineKept'
  <2> SUFFICES ASSUME AsLastSeen, ~rtClock'.armed, ~rtClock'.stepSeen, NEW r \in rtRows',
                      r.table = "pauses", ~r.held
               PROVE  r.ts <= Wall + RtSlack
    BY <1>1, <1>8 DEF QuarantineKept
  <2>1. CASE r = row
    BY <1>1, <1>5, <2>1
  <2>2. CASE r \in judged /\ MayJudge(rtClock)
    <3>1. \A j \in Judged(rtRows, Reading(rtClock)) :
             j.table = "pauses" /\ ~j.held => j.ts <= Reading(rtClock) + RtSlack
      BY <1>3, ReadingIs, JudgedKeeps
    <3>2. Reading(rtClock) = Wall
      BY <1>4, ReadingIs
    <3>3. QED BY <2>2, <3>1, <3>2
  <2>3. CASE r \in judged /\ ~MayJudge(rtClock)
    <3>1. ~rtClock.armed /\ ~rtClock.stepSeen /\ r \in rtRows
      BY <1>4, <2>3
    <3>2. QED BY <3>1 DEF QuarantineKept
  <2>4. QED BY <1>2, <2>1, <2>2, <2>3
<1>11. QED BY <1>7, <1>9, <1>10

\* clockStepped: a clock that is believed stands where it was seen, has stood so
\* since the store was opened or for the settle, and the paused time is judged
\* anew when a settle is over; one that is not believed is waited out.
LEMMA SteppedIs ==
    ASSUME RtInv, rtClock.up, NEW stepped, NEW after, Stepped(rtClock) = <<stepped, after>>
    PROVE  /\ after \in RtClocks /\ after.up /\ after.base = rtTime.off
           /\ stepped \in BOOLEAN
           /\ ~stepped => ~after.stepSeen /\ rtTime.off = rtClock.base
                          /\ (rtTime.returned \/ rtTime.hour - rtTime.since >= Settle)
           /\ \/ after.settled = rtClock.settled /\ rtTime.off = rtClock.base
              \/ after.settled = rtTime.hour + Settle
           /\ ~after.stepSeen => after.settled = rtClock.settled /\ rtTime.off = rtClock.base
           /\ ~after.stepSeen /\ rtClock.stepSeen => after.armed /\ (after.vetted = "yes" => after.frame = after.base)
           /\ ~after.stepSeen /\ ~rtClock.stepSeen => after = rtClock
<1> USE RtNumbers DEF RtInv
<1>1. /\ rtTime.hour \in Int /\ rtTime.off \in Int /\ rtTime.since \in Int /\ rtTime.hour >= FirstHour
      /\ rtClock \in RtClocks /\ rtClock.settled \in Int
  BY DEF RtShape, RtClocks
<1> DEFINE till == rtTime.hour + Settle
           off == rtTime.off
<1>2. till \in Int /\ off \in Int
  BY <1>1
<1>3. CASE off # rtClock.base
  <2>1. stepped = TRUE /\ after = [rtClock EXCEPT !.base = off, !.settled = till, !.stepSeen = TRUE]
    BY <1>3 DEF Stepped
  <2> HIDE DEF till, off
  <2>2. after \in RtClocks /\ after.up = rtClock.up /\ after.base = off /\ after.settled = till /\ after.stepSeen
    BY <1>1, <1>2, <2>1 DEF RtClocks
  <2>3. QED BY <2>1, <2>2 DEF till, off
<1>4. CASE off = rtClock.base /\ rtTime.hour < rtClock.settled
  <2>1. stepped = TRUE /\ after = rtClock
    BY <1>4 DEF Stepped
  <2>2. QED BY <1>1, <1>4, <2>1
<1>5. ASSUME off = rtClock.base, ~(rtTime.hour < rtClock.settled)
      PROVE  rtTime.returned \/ rtTime.hour - rtTime.since >= Settle
  BY <1>1, <1>5 DEF AsLastSeen, StoodByLook, FirstHour
<1>6. CASE off = rtClock.base /\ ~(rtTime.hour < rtClock.settled) /\ rtClock.stepSeen
  <2>1. stepped = FALSE /\ after = [rtClock EXCEPT !.stepSeen = FALSE, !.vetted = "yes", !.frame = off, !.armed = TRUE]
    BY <1>6 DEF Stepped
  <2> HIDE DEF off
  <2>2. /\ after \in RtClocks /\ after.up = rtClock.up /\ after.base = rtClock.base
        /\ after.settled = rtClock.settled /\ ~after.stepSeen /\ after.armed /\ after.frame = off
    BY <1>1, <1>2, <2>1 DEF RtClocks
  <2>3. QED BY <1>5, <1>6, <2>1, <2>2 DEF off
<1>7. CASE off = rtClock.base /\ ~(rtTime.hour < rtClock.settled) /\ ~rtClock.stepSeen
  <2>1. stepped = FALSE /\ after = rtClock
    BY <1>7 DEF Stepped
  <2>2. QED BY <1>1, <1>5, <1>7, <2>1
<1>8. QED BY <1>3, <1>4, <1>6, <1>7

\* The hourly look at the clock, which starts a pass or waits.
LEMMA PruneStartsKeeps == ASSUME RtInv, PruneStarts PROVE RtInv'
<1> USE RtNumbers DEF RtInv
<1> DEFINE Passes == [pc : {"idle", "repair"} \cup RtArms, due : BOOLEAN, start : Int, began : Int,
                      window : Int, believed : BOOLEAN]
<1>1. /\ rtTime.hour \in Int /\ rtTime.off \in Int /\ rtTime.since \in Int /\ rtTime.returned \in BOOLEAN
      /\ rtTime.hour >= FirstHour /\ rtTime.since <= rtTime.hour
      /\ Wall \in Int /\ Wall = rtTime.hour + rtTime.off /\ rtPass \in Passes /\ rtKeep \in Int
  BY DEF RtShape, Wall
<1>2. rtTime' = rtTime /\ rtRows' = rtRows /\ rtKeep' = rtKeep /\ Wall' = Wall
  BY DEF PruneStarts, Wall
<1>3. rtClock.up /\ rtPass.pc = "idle"
  BY DEF PruneStarts
<1>4. ASSUME rtPass' = [rtPass EXCEPT !.due = FALSE] PROVE rtPass' \in Passes /\ rtPass'.pc = "idle"
  BY <1>1, <1>3, <1>4
<1>5. CASE Wall < Epoch
  <2>1. rtPass' = [rtPass EXCEPT !.due = FALSE] /\ rtClock' = rtClock
    BY <1>5 DEF PruneStarts
  <2>2. RtShape'
    BY <1>2, <1>4, <2>1 DEF RtShape
  <2>3. QED
    BY <1>2, <1>4, <2>1, <2>2 DEF AsLastSeen, StoodByLook, FrameKnown, QuarantineKept, PassStands
<1>6. CASE ~(Wall < Epoch)
  <2> DEFINE stepped == Stepped(rtClock)[1]
             after == Stepped(rtClock)[2]
  <2>1. Stepped(rtClock) = <<stepped, after>>
    BY DEF Stepped
  <2>2. /\ rtClock' = after
        /\ rtPass' = IF stepped THEN [rtPass EXCEPT !.due = FALSE]
                     ELSE [pc |-> "repair", due |-> FALSE, start |-> Wall, began |-> rtTime.hour,
                           window |-> rtKeep, believed |-> Believed]
    BY <1>6 DEF PruneStarts
  <2> HIDE DEF stepped, after
  <2>3. /\ after \in RtClocks /\ after.up /\ after.base = rtTime.off
        /\ stepped \in BOOLEAN
        /\ ~stepped => ~after.stepSeen /\ rtTime.off = rtClock.base
                       /\ (rtTime.returned \/ rtTime.hour - rtTime.since >= Settle)
    BY <1>3, <2>1, SteppedIs
  <2>4. \/ after.settled = rtClock.settled /\ rtTime.off = rtClock.base
        \/ after.settled = rtTime.hour + Settle
    BY <1>3, <2>1, SteppedIs
  <2>5. /\ ~after.stepSeen => after.settled = rtClock.settled /\ rtTime.off = rtClock.base
        /\ ~after.stepSeen /\ rtClock.stepSeen => after.armed /\ (after.vetted = "yes" => after.frame = after.base)
        /\ ~after.stepSeen /\ ~rtClock.stepSeen => after = rtClock
    BY <1>3, <2>1, SteppedIs
  <2>6. /\ rtPass' \in Passes
        /\ rtPass'.pc # "idle" => /\ ~stepped /\ rtPass'.start = Wall /\ rtPass'.began = rtTime.hour
                                  /\ rtPass'.believed <=> rtTime.hour - rtTime.since >= Settle
    <3>1. CASE stepped
      BY <1>4, <2>2, <3>1
    <3>2. CASE ~stepped
      <4> DEFINE sure == Believed
                 began == rtTime.hour
      <4>1. sure \in BOOLEAN
        BY DEF Believed
      <4>2. rtPass' = [pc |-> "repair", due |-> FALSE, start |-> Wall, began |-> began,
                       window |-> rtKeep, believed |-> sure]
        BY <2>2, <3>2
      <4> HIDE DEF sure
      <4>3. rtPass' \in Passes /\ rtPass'.start = Wall /\ rtPass'.began = rtTime.hour /\ rtPass'.believed = sure
        BY <1>1, <4>1, <4>2
      <4>4. QED BY <3>2, <4>3 DEF sure, Believed
    <3>3. QED BY <2>3, <3>1, <3>2
  <2>7. RtShape'
    BY <1>2, <2>2, <2>3, <2>6 DEF RtShape
  <2>8. StoodByLook'
    <3>1. CASE after.settled = rtClock.settled /\ rtTime.off = rtClock.base
      BY <1>2, <1>3, <2>2, <3>1 DEF AsLastSeen, StoodByLook
    <3>2. CASE after.settled = rtTime.hour + Settle
      <4>1. after.settled # 0 /\ rtTime.since + Settle <= after.settled
        BY <1>1, <3>2 DEF FirstHour
      <4>2. QED BY <1>2, <2>2, <4>1 DEF StoodByLook
    <3>3. QED BY <2>4, <3>1, <3>2
  <2>9. FrameKnown'
    BY <1>3, <2>2, <2>5 DEF FrameKnown
  <2>10. QuarantineKept'
    BY <1>2, <1>3, <2>2, <2>5 DEF AsLastSeen, QuarantineKept
  <2>11. PassStands'
    BY <1>1, <1>2, <2>2, <2>3, <2>6 DEF PassStands
  <2>12. QED BY <2>7, <2>8, <2>9, <2>10, <2>11
<1>7. QED BY <1>5, <1>6

\* A step of the pass that leaves the pass as it stands, and takes or judges rows
\* as the clock in force says, keeps what is known of both.
LEMMA PassStepKeeps ==
    ASSUME RtInv, UNCHANGED <<rtTime, rtKeep>>, rtPass.pc # "idle",
           NEW arm \in {"idle", "repair"} \cup RtArms, rtPass' = [rtPass EXCEPT !.pc = arm],
           rtClock' \in RtClocks, rtClock'.up = rtClock.up, rtClock'.base = rtClock.base,
           rtClock'.settled = rtClock.settled, rtClock'.stepSeen = rtClock.stepSeen,
           rtClock'.vetted = rtClock.vetted, rtClock'.frame = rtClock.frame,
           rtRows' \subseteq RtRow, \A r \in rtRows' : r.born <= rtTime.hour, QuarantineKept'
    PROVE  RtInv'
<1> USE RtNumbers DEF RtInv
<1>1. /\ rtPass'.start = rtPass.start /\ rtPass'.began = rtPass.began /\ rtPass'.believed = rtPass.believed
      /\ rtPass' \in [pc : {"idle", "repair"} \cup RtArms, due : BOOLEAN, start : Int, began : Int,
                      window : Int, believed : BOOLEAN]
  BY DEF RtShape
<1>2. RtShape'
  BY <1>1 DEF RtShape
<1>3. StoodByLook' /\ FrameKnown'
  BY DEF AsLastSeen, StoodByLook, FrameKnown
<1>4. PassStands'
  BY <1>1 DEF PassStands
<1>5. QED BY <1>2, <1>3, <1>4

\* The pass judges the paused time that is owed a judgement, or fails to.
LEMMA PruneRepairsKeeps == ASSUME RtInv, PruneRepairs PROVE RtInv'
<1> USE RtNumbers DEF RtInv
<1>1. /\ rtPass.pc = "repair" /\ rtPass' = [rtPass EXCEPT !.pc = "samples age"]
      /\ rtTime' = rtTime /\ rtKeep' = rtKeep /\ Wall' = Wall
  BY DEF PruneRepairs, Wall
<1>2. rtRows \subseteq RtRow /\ rtClock \in RtClocks /\ \A r \in rtRows : r.born <= rtTime.hour
  BY DEF RtShape
<1>3. CASE rtRows' = Judged(rtRows, Reading(rtClock)) /\ rtClock' = [rtClock EXCEPT !.armed = FALSE]
  <2>1. /\ rtClock' \in RtClocks /\ rtClock'.up = rtClock.up /\ rtClock'.base = rtClock.base
        /\ rtClock'.settled = rtClock.settled /\ rtClock'.stepSeen = rtClock.stepSeen
        /\ rtClock'.vetted = rtClock.vetted /\ rtClock'.frame = rtClock.frame
    BY <1>2, <1>3 DEF RtClocks
  <2>2. /\ rtRows' \subseteq RtRow
        /\ \A j \in rtRows' : j.table = "pauses" /\ ~j.held => j.ts <= Reading(rtClock) + RtSlack
        /\ \A j \in rtRows' : \E r \in rtRows : j.born = r.born
    BY <1>2, <1>3, ReadingIs, JudgedKeeps
  <2>3. QuarantineKept'
    <3>1. AsLastSeen' /\ ~rtClock'.stepSeen => Reading(rtClock) = Wall
      BY <1>1, <2>1, ReadingIs DEF AsLastSeen
    <3>2. QED BY <1>1, <2>1, <2>2, <3>1 DEF QuarantineKept
  <2>4. QED BY <1>1, <1>2, <2>1, <2>2, <2>3, PassStepKeeps DEF RtArms
<1>4. CASE rtRows' = rtRows /\ rtClock' = rtClock
  <2>1. QuarantineKept'
    BY <1>1, <1>4 DEF AsLastSeen, QuarantineKept
  <2>2. QED BY <1>1, <1>2, <1>4, <2>1, PassStepKeeps DEF RtArms
<1>5. QED BY <1>3, <1>4 DEF PruneRepairs, RepairPauses

\* Of rows that are there, one is the oldest.
LEMMA OldestIs ==
    ASSUME NEW due, due # {}, \A x \in due : x.ts \in Nat
    PROVE  \E x \in due : \A y \in due : x.ts <= y.ts
<1> DEFINE stamps == {x.ts : x \in due}
<1>1. stamps \subseteq Nat /\ stamps # {}
  OBVIOUS
<1>2. PICK i \in stamps : \A j \in stamps : ~(<<j, i>> \in OpToRel(<, Nat))
  BY <1>1, NatLessThanWellFounded, WFMin
<1>3. \A j \in stamps : i <= j
  <2>1. OpToRel(<, Nat) = {ss \in Nat \X Nat : ss[1] < ss[2]}
    BY DEF OpToRel
  <2> SUFFICES ASSUME NEW j \in stamps, j < i PROVE FALSE
    BY <1>1
  <2>2. <<j, i>> \in {ss \in Nat \X Nat : ss[1] < ss[2]}
    BY <1>1
  <2>3. QED BY <1>2, <2>1, <2>2
<1>4. QED BY <1>3

\* What a chunk may take, arm by arm: a row past the cutoff, or past the horizon
\* while the clock agrees with the pass; and of the paused time ahead of the
\* clock nothing that is owed a judgement.
LEMMA ChunkTakes ==
    ASSUME RtInv, PruneDeletes
    PROVE  /\ rtTime' = rtTime /\ rtKeep' = rtKeep /\ rtClock' = rtClock /\ rtPass.pc \in RtArms
           /\ \E arm \in {"idle", "repair"} \cup RtArms : rtPass' = [rtPass EXCEPT !.pc = arm]
           /\ \/ rtRows' = rtRows
              \/ \E r \in rtRows :
                    /\ rtRows' = rtRows \ {r} /\ ~r.held
                    /\ \/ r.ts < Cut
                       \/ Ahead[1] /\ r.ts > Ahead[2] /\ (r.table = "pauses" => Healed)
<1> USE RtNumbers DEF RtInv
<1>1. ASSUME NEW from \in RtArms, NEW due, NEW to \in {"idle", "repair"} \cup RtArms, Chunk(from, due, to),
             due \subseteq rtRows
      PROVE  /\ rtTime' = rtTime /\ rtKeep' = rtKeep /\ rtClock' = rtClock /\ rtPass.pc \in RtArms
             /\ \E arm \in {"idle", "repair"} \cup RtArms : rtPass' = [rtPass EXCEPT !.pc = arm]
             /\ rtRows' = rtRows \/ \E r \in due : rtRows' = rtRows \ {r}
  <2>1. rtPass.pc = from /\ rtTime' = rtTime /\ rtKeep' = rtKeep /\ rtClock' = rtClock
    BY <1>1 DEF Chunk
  <2>2. CASE due = {}
    BY <1>1, <2>1, <2>2 DEF Chunk
  <2>3. CASE due # {}
    <3> DEFINE r == CHOOSE x \in due : \A y \in due : x.ts <= y.ts
    <3>1. rtPass' = [rtPass EXCEPT !.pc = from] /\ rtRows' = rtRows \ {r}
      <4>1. rtPass' = rtPass /\ rtRows' = rtRows \ {r}
        BY <1>1, <2>3 DEF Chunk
      <4>2. rtPass = [rtPass EXCEPT !.pc = rtPass.pc]
        BY DEF RtShape
      <4>3. QED BY <2>1, <4>1, <4>2
    <3>2. r \in due
      <4>1. \A x \in due : x.ts \in Nat
        BY <1>1 DEF RtShape, RtRow
      <4>2. \E x \in due : \A y \in due : x.ts <= y.ts
        BY <2>3, <4>1, OldestIs
      <4>3. QED BY <4>2
    <3> HIDE DEF r
    <3>3. QED BY <1>1, <2>1, <3>1, <3>2
  <2>4. QED BY <2>2, <2>3
<1>2. ASSUME NEW t \in Tables
      PROVE  /\ PastWindow(t) \subseteq rtRows /\ \A r \in PastWindow(t) : ~r.held /\ r.ts < Cut
             /\ TooFar(t) \subseteq rtRows
             /\ \A r \in TooFar(t) : ~r.held /\ r.table = t /\ Ahead[1] /\ r.ts > Ahead[2]
  BY DEF PastWindow, TooFar, LiveRows
<1>3. CASE Chunk("samples age", PastWindow("samples"), "samples ahead")
  BY <1>1, <1>2, <1>3 DEF RtArms, Tables
<1>4. CASE Chunk("samples ahead", TooFar("samples"), "pauses age")
  <2>1. \A r \in TooFar("samples") : r.table # "pauses"
    BY <1>2 DEF Tables
  <2>2. QED BY <1>1, <1>2, <1>4, <2>1 DEF RtArms, Tables
<1>5. CASE Chunk("pauses age", PastWindow("pauses"), "pauses ahead")
  BY <1>1, <1>2, <1>5 DEF RtArms, Tables
<1>6. CASE Chunk("pauses ahead", IF Healed THEN TooFar("pauses") ELSE {}, "idle")
  <2> DEFINE due == IF Healed THEN TooFar("pauses") ELSE {}
  <2>1. due \subseteq rtRows /\ \A r \in due : Healed /\ r \in TooFar("pauses")
    BY <1>2 DEF Tables
  <2>2. Chunk("pauses ahead", due, "idle")
    BY <1>6
  <2> HIDE DEF due
  <2>3. rtRows' = rtRows \/ \E r \in due : rtRows' = rtRows \ {r}
    BY <1>1, <2>1, <2>2 DEF RtArms
  <2>4. /\ rtTime' = rtTime /\ rtKeep' = rtKeep /\ rtClock' = rtClock /\ rtPass.pc \in RtArms
        /\ \E arm \in {"idle", "repair"} \cup RtArms : rtPass' = [rtPass EXCEPT !.pc = arm]
    BY <1>1, <2>1, <2>2 DEF RtArms
  <2>5. \A r \in due : ~r.held /\ r.table = "pauses" /\ Ahead[1] /\ r.ts > Ahead[2] /\ Healed
    BY <1>2, <2>1 DEF Tables
  <2>6. QED BY <2>1, <2>3, <2>4, <2>5
<1>7. QED BY <1>3, <1>4, <1>5, <1>6 DEF PruneDeletes

\* A chunk leaves everything but the row it takes as it was.
LEMMA PruneDeletesKeeps == ASSUME RtInv, PruneDeletes PROVE RtInv'
<1> USE RtNumbers DEF RtInv
<1>1. rtTime' = rtTime /\ rtKeep' = rtKeep /\ rtClock' = rtClock /\ Wall' = Wall /\ rtRows' \subseteq rtRows
  BY ChunkTakes DEF Wall
<1>2. rtPass.pc # "idle"
  BY ChunkTakes DEF RtArms
<1>3. PICK arm \in {"idle", "repair"} \cup RtArms : rtPass' = [rtPass EXCEPT !.pc = arm]
  BY ChunkTakes
<1>4. QuarantineKept'
  BY <1>1 DEF AsLastSeen, QuarantineKept
<1>5. rtRows \subseteq RtRow /\ rtClock \in RtClocks /\ \A r \in rtRows : r.born <= rtTime.hour
  BY DEF RtShape
<1>6. rtRows' \subseteq RtRow /\ \A r \in rtRows' : r.born <= rtTime.hour
  BY <1>1, <1>5
<1>7. QED BY <1>1, <1>2, <1>3, <1>4, <1>5, <1>6, PassStepKeeps

\* Every step of the store, the clock and the cleanup keeps the invariant.
LEMMA RtInvNext == ASSUME RtInv, [RtNext]_rtVars PROVE RtInv'
<1>1. CASE UNCHANGED rtVars
  BY <1>1 DEF rtVars, RtInv, RtShape, AsLastSeen, StoodByLook, FrameKnown, QuarantineKept, PassStands, Wall
<1>2. CASE RtNext
  BY <1>2, RtOpenKeeps, RtStopKeeps, WriteKeeps, RtHourKeeps, ClockSetKeeps, PruneStartsKeeps,
     PruneRepairsKeeps, PruneDeletesKeeps DEF RtNext
<1>3. QED BY <1>1, <1>2

\* What a chunk takes is past the window, misdated, or taken on the word of a
\* wrong clock.
LEMMA ChunkIsFair ==
    ASSUME RtInv, PruneDeletes, NEW r \in rtRows, rtRows' = rtRows \ {r}, ~r.held,
           r.ts < Cut \/ (Ahead[1] /\ r.ts > Ahead[2] /\ (r.table = "pauses" => Healed))
    PROVE  \/ Expired(r) \/ Misdated(r)
           \/ Wrong /\ rtTime.returned
           \/ /\ Wrong /\ rtPass.believed
              /\ r.table = "pauses" => rtPass.start > rtPass.began
<1> SUFFICES ASSUME ~Expired(r), ~Misdated(r)
             PROVE  /\ Wrong
                    /\ rtTime.returned \/ (rtPass.believed /\ (r.table = "pauses" => rtPass.start > rtPass.began))
  OBVIOUS
<1> USE RtNumbers DEF RtInv
<1>1. rtPass.pc # "idle"
  BY ChunkTakes DEF RtArms
<1>2. /\ rtClock.up /\ ~rtClock.stepSeen
      /\ rtPass.start = rtPass.began + rtClock.base /\ rtPass.began <= rtTime.hour
      /\ rtPass.believed \/ rtTime.returned
  BY <1>1 DEF PassStands
<1>3. /\ rtTime.hour \in Int /\ rtTime.off \in Int /\ rtClock.base \in Int /\ rtPass.start \in Int
      /\ rtPass.began \in Int /\ rtPass.window \in Int /\ rtKeep \in Int
      /\ r.ts \in Int /\ r.born \in Int /\ r.born <= rtTime.hour /\ r.ts = r.born
      /\ r.born + rtKeep >= rtTime.hour
  <2>1. r \in RtRow /\ r.born <= rtTime.hour
    BY DEF RtShape
  <2>2. rtTime.hour \in Int /\ rtKeep \in Int
    BY DEF RtShape
  <2>3. r.ts \in Int /\ r.born \in Int
    BY <2>1 DEF RtRow
  <2>4. r.born + rtKeep >= rtTime.hour
    BY <2>2, <2>3 DEF Expired
  <2>5. QED BY <2>1, <2>2, <2>3, <2>4 DEF RtShape, RtClocks, Misdated
<1>4. CASE r.ts < Cut
  <2>1. Cut <= rtPass.start - rtKeep /\ Cut \in Int
    BY <1>3 DEF Cut
  <2>2. rtPass.start > rtPass.began
    BY <1>2, <1>3, <1>4, <2>1
  <2>3. QED BY <1>2, <1>3, <2>2 DEF Wrong
<1>5. CASE Ahead[1] /\ r.ts > Ahead[2] /\ (r.table = "pauses" => Healed)
  <2>1. /\ Wall - rtPass.start = rtTime.hour - rtPass.began
        /\ r.ts > rtPass.start + (rtTime.hour - rtPass.began) + RtSlack
    BY <1>5 DEF Ahead
  <2>2. rtTime.off = rtClock.base /\ Wall \in Int
    <3>1. Wall = rtTime.hour + rtTime.off /\ Wall \in Int
      BY <1>3 DEF Wall
    <3>2. rtTime.hour + rtTime.off - (rtPass.began + rtClock.base) = rtTime.hour - rtPass.began
      BY <1>2, <1>3, <2>1, <3>1
    <3>3. QED BY <1>3, <3>1, <3>2
  <2>3. r.ts > Wall + RtSlack
    BY <1>2, <1>3, <2>1, <2>2
  <2>4. rtPass.start < rtPass.began
    BY <1>2, <1>3, <2>2, <2>3 DEF Wall
  <2>5. ASSUME r.table = "pauses", ~rtTime.returned PROVE FALSE
    <3>1. AsLastSeen /\ ~rtClock.armed
      BY <1>2, <1>5, <2>2, <2>5 DEF AsLastSeen, Healed
    <3>2. r.ts <= Wall + RtSlack
      BY <1>2, <2>5, <3>1 DEF QuarantineKept
    <3>3. QED BY <1>3, <2>2, <2>3, <3>2
  <2>6. QED BY <1>2, <1>3, <2>4, <2>5 DEF Wrong
<1>6. QED BY <1>4, <1>5

\* For clock steps, windows, slacks and settles of any size, and however often
\* the clock is set: the hourly cleanup (PruneLive) deletes no row that the
\* window keeps, unless its stamp or the clock was wrong, and that clock had
\* stood or has come back unseen; a clock that stands behind costs no paused time.
THEOREM CleanupKeepsFresh == RtSpec => FreshKept
<1>1. ASSUME RtInv, [RtNext]_rtVars, ~UNCHANGED rtVars
      PROVE  \A r \in rtRows :
                (\A s \in rtRows' : s.table # r.table \/ s.born # r.born)
                    => \/ Expired(r) \/ Misdated(r)
                       \/ Wrong /\ rtTime.returned
                       \/ /\ Wrong /\ rtPass.believed
                          /\ r.table = "pauses" => rtPass.start > rtPass.began
  <2> SUFFICES ASSUME NEW r \in rtRows, \A s \in rtRows' : s.table # r.table \/ s.born # r.born
               PROVE  \/ Expired(r) \/ Misdated(r)
                      \/ Wrong /\ rtTime.returned
                      \/ /\ Wrong /\ rtPass.believed
                         /\ r.table = "pauses" => rtPass.start > rtPass.began
    OBVIOUS
  <2>1. r \notin rtRows'
    OBVIOUS
  <2>2. RtNext
    BY <1>1
  <2>3. ASSUME NEW at \in Int, Judged(rtRows, at) \subseteq rtRows' PROVE FALSE
    <3>1. rtRows \subseteq RtRow
      BY <1>1 DEF RtInv, RtShape
    <3>2. \E j \in Judged(rtRows, at) : j.table = r.table /\ j.born = r.born
      BY <3>1, JudgedKeeps
    <3>3. QED BY <2>3, <3>2
  <2>4. Wall \in Int /\ Reading(rtClock) \in Int
    BY <1>1, ReadingIs DEF RtInv, RtShape, Wall
  <2>5. CASE RtOpen \/ PruneRepairs \/ \E t \in Tables : Write(t)
    <3>1. \/ rtRows \subseteq rtRows' \/ Judged(rtRows, Wall) \subseteq rtRows'
          \/ Judged(rtRows, Reading(rtClock)) \subseteq rtRows'
      BY <2>5 DEF RtOpen, PruneRepairs, RepairPauses, Write
    <3>2. QED BY <2>1, <2>3, <2>4, <3>1
  <2>6. CASE RtStop \/ SetRetention \/ HourPasses \/ ClockSet \/ PruneStarts
    BY <2>1, <2>6 DEF RtStop, SetRetention, HourPasses, ClockSet, PruneStarts
  <2>7. CASE PruneDeletes
    <3>1. PICK x \in rtRows :
             /\ rtRows' = rtRows \ {x} /\ ~x.held
             /\ x.ts < Cut \/ (Ahead[1] /\ x.ts > Ahead[2] /\ (x.table = "pauses" => Healed))
      BY <1>1, <2>1, <2>7, ChunkTakes
    <3>2. x = r
      BY <2>1, <3>1
    <3>3. QED BY <1>1, <2>7, <3>1, <3>2, ChunkIsFair
  <2>8. QED BY <2>2, <2>5, <2>6, <2>7 DEF RtNext
<1>2. RtSpec => []RtInv
  BY RtInvInit, RtInvNext, PTL DEF RtSpec
<1>3. QED BY <1>1, <1>2, PTL DEF RtSpec, FreshKept

-----------------------------------------------------------------------------
(* LogRing: the recent log lines, their snapshot and the pane              *)

Rising(lines) == \A i, j \in DOMAIN lines : i < j => lines[i] < lines[j]

\* Lines that were logged, in the order they were.
WrittenTo(lines, top) ==
    lines \in Seq(Nat) /\ Rising(lines) /\ \A i \in 1..Len(lines) : lines[i] \in 1..top
Written(lines) == WrittenTo(lines, lrCount.logged)

Callers == {"poll", "post"}
Saves == [by : {"timer", "clear"}, at : {"copied", "renamed"}, copy : Seq(Nat), epoch : Nat, seq : Nat,
          wiped : SUBSET Nat, touched : BOOLEAN]
Answers == [epoch : Nat, lines : Seq(Nat), next : Nat, dropped : Nat]
Asked == [at : {"clear", "wait", "asked", "named", "answered"}, since : Nat, epoch : Nat, named : Nat,
          answer : {NoAnswer} \cup Answers]

RingShape ==
    /\ lrRing \in [lines : Seq(Nat), dropped : Nat, epoch : Nat \ {0}] /\ Written(lrRing.lines)
    /\ lrCount \in [logged : Nat, clears : Nat, crashes : Nat, touches : Nat, ticks : Nat, posts : Nat]
    /\ lrHeld \subseteq 1..lrCount.logged

DiskShape ==
    /\ lrFile \in [lines : Seq(Nat), private : BOOLEAN, there : BOOLEAN] /\ Written(lrFile.lines)
    /\ lrSaved = NothingSaved \/ lrSaved \in [written : {TRUE}, epoch : Nat, seq : Nat, size : Nat]
    /\ lrSave = NotSaving \/ (lrSave \in Saves /\ Written(lrSave.copy))
    /\ lrGone \subseteq 1..lrCount.logged

ViewShape ==
    /\ lrReq \in [Callers -> {NoRequest} \cup Asked] /\ lrNewest \in Callers
    /\ lrPane \in [lines : Seq(Nat), epoch : Nat, cursor : Nat, open : BOOLEAN]

LrShape == RingShape /\ DiskShape /\ ViewShape

\* How many lines of this epoch came after a line.
After(line) == Cardinality({h \in lrHeld : h > line})

\* Lines of this epoch, one after the other, the last of them just before a
\* place in the ring.
Follows(lines, next) ==
    \A i \in 1..Len(lines) : lines[i] \in lrHeld /\ After(lines[i]) = End - next + (Len(lines) - i)

RingHeld == Follows(lrRing.lines, End) /\ (lrRing.lines = <<>> => lrHeld = {})

\* A place the ring has come to, in this epoch or one before.
Reached(epoch, seq) == epoch <= lrRing.epoch /\ (epoch = lrRing.epoch => seq <= End)

-----------------------------------------------------------------------------
(* The snapshot.                                                           *)

PrefixOf(lines, of) == \E n \in 0..Len(of) : lines = SubSeq(of, 1, n)

\* What a save copied was the ring at the place it noted, and is no line of a
\* clear that has answered, nor one its own clear has wiped.
CopyTrue ==
    lrSave # NotSaving =>
        /\ Reached(lrSave.epoch, lrSave.seq)
        /\ lrSave.epoch = lrRing.epoch /\ lrSave.seq = End => lrSave.copy = lrRing.lines
        /\ lrSave.wiped \subseteq 1..lrCount.logged
        /\ ToSet(lrSave.copy) \cap (lrGone \cup lrSave.wiped) = {}
        /\ lrHeld \cap lrSave.wiped = {}

\* A place noted as saved is not past the save under way, nor the ring; and
\* while it is theirs, the file holds what they hold, or the beginning of it.
SavedTrue ==
    lrSaved.written =>
        /\ Reached(lrSaved.epoch, lrSaved.seq)
        /\ lrSaved.epoch = lrRing.epoch /\ lrSaved.seq = End =>
              lrSaved.size = BytesIn(lrRing.lines, 1) /\ PrefixOf(lrFile.lines, lrRing.lines)
        /\ lrSave # NotSaving =>
              /\ lrSaved.epoch < lrSave.epoch
                 \/ (lrSaved.epoch = lrSave.epoch /\ lrSaved.seq <= lrSave.seq)
              /\ lrSaved.epoch = lrSave.epoch /\ lrSaved.seq = lrSave.seq =>
                    lrSaved.size = BytesIn(lrSave.copy, 1) /\ PrefixOf(lrFile.lines, lrSave.copy)

\* What was just renamed into place is the copy, until somebody touches it.
RenamedTrue ==
    lrSave.at = "renamed" =>
        /\ PrefixOf(lrFile.lines, lrSave.copy)
        /\ ~lrSave.touched => lrFile = [lines |-> lrSave.copy, private |-> TRUE, there |-> TRUE]

WipedApart == lrHeld \cap lrGone = {}

DiskTrue == CopyTrue /\ SavedTrue /\ RenamedTrue /\ WipedApart /\ SnapshotTrue

-----------------------------------------------------------------------------
(* The pane.                                                               *)

\* A window that was read tells of the ring it names, from where it was asked.
AnswerTrue(q) ==
    /\ q.answer \in Answers /\ q.answer.epoch = q.named
    /\ Reached(q.named, q.answer.next)
    /\ q.named = lrRing.epoch =>
          /\ Follows(q.answer.lines, q.answer.next)
          /\ q.epoch = q.named /\ q.answer.dropped = 0 => q.answer.next = q.since + Len(q.answer.lines)
          /\ q.answer.dropped > 0 /\ q.answer.lines = <<>> => After(Gap) = End - q.answer.next

RequestTrue(k, q) ==
    q.at # "idle" =>
        /\ Reached(q.epoch, q.since)
        /\ k = "post" => q.epoch = 0
        /\ k = "poll" => q.at \notin {"clear", "wait"}
        /\ k = "poll" /\ lrNewest = "poll" => q.since = lrPane.cursor /\ q.epoch = lrPane.epoch
        /\ q.at \in {"named", "answered"} => q.named \in 1..lrRing.epoch
        /\ q.at = "answered" => AnswerTrue(q)

\* Lines of this epoch with a seam wherever one is missing, as many still to
\* come after the last as there are from a place on.
Shown(lines, next) ==
    /\ \A i \in 1..Len(lines) : lines[i] \in lrHeld \cup {Gap}
    /\ \A i \in 1..(Len(lines) - 1) :
          lines[i] # Gap /\ lines[i + 1] # Gap => After(lines[i]) = After(lines[i + 1]) + 1
    /\ lines # <<>> => After(lines[Len(lines)]) = End - next

PaneKept ==
    /\ Reached(lrPane.epoch, lrPane.cursor)
    /\ lrPane.epoch = lrRing.epoch => Shown(lrPane.lines, lrPane.cursor)

FollowerTrue == PaneKept /\ \A k \in Callers : RequestTrue(k, lrReq[k])

LrInv == LrShape /\ RingHeld /\ DiskTrue /\ FollowerTrue

-----------------------------------------------------------------------------
\* The newest n of some lines.
LEMMA LastOfIs ==
    ASSUME NEW S, NEW lines \in Seq(S), NEW n \in 0..Len(lines)
    PROVE  /\ LastOf(lines, n) \in Seq(S) /\ Len(LastOf(lines, n)) = n
           /\ \A i \in 1..n : LastOf(lines, n)[i] = lines[Len(lines) - n + i]
<1>1. Len(lines) \in Nat
  OBVIOUS
<1> DEFINE from == Len(lines) - n + 1
<1>2. from \in 1..(Len(lines) + 1) /\ Len(lines) - from + 1 = n
  BY <1>1
<1>3. LastOf(lines, n) = SubSeq(lines, from, Len(lines))
  BY DEF LastOf
<1> HIDE DEF from
<1>4. SubSeq(lines, from, Len(lines)) \in Seq(S)
  BY <1>1, <1>2
<1>5. Len(SubSeq(lines, from, Len(lines))) = n
  BY <1>1, <1>2
<1>6. \A i \in 1..n : SubSeq(lines, from, Len(lines))[i] = lines[from + i - 1]
  BY <1>1, <1>2
<1>7. \A i \in 1..n : from + i - 1 = Len(lines) - n + i
  BY <1>1 DEF from
<1>8. QED BY <1>3, <1>4, <1>5, <1>6, <1>7

\* The first n of some lines.
LEMMA FirstOfIs ==
    ASSUME NEW S, NEW lines \in Seq(S), NEW n \in 0..Len(lines)
    PROVE  /\ SubSeq(lines, 1, n) \in Seq(S) /\ Len(SubSeq(lines, 1, n)) = n
           /\ \A i \in 1..n : SubSeq(lines, 1, n)[i] = lines[i]
  OBVIOUS

\* Part of what was logged was logged, in that order.
LEMMA PartsAreWritten ==
    ASSUME NEW top, NEW lines, WrittenTo(lines, top), NEW n \in 0..Len(lines)
    PROVE  /\ WrittenTo(LastOf(lines, n), top) /\ WrittenTo(SubSeq(lines, 1, n), top)
           /\ ToSet(LastOf(lines, n)) \subseteq ToSet(lines) /\ ToSet(SubSeq(lines, 1, n)) \subseteq ToSet(lines)
<1>1. lines \in Seq(Nat) /\ Len(lines) \in Nat /\ DOMAIN lines = 1..Len(lines)
  BY DEF WrittenTo
<1>2. /\ LastOf(lines, n) \in Seq(Nat) /\ Len(LastOf(lines, n)) = n
      /\ \A i \in 1..n : LastOf(lines, n)[i] = lines[Len(lines) - n + i]
      /\ DOMAIN LastOf(lines, n) = 1..n
  <2>1. /\ LastOf(lines, n) \in Seq(Nat) /\ Len(LastOf(lines, n)) = n
        /\ \A i \in 1..n : LastOf(lines, n)[i] = lines[Len(lines) - n + i]
    BY <1>1, LastOfIs
  <2>2. QED BY <2>1
<1>3. /\ SubSeq(lines, 1, n) \in Seq(Nat) /\ Len(SubSeq(lines, 1, n)) = n
      /\ \A i \in 1..n : SubSeq(lines, 1, n)[i] = lines[i]
      /\ DOMAIN SubSeq(lines, 1, n) = 1..n
  BY <1>1, FirstOfIs
<1>4. \A i \in 1..n : Len(lines) - n + i \in 1..Len(lines)
  BY <1>1
<1>5. \A i \in 1..n : i \in 1..Len(lines)
  BY <1>1
<1>6. WrittenTo(LastOf(lines, n), top)
  <2>1. Rising(LastOf(lines, n))
    <3> SUFFICES ASSUME NEW i \in 1..n, NEW j \in 1..n, i < j
                 PROVE  LastOf(lines, n)[i] < LastOf(lines, n)[j]
      BY <1>2 DEF Rising
    <3>1. Len(lines) - n + i < Len(lines) - n + j
      BY <1>1
    <3>2. lines[Len(lines) - n + i] < lines[Len(lines) - n + j]
      BY <1>1, <1>4, <3>1 DEF WrittenTo, Rising
    <3>3. QED BY <1>2, <3>2
  <2>2. QED BY <1>2, <1>4, <2>1 DEF WrittenTo
<1>7. WrittenTo(SubSeq(lines, 1, n), top)
  <2>1. Rising(SubSeq(lines, 1, n))
    BY <1>1, <1>3, <1>5 DEF WrittenTo, Rising
  <2>2. QED BY <1>3, <1>5, <2>1 DEF WrittenTo
<1>8. QED BY <1>1, <1>2, <1>3, <1>4, <1>5, <1>6, <1>7 DEF ToSet

\* trim keeps the newest lines, one at least.
LEMMA TrimmedIs ==
    ASSUME NEW lines \in Seq(Nat), NEW dropped \in Nat
    PROVE  \E n \in 0..Len(lines) :
              /\ Trimmed(lines, dropped).lines = LastOf(lines, n)
              /\ Trimmed(lines, dropped).dropped = dropped + (Len(lines) - n)
              /\ lines # <<>> => n # 0
<1>1. lines \in Seq(Nat) /\ Len(lines) \in Nat
  OBVIOUS
<1>2. CASE lines = <<>>
  <2>1. LastOf(lines, 0) = <<>> /\ Len(lines) = 0
    BY <1>2 DEF LastOf
  <2>2. Trimmed(lines, dropped) = [lines |-> lines, dropped |-> dropped]
    BY <1>2 DEF Trimmed
  <2>3. QED BY <1>2, <2>1, <2>2
<1>3. CASE lines # <<>>
  <2>1. 1 \in 1..Len(lines)
    BY <1>1, <1>3
  <2> DEFINE ns == {1} \cup {n \in 1..Len(lines) : n <= Cap /\ BytesIn(LastOf(lines, n), 0) <= MaxBytes}
  <2>2. ns \in SUBSET (0..Len(lines)) /\ ns # {} /\ ns \subseteq 1..Len(lines)
    BY <1>1, <2>1
  <2>3. KeptOf(lines) = Max(ns)
    BY DEF KeptOf
  <2> HIDE DEF ns
  <2>4. KeptOf(lines) \in 1..Len(lines)
    BY <1>1, <2>2, <2>3, GreatestIs
  <2>5. /\ Trimmed(lines, dropped).lines = LastOf(lines, KeptOf(lines))
        /\ Trimmed(lines, dropped).dropped = dropped + Len(lines) - KeptOf(lines)
    BY <1>3 DEF Trimmed
  <2>6. dropped + Len(lines) - KeptOf(lines) = dropped + (Len(lines) - KeptOf(lines))
    BY <1>1, <2>4
  <2>7. QED BY <1>1, <2>4, <2>5, <2>6
<1>4. QED BY <1>2, <1>3

\* LoadFile reads a tail of the snapshot.
LEMMA TailIs ==
    ASSUME NEW top, NEW lines, WrittenTo(lines, top)
    PROVE  /\ WrittenTo(TailOf(lines), top) /\ ToSet(TailOf(lines)) \subseteq ToSet(lines)
<1>1. lines \in Seq(Nat) /\ Len(lines) \in Nat
  BY DEF WrittenTo
<1>2. CASE TailOf(lines) = lines
  BY <1>2
<1>3. CASE TailOf(lines) # lines
  <2> DEFINE ns == {n \in 0..Len(lines) : BytesIn(LastOf(lines, n), 1) < MaxBytes}
  <2>1. TailOf(lines) = LastOf(lines, Max(ns))
    BY <1>3 DEF TailOf
  <2>2. LastOf(lines, 0) = <<>>
    BY <1>1 DEF LastOf
  <2>3. BytesIn(<<>>, 1) = 0
    <3>1. {i \in DOMAIN <<>> : LongLine(<<>>[i])} = {}
      OBVIOUS
    <3>2. QED BY <3>1, FS_EmptySet DEF BytesIn
  <2>4. 0 \in ns
    BY <1>1, <2>2, <2>3, LogRingAssumption
  <2>5. ns \in SUBSET (0..Len(lines)) /\ ns # {}
    BY <2>4
  <2> HIDE DEF ns
  <2>6. Max(ns) \in 0..Len(lines)
    BY <1>1, <2>5, GreatestIs
  <2>7. QED BY <2>1, <2>6, PartsAreWritten
<1>4. QED BY <1>2, <1>3

\* The beginning of some lines that takes as many bytes is all of them: the memo
\* of the last save tells a file cut short.
LEMMA SameBytesSameLines ==
    ASSUME NEW lines, NEW of \in Seq(Nat), PrefixOf(lines, of), BytesIn(lines, 1) = BytesIn(of, 1)
    PROVE  lines = of
<1>1. PICK n \in 0..Len(of) : lines = SubSeq(of, 1, n)
  BY DEF PrefixOf
<1>2. lines \in Seq(Nat) /\ Len(lines) = n /\ \A i \in 1..n : lines[i] = of[i]
  BY <1>1, FirstOfIs
<1> DEFINE Longs(s) == {i \in DOMAIN s : LongLine(s[i])}
<1>3. /\ DOMAIN lines = 1..n /\ DOMAIN of = 1..Len(of) /\ Len(of) \in Nat /\ n \in Nat /\ n <= Len(of)
  BY <1>2
<1>4. Longs(lines) \subseteq Longs(of) /\ IsFiniteSet(Longs(of))
  <2>1. \A i \in 1..n : i \in 1..Len(of)
    BY <1>3
  <2>2. IsFiniteSet(1..Len(of))
    BY <1>3, FS_Interval
  <2>3. Longs(of) \subseteq 1..Len(of)
    BY <1>3
  <2>4. QED BY <1>2, <1>3, <2>1, <2>2, <2>3, FS_Subset
<1>5. /\ Cardinality(Longs(lines)) \in Nat /\ Cardinality(Longs(of)) \in Nat
      /\ Cardinality(Longs(lines)) <= Cardinality(Longs(of))
  BY <1>4, FS_Subset, FS_CardinalityType
<1>6. BytesIn(lines, 1) = n * 2 + Cardinality(Longs(lines)) /\ BytesIn(of, 1) = Len(of) * 2 + Cardinality(Longs(of))
  BY <1>2 DEF BytesIn
<1> DEFINE short == Cardinality(Longs(lines))
           long == Cardinality(Longs(of))
           whole == Len(of)
<1>7. n = Len(of)
  <2>1. short \in Nat /\ long \in Nat /\ short <= long /\ n * 2 + short = whole * 2 + long
        /\ n \in Nat /\ whole \in Nat /\ n <= whole
    BY <1>3, <1>5, <1>6
  <2> HIDE DEF short, long, whole
  <2>2. n = whole
    BY <2>1
  <2>3. QED BY <2>2 DEF whole
<1>8. QED BY <1>1, <1>7

-----------------------------------------------------------------------------
\* The lines of an epoch are finitely many, and so are those after one of them.
LEMMA AfterIs ==
    ASSUME LrShape, NEW line \in Nat
    PROVE  After(line) \in Nat /\ IsFiniteSet({h \in lrHeld : h > line})
<1>1. IsFiniteSet(1..lrCount.logged)
  BY FS_Interval DEF LrShape, RingShape, DiskShape, ViewShape
<1>2. {h \in lrHeld : h > line} \subseteq 1..lrCount.logged
  BY DEF LrShape, RingShape, DiskShape, ViewShape
<1>3. QED BY <1>1, <1>2, FS_Subset, FS_CardinalityType DEF After

\* A line has one more after it than another when it comes just before it.
LEMMA NextIs ==
    ASSUME LrShape, NEW a \in lrHeld, NEW b \in lrHeld, After(a) = After(b) + 1
    PROVE  a < b /\ {h \in lrHeld : a < h /\ h < b} = {}
<1>1. lrHeld \subseteq Nat
  BY DEF LrShape, RingShape, DiskShape, ViewShape
<1> DEFINE Later(x) == {h \in lrHeld : h > x}
<1>2. \A x \in lrHeld : IsFiniteSet(Later(x)) /\ After(x) = Cardinality(Later(x)) /\ After(x) \in Nat
  BY <1>1, AfterIs DEF After
<1>3. a < b
  <2> SUFFICES ASSUME b <= a PROVE FALSE
    BY <1>1
  <2>1. \A h \in Later(a) : h \in Later(b)
    BY <1>1
  <2> HIDE DEF Later
  <2>2. Later(a) \subseteq Later(b) /\ IsFiniteSet(Later(b))
    BY <1>2, <2>1
  <2>3. Cardinality(Later(a)) <= Cardinality(Later(b))
    BY <2>2, FS_Subset
  <2>4. QED BY <1>2, <2>3
<1>4. ASSUME NEW h \in lrHeld, a < h, h < b PROVE FALSE
  <2>1. (\A x \in Later(b) : x \in Later(h)) /\ b \in Later(h) /\ b \notin Later(b)
    BY <1>1, <1>4
  <2>2. (\A x \in Later(h) : x \in Later(a)) /\ h \in Later(a) /\ h \notin Later(h)
    BY <1>1, <1>4
  <2> HIDE DEF Later
  <2>3. Cardinality(Later(b)) < Cardinality(Later(h))
    <3>1. Cardinality(Later(b)) <= Cardinality(Later(h)) /\ Cardinality(Later(b)) # Cardinality(Later(h))
      BY <1>2, <2>1, FS_Subset
    <3>2. QED BY <1>2, <3>1
  <2>4. Cardinality(Later(h)) < Cardinality(Later(a))
    <3>1. Cardinality(Later(h)) <= Cardinality(Later(a)) /\ Cardinality(Later(h)) # Cardinality(Later(a))
      BY <1>2, <2>2, FS_Subset
    <3>2. QED BY <1>2, <3>1
  <2>5. QED BY <1>2, <2>3, <2>4
<1>5. QED BY <1>3, <1>4

\* Of lines in the order they were logged, as many come after one as follow it.
LEMMA WrittenAfter ==
    ASSUME NEW top \in Nat, NEW lines, WrittenTo(lines, top), NEW i \in 1..Len(lines)
    PROVE  Cardinality({h \in ToSet(lines) : h > lines[i]}) = Len(lines) - i
<1>1. /\ lines \in Seq(Nat) /\ Len(lines) \in Nat /\ DOMAIN lines = 1..Len(lines)
      /\ \A k \in 1..Len(lines) : lines[k] \in Nat
  BY DEF WrittenTo
<1>2. \A j, k \in 1..Len(lines) : j < k => lines[j] < lines[k]
  BY <1>1 DEF WrittenTo, Rising
<1> DEFINE later == {h \in ToSet(lines) : h > lines[i]}
           places == (i + 1)..Len(lines)
           f == [k \in places |-> lines[k]]
<1>3. \A k \in places : k \in 1..Len(lines)
  BY <1>1
<1>4. later = {lines[k] : k \in places}
  <2>1. \A k \in places : lines[k] \in later
    BY <1>1, <1>2, <1>3 DEF ToSet
  <2>2. ASSUME NEW h \in later PROVE \E k \in places : h = lines[k]
    <3>1. PICK k \in 1..Len(lines) : h = lines[k]
      BY <1>1 DEF ToSet
    <3>2. ~(k <= i)
      <4> SUFFICES ASSUME k <= i PROVE FALSE
        OBVIOUS
      <4>1. lines[k] <= lines[i]
        BY <1>1, <1>2
      <4>2. QED BY <1>1, <3>1, <4>1
    <3>3. QED BY <1>1, <3>1, <3>2
  <2>3. QED BY <2>1, <2>2
<1>5. f \in Bijection(places, later)
  <2>1. \A j, k \in places : lines[j] = lines[k] => j = k
    <3> SUFFICES ASSUME NEW j \in places, NEW k \in places, lines[j] = lines[k] PROVE j = k
      OBVIOUS
    <3>1. ~(j < k) /\ ~(k < j)
      BY <1>1, <1>2, <1>3
    <3>2. QED BY <1>1, <3>1
  <2>2. f \in [places -> later]
    BY <1>4
  <2>3. \A h \in later : \E k \in places : f[k] = h
    BY <1>4
  <2>4. QED BY <2>1, <2>2, <2>3 DEF Bijection, Injection, Surjection, IsInjective
<1>6. IsFiniteSet(places) /\ Cardinality(places) = Len(lines) - i
  <2>1. i + 1 \in Int /\ Len(lines) \in Int
    BY <1>1
  <2>2. /\ IsFiniteSet(places)
        /\ Cardinality(places) = IF i + 1 > Len(lines) THEN 0 ELSE Len(lines) - (i + 1) + 1
    BY <2>1, FS_Interval
  <2>3. QED BY <1>1, <2>2
<1> HIDE DEF f, places, later
<1>7. Cardinality(later) = Cardinality(places)
  BY <1>5, <1>6, FS_Bijection DEF ExistsBijection
<1>8. QED BY <1>6, <1>7 DEF later

-----------------------------------------------------------------------------
\* What a new line does to the ring: the end moves on by one, whatever is evicted.
LEMMA LoggedIs ==
    ASSUME LrShape, Logged
    PROVE  /\ lrCount'.logged = lrCount.logged + 1
           /\ lrCount' \in [logged : Nat, clears : Nat, crashes : Nat, touches : Nat, ticks : Nat, posts : Nat]
           /\ lrRing' \in [lines : Seq(Nat), dropped : Nat, epoch : Nat \ {0}]
           /\ lrRing'.epoch = lrRing.epoch /\ End' = End + 1
           /\ lrHeld' = lrHeld \cup {lrCount.logged + 1}
           /\ \E n \in 1..(Len(lrRing.lines) + 1) :
                 lrRing'.lines = LastOf(Append(lrRing.lines, lrCount.logged + 1), n)
           /\ UNCHANGED <<lrDisk, lrWiping, lrViewer>>
<1> DEFINE line == lrCount.logged + 1
           all == Append(lrRing.lines, line)
           kept == Trimmed(all, lrRing.dropped)
<1>1. /\ lrRing.lines \in Seq(Nat) /\ lrRing.dropped \in Nat /\ lrRing.epoch \in Nat \ {0}
      /\ lrCount.logged \in Nat /\ line \in Nat
  BY DEF LrShape, RingShape, DiskShape, ViewShape
<1>2. all \in Seq(Nat) /\ Len(all) = Len(lrRing.lines) + 1 /\ all # <<>> /\ Len(lrRing.lines) \in Nat
  BY <1>1
<1>3. /\ lrCount' = [lrCount EXCEPT !.logged = line]
      /\ lrRing' = [lrRing EXCEPT !.lines = kept.lines, !.dropped = kept.dropped]
      /\ lrHeld' = lrHeld \cup {line}
      /\ UNCHANGED <<lrDisk, lrWiping, lrViewer>>
  BY DEF Logged, Counted
<1> HIDE DEF all, kept
<1>4. PICK n \in 0..Len(all) :
         /\ kept.lines = LastOf(all, n) /\ kept.dropped = lrRing.dropped + (Len(all) - n) /\ n # 0
  BY <1>1, <1>2, TrimmedIs DEF kept
<1>5. LastOf(all, n) \in Seq(Nat) /\ Len(LastOf(all, n)) = n
  BY <1>2, LastOfIs
<1>6. kept.dropped \in Nat /\ kept.lines \in Seq(Nat)
  BY <1>1, <1>2, <1>4, <1>5
<1>7. /\ lrRing' \in [lines : Seq(Nat), dropped : Nat, epoch : Nat \ {0}]
      /\ lrRing'.epoch = lrRing.epoch /\ lrRing'.lines = LastOf(all, n) /\ lrRing'.dropped = kept.dropped
  BY <1>3, <1>4, <1>6 DEF LrShape, RingShape, DiskShape, ViewShape
<1>8. End' = End + 1
  <2>1. End' = lrRing'.dropped + Len(lrRing'.lines)
    BY DEF End
  <2>2. lrRing'.dropped = lrRing.dropped + (Len(lrRing.lines) + 1 - n) /\ Len(lrRing'.lines) = n
    BY <1>2, <1>4, <1>5, <1>7
  <2>3. QED BY <1>1, <1>2, <1>4, <2>1, <2>2 DEF End
<1>9. lrCount' \in [logged : Nat, clears : Nat, crashes : Nat, touches : Nat, ticks : Nat, posts : Nat]
      /\ lrCount'.logged = line
  BY <1>1, <1>3 DEF LrShape, RingShape, DiskShape, ViewShape
<1>10. n \in 1..(Len(lrRing.lines) + 1)
  BY <1>2, <1>4
<1>11. QED BY <1>3, <1>7, <1>8, <1>9, <1>10 DEF all

\* A new line comes after every line there was.
LEMMA AfterGrows ==
    ASSUME LrShape, Logged
    PROVE  /\ \A x \in 0..lrCount.logged : After(x)' = After(x) + 1
           /\ \A x \in Nat : x > lrCount.logged => After(x)' = 0
<1> DEFINE line == lrCount.logged + 1
<1>1. lrCount.logged \in Nat /\ lrHeld \subseteq 1..lrCount.logged /\ lrHeld' = lrHeld \cup {line}
  BY LoggedIs DEF LrShape, RingShape, DiskShape, ViewShape
<1>2. ASSUME NEW x \in 0..lrCount.logged PROVE After(x)' = After(x) + 1
  <2> DEFINE later == {h \in lrHeld : h > x}
  <2>1. {h \in lrHeld' : h > x} = later \cup {line} /\ line \notin later
    BY <1>1
  <2>2. IsFiniteSet(later) /\ After(x) = Cardinality(later) /\ After(x) \in Nat
    BY <1>1, AfterIs DEF After
  <2>3. After(x)' = Cardinality({h \in lrHeld' : h > x})
    BY DEF After
  <2> HIDE DEF later, line
  <2>4. Cardinality(later \cup {line}) = Cardinality(later) + 1
    BY <2>1, <2>2, FS_AddElement
  <2>5. QED BY <2>1, <2>2, <2>3, <2>4
<1>3. ASSUME NEW x \in Nat, x > lrCount.logged PROVE After(x)' = 0
  <2>1. \A h \in lrHeld' : h \in Nat /\ h <= line
    BY <1>1
  <2>2. {h \in lrHeld' : h > x} = {}
    <3>1. x >= line /\ line \in Nat
      BY <1>1, <1>3
    <3>2. \A h \in lrHeld' : ~(h > x)
      BY <2>1, <3>1
    <3>3. QED BY <3>2
  <2>3. QED BY <2>2, FS_EmptySet DEF After
<1>4. QED BY <1>2, <1>3

\* A step leaves the ring alone, logs a line, or begins a new epoch.
LEMMA RingSteps ==
    ASSUME LrShape, [LrNext]_lrVars
    PROVE  \/ UNCHANGED <<lrRing, lrHeld>> /\ lrCount'.logged = lrCount.logged
           \/ Logged
           \/ lrRing'.epoch = lrRing.epoch + 1 /\ lrCount'.logged = lrCount.logged
<1>1. ASSUME NEW what \in {"clears", "crashes", "touches", "ticks", "posts"}, Counted(what)
      PROVE  lrCount'.logged = lrCount.logged
  BY <1>1 DEF Counted, LrShape, RingShape, DiskShape, ViewShape
<1>2. CASE UNCHANGED lrVars
  BY <1>2 DEF lrVars
<1>3. ASSUME NEW by \in {"pane", "other"}, Wiped(by)
      PROVE  lrRing'.epoch = lrRing.epoch + 1 /\ lrCount'.logged = lrCount.logged
  BY <1>1, <1>3 DEF Wiped, Cleared
<1>4. ASSUME RingReseeded PROVE lrRing'.epoch = lrRing.epoch + 1 /\ lrCount'.logged = lrCount.logged
  BY <1>1, <1>4 DEF RingReseeded
<1>5. ASSUME \/ \E by \in {"timer", "clear"} : SaveTaken(by)
             \/ SaveSkipped \/ SaveRenamed \/ SaveDone \/ SaveFailed \/ Touched
             \/ PollSent \/ \E at \in {"clear", "asked"} : PostSent(at)
             \/ \E k \in Callers : EpochRead(k) \/ WindowRead(k) \/ RequestLost(k) \/ Rendered(k)
      PROVE  UNCHANGED <<lrRing, lrHeld>> /\ lrCount'.logged = lrCount.logged
  <2>1. CASE \E by \in {"timer", "clear"} : SaveTaken(by)
    BY <1>1, <2>1 DEF SaveTaken
  <2>2. CASE SaveSkipped \/ SaveRenamed \/ SaveDone \/ SaveFailed
    BY <2>2 DEF SaveSkipped, SaveRenamed, SaveDone, SaveFailed, SaveNil, SaveOver
  <2>3. CASE Touched \/ PollSent \/ \E at \in {"clear", "asked"} : PostSent(at)
    BY <1>1, <2>3 DEF Touched, PollSent, PostSent
  <2>4. CASE \E k \in Callers : EpochRead(k) \/ WindowRead(k) \/ RequestLost(k) \/ Rendered(k)
    BY <2>4 DEF EpochRead, WindowRead, RequestLost, Rendered
  <2>5. QED BY <1>5, <2>1, <2>2, <2>3, <2>4
<1>6. QED BY <1>2, <1>3, <1>4, <1>5 DEF LrNext, Callers

\* The ring never goes back.
LEMMA ReachedStays ==
    ASSUME LrShape, [LrNext]_lrVars, NEW epoch \in Nat, NEW seq \in Nat, Reached(epoch, seq)
    PROVE  Reached(epoch, seq)' /\ lrRing.epoch <= lrRing'.epoch
<1>1. lrRing.epoch \in Nat /\ End \in Nat
  BY DEF LrShape, RingShape, DiskShape, ViewShape, End
<1>2. CASE UNCHANGED <<lrRing, lrHeld>>
  BY <1>1, <1>2 DEF Reached, End
<1>3. CASE Logged
  BY <1>1, <1>3, LoggedIs DEF Reached
<1>4. CASE lrRing'.epoch = lrRing.epoch + 1
  BY <1>1, <1>4 DEF Reached
<1>5. QED BY <1>2, <1>3, <1>4, RingSteps

\* Lines that followed one another up to a place of this epoch still do.
LEMMA FollowsStays ==
    ASSUME LrShape, [LrNext]_lrVars, NEW lines \in Seq(Nat), NEW next \in Nat, Follows(lines, next),
           lrRing'.epoch = lrRing.epoch
    PROVE  Follows(lines, next)'
<1>1. lrRing.epoch \in Nat /\ End \in Nat /\ lrCount.logged \in Nat /\ lrHeld \subseteq 1..lrCount.logged
  BY DEF LrShape, RingShape, DiskShape, ViewShape, End
<1>2. CASE UNCHANGED <<lrRing, lrHeld>>
  BY <1>2 DEF Follows, After, End
<1>3. CASE Logged
  <2> SUFFICES ASSUME NEW i \in 1..Len(lines)
               PROVE  lines[i] \in lrHeld' /\ After(lines[i])' = End' - next + (Len(lines) - i)
    BY DEF Follows
  <2>1. lines[i] \in lrHeld /\ After(lines[i]) = End - next + (Len(lines) - i)
    BY DEF Follows
  <2>2. lines[i] \in 0..lrCount.logged
    BY <1>1, <2>1
  <2>3. After(lines[i])' = After(lines[i]) + 1 /\ End' = End + 1 /\ lines[i] \in lrHeld'
    BY <1>3, <2>1, <2>2, AfterGrows, LoggedIs
  <2> DEFINE behind == Len(lines) - i
             after == After(lines[i])
             end == End
  <2>4. behind \in Int /\ end \in Int /\ after = end - next + behind
    BY <1>1, <2>1
  <2>5. after + 1 = end + 1 - next + behind
    <3> HIDE DEF behind, end, after
    <3>1. QED BY <2>4
  <2>6. After(lines[i])' = End' - next + (Len(lines) - i)
    <3>1. After(lines[i])' = after + 1 /\ End' = end + 1
      BY <2>3
    <3> HIDE DEF after, end, behind
    <3>2. After(lines[i])' = End' - next + behind
      BY <2>4, <2>5, <3>1
    <3>3. QED BY <3>2 DEF behind
  <2>7. QED BY <2>3, <2>6
<1>4. CASE lrRing'.epoch = lrRing.epoch + 1
  BY <1>1, <1>4
<1>5. QED BY <1>2, <1>3, <1>4, RingSteps

\* In the same epoch, whatever comes after a line or the end of the ring grows
\* for all of them alike.
LEMMA GrowsAlike ==
    ASSUME LrShape, [LrNext]_lrVars, lrRing'.epoch = lrRing.epoch
    PROVE  /\ End \in Nat /\ lrHeld \subseteq lrHeld' /\ lrHeld \subseteq 0..lrCount.logged
           /\ \A x \in 0..lrCount.logged : After(x) \in Nat
           /\ \E d \in {0, 1} : End' = End + d /\ \A x \in 0..lrCount.logged : After(x)' = After(x) + d
<1>1. lrRing.epoch \in Nat /\ End \in Nat /\ lrCount.logged \in Nat /\ lrHeld \subseteq 0..lrCount.logged
  BY DEF LrShape, RingShape, DiskShape, ViewShape, End
<1>2. \A x \in 0..lrCount.logged : After(x) \in Nat
  <2> SUFFICES ASSUME NEW x \in 0..lrCount.logged PROVE After(x) \in Nat
    OBVIOUS
  <2>1. x \in Nat
    BY <1>1
  <2>2. QED BY <2>1, AfterIs
<1>3. CASE UNCHANGED <<lrRing, lrHeld>>
  <2>1. End' = End /\ \A x \in 0..lrCount.logged : After(x)' = After(x)
    BY <1>3 DEF End, After
  <2>2. End' = End + 0 /\ \A x \in 0..lrCount.logged : After(x)' = After(x) + 0
    BY <1>1, <1>2, <2>1
  <2>3. QED BY <1>1, <1>2, <1>3, <2>2
<1>4. CASE Logged
  <2>1. \A x \in 0..lrCount.logged : After(x)' = After(x) + 1
    BY <1>4, AfterGrows
  <2>2. End' = End + 1 /\ lrHeld \subseteq lrHeld'
    BY <1>4, LoggedIs
  <2>3. QED BY <1>1, <1>2, <2>1, <2>2
<1>5. CASE lrRing'.epoch = lrRing.epoch + 1
  BY <1>1, <1>5
<1>6. QED BY <1>3, <1>4, <1>5, RingSteps

\* An answer on its way stays true, or goes out of date.
LEMMA AnswerStays ==
    ASSUME LrShape, [LrNext]_lrVars, NEW q \in Asked, AnswerTrue(q)
    PROVE  AnswerTrue(q)'
<1>1. /\ q.answer \in Answers /\ q.answer.epoch = q.named /\ Reached(q.named, q.answer.next)
      /\ q.named \in Nat /\ q.answer.next \in Nat /\ q.answer.lines \in Seq(Nat)
  BY DEF AnswerTrue, Asked, Answers
<1>2. Reached(q.named, q.answer.next)' /\ lrRing.epoch <= lrRing'.epoch
  BY <1>1, ReachedStays
<1>3. ASSUME q.named = lrRing'.epoch
      PROVE  /\ Follows(q.answer.lines, q.answer.next)'
             /\ q.epoch = q.named /\ q.answer.dropped = 0 => q.answer.next = q.since + Len(q.answer.lines)
             /\ q.answer.dropped > 0 /\ q.answer.lines = <<>> => After(Gap)' = End' - q.answer.next
  <2>1. lrRing'.epoch = lrRing.epoch /\ q.named = lrRing.epoch
    <3>1. lrRing.epoch \in Nat /\ lrRing'.epoch \in Nat
      BY <1>1, <1>3 DEF LrShape, RingShape, DiskShape, ViewShape
    <3>2. q.named <= lrRing.epoch
      BY <1>1 DEF Reached
    <3>3. QED BY <1>1, <1>2, <1>3, <3>1, <3>2
  <2>2. Follows(q.answer.lines, q.answer.next)'
    BY <1>1, <2>1, FollowsStays DEF AnswerTrue
  <2>3. q.answer.dropped > 0 /\ q.answer.lines = <<>> => After(Gap)' = End' - q.answer.next
    <3> SUFFICES ASSUME q.answer.dropped > 0, q.answer.lines = <<>> PROVE After(Gap)' = End' - q.answer.next
      OBVIOUS
    <3>1. After(Gap) = End - q.answer.next
      BY <2>1 DEF AnswerTrue
    <3>2. PICK d \in {0, 1} : End' = End + d /\ \A x \in 0..lrCount.logged : After(x)' = After(x) + d
      BY <2>1, GrowsAlike
    <3>3. Gap \in 0..lrCount.logged /\ End \in Nat
      BY DEF Gap, LrShape, RingShape, DiskShape, ViewShape, End
    <3>4. After(Gap)' = After(Gap) + d
      <4>1. \A x \in 0..lrCount.logged : x = 0 => After(x)' = After(x) + d
        BY <3>2
      <4>2. QED BY <3>3, <4>1 DEF Gap
    <3> DEFINE after == After(Gap)
               end == End
               next == q.answer.next
    <3>5. after = end - next /\ After(Gap)' = after + d /\ End' = end + d /\ end \in Int /\ next \in Int /\ d \in Int
      BY <1>1, <3>1, <3>2, <3>3, <3>4
    <3> HIDE DEF after, end, next
    <3>6. After(Gap)' = End' - next
      BY <3>5
    <3>7. QED BY <3>6 DEF next
  <2>4. QED BY <2>1, <2>2, <2>3 DEF AnswerTrue
<1>4. QED BY <1>1, <1>2, <1>3 DEF AnswerTrue

\* A request that waits is not overtaken by the ring.
LEMMA RequestStays ==
    ASSUME LrShape, [LrNext]_lrVars, NEW k \in Callers, NEW q \in {NoRequest} \cup Asked, RequestTrue(k, q),
           k = "poll" /\ lrNewest' = "poll" => lrNewest = "poll" /\ lrPane'.cursor = lrPane.cursor /\ lrPane'.epoch = lrPane.epoch
    PROVE  RequestTrue(k, q)'
<1> SUFFICES ASSUME q.at # "idle" PROVE RequestTrue(k, q)'
  BY DEF RequestTrue
<1>1. q \in Asked
  BY DEF NoRequest
<1>2. /\ Reached(q.epoch, q.since)
      /\ k = "post" => q.epoch = 0
      /\ k = "poll" => q.at \notin {"clear", "wait"}
      /\ k = "poll" /\ lrNewest = "poll" => q.since = lrPane.cursor /\ q.epoch = lrPane.epoch
      /\ q.at \in {"named", "answered"} => q.named \in 1..lrRing.epoch
      /\ q.at = "answered" => AnswerTrue(q)
  BY DEF RequestTrue
<1>3. q.epoch \in Nat /\ q.since \in Nat /\ q.named \in Nat
  BY <1>1 DEF Asked
<1>4. Reached(q.epoch, q.since)' /\ lrRing.epoch <= lrRing'.epoch
  BY <1>2, <1>3, ReachedStays
<1>5. q.at \in {"named", "answered"} => q.named \in 1..lrRing'.epoch
  <2>1. lrRing.epoch \in Nat /\ lrRing'.epoch \in Nat
    <3>1. lrRing.epoch \in Nat
      BY DEF LrShape, RingShape, DiskShape, ViewShape
    <3>2. lrRing'.epoch = lrRing.epoch \/ lrRing'.epoch = lrRing.epoch + 1
      BY RingSteps, LoggedIs
    <3>3. QED BY <3>1, <3>2
  <2>2. QED BY <1>2, <1>3, <1>4, <2>1
<1>6. q.at = "answered" => AnswerTrue(q)'
  BY <1>1, <1>2, AnswerStays
<1>7. QED BY <1>2, <1>4, <1>5, <1>6 DEF RequestTrue

\* Lines shown of this epoch stay true of it.
LEMMA ShownStays ==
    ASSUME LrShape, [LrNext]_lrVars, NEW lines \in Seq(Nat), NEW next \in Nat, Shown(lines, next),
           lrRing'.epoch = lrRing.epoch
    PROVE  Shown(lines, next)'
<1>1. /\ End \in Nat /\ lrHeld \subseteq lrHeld' /\ lrHeld \subseteq 0..lrCount.logged
      /\ \A x \in 0..lrCount.logged : After(x) \in Nat
  BY GrowsAlike
<1>2. PICK d \in {0, 1} : End' = End + d /\ \A x \in 0..lrCount.logged : After(x)' = After(x) + d
  BY GrowsAlike
<1>3. \A i \in 1..Len(lines) : lines[i] \in 0..lrCount.logged
  <2>1. 0 \in 0..lrCount.logged
    BY DEF LrShape, RingShape, DiskShape, ViewShape
  <2>2. QED BY <1>1, <2>1 DEF Shown, Gap
<1>4. \A i \in 1..Len(lines) : After(lines[i])' = After(lines[i]) + d /\ After(lines[i]) \in Nat
  BY <1>1, <1>2, <1>3
<1>5. Len(lines) \in Nat
  OBVIOUS
<1>6. ASSUME NEW i \in 1..(Len(lines) - 1), lines[i] # Gap, lines[i + 1] # Gap
      PROVE  After(lines[i])' = After(lines[i + 1])' + 1
  <2>1. i \in 1..Len(lines) /\ i + 1 \in 1..Len(lines)
    BY <1>5
  <2>2. After(lines[i]) = After(lines[i + 1]) + 1
    BY <1>6 DEF Shown
  <2> DEFINE here == After(lines[i])
             there == After(lines[i + 1])
             hereNow == After(lines[i])'
             thereNow == After(lines[i + 1])'
  <2>3. thereNow = there + d /\ there \in Nat /\ hereNow = here + d
    BY <1>4, <2>1
  <2> HIDE DEF here, there, hereNow, thereNow
  <2>4. hereNow = thereNow + 1
    <3>1. here = there + 1 /\ d \in Int
      BY <2>2 DEF here, there
    <3>2. QED BY <2>3, <3>1
  <2>5. QED BY <2>4 DEF hereNow, thereNow
<1>7. ASSUME lines # <<>> PROVE After(lines[Len(lines)])' = End' - next
  <2> DEFINE after == After(lines[Len(lines)])
             later == After(lines[Len(lines)])'
             end == End
  <2>1. Len(lines) \in 1..Len(lines)
    BY <1>7
  <2>2. later = after + d
    BY <1>4, <2>1
  <2>3. after = end - next /\ End' = end + d /\ end \in Int /\ d \in Int
    BY <1>1, <1>2, <1>7 DEF Shown
  <2> HIDE DEF after, end, later
  <2>4. later = End' - next
    BY <2>2, <2>3
  <2>5. QED BY <2>4 DEF later
<1>8. \A i \in 1..Len(lines) : lines[i] \in lrHeld' \cup {Gap}
  BY <1>1 DEF Shown
<1>9. QED BY <1>6, <1>7, <1>8 DEF Shown

\* What the pane shows stays true, or its epoch goes out of date.
LEMMA PaneStays ==
    ASSUME LrShape, PaneKept, [LrNext]_lrVars, lrPane' = lrPane
    PROVE  PaneKept'
<1>1. PICK epoch \in Nat, cursor \in Nat, lines \in Seq(Nat) :
         epoch = lrPane.epoch /\ cursor = lrPane.cursor /\ lines = lrPane.lines
  BY DEF LrShape, RingShape, DiskShape, ViewShape
<1>2. Reached(epoch, cursor) /\ (epoch = lrRing.epoch => Shown(lines, cursor))
  BY <1>1 DEF PaneKept
<1>3. Reached(epoch, cursor)' /\ lrRing.epoch <= lrRing'.epoch
  BY <1>2, ReachedStays
<1>4. epoch = lrRing'.epoch => Shown(lines, cursor)'
  <2> SUFFICES ASSUME epoch = lrRing'.epoch PROVE Shown(lines, cursor)'
    OBVIOUS
  <2>1. epoch <= lrRing.epoch /\ lrRing.epoch \in Nat
    BY <1>2 DEF Reached, LrShape, RingShape, DiskShape, ViewShape
  <2>2. lrRing'.epoch = lrRing.epoch /\ epoch = lrRing.epoch
    BY <1>3, <2>1
  <2>3. QED BY <1>2, <2>2, ShownStays
<1>5. lrPane'.epoch = epoch /\ lrPane'.cursor = cursor /\ lrPane'.lines = lines
  BY <1>1
<1>6. QED BY <1>3, <1>4, <1>5 DEF PaneKept, Reached, Shown, After

-----------------------------------------------------------------------------
\* Lines that follow one another are shown without a seam.
LEMMA FollowsShown ==
    ASSUME LrShape, NEW lines \in Seq(Nat), NEW next \in Int, Follows(lines, next)
    PROVE  Shown(lines, next)
<1>1. End \in Int /\ Len(lines) \in Nat
  BY DEF LrShape, RingShape, DiskShape, ViewShape, End
<1>2. ASSUME NEW i \in 1..(Len(lines) - 1) PROVE After(lines[i]) = After(lines[i + 1]) + 1
  <2>1. i \in 1..Len(lines) /\ i + 1 \in 1..Len(lines)
    BY <1>1
  <2> DEFINE here == After(lines[i])
             there == After(lines[i + 1])
             end == End
             all == Len(lines)
  <2>2. here = end - next + (all - i) /\ there = end - next + (all - (i + 1)) /\ end \in Int /\ all \in Int /\ i \in Int
    BY <1>1, <2>1 DEF Follows
  <2> HIDE DEF here, there, end, all
  <2>3. here = there + 1
    BY <2>2
  <2>4. QED BY <2>3 DEF here, there
<1>3. ASSUME lines # <<>> PROVE After(lines[Len(lines)]) = End - next
  <2>1. Len(lines) \in 1..Len(lines)
    BY <1>3
  <2>2. After(lines[Len(lines)]) = End - next + (Len(lines) - Len(lines))
    BY <2>1 DEF Follows
  <2>3. QED BY <1>1, <2>2
<1>4. QED BY <1>2, <1>3 DEF Shown, Follows

\* What is shown of some lines is shown of the newest of them.
LEMMA ShownOfLast ==
    ASSUME NEW lines \in Seq(Nat), NEW next \in Int, Shown(lines, next), NEW n \in 0..Len(lines)
    PROVE  Shown(LastOf(lines, n), next)
<1> DEFINE last == LastOf(lines, n)
           off == Len(lines) - n
<1>1. Len(lines) \in Nat /\ off \in Nat /\ n \in Nat
  OBVIOUS
<1>2. Len(last) = n /\ \A i \in 1..n : last[i] = lines[off + i]
  BY LastOfIs
<1>3. \A i \in 1..n : off + i \in 1..Len(lines)
  BY <1>1
<1>4. ASSUME NEW i \in 1..(n - 1), last[i] # Gap, last[i + 1] # Gap
      PROVE  After(last[i]) = After(last[i + 1]) + 1
  <2>1. i \in 1..n /\ i + 1 \in 1..n /\ off + i \in 1..(Len(lines) - 1) /\ off + (i + 1) = (off + i) + 1
    BY <1>1
  <2>2. last[i] = lines[off + i] /\ last[i + 1] = lines[(off + i) + 1]
    BY <1>2, <2>1
  <2>3. After(lines[off + i]) = After(lines[(off + i) + 1]) + 1
    BY <1>4, <2>1, <2>2 DEF Shown
  <2>4. QED BY <2>2, <2>3
<1>5. ASSUME last # <<>> PROVE After(last[n]) = End - next
  <2>1. last \in Seq(Nat)
    BY LastOfIs
  <2>2. n \in 1..n /\ off + n = Len(lines) /\ lines # <<>>
    BY <1>1, <1>2, <1>5, <2>1
  <2>3. last[n] = lines[Len(lines)]
    BY <1>2, <2>2
  <2>4. QED BY <2>2, <2>3 DEF Shown
<1>6. \A i \in 1..n : last[i] \in lrHeld \cup {Gap}
  BY <1>2, <1>3 DEF Shown
<1> HIDE DEF last
<1>7. Shown(last, next)
  BY <1>2, <1>4, <1>5, <1>6 DEF Shown
<1>8. QED BY <1>7 DEF last

\* Two stretches can be shown as one where a seam parts them, or where the
\* second begins with the line after the first.
LEMMA ShownJoin ==
    ASSUME NEW first \in Seq(Nat), NEW then \in Seq(Nat), first # <<>>, then # <<>>,
           NEW place \in Int, NEW next \in Int, Shown(first, place), Shown(then, next),
           \/ first[Len(first)] = Gap
           \/ then[1] = Gap
           \/ After(first[Len(first)]) = After(then[1]) + 1
    PROVE  Shown(first \o then, next)
<1> DEFINE all == first \o then
           a == Len(first)
           b == Len(then)
<1>1. a \in Nat \ {0} /\ b \in Nat \ {0}
  OBVIOUS
<1>2. /\ Len(all) = a + b
      /\ \A i \in 1..a : all[i] = first[i]
      /\ \A i \in 1..b : all[a + i] = then[i]
      /\ all # <<>>
  OBVIOUS
<1>3. \A i \in 1..(a + b) : i \in 1..a \/ \E j \in 1..b : i = a + j
  <2> SUFFICES ASSUME NEW i \in 1..(a + b), i \notin 1..a PROVE \E j \in 1..b : i = a + j
    OBVIOUS
  <2>1. i - a \in 1..b /\ i = a + (i - a)
    BY <1>1
  <2>2. QED BY <2>1
<1>4. /\ \A i \in 1..a : first[i] \in lrHeld \cup {Gap}
      /\ \A i \in 1..(a - 1) : first[i] # Gap /\ first[i + 1] # Gap => After(first[i]) = After(first[i + 1]) + 1
  BY DEF Shown
<1>5. /\ \A i \in 1..b : then[i] \in lrHeld \cup {Gap}
      /\ \A i \in 1..(b - 1) : then[i] # Gap /\ then[i + 1] # Gap => After(then[i]) = After(then[i + 1]) + 1
      /\ After(then[b]) = End - next
  BY DEF Shown
<1> HIDE DEF all, a, b
<1>6. \A i \in 1..(a + b) : all[i] \in lrHeld \cup {Gap}
  BY <1>2, <1>3, <1>4, <1>5
<1>7. ASSUME NEW i \in 1..(a + b - 1), all[i] # Gap, all[i + 1] # Gap
      PROVE  After(all[i]) = After(all[i + 1]) + 1
  <2>1. CASE i \in 1..(a - 1)
    <3>1. i \in 1..a /\ i + 1 \in 1..a
      BY <1>1, <2>1
    <3>2. all[i] = first[i] /\ all[i + 1] = first[i + 1]
      BY <1>2, <3>1
    <3>3. QED BY <1>4, <1>7, <2>1, <3>2
  <2>2. CASE i = a
    <3>1. a \in 1..a /\ 1 \in 1..b
      BY <1>1
    <3>2. all[i] = first[a] /\ all[i + 1] = then[1]
      BY <1>2, <2>2, <3>1
    <3>3. QED BY <1>7, <3>2 DEF a
  <2>3. CASE i > a
    <3>1. PICK j \in 1..b : i = a + j
      BY <1>1, <1>3, <2>3
    <3>2. j \in 1..(b - 1) /\ j + 1 \in 1..b /\ i + 1 = a + (j + 1)
      BY <1>1, <3>1
    <3>3. all[i] = then[j] /\ all[i + 1] = then[j + 1]
      BY <1>2, <3>1, <3>2
    <3>4. QED BY <1>5, <1>7, <3>2, <3>3
  <2>4. QED BY <1>1, <2>1, <2>2, <2>3
<1>8. After(all[Len(all)]) = End - next
  <2>1. b \in 1..b
    BY <1>1
  <2>2. all[Len(all)] = then[b]
    BY <1>2, <2>1
  <2>3. QED BY <1>5, <2>2
<1>9. Shown(all, next)
  <2>1. \A i \in 1..(a + b - 1) : all[i] # Gap /\ all[i + 1] # Gap => After(all[i]) = After(all[i + 1]) + 1
    BY <1>7
  <2>2. Len(all) = a + b
    BY <1>2
  <2>3. /\ \A i \in 1..Len(all) : all[i] \in lrHeld \cup {Gap}
        /\ \A i \in 1..(Len(all) - 1) : all[i] # Gap /\ all[i + 1] # Gap => After(all[i]) = After(all[i + 1]) + 1
    BY <1>1, <1>6, <2>1, <2>2
  <2>4. QED BY <1>8, <2>3 DEF Shown
<1>10. QED BY <1>9 DEF all

\* The end of the ring is the last place of its lines, and any stretch of them
\* follows up to its own.
LEMMA StretchFollows ==
    ASSUME LrShape, RingHeld, NEW from \in 0..Len(lrRing.lines), NEW to \in from..Len(lrRing.lines)
    PROVE  /\ SubSeq(lrRing.lines, from + 1, to) \in Seq(Nat)
           /\ Len(SubSeq(lrRing.lines, from + 1, to)) = to - from
           /\ Follows(SubSeq(lrRing.lines, from + 1, to), lrRing.dropped + to)
           /\ lrRing.dropped + to \in Nat /\ lrRing.dropped + to <= End
<1> DEFINE held == lrRing.lines
           some == SubSeq(held, from + 1, to)
<1>1. held \in Seq(Nat) /\ Len(held) \in Nat /\ from \in Nat /\ to \in Nat /\ lrRing.dropped \in Nat
  BY DEF LrShape, RingShape, DiskShape, ViewShape
<1>2. from + 1 \in 1..(Len(held) + 1) /\ to \in (from + 1 - 1)..Len(held) /\ to - (from + 1) + 1 = to - from
  BY <1>1
<1>3. some \in Seq(Nat) /\ Len(some) = to - from /\ \A i \in 1..(to - from) : some[i] = held[from + i]
  <2>1. some \in Seq(Nat)
    BY <1>1, <1>2
  <2>2. Len(some) = to - from
    BY <1>1, <1>2
  <2>3. ASSUME NEW i \in 1..(to - from) PROVE some[i] = held[from + i]
    <3>1. some[i] = held[from + 1 + i - 1] /\ from + 1 + i - 1 = from + i
      BY <1>1, <1>2
    <3>2. QED BY <3>1
  <2>4. QED BY <2>1, <2>2, <2>3
<1>4. End = lrRing.dropped + Len(held)
  BY DEF End
<1>5. ASSUME NEW i \in 1..(to - from)
      PROVE  held[from + i] \in lrHeld /\ After(held[from + i]) = End - (lrRing.dropped + to) + ((to - from) - i)
  <2>1. from + i \in 1..Len(held)
    BY <1>1
  <2>2. held[from + i] \in lrHeld /\ After(held[from + i]) = End - End + (Len(held) - (from + i))
    BY <2>1 DEF RingHeld, Follows
  <2> DEFINE after == After(held[from + i])
             all == Len(held)
             end == End
             before == lrRing.dropped
  <2>3. after = end - end + (all - (from + i)) /\ end = before + all /\ all \in Int /\ before \in Int /\ i \in Int
    BY <1>1, <1>4, <2>2
  <2> HIDE DEF after, all, end, before
  <2>4. after = end - (before + to) + ((to - from) - i)
    BY <1>1, <2>3
  <2>5. QED BY <2>2, <2>4 DEF after, end, before
<1> HIDE DEF some
<1>6. Follows(some, lrRing.dropped + to)
  BY <1>3, <1>5 DEF Follows
<1>7. lrRing.dropped + to \in Nat /\ lrRing.dropped + to <= End
  BY <1>1, <1>4
<1>8. QED BY <1>3, <1>6, <1>7 DEF some

-----------------------------------------------------------------------------
\* What was logged stays logged.
LEMMA WrittenStays ==
    ASSUME NEW top \in Nat, NEW now \in Nat, top <= now, NEW lines, WrittenTo(lines, top)
    PROVE  WrittenTo(lines, now)
<1>1. \A i \in 1..Len(lines) : lines[i] \in 1..now
  BY DEF WrittenTo
<1>2. QED BY <1>1 DEF WrittenTo

\* Counting anything else than a line leaves the number of lines.
LEMMA CountedIs ==
    ASSUME RingShape, NEW what \in {"logged", "clears", "crashes", "touches", "ticks", "posts"}, Counted(what)
    PROVE  /\ lrCount' \in [logged : Nat, clears : Nat, crashes : Nat, touches : Nat, ticks : Nat, posts : Nat]
           /\ lrCount.logged <= lrCount'.logged
           /\ what # "logged" => lrCount'.logged = lrCount.logged
<1>1. lrCount \in [logged : Nat, clears : Nat, crashes : Nat, touches : Nat, ticks : Nat, posts : Nat]
  BY DEF RingShape
<1>2. lrCount' = [lrCount EXCEPT ![what] = lrCount[what] + 1]
  BY DEF Counted
<1>3. CASE what = "logged"
  BY <1>1, <1>2, <1>3
<1>4. CASE what = "clears"
  BY <1>1, <1>2, <1>4
<1>5. CASE what = "crashes"
  BY <1>1, <1>2, <1>5
<1>6. CASE what = "touches"
  BY <1>1, <1>2, <1>6
<1>7. CASE what = "ticks"
  BY <1>1, <1>2, <1>7
<1>8. CASE what = "posts"
  BY <1>1, <1>2, <1>8
<1>9. QED BY <1>3, <1>4, <1>5, <1>6, <1>7, <1>8

\* The number of lines logged never goes down.
LEMMA CountsGrow ==
    ASSUME RingShape, [LrNext]_lrVars
    PROVE  /\ lrCount' \in [logged : Nat, clears : Nat, crashes : Nat, touches : Nat, ticks : Nat, posts : Nat]
           /\ lrCount.logged \in Nat /\ lrCount'.logged \in Nat /\ lrCount.logged <= lrCount'.logged
<1>1. lrCount \in [logged : Nat, clears : Nat, crashes : Nat, touches : Nat, ticks : Nat, posts : Nat]
  BY DEF RingShape
<1>2. CASE lrCount' = lrCount
  BY <1>1, <1>2
<1>4. lrCount' = lrCount
      \/ \E what \in {"logged", "clears", "crashes", "touches", "ticks", "posts"} : Counted(what)
  <2>1. CASE UNCHANGED lrVars
    BY <2>1 DEF lrVars
  <2>2. CASE Logged \/ (\E by \in {"pane", "other"} : Wiped(by)) \/ RingReseeded \/ Touched
    BY <2>2 DEF Logged, Wiped, RingReseeded, Touched
  <2>3. CASE \E by \in {"timer", "clear"} : SaveTaken(by)
    BY <2>3 DEF SaveTaken
  <2>4. CASE SaveSkipped \/ SaveRenamed \/ SaveDone \/ SaveFailed
    BY <2>4 DEF SaveSkipped, SaveRenamed, SaveDone, SaveFailed, SaveNil, SaveOver
  <2>5. CASE PollSent \/ (\E at \in {"clear", "asked"} : PostSent(at))
    BY <2>5 DEF PollSent, PostSent
  <2>6. CASE \E k \in {"poll", "post"} : EpochRead(k) \/ WindowRead(k) \/ RequestLost(k) \/ Rendered(k)
    BY <2>6 DEF EpochRead, WindowRead, RequestLost, Rendered
  <2>7. QED BY <2>1, <2>2, <2>3, <2>4, <2>5, <2>6 DEF LrNext
<1>5. QED BY <1>1, <1>2, <1>4, CountedIs

-----------------------------------------------------------------------------
\* At first there are no lines.
LEMMA LrInvInit == LrInit => LrInv
<1> SUFFICES ASSUME LrInit PROVE LrInv
  OBVIOUS
<1>1. <<>> \in Seq(Nat) /\ Len(<<>>) = 0
  OBVIOUS
<1>2. WrittenTo(<<>>, lrCount.logged)
  BY DEF WrittenTo, Rising
<1>3. MaxWipes \in Nat /\ MaxCrashes \in Nat /\ MaxTouches \in Nat /\ MaxTicks \in Nat /\ MaxPosts \in Nat
  BY LogRingAssumption
<1>4. lrCount \in [logged : Nat, clears : Nat, crashes : Nat, touches : Nat, ticks : Nat, posts : Nat]
  BY <1>3 DEF LrInit
<1>5. RingShape
  BY <1>1, <1>2, <1>4 DEF LrInit, RingShape, Written
<1>6. DiskShape
  BY <1>1, <1>2 DEF LrInit, DiskShape, Written, NoSnapshot
<1>7. lrPane \in [lines : Seq(Nat), epoch : Nat, cursor : Nat, open : BOOLEAN] /\ lrPane.epoch = 0
  <2>1. lrPane \in [lines : {<<>>}, epoch : {0}, cursor : {0}, open : BOOLEAN]
    BY DEF LrInit
  <2>2. {<<>>} \subseteq Seq(Nat) /\ {0} \subseteq Nat
    BY <1>1
  <2>3. lrPane.epoch = 0
    BY <2>1
  <2>4. \A S \in SUBSET Seq(Nat) : \A Z \in SUBSET Nat : \A p \in [lines : S, epoch : Z, cursor : Z, open : BOOLEAN] :
           p \in [lines : Seq(Nat), epoch : Nat, cursor : Nat, open : BOOLEAN]
    OBVIOUS
  <2>5. QED BY <2>1, <2>2, <2>3, <2>4
<1>8. ViewShape
  BY <1>7 DEF LrInit, ViewShape, Callers
<1>9. RingHeld
  BY <1>1 DEF LrInit, RingHeld, Follows
<1>10. DiskTrue
  BY DEF LrInit, DiskTrue, CopyTrue, SavedTrue, RenamedTrue, WipedApart, SnapshotTrue, NotSaving, NothingSaved, NoPromise
<1>11. FollowerTrue
  <2>1. PaneKept
    BY <1>7 DEF LrInit, PaneKept, Reached
  <2>2. \A k \in Callers : RequestTrue(k, lrReq[k])
    BY DEF LrInit, RequestTrue, NoRequest, Callers
  <2>3. QED BY <2>1, <2>2 DEF FollowerTrue
<1>12. QED BY <1>5, <1>6, <1>8, <1>9, <1>10, <1>11 DEF LrInv, LrShape

-----------------------------------------------------------------------------
\* A line more is written after the others.
LEMMA AppendWritten ==
    ASSUME NEW top \in Nat, NEW lines, WrittenTo(lines, top), NEW all, all = Append(lines, top + 1)
    PROVE  WrittenTo(all, top + 1)
<1>1. lines \in Seq(Nat) /\ Len(lines) \in Nat /\ DOMAIN lines = 1..Len(lines)
  BY DEF WrittenTo
<1>2. \A i, j \in 1..Len(lines) : i < j => lines[i] < lines[j]
  BY <1>1 DEF WrittenTo, Rising
<1>3. \A i \in 1..Len(lines) : lines[i] \in 1..top
  BY DEF WrittenTo
<1>4. /\ all \in Seq(Nat) /\ Len(all) = Len(lines) + 1 /\ all[Len(lines) + 1] = top + 1
      /\ \A i \in 1..Len(lines) : all[i] = lines[i]
      /\ DOMAIN all = 1..(Len(lines) + 1)
  BY <1>1
<1>5. \A i \in 1..(Len(lines) + 1) : i \in 1..Len(lines) \/ i = Len(lines) + 1
  BY <1>1
<1>6. ASSUME NEW i \in 1..(Len(lines) + 1) PROVE all[i] \in 1..(top + 1)
  <2>1. CASE i \in 1..Len(lines)
    <3>1. all[i] = lines[i] /\ lines[i] \in 1..top
      BY <1>3, <1>4, <2>1
    <3>2. QED BY <3>1
  <2>2. CASE i = Len(lines) + 1
    BY <1>4, <2>2
  <2>3. QED BY <1>5, <2>1, <2>2
<1>7. ASSUME NEW i \in 1..(Len(lines) + 1), NEW j \in 1..(Len(lines) + 1), i < j PROVE all[i] < all[j]
  <2>1. i \in 1..Len(lines)
    BY <1>1, <1>7
  <2>2. all[i] = lines[i] /\ lines[i] \in 1..top
    BY <1>3, <1>4, <2>1
  <2>3. CASE j \in 1..Len(lines)
    <3>1. all[j] = lines[j]
      BY <1>4, <2>3
    <3>2. QED BY <1>2, <1>7, <2>1, <2>2, <2>3, <3>1
  <2>4. CASE j = Len(lines) + 1
    <3>1. all[j] = top + 1
      BY <1>4, <2>4
    <3>2. QED BY <2>2, <3>1
  <2>5. QED BY <1>5, <2>3, <2>4
<1>8. Rising(all)
  BY <1>4, <1>7 DEF Rising
<1>9. QED BY <1>4, <1>6, <1>8 DEF WrittenTo

\* The lines of the ring stay those of its epoch, when one is logged ...
LEMMA LoggedKeepsRing == ASSUME LrShape, RingHeld, Logged PROVE RingShape' /\ RingHeld'
<1>1. lrCount.logged \in Nat /\ lrRing.lines \in Seq(Nat) /\ WrittenTo(lrRing.lines, lrCount.logged)
  BY DEF LrShape, RingShape, Written
<1>2. PICK top \in Nat, lines \in Seq(Nat), line \in Nat, all \in Seq(Nat) :
         /\ top = lrCount.logged /\ lines = lrRing.lines /\ line = top + 1 /\ all = Append(lines, line)
  <2>1. lrCount.logged + 1 \in Nat
    BY <1>1
  <2>2. Append(lrRing.lines, lrCount.logged + 1) \in Seq(Nat)
    BY <1>1, <2>1
  <2>3. QED BY <1>1, <2>1, <2>2
<1>3. /\ lrCount'.logged = line
      /\ lrCount' \in [logged : Nat, clears : Nat, crashes : Nat, touches : Nat, ticks : Nat, posts : Nat]
      /\ lrRing' \in [lines : Seq(Nat), dropped : Nat, epoch : Nat \ {0}]
      /\ End' = End + 1 /\ lrHeld' = lrHeld \cup {line}
  BY <1>2, LoggedIs
<1>4. PICK n \in 1..(Len(lines) + 1) : lrRing'.lines = LastOf(all, n)
  BY <1>2, LoggedIs
<1>5. /\ Len(lines) \in Nat /\ Len(all) = Len(lines) + 1 /\ all[Len(lines) + 1] = line
      /\ \A i \in 1..Len(lines) : all[i] = lines[i]
  BY <1>2
<1>6. WrittenTo(all, line)
  BY <1>1, <1>2, AppendWritten
<1>7. n \in 0..Len(all)
  BY <1>5
<1>8. WrittenTo(LastOf(all, n), line)
  BY <1>6, <1>7, PartsAreWritten
<1>9. lrHeld' \subseteq 1..line
  <2>1. lrHeld \subseteq 1..top
    BY <1>2 DEF LrShape, RingShape
  <2>2. 1..top \subseteq 1..line /\ line \in 1..line
    BY <1>2
  <2>3. QED BY <1>3, <2>1, <2>2
<1>10. RingShape'
  BY <1>3, <1>4, <1>8, <1>9 DEF RingShape, Written
<1>11. ASSUME NEW i \in 1..(Len(lines) + 1) PROVE all[i] \in lrHeld' /\ After(all[i])' = Len(lines) + 1 - i
  <2>1. CASE i \in 1..Len(lines)
    <3>1. lines[i] \in lrHeld /\ After(lines[i]) = End - End + (Len(lines) - i) /\ End \in Nat
      <4>1. lines[i] \in lrHeld /\ After(lines[i]) = End - End + (Len(lines) - i)
        BY <1>2, <2>1 DEF RingHeld, Follows
      <4>2. End \in Nat
        BY DEF LrShape, RingShape, End
      <4>3. QED BY <4>1, <4>2
    <3>2. all[i] = lines[i]
      BY <1>5, <2>1
    <3>3. all[i] \in 0..top
      <4>1. lrHeld \subseteq 1..top /\ 1..top \subseteq 0..top
        BY <1>2 DEF LrShape, RingShape
      <4>2. QED BY <3>1, <3>2, <4>1
    <3>4. After(all[i])' = After(all[i]) + 1
      BY <1>2, <3>3, AfterGrows
    <3>5. After(all[i]) = Len(lines) - i
      BY <1>5, <2>1, <3>1, <3>2
    <3>6. After(all[i])' = Len(lines) + 1 - i
      BY <1>5, <2>1, <3>4, <3>5
    <3>7. all[i] \in lrHeld'
      BY <1>3, <3>1, <3>2
    <3>8. QED BY <3>6, <3>7
  <2>2. CASE i = Len(lines) + 1
    <3>1. all[i] = line
      BY <1>5, <2>2
    <3>2. all[i] \in Nat /\ all[i] > lrCount.logged
      BY <1>2, <3>1
    <3>3. After(all[i])' = 0
      BY <3>2, AfterGrows
    <3>4. QED BY <1>3, <1>5, <2>2, <3>1, <3>3
  <2>3. QED BY <1>5, <2>1, <2>2
<1>12. PICK some \in Seq(Nat) : some = LastOf(all, n)
  BY <1>7, LastOfIs
<1>13. Len(some) = n /\ \A i \in 1..n : some[i] = all[Len(all) - n + i]
  BY <1>7, <1>12, LastOfIs
<1>14. ASSUME NEW i \in 1..n PROVE some[i] \in lrHeld' /\ After(some[i])' = End' - End' + (n - i)
  <2>1. PICK j \in 1..(Len(lines) + 1) : j = Len(all) - n + i
    <3>1. Len(all) - n + i \in 1..(Len(lines) + 1)
      BY <1>5
    <3>2. QED BY <3>1
  <2>2. some[i] = all[j]
    BY <1>13, <2>1
  <2>3. all[j] \in lrHeld' /\ After(all[j])' = Len(lines) + 1 - j
    BY <1>11
  <2>4. Len(lines) + 1 - j = n - i /\ n - i \in Int
    BY <1>5, <2>1
  <2>5. End' \in Int
    <3>1. End \in Nat
      BY DEF LrShape, RingShape, End
    <3>2. QED BY <1>3, <3>1
  <2>6. End' - End' + (n - i) = n - i
    <3>1. \A e, m \in Int : e - e + m = m
      OBVIOUS
    <3>2. QED BY <2>4, <2>5, <3>1
  <2>7. QED BY <2>2, <2>3, <2>4, <2>6
<1>15. RingHeld'
  <2>1. some # <<>>
    BY <1>4, <1>13
  <2>2. Follows(some, End)'
    BY <1>13, <1>14 DEF Follows
  <2>3. lrRing'.lines = some
    BY <1>4, <1>12
  <2>4. QED BY <2>1, <2>2, <2>3 DEF RingHeld, Follows
<1>16. QED BY <1>10, <1>15

\* ... when they are wiped ...
LEMMA WipedKeepsRing ==
    ASSUME LrShape, RingHeld, NEW by \in {"pane", "other"}, Wiped(by) PROVE RingShape' /\ RingHeld'
<1>1. /\ lrRing' = [lines |-> <<>>, dropped |-> End, epoch |-> lrRing.epoch + 1] /\ lrHeld' = {}
      /\ Counted("clears")
  BY DEF Wiped, Cleared
<1>2. End \in Nat /\ lrRing.epoch \in Nat /\ <<>> \in Seq(Nat) /\ Len(<<>>) = 0
  BY DEF LrShape, RingShape, End
<1>3. lrCount' \in [logged : Nat, clears : Nat, crashes : Nat, touches : Nat, ticks : Nat, posts : Nat]
  BY <1>1, CountedIs DEF LrShape
<1>4. WrittenTo(<<>>, lrCount'.logged)
  BY <1>2 DEF WrittenTo, Rising
<1>5. RingShape'
  BY <1>1, <1>2, <1>3, <1>4 DEF RingShape, Written
<1>6. RingHeld'
  BY <1>1, <1>2 DEF RingHeld, Follows
<1>7. QED BY <1>5, <1>6

\* ... and when a new process reads them from the snapshot.
LEMMA ReseededKeepsRing ==
    ASSUME LrShape, RingHeld, RingReseeded
    PROVE  RingShape' /\ RingHeld' /\ lrHeld' \subseteq ToSet(lrFile.lines)
<1>1. /\ WrittenTo(lrFile.lines, lrCount.logged) /\ lrCount.logged \in Nat /\ lrRing.epoch \in Nat
  BY DEF LrShape, RingShape, DiskShape, Written
<1>2. WrittenTo(TailOf(lrFile.lines), lrCount.logged) /\ ToSet(TailOf(lrFile.lines)) \subseteq ToSet(lrFile.lines)
  BY <1>1, TailIs
<1>3. PICK top \in Nat, tail \in Seq(Nat) : top = lrCount.logged /\ tail = TailOf(lrFile.lines)
  BY <1>1, <1>2 DEF WrittenTo
<1>4. WrittenTo(tail, top) /\ Len(tail) \in Nat /\ DOMAIN tail = 1..Len(tail)
  BY <1>2, <1>3
<1>5. /\ lrRing' = [lines |-> Trimmed(tail, 0).lines, dropped |-> Trimmed(tail, 0).dropped, epoch |-> lrRing.epoch + 1]
      /\ lrHeld' = ToSet(tail) /\ Counted("crashes")
  BY <1>3 DEF RingReseeded
<1>6. PICK n \in 0..Len(tail) :
         /\ Trimmed(tail, 0).lines = LastOf(tail, n) /\ Trimmed(tail, 0).dropped = 0 + (Len(tail) - n)
         /\ tail # <<>> => n # 0
  BY TrimmedIs
<1>7. PICK some \in Seq(Nat) : some = LastOf(tail, n)
  BY LastOfIs
<1>8. Len(some) = n /\ \A i \in 1..n : some[i] = tail[Len(tail) - n + i]
  BY <1>7, LastOfIs
<1>9. WrittenTo(some, top)
  BY <1>4, <1>7, PartsAreWritten
<1>10. lrCount' \in [logged : Nat, clears : Nat, crashes : Nat, touches : Nat, ticks : Nat, posts : Nat]
       /\ lrCount'.logged = top
  BY <1>3, <1>5, CountedIs DEF LrShape
<1>11. /\ lrRing' \in [lines : Seq(Nat), dropped : Nat, epoch : Nat \ {0}]
       /\ lrRing'.lines = some /\ lrRing'.dropped = Len(tail) - n
  BY <1>1, <1>4, <1>5, <1>6, <1>7
<1>12. \A i \in 1..Len(tail) : tail[i] \in 1..top /\ tail[i] \in ToSet(tail)
  BY <1>4 DEF WrittenTo, ToSet
<1>13. ToSet(tail) \subseteq 1..top
  BY <1>4, <1>12 DEF ToSet
<1>14. RingShape'
  BY <1>5, <1>9, <1>10, <1>11, <1>13 DEF RingShape, Written
<1>15. End' = Len(tail)
  <2>1. End' = lrRing'.dropped + Len(lrRing'.lines)
    BY DEF End
  <2>2. lrRing'.dropped = Len(tail) - n /\ Len(lrRing'.lines) = n
    BY <1>8, <1>11
  <2>3. QED BY <1>4, <2>1, <2>2
<1>16. ASSUME NEW i \in 1..n PROVE some[i] \in lrHeld' /\ After(some[i])' = End' - End' + (n - i)
  <2>1. PICK j \in 1..Len(tail) : j = Len(tail) - n + i
    <3>1. Len(tail) - n + i \in 1..Len(tail)
      BY <1>4
    <3>2. QED BY <3>1
  <2>2. some[i] = tail[j]
    BY <1>8, <2>1
  <2>3. Cardinality({h \in ToSet(tail) : h > tail[j]}) = Len(tail) - j
    BY <1>4, WrittenAfter
  <2>4. Len(tail) - j = n - i /\ n - i \in Int
    BY <1>4, <2>1
  <2>5. After(some[i])' = n - i
    BY <1>5, <2>2, <2>3, <2>4 DEF After
  <2>6. End' - End' + (n - i) = n - i
    <3>1. \A e, m \in Int : e - e + m = m
      OBVIOUS
    <3>2. QED BY <1>4, <1>15, <2>4, <3>1
  <2>7. QED BY <1>5, <1>12, <2>2, <2>5, <2>6
<1>17. RingHeld'
  <2>1. Follows(some, End)'
    BY <1>8, <1>16 DEF Follows
  <2>2. some = <<>> => ToSet(tail) = {}
    <3> SUFFICES ASSUME some = <<>> PROVE ToSet(tail) = {}
      OBVIOUS
    <3>1. tail = <<>>
      BY <1>6, <1>8
    <3>2. QED BY <3>1 DEF ToSet
  <2>3. QED BY <1>5, <1>11, <2>1, <2>2 DEF RingHeld, Follows
<1>18. QED BY <1>2, <1>3, <1>5, <1>14, <1>17

-----------------------------------------------------------------------------
\* Where the ring stands still, the lines of it are those of its epoch.
LEMMA SameKeepsRing ==
    ASSUME RingShape, RingHeld, UNCHANGED <<lrRing, lrHeld>>, lrCount'.logged = lrCount.logged,
           lrCount' \in [logged : Nat, clears : Nat, crashes : Nat, touches : Nat, ticks : Nat, posts : Nat]
    PROVE  RingShape' /\ RingHeld'
  BY DEF RingShape, Written, RingHeld, Follows, After, End

\* The lines the ring holds are of its epoch, and in the order they were logged.
LEMMA RingKeeps == ASSUME LrShape, RingHeld, [LrNext]_lrVars PROVE RingShape' /\ RingHeld'
<1>1. lrCount' \in [logged : Nat, clears : Nat, crashes : Nat, touches : Nat, ticks : Nat, posts : Nat]
  BY CountsGrow DEF LrShape
<1>2. CASE Logged
  BY <1>2, LoggedKeepsRing
<1>3. CASE UNCHANGED <<lrRing, lrHeld>> /\ lrCount'.logged = lrCount.logged
  BY <1>1, <1>3, SameKeepsRing DEF LrShape
<1>4. CASE lrRing'.epoch = lrRing.epoch + 1
  <2>1. CASE RingReseeded
    BY <2>1, ReseededKeepsRing
  <2>2. CASE \E by \in {"pane", "other"} : Wiped(by)
    BY <2>2, WipedKeepsRing
  <2>3. CASE Logged
    BY <2>3, LoggedKeepsRing
  <2>4. CASE ~RingReseeded /\ ~(\E by \in {"pane", "other"} : Wiped(by)) /\ ~Logged
    <3>1. UNCHANGED lrRing
      <4>1. CASE UNCHANGED lrVars
        BY <4>1 DEF lrVars
      <4>2. CASE (\E by \in {"timer", "clear"} : SaveTaken(by)) \/ Touched
        BY <4>2 DEF SaveTaken, Touched
      <4>3. CASE SaveSkipped \/ SaveRenamed \/ SaveDone \/ SaveFailed
        BY <4>3 DEF SaveSkipped, SaveRenamed, SaveDone, SaveFailed, SaveNil, SaveOver
      <4>4. CASE PollSent \/ (\E at \in {"clear", "asked"} : PostSent(at))
        BY <4>4 DEF PollSent, PostSent
      <4>5. CASE \E k \in {"poll", "post"} : EpochRead(k) \/ WindowRead(k) \/ RequestLost(k) \/ Rendered(k)
        BY <4>5 DEF EpochRead, WindowRead, RequestLost, Rendered
      <4>6. QED BY <2>4, <4>1, <4>2, <4>3, <4>4, <4>5 DEF LrNext
    <3>2. lrRing.epoch \in Nat
      BY DEF LrShape, RingShape
    <3>3. QED BY <1>4, <3>1, <3>2
  <2>5. QED BY <2>1, <2>2, <2>3, <2>4
<1>5. QED BY <1>2, <1>3, <1>4, RingSteps

-----------------------------------------------------------------------------
\* The lines of the ring are of its epoch, and none of them is of a clear that
\* has answered.
LEMMA RingApart ==
    ASSUME RingHeld, RingShape
    PROVE  ToSet(lrRing.lines) \subseteq lrHeld
<1>1. lrRing.lines \in Seq(Nat) /\ DOMAIN lrRing.lines = 1..Len(lrRing.lines)
  BY DEF RingShape
<1>2. QED BY <1>1 DEF ToSet, RingHeld, Follows

\* The beginning of some lines has none that is not theirs.
LEMMA PrefixIs ==
    ASSUME NEW of \in Seq(Nat), NEW lines, PrefixOf(lines, of)
    PROVE  lines \in Seq(Nat) /\ ToSet(lines) \subseteq ToSet(of) /\ (\A n \in 0..Len(lines) : PrefixOf(SubSeq(lines, 1, n), of))
<1>1. PICK m \in 0..Len(of) : lines = SubSeq(of, 1, m)
  BY DEF PrefixOf
<1>2. /\ lines \in Seq(Nat) /\ Len(lines) = m /\ (\A i \in 1..m : lines[i] = of[i])
      /\ DOMAIN lines = 1..m /\ DOMAIN of = 1..Len(of) /\ Len(of) \in Nat
  <2>1. lines \in Seq(Nat) /\ Len(lines) = m /\ (\A i \in 1..m : lines[i] = of[i])
    BY <1>1, FirstOfIs
  <2>2. QED BY <2>1
<1>3. ToSet(lines) \subseteq ToSet(of)
  BY <1>2 DEF ToSet
<1>4. ASSUME NEW n \in 0..m PROVE PrefixOf(SubSeq(lines, 1, n), of)
  <2>1. n \in 0..Len(of) /\ n \in 0..Len(lines)
    BY <1>2
  <2>2. SubSeq(lines, 1, n) = SubSeq(of, 1, n)
    <3>1. /\ SubSeq(lines, 1, n) \in Seq(Nat) /\ Len(SubSeq(lines, 1, n)) = n
          /\ \A i \in 1..n : SubSeq(lines, 1, n)[i] = lines[i]
      BY <1>2, <2>1, FirstOfIs
    <3>2. /\ SubSeq(of, 1, n) \in Seq(Nat) /\ Len(SubSeq(of, 1, n)) = n
          /\ \A i \in 1..n : SubSeq(of, 1, n)[i] = of[i]
      BY <2>1, FirstOfIs
    <3>3. \A i \in 1..n : SubSeq(lines, 1, n)[i] = SubSeq(of, 1, n)[i]
      BY <1>2, <3>1, <3>2
    <3>4. PICK a \in Seq(Nat), b \in Seq(Nat) : a = SubSeq(lines, 1, n) /\ b = SubSeq(of, 1, n)
      BY <3>1, <3>2
    <3>5. Len(a) = Len(b) /\ \A i \in 1..Len(a) : a[i] = b[i]
      BY <3>1, <3>2, <3>3, <3>4
    <3>6. a = b
      BY <3>5, SeqEqual
    <3>7. QED BY <3>4, <3>6
  <2>3. QED BY <2>1, <2>2 DEF PrefixOf
<1>5. QED BY <1>2, <1>3, <1>4

\* Lines are the beginning of themselves.
LEMMA WholeIs ==
    ASSUME NEW lines \in Seq(Nat)
    PROVE  PrefixOf(lines, lines)
<1>1. Len(lines) \in 0..Len(lines) /\ lines = SubSeq(lines, 1, Len(lines))
  OBVIOUS
<1>2. QED BY <1>1 DEF PrefixOf

\* What an epoch has held stays, grows by a line, or begins anew.
LEMMA HeldSteps ==
    ASSUME [LrNext]_lrVars
    PROVE  lrHeld' = lrHeld \/ Logged \/ lrHeld' = {} \/ RingReseeded
<1>1. CASE UNCHANGED lrVars
  BY <1>1 DEF lrVars
<1>2. CASE (\E by \in {"timer", "clear"} : SaveTaken(by)) \/ Touched \/ (\E by \in {"pane", "other"} : Wiped(by))
  BY <1>2 DEF SaveTaken, Touched, Wiped
<1>3. CASE SaveSkipped \/ SaveRenamed \/ SaveDone \/ SaveFailed
  BY <1>3 DEF SaveSkipped, SaveRenamed, SaveDone, SaveFailed, SaveNil, SaveOver
<1>4. CASE PollSent \/ (\E at \in {"clear", "asked"} : PostSent(at))
  BY <1>4 DEF PollSent, PostSent
<1>5. CASE \E k \in {"poll", "post"} : EpochRead(k) \/ WindowRead(k) \/ RequestLost(k) \/ Rendered(k)
  BY <1>5 DEF EpochRead, WindowRead, RequestLost, Rendered
<1>6. QED BY <1>1, <1>2, <1>3, <1>4, <1>5 DEF LrNext

\* The snapshot's promises stand while lines are logged and wiped and nothing
\* is saved: the ring goes past the places they name.
LEMMA DiskStays ==
    ASSUME LrInv, [LrNext]_lrVars, UNCHANGED lrDisk
    PROVE  DiskShape' /\ DiskTrue'
<1> USE DEF LrInv, LrShape, DiskTrue
<1>1. /\ lrFile' = lrFile /\ lrSaved' = lrSaved /\ lrSave' = lrSave /\ lrPromised' = lrPromised /\ lrGone' = lrGone
  BY DEF lrDisk
<1>2. lrCount.logged \in Nat /\ lrCount'.logged \in Nat /\ lrCount.logged <= lrCount'.logged
  BY CountsGrow
<1>3. 1..lrCount.logged \subseteq 1..lrCount'.logged
  BY <1>2
<1>4. DiskShape'
  <2>1. WrittenTo(lrFile.lines, lrCount'.logged)
    BY <1>2, WrittenStays DEF DiskShape, Written
  <2>2. lrSave = NotSaving \/ WrittenTo(lrSave.copy, lrCount'.logged)
    BY <1>2, WrittenStays DEF DiskShape, Written
  <2>3. lrGone \subseteq 1..lrCount'.logged
    BY <1>3 DEF DiskShape
  <2>4. QED BY <1>1, <2>1, <2>2, <2>3 DEF DiskShape, Written
<1>5. RenamedTrue' /\ SnapshotTrue'
  BY <1>1 DEF RenamedTrue, SnapshotTrue, PrefixOf
<1>6. \/ UNCHANGED <<lrRing, lrHeld>> \/ Logged
      \/ lrRing'.epoch = lrRing.epoch + 1
  BY RingSteps
<1>7. lrRing.epoch \in Nat /\ End \in Nat
  BY DEF RingShape, End
<1>8. /\ lrSave # NotSaving => lrSave.epoch \in Nat /\ lrSave.seq \in Nat /\ Reached(lrSave.epoch, lrSave.seq)
      /\ lrSaved.written => lrSaved.epoch \in Nat /\ lrSaved.seq \in Nat /\ Reached(lrSaved.epoch, lrSaved.seq)
  <2>1. lrSave # NotSaving => lrSave.epoch \in Nat /\ lrSave.seq \in Nat
    BY DEF DiskShape, Saves
  <2>2. lrSaved.written => lrSaved.epoch \in Nat /\ lrSaved.seq \in Nat
    <3> SUFFICES ASSUME lrSaved.written PROVE lrSaved.epoch \in Nat /\ lrSaved.seq \in Nat
      OBVIOUS
    <3>1. ~NothingSaved.written
      BY DEF NothingSaved
    <3>2. lrSaved # NothingSaved
      BY <3>1
    <3>3. lrSaved \in [written : {TRUE}, epoch : Nat, seq : Nat, size : Nat]
      BY <3>2 DEF DiskShape
    <3>4. QED BY <3>3
  <2>3. QED BY <2>1, <2>2 DEF CopyTrue, SavedTrue
<1>9. \A epoch, seq \in Nat : Reached(epoch, seq) => Reached(epoch, seq)'
  BY ReachedStays
<1>10. \A epoch, seq \in Nat :
          Reached(epoch, seq) /\ epoch = lrRing'.epoch /\ seq = End' =>
              epoch = lrRing.epoch /\ seq = End /\ UNCHANGED lrRing
  <2> SUFFICES ASSUME NEW epoch \in Nat, NEW seq \in Nat, Reached(epoch, seq), epoch = lrRing'.epoch, seq = End'
               PROVE  epoch = lrRing.epoch /\ seq = End /\ UNCHANGED lrRing
    OBVIOUS
  <2>1. epoch <= lrRing.epoch /\ (epoch = lrRing.epoch => seq <= End)
    BY DEF Reached
  <2>2. CASE UNCHANGED <<lrRing, lrHeld>>
    BY <2>2 DEF End
  <2>3. CASE Logged
    BY <1>7, <2>1, <2>3, LoggedIs
  <2>4. CASE lrRing'.epoch = lrRing.epoch + 1
    BY <1>7, <2>1, <2>4
  <2>5. QED BY <1>6, <2>2, <2>3, <2>4
<1>11. lrHeld' \cap lrGone = {} /\ (lrSave # NotSaving => lrHeld' \cap lrSave.wiped = {})
  <2>1. lrHeld \cap lrGone = {} /\ (lrSave # NotSaving => lrHeld \cap lrSave.wiped = {})
    BY DEF WipedApart, CopyTrue
  <2>2. lrGone \subseteq 1..lrCount.logged /\ (lrSave # NotSaving => lrSave.wiped \subseteq 1..lrCount.logged)
    BY DEF DiskShape, CopyTrue
  <2>3. CASE lrHeld' = lrHeld
    BY <2>1, <2>3
  <2>4. CASE Logged
    <3>1. lrHeld' = lrHeld \cup {lrCount.logged + 1}
      BY <2>4, LoggedIs
    <3>2. lrCount.logged + 1 \notin 1..lrCount.logged
      BY <1>2
    <3>3. QED BY <2>1, <2>2, <3>1, <3>2
  <2>5. CASE lrHeld' = {}
    BY <2>5
  <2>6. CASE RingReseeded
    <3>1. lrSave = NotSaving
      BY <1>1, <2>6 DEF RingReseeded
    <3>2. lrHeld' \subseteq ToSet(lrFile.lines)
      BY <2>6, ReseededKeepsRing
    <3>3. QED BY <3>1, <3>2 DEF SnapshotTrue
  <2>7. QED BY <2>3, <2>4, <2>5, <2>6, HeldSteps
<1>12. WipedApart'
  BY <1>1, <1>11 DEF WipedApart
<1>13. CopyTrue'
  <2> SUFFICES ASSUME lrSave # NotSaving
               PROVE  /\ Reached(lrSave.epoch, lrSave.seq)'
                      /\ lrSave.epoch = lrRing'.epoch /\ lrSave.seq = End' => lrSave.copy = lrRing'.lines
                      /\ lrSave.wiped \subseteq 1..lrCount'.logged
                      /\ ToSet(lrSave.copy) \cap (lrGone \cup lrSave.wiped) = {}
                      /\ lrHeld' \cap lrSave.wiped = {}
    BY <1>1 DEF CopyTrue
  <2>1. PICK epoch \in Nat, seq \in Nat : epoch = lrSave.epoch /\ seq = lrSave.seq
    BY <1>8
  <2>2. Reached(epoch, seq)'
    BY <1>8, <1>9, <2>1
  <2>3. epoch = lrRing'.epoch /\ seq = End' => lrSave.copy = lrRing'.lines
    BY <1>8, <1>10, <2>1 DEF CopyTrue
  <2>4. Reached(lrSave.epoch, lrSave.seq)'
    BY <1>1, <2>1, <2>2 DEF Reached
  <2>5. QED BY <1>3, <1>11, <2>1, <2>3, <2>4 DEF CopyTrue
<1>14. SavedTrue'
  <2> SUFFICES ASSUME lrSaved.written
               PROVE  /\ Reached(lrSaved.epoch, lrSaved.seq)'
                      /\ lrSaved.epoch = lrRing'.epoch /\ lrSaved.seq = End' =>
                            lrSaved.size = BytesIn(lrRing'.lines, 1) /\ PrefixOf(lrFile.lines, lrRing'.lines)
    BY <1>1 DEF SavedTrue, PrefixOf, BytesIn
  <2>1. PICK epoch \in Nat, seq \in Nat : epoch = lrSaved.epoch /\ seq = lrSaved.seq
    BY <1>8
  <2>2. Reached(epoch, seq)'
    BY <1>8, <1>9, <2>1
  <2>3. epoch = lrRing'.epoch /\ seq = End' =>
            lrSaved.size = BytesIn(lrRing'.lines, 1) /\ PrefixOf(lrFile.lines, lrRing'.lines)
    <3> SUFFICES ASSUME epoch = lrRing'.epoch, seq = End'
                 PROVE  lrSaved.size = BytesIn(lrRing'.lines, 1) /\ PrefixOf(lrFile.lines, lrRing'.lines)
      OBVIOUS
    <3>1. epoch = lrRing.epoch /\ seq = End /\ lrRing' = lrRing
      BY <1>8, <1>10, <2>1
    <3>2. lrSaved.size = BytesIn(lrRing.lines, 1) /\ PrefixOf(lrFile.lines, lrRing.lines)
      BY <2>1, <3>1 DEF SavedTrue
    <3>3. QED BY <3>1, <3>2
  <2>4. Reached(lrSaved.epoch, lrSaved.seq)'
    BY <1>1, <2>1, <2>2 DEF Reached
  <2>5. QED BY <2>1, <2>3, <2>4
<1>15. QED BY <1>4, <1>5, <1>12, <1>13, <1>14

\* A save under way, field by field.
LEMMA SaveIs ==
    ASSUME DiskShape, lrSave # NotSaving
    PROVE  /\ lrSave \in Saves /\ Written(lrSave.copy)
           /\ lrSave.copy \in Seq(Nat) /\ lrSave.epoch \in Nat /\ lrSave.seq \in Nat
           /\ lrSave.wiped \in SUBSET Nat /\ lrSave.at \in {"copied", "renamed"} /\ lrSave.touched \in BOOLEAN
  BY DEF DiskShape, Saves

\* A save copies the ring as it is.
LEMMA SaveTakenKeepsDisk ==
    ASSUME LrInv, NEW by \in {"timer", "clear"}, SaveTaken(by)
    PROVE  DiskShape' /\ DiskTrue'
<1> USE DEF LrInv, LrShape, DiskTrue
<1>1. lrCount'.logged = lrCount.logged /\ lrCount.logged \in Nat
  <2>1. lrCount' = lrCount \/ Counted("ticks")
    BY DEF SaveTaken
  <2>2. QED BY <2>1, CountedIs DEF RingShape
<1>2. PICK wiped \in SUBSET (1..lrCount.logged) :
         /\ wiped \cap lrHeld = {}
         /\ lrSave' = [by |-> by, at |-> "copied", copy |-> lrRing.lines, epoch |-> lrRing.epoch, seq |-> End,
                       wiped |-> wiped, touched |-> FALSE]
  <2> DEFINE gone == IF by = "clear" THEN (1..lrCount.logged) \ lrHeld ELSE {}
  <2>1. gone \in SUBSET (1..lrCount.logged) /\ gone \cap lrHeld = {}
    OBVIOUS
  <2>2. lrSave' = [by |-> by, at |-> "copied", copy |-> lrRing.lines, epoch |-> lrRing.epoch, seq |-> End,
                   wiped |-> gone, touched |-> FALSE]
    BY DEF SaveTaken
  <2> HIDE DEF gone
  <2>3. QED BY <2>1, <2>2
<1>3. /\ lrSave'.copy = lrRing.lines /\ lrSave'.epoch = lrRing.epoch /\ lrSave'.seq = End
      /\ lrSave'.wiped = wiped /\ lrSave'.at = "copied"
  BY <1>2
<1>4. UNCHANGED <<lrRing, lrFile, lrSaved, lrPromised, lrGone, lrHeld>> /\ End' = End
  BY DEF SaveTaken, End
<1>5. lrRing.lines \in Seq(Nat) /\ lrRing.epoch \in Nat /\ End \in Nat /\ wiped \in SUBSET Nat
  BY <1>1 DEF RingShape, End
<1>6. DiskShape'
  <2>1. lrSave' \in Saves
    BY <1>2, <1>5 DEF Saves
  <2>2. Written(lrSave'.copy) /\ Written(lrFile.lines)
    BY <1>3 DEF RingShape, DiskShape
  <2>3. QED BY <1>1, <1>4, <2>1, <2>2 DEF DiskShape, Written
<1>7. ToSet(lrRing.lines) \cap (lrGone \cup wiped) = {} /\ lrHeld \cap wiped = {}
  <2>1. ToSet(lrRing.lines) \subseteq lrHeld
    BY RingApart
  <2>2. QED BY <1>2, <2>1 DEF WipedApart
<1>8. CopyTrue'
  <2>1. Reached(lrSave.epoch, lrSave.seq)'
    BY <1>3, <1>4, <1>5 DEF Reached
  <2>2. QED BY <1>1, <1>3, <1>4, <1>7, <2>1 DEF CopyTrue
<1>9. SavedTrue'
  <2> SUFFICES ASSUME lrSaved.written
               PROVE  /\ Reached(lrSaved.epoch, lrSaved.seq)'
                      /\ lrSaved.epoch = lrRing.epoch /\ lrSaved.seq = End =>
                            lrSaved.size = BytesIn(lrRing.lines, 1) /\ PrefixOf(lrFile.lines, lrRing.lines)
                      /\ lrSaved.epoch < lrRing.epoch \/ (lrSaved.epoch = lrRing.epoch /\ lrSaved.seq <= End)
    BY <1>3, <1>4 DEF SavedTrue, PrefixOf, BytesIn
  <2>1. /\ Reached(lrSaved.epoch, lrSaved.seq)
        /\ lrSaved.epoch = lrRing.epoch /\ lrSaved.seq = End =>
              lrSaved.size = BytesIn(lrRing.lines, 1) /\ PrefixOf(lrFile.lines, lrRing.lines)
    BY DEF SavedTrue
  <2>2. Reached(lrSaved.epoch, lrSaved.seq)'
    BY <1>4, <2>1 DEF Reached
  <2>3. lrSaved.epoch \in Nat
    <3>1. ~NothingSaved.written
      BY DEF NothingSaved
    <3>2. lrSaved # NothingSaved
      BY <3>1
    <3>3. QED BY <3>2 DEF DiskShape
  <2>4. lrSaved.epoch < lrRing.epoch \/ (lrSaved.epoch = lrRing.epoch /\ lrSaved.seq <= End)
    BY <1>5, <2>1, <2>3 DEF Reached
  <2>5. QED BY <2>1, <2>2, <2>4
<1>10. RenamedTrue' /\ WipedApart' /\ SnapshotTrue'
  BY <1>3, <1>4 DEF RenamedTrue, WipedApart, SnapshotTrue
<1>11. QED BY <1>6, <1>8, <1>9, <1>10

\* What every end of a save leaves alone.
LEMMA OverIs ==
    ASSUME LrShape, SaveOver
    PROVE  /\ lrSave' = NotSaving /\ UNCHANGED <<lrRing, lrCount, lrHeld>> /\ End' = End
           /\ CopyTrue' /\ RenamedTrue'
<1>1. lrSave' = NotSaving /\ UNCHANGED <<lrRing, lrCount, lrHeld>>
  BY DEF SaveOver
<1>2. QED BY <1>1 DEF End, CopyTrue, RenamedTrue, NotSaving

\* A save that fails leaves the snapshot as it found or made it.
LEMMA SaveFailedKeepsDisk == ASSUME LrInv, SaveFailed PROVE DiskShape' /\ DiskTrue'
<1> USE DEF LrInv, LrShape, DiskTrue
<1>1. /\ lrSave' = NotSaving /\ UNCHANGED <<lrRing, lrCount, lrHeld>> /\ End' = End
      /\ CopyTrue' /\ RenamedTrue' /\ UNCHANGED <<lrFile, lrSaved, lrPromised, lrGone>>
  BY OverIs DEF SaveFailed
<1>2. DiskShape' /\ WipedApart' /\ SnapshotTrue'
  BY <1>1 DEF DiskShape, Written, WipedApart, SnapshotTrue
<1>3. SavedTrue'
  BY <1>1 DEF SavedTrue, Reached, PrefixOf, BytesIn
<1>4. QED BY <1>1, <1>2, <1>3

\* A save renames its copy into place.
LEMMA SaveRenamedKeepsDisk == ASSUME LrInv, SaveRenamed PROVE DiskShape' /\ DiskTrue'
<1> USE DEF LrInv, LrShape, DiskTrue
<1>1. lrSave # NotSaving /\ lrSave.at = "copied"
  BY DEF SaveRenamed, NotSaving
<1>2. /\ lrSave \in Saves /\ Written(lrSave.copy)
      /\ lrSave.copy \in Seq(Nat) /\ lrSave.epoch \in Nat /\ lrSave.seq \in Nat
  BY <1>1, SaveIs
<1>3. /\ lrFile' = [lines |-> lrSave.copy, private |-> TRUE, there |-> TRUE]
      /\ lrSave' = [lrSave EXCEPT !.at = "renamed"] /\ lrPromised' = NoPromise
      /\ UNCHANGED <<lrRing, lrSaved, lrGone, lrCount, lrHeld>> /\ End' = End
  BY DEF SaveRenamed, End
<1>4. /\ lrSave' \in Saves /\ lrSave' # NotSaving /\ lrFile'.lines = lrSave.copy
      /\ lrSave'.copy = lrSave.copy /\ lrSave'.epoch = lrSave.epoch /\ lrSave'.seq = lrSave.seq
      /\ lrSave'.wiped = lrSave.wiped
  BY <1>2, <1>3 DEF Saves, NotSaving
<1>5. DiskShape'
  BY <1>2, <1>3, <1>4 DEF DiskShape, Written
<1>6. CopyTrue'
  BY <1>1, <1>3, <1>4 DEF CopyTrue, Reached
<1>7. SavedTrue'
  <2> SUFFICES ASSUME lrSaved.written
               PROVE  /\ Reached(lrSaved.epoch, lrSaved.seq)
                      /\ lrSaved.epoch = lrRing.epoch /\ lrSaved.seq = End =>
                            lrSaved.size = BytesIn(lrRing.lines, 1) /\ PrefixOf(lrSave.copy, lrRing.lines)
                      /\ lrSaved.epoch < lrSave.epoch \/ (lrSaved.epoch = lrSave.epoch /\ lrSaved.seq <= lrSave.seq)
                      /\ lrSaved.epoch = lrSave.epoch /\ lrSaved.seq = lrSave.seq =>
                            lrSaved.size = BytesIn(lrSave.copy, 1) /\ PrefixOf(lrSave.copy, lrSave.copy)
    BY <1>3, <1>4 DEF SavedTrue, Reached, PrefixOf, BytesIn
  <2>1. /\ Reached(lrSaved.epoch, lrSaved.seq)
        /\ lrSaved.epoch = lrRing.epoch /\ lrSaved.seq = End => lrSaved.size = BytesIn(lrRing.lines, 1)
        /\ lrSaved.epoch < lrSave.epoch \/ (lrSaved.epoch = lrSave.epoch /\ lrSaved.seq <= lrSave.seq)
        /\ lrSaved.epoch = lrSave.epoch /\ lrSaved.seq = lrSave.seq => lrSaved.size = BytesIn(lrSave.copy, 1)
    BY <1>1 DEF SavedTrue
  <2>2. PrefixOf(lrSave.copy, lrSave.copy)
    BY <1>2, WholeIs
  <2>3. Reached(lrSave.epoch, lrSave.seq) /\ (lrSave.epoch = lrRing.epoch /\ lrSave.seq = End => lrSave.copy = lrRing.lines)
    BY <1>1 DEF CopyTrue
  <2>4. lrRing.epoch \in Nat /\ End \in Nat
    BY DEF RingShape, End
  <2>5. lrSaved.epoch = lrRing.epoch /\ lrSaved.seq = End => lrSave.epoch = lrRing.epoch /\ lrSave.seq = End
    BY <1>2, <2>1, <2>3, <2>4 DEF Reached
  <2>6. QED BY <2>1, <2>2, <2>3, <2>5
<1>8. RenamedTrue'
  <2>1. PrefixOf(lrSave.copy, lrSave.copy)
    BY <1>2, WholeIs
  <2>2. PrefixOf(lrFile.lines, lrSave.copy)'
    BY <1>4, <2>1 DEF PrefixOf
  <2>3. QED BY <1>3, <1>4, <2>2 DEF RenamedTrue
<1>9. WipedApart' /\ SnapshotTrue'
  <2>1. ToSet(lrSave.copy) \cap lrGone = {}
    BY <1>1 DEF CopyTrue
  <2>2. QED BY <1>3, <1>4, <2>1 DEF WipedApart, SnapshotTrue
<1>10. QED BY <1>5, <1>6, <1>7, <1>8, <1>9

\* What a save that returns nil promises, from what it leaves on disk.
LEMMA NilKeepsPromise ==
    ASSUME LrInv, SaveNil, lrSave # NotSaving, PrefixOf(lrFile.lines, lrSave.copy), lrFile' = lrFile,
           ~lrSave.touched => lrFile = [lines |-> lrSave.copy, private |-> TRUE, there |-> TRUE]
    PROVE  /\ CopyTrue' /\ RenamedTrue' /\ WipedApart' /\ SnapshotTrue' /\ lrSave' = NotSaving
           /\ UNCHANGED <<lrRing, lrCount, lrHeld>> /\ End' = End /\ lrGone' \subseteq 1..lrCount.logged
<1> USE DEF LrInv, LrShape, DiskTrue
<1>1. /\ lrSave' = NotSaving /\ UNCHANGED <<lrRing, lrCount, lrHeld>> /\ End' = End /\ CopyTrue' /\ RenamedTrue'
  BY OverIs DEF SaveNil
<1>2. /\ lrGone' = lrGone \cup lrSave.wiped
      /\ lrPromised' = IF lrSave.touched THEN NoPromise ELSE lrSave.copy
  BY DEF SaveNil
<1>3. lrSave.copy \in Seq(Nat)
  BY SaveIs
<1>4. ToSet(lrFile.lines) \subseteq ToSet(lrSave.copy)
  BY <1>3, PrefixIs
<1>5. /\ ToSet(lrSave.copy) \cap (lrGone \cup lrSave.wiped) = {} /\ lrHeld \cap lrSave.wiped = {}
      /\ lrSave.wiped \subseteq 1..lrCount.logged
  BY DEF CopyTrue
<1>6. WipedApart'
  BY <1>1, <1>2, <1>5 DEF WipedApart
<1>7. SnapshotTrue'
  BY <1>2, <1>4, <1>5 DEF SnapshotTrue
<1>8. lrGone' \subseteq 1..lrCount.logged
  BY <1>2, <1>5 DEF DiskShape
<1>9. QED BY <1>1, <1>6, <1>7, <1>8

\* A save that finds its file in place returns nil without writing.
LEMMA SaveSkippedKeepsDisk == ASSUME LrInv, SaveSkipped PROVE DiskShape' /\ DiskTrue'
<1> USE DEF LrInv, LrShape, DiskTrue
<1>1. /\ lrSave # NotSaving /\ SaveNil /\ lrFile' = lrFile /\ lrSaved' = lrSaved
      /\ lrSaved.written /\ lrSaved.epoch = lrSave.epoch /\ lrSaved.seq = lrSave.seq
      /\ lrFile.there /\ BytesIn(lrFile.lines, 1) = lrSaved.size /\ lrFile.private
  BY DEF SaveSkipped, Skips, NotSaving
<1>2. lrSaved.size = BytesIn(lrSave.copy, 1) /\ PrefixOf(lrFile.lines, lrSave.copy)
  BY <1>1 DEF SavedTrue
<1>3. lrSave.copy \in Seq(Nat)
  BY <1>1, SaveIs
<1>4. lrFile.lines = lrSave.copy
  BY <1>1, <1>2, <1>3, SameBytesSameLines
<1>5. lrFile = [lines |-> lrSave.copy, private |-> TRUE, there |-> TRUE]
  BY <1>1, <1>4 DEF DiskShape
<1>6. /\ CopyTrue' /\ RenamedTrue' /\ WipedApart' /\ SnapshotTrue' /\ lrSave' = NotSaving
      /\ UNCHANGED <<lrRing, lrCount, lrHeld>> /\ End' = End /\ lrGone' \subseteq 1..lrCount.logged
  BY <1>1, <1>2, <1>5, NilKeepsPromise
<1>7. DiskShape'
  BY <1>1, <1>6 DEF DiskShape, Written
<1>8. SavedTrue'
  BY <1>1, <1>6 DEF SavedTrue, Reached, PrefixOf, BytesIn
<1>9. QED BY <1>6, <1>7, <1>8

\* A save that has renamed its copy into place notes how far it came.
LEMMA SaveDoneKeepsDisk == ASSUME LrInv, SaveDone PROVE DiskShape' /\ DiskTrue'
<1> USE DEF LrInv, LrShape, DiskTrue
<1>1. /\ lrSave # NotSaving /\ lrSave.at = "renamed" /\ SaveNil /\ lrFile' = lrFile
      /\ lrSaved' = [written |-> TRUE, epoch |-> lrSave.epoch, seq |-> lrSave.seq, size |-> BytesIn(lrSave.copy, 1)]
  BY DEF SaveDone, NotSaving
<1>2. /\ PrefixOf(lrFile.lines, lrSave.copy)
      /\ ~lrSave.touched => lrFile = [lines |-> lrSave.copy, private |-> TRUE, there |-> TRUE]
  BY <1>1 DEF RenamedTrue
<1>3. /\ CopyTrue' /\ RenamedTrue' /\ WipedApart' /\ SnapshotTrue' /\ lrSave' = NotSaving
      /\ UNCHANGED <<lrRing, lrCount, lrHeld>> /\ End' = End /\ lrGone' \subseteq 1..lrCount.logged
  BY <1>1, <1>2, NilKeepsPromise
<1>4. lrSave.copy \in Seq(Nat) /\ lrSave.epoch \in Nat /\ lrSave.seq \in Nat
  BY <1>1, SaveIs
<1>5. BytesIn(lrSave.copy, 1) \in Nat
  <2>1. IsFiniteSet(1..Len(lrSave.copy)) /\ DOMAIN lrSave.copy = 1..Len(lrSave.copy) /\ Len(lrSave.copy) \in Nat
    <3>1. DOMAIN lrSave.copy = 1..Len(lrSave.copy) /\ Len(lrSave.copy) \in Nat
      BY <1>4
    <3>2. 1 \in Int /\ Len(lrSave.copy) \in Int
      BY <3>1
    <3>3. IsFiniteSet(1..Len(lrSave.copy))
      BY <3>2, FS_Interval, Zenon
    <3>4. QED BY <3>1, <3>3
  <2>2. Cardinality({i \in DOMAIN lrSave.copy : LongLine(lrSave.copy[i])}) \in Nat
    <3>1. {i \in DOMAIN lrSave.copy : LongLine(lrSave.copy[i])} \subseteq 1..Len(lrSave.copy)
      BY <2>1
    <3>2. QED BY <2>1, <3>1, FS_Subset, FS_CardinalityType
  <2>3. QED BY <2>1, <2>2 DEF BytesIn
<1>6. lrSaved' \in [written : {TRUE}, epoch : Nat, seq : Nat, size : Nat]
  <2> DEFINE size == BytesIn(lrSave.copy, 1)
  <2>1. size \in Nat /\ lrSaved' = [written |-> TRUE, epoch |-> lrSave.epoch, seq |-> lrSave.seq, size |-> size]
    BY <1>1, <1>5
  <2> HIDE DEF size
  <2>2. QED BY <1>4, <2>1
<1>7. DiskShape'
  BY <1>1, <1>3, <1>6 DEF DiskShape, Written
<1>8. SavedTrue'
  <2>1. lrSaved'.epoch = lrSave.epoch /\ lrSaved'.seq = lrSave.seq /\ lrSaved'.size = BytesIn(lrSave.copy, 1)
    BY <1>1
  <2>2. Reached(lrSave.epoch, lrSave.seq) /\ (lrSave.epoch = lrRing.epoch /\ lrSave.seq = End => lrSave.copy = lrRing.lines)
    BY <1>1 DEF CopyTrue
  <2>3. Reached(lrSaved.epoch, lrSaved.seq)'
    BY <1>3, <2>1, <2>2 DEF Reached
  <2>4. lrSave.epoch = lrRing.epoch /\ lrSave.seq = End =>
            lrSaved'.size = BytesIn(lrRing.lines, 1) /\ PrefixOf(lrFile.lines, lrRing.lines)
    BY <1>2, <2>1, <2>2
  <2>5. QED BY <1>1, <1>3, <2>1, <2>3, <2>4 DEF SavedTrue, PrefixOf, BytesIn
<1>9. QED BY <1>3, <1>7, <1>8

\* Somebody touches the snapshot: what is left of it is the beginning of it.
LEMMA TouchedKeepsDisk == ASSUME LrInv, Touched PROVE DiskShape' /\ DiskTrue'
<1> USE DEF LrInv, LrShape, DiskTrue
<1>1. /\ lrPromised' = NoPromise /\ UNCHANGED <<lrRing, lrSaved, lrGone, lrHeld>> /\ End' = End
      /\ lrSave' = IF lrSave.at = "renamed" THEN [lrSave EXCEPT !.touched = TRUE] ELSE lrSave
      /\ lrCount'.logged = lrCount.logged /\ lrCount.logged \in Nat
  BY CountedIs DEF Touched, End, RingShape
<1>2. /\ lrFile.lines \in Seq(Nat) /\ WrittenTo(lrFile.lines, lrCount.logged) /\ Len(lrFile.lines) \in Nat
  BY DEF DiskShape, Written
<1>3. PICK n \in 0..Len(lrFile.lines) :
         /\ lrFile'.lines = SubSeq(lrFile.lines, 1, n)
         /\ lrFile'.private \in BOOLEAN /\ lrFile'.there \in BOOLEAN
         /\ lrFile' = [lines |-> lrFile'.lines, private |-> lrFile'.private, there |-> lrFile'.there]
  <2>1. CASE lrFile' = NoSnapshot
    <3>1. SubSeq(lrFile.lines, 1, 0) = <<>> /\ 0 \in 0..Len(lrFile.lines)
      BY <1>2
    <3>2. QED BY <2>1, <3>1 DEF NoSnapshot
  <2>2. CASE \E n \in 0..Len(lrFile.lines) - 1 : lrFile' = [lrFile EXCEPT !.lines = SubSeq(@, 1, n)]
    <3>1. PICK n \in 0..Len(lrFile.lines) - 1 : lrFile' = [lrFile EXCEPT !.lines = SubSeq(lrFile.lines, 1, n)]
      BY <2>2
    <3>2. n \in 0..Len(lrFile.lines)
      BY <1>2
    <3>3. /\ lrFile' = [lines |-> SubSeq(lrFile.lines, 1, n), private |-> lrFile.private, there |-> lrFile.there]
          /\ lrFile.private \in BOOLEAN /\ lrFile.there \in BOOLEAN
      BY <3>1 DEF DiskShape
    <3>4. QED BY <3>2, <3>3
  <2>3. CASE lrFile' = [lrFile EXCEPT !.private = FALSE]
    <3>1. lrFile.lines = SubSeq(lrFile.lines, 1, Len(lrFile.lines)) /\ Len(lrFile.lines) \in 0..Len(lrFile.lines)
      BY <1>2
    <3>2. /\ lrFile' = [lines |-> lrFile.lines, private |-> FALSE, there |-> lrFile.there]
          /\ lrFile.there \in BOOLEAN
      BY <2>3 DEF DiskShape
    <3>3. QED BY <3>1, <3>2
  <2>4. QED BY <2>1, <2>2, <2>3 DEF Touched
<1>4. PICK lines \in Seq(Nat) :
      /\ lrFile' \in [lines : Seq(Nat), private : BOOLEAN, there : BOOLEAN] /\ lines = SubSeq(lrFile.lines, 1, n)
      /\ lrFile'.lines = lines /\ WrittenTo(lines, lrCount.logged) /\ ToSet(lines) \subseteq ToSet(lrFile.lines)
  <2>1. /\ WrittenTo(SubSeq(lrFile.lines, 1, n), lrCount.logged)
        /\ ToSet(SubSeq(lrFile.lines, 1, n)) \subseteq ToSet(lrFile.lines)
    BY <1>2, <1>3, PartsAreWritten
  <2>2. SubSeq(lrFile.lines, 1, n) \in Seq(Nat)
    BY <2>1 DEF WrittenTo
  <2>3. QED BY <1>3, <2>1, <2>2
<1>5. /\ lrSave' = NotSaving <=> lrSave = NotSaving
      /\ lrSave # NotSaving =>
            /\ lrSave' \in Saves /\ lrSave'.copy = lrSave.copy /\ lrSave'.epoch = lrSave.epoch
            /\ lrSave'.seq = lrSave.seq /\ lrSave'.wiped = lrSave.wiped /\ Written(lrSave.copy)
            /\ lrSave.copy \in Seq(Nat)
      /\ lrSave'.at = lrSave.at
      /\ lrSave.at = "renamed" => lrSave'.touched
  <2>1. CASE lrSave = NotSaving
    BY <1>1, <2>1 DEF NotSaving
  <2>2. CASE lrSave # NotSaving
    <3>1. lrSave \in Saves /\ Written(lrSave.copy) /\ lrSave.copy \in Seq(Nat)
      BY <2>2, SaveIs
    <3>2. /\ lrSave' \in Saves /\ lrSave'.copy = lrSave.copy /\ lrSave'.epoch = lrSave.epoch
          /\ lrSave'.seq = lrSave.seq /\ lrSave'.wiped = lrSave.wiped /\ lrSave'.at = lrSave.at
          /\ lrSave.at = "renamed" => lrSave'.touched
      BY <1>1, <3>1 DEF Saves
    <3>3. lrSave' # NotSaving
      BY <3>2 DEF Saves, NotSaving
    <3>4. QED BY <2>2, <3>1, <3>2, <3>3
  <2>3. QED BY <2>1, <2>2
<1>6. \A of \in Seq(Nat) : PrefixOf(lrFile.lines, of) => PrefixOf(lines, of)
  <2> SUFFICES ASSUME NEW of \in Seq(Nat), PrefixOf(lrFile.lines, of) PROVE PrefixOf(lines, of)
    OBVIOUS
  <2>1. \A m \in 0..Len(lrFile.lines) : PrefixOf(SubSeq(lrFile.lines, 1, m), of)
    BY PrefixIs
  <2>2. QED BY <1>4, <2>1
<1>7. DiskShape'
  <2>1. Written(lrSave.copy) => WrittenTo(lrSave.copy, lrCount'.logged)
    BY <1>1 DEF Written
  <2>2. QED BY <1>1, <1>4, <1>5, <2>1 DEF DiskShape, Written
<1>8. CopyTrue'
  BY <1>1, <1>5 DEF CopyTrue, Reached
<1>9. SavedTrue'
  <2> SUFFICES ASSUME lrSaved.written
               PROVE  /\ Reached(lrSaved.epoch, lrSaved.seq)
                      /\ lrSaved.epoch = lrRing.epoch /\ lrSaved.seq = End =>
                            lrSaved.size = BytesIn(lrRing.lines, 1) /\ PrefixOf(lines, lrRing.lines)
                      /\ lrSave # NotSaving =>
                            /\ lrSaved.epoch < lrSave.epoch \/ (lrSaved.epoch = lrSave.epoch /\ lrSaved.seq <= lrSave.seq)
                            /\ lrSaved.epoch = lrSave.epoch /\ lrSaved.seq = lrSave.seq =>
                                  lrSaved.size = BytesIn(lrSave.copy, 1) /\ PrefixOf(lines, lrSave.copy)
    BY <1>1, <1>4, <1>5 DEF SavedTrue, Reached, PrefixOf, BytesIn
  <2>1. lrRing.lines \in Seq(Nat)
    BY DEF RingShape
  <2>2. QED BY <1>5, <1>6, <2>1 DEF SavedTrue
<1>10. RenamedTrue'
  <2> SUFFICES ASSUME lrSave.at = "renamed" PROVE PrefixOf(lines, lrSave.copy)
    BY <1>1, <1>4, <1>5 DEF RenamedTrue, PrefixOf, NotSaving
  <2>1. lrSave # NotSaving
    BY DEF NotSaving
  <2>2. QED BY <1>5, <1>6, <2>1 DEF RenamedTrue
<1>11. WipedApart' /\ SnapshotTrue'
  BY <1>1, <1>4 DEF WipedApart, SnapshotTrue
<1>12. QED BY <1>7, <1>8, <1>9, <1>10, <1>11

\* A new process owes the snapshot nothing yet.
LEMMA ReseededKeepsDisk == ASSUME LrInv, RingReseeded PROVE DiskShape' /\ DiskTrue'
<1> USE DEF LrInv, LrShape, DiskTrue
<1>1. /\ lrSaved' = NothingSaved /\ lrSave' = NotSaving /\ UNCHANGED <<lrFile, lrPromised, lrGone>>
      /\ lrCount'.logged = lrCount.logged
  BY CountedIs DEF RingReseeded
<1>2. lrHeld' \subseteq ToSet(lrFile.lines)
  BY ReseededKeepsRing
<1>3. DiskShape'
  BY <1>1 DEF DiskShape, Written
<1>4. CopyTrue' /\ SavedTrue' /\ RenamedTrue'
  BY <1>1 DEF CopyTrue, SavedTrue, RenamedTrue, NotSaving, NothingSaved
<1>5. WipedApart' /\ SnapshotTrue'
  BY <1>1, <1>2 DEF WipedApart, SnapshotTrue
<1>6. QED BY <1>3, <1>4, <1>5

\* The snapshot tells the truth of the ring, whatever happens to either.
LEMMA DiskKeeps == ASSUME LrInv, [LrNext]_lrVars PROVE DiskShape' /\ DiskTrue'
<1>1. CASE UNCHANGED lrDisk
  BY <1>1, DiskStays
<1>2. CASE (\E by \in {"timer", "clear"} : SaveTaken(by))
  BY <1>2, SaveTakenKeepsDisk
<1>3. CASE SaveSkipped \/ SaveRenamed \/ SaveDone \/ SaveFailed
  BY <1>3, SaveSkippedKeepsDisk, SaveRenamedKeepsDisk, SaveDoneKeepsDisk, SaveFailedKeepsDisk
<1>4. CASE Touched \/ RingReseeded
  BY <1>4, TouchedKeepsDisk, ReseededKeepsDisk
<1>5. ASSUME \/ UNCHANGED lrVars \/ Logged \/ (\E by \in {"pane", "other"} : Wiped(by))
             \/ PollSent \/ (\E at \in {"clear", "asked"} : PostSent(at))
             \/ \E k \in {"poll", "post"} : EpochRead(k) \/ WindowRead(k) \/ RequestLost(k) \/ Rendered(k)
      PROVE  UNCHANGED lrDisk
  <2>1. CASE UNCHANGED lrVars \/ Logged \/ (\E by \in {"pane", "other"} : Wiped(by))
    BY <2>1 DEF lrVars, Logged, Wiped
  <2>2. CASE PollSent \/ (\E at \in {"clear", "asked"} : PostSent(at))
    BY <2>2 DEF PollSent, PostSent
  <2>3. CASE \E k \in {"poll", "post"} : EpochRead(k) \/ WindowRead(k) \/ RequestLost(k) \/ Rendered(k)
    BY <2>3 DEF EpochRead, WindowRead, RequestLost, Rendered
  <2>4. QED BY <1>5, <2>1, <2>2, <2>3
<1>6. QED BY <1>1, <1>2, <1>3, <1>4, <1>5 DEF LrNext

-----------------------------------------------------------------------------
\* A request told of by name.
LEMMA RequestTold ==
    ASSUME NEW k, NEW q, lrReq'[k] = q, RequestTrue(k, q)'
    PROVE  RequestTrue(k, lrReq[k])'
  BY DEF RequestTrue, AnswerTrue, Reached, Follows, After, End

\* A request that waits stays true.
LEMMA WaitsTrue ==
    ASSUME LrInv, [LrNext]_lrVars, NEW k \in Callers, lrReq'[k] = lrReq[k],
           k = "poll" /\ lrNewest' = "poll" =>
               lrNewest = "poll" /\ lrPane'.cursor = lrPane.cursor /\ lrPane'.epoch = lrPane.epoch
    PROVE  RequestTrue(k, lrReq[k])'
<1>1. PICK q \in {NoRequest} \cup Asked : q = lrReq[k]
  BY DEF LrInv, LrShape, ViewShape
<1>2. RequestTrue(k, q)
  BY <1>1 DEF LrInv, FollowerTrue
<1>3. RequestTrue(k, q)'
  BY <1>2, RequestStays DEF LrInv
<1>4. QED BY <1>1, <1>3, RequestTold

\* There is nothing to tell of no request.
LEMMA IdleTrue ==
    ASSUME NEW k, lrReq'[k] = NoRequest
    PROVE  RequestTrue(k, lrReq[k])'
  BY DEF RequestTrue, NoRequest

\* The dashboard is not at work: whatever the ring and the snapshot do.
LEMMA ViewStays ==
    ASSUME LrInv, [LrNext]_lrVars, UNCHANGED lrViewer
    PROVE  ViewShape' /\ FollowerTrue'
<1>1. UNCHANGED <<lrReq, lrNewest, lrPane>>
  BY DEF lrViewer
<1>2. ViewShape'
  BY <1>1 DEF LrInv, LrShape, ViewShape
<1>3. PaneKept'
  BY <1>1, PaneStays DEF LrInv, FollowerTrue
<1>4. \A k \in Callers : RequestTrue(k, lrReq[k])'
  BY <1>1, WaitsTrue
<1>5. QED BY <1>2, <1>3, <1>4 DEF FollowerTrue

\* The post of a clear waits for the wipe and the save.
LEMMA PostMoves ==
    ASSUME LrInv, [LrNext]_lrVars, UNCHANGED <<lrNewest, lrPane>>, NEW at \in {"wait", "asked"},
           lrReq["post"].at \in {"clear", "wait"}, lrReq' = [lrReq EXCEPT !["post"].at = at]
    PROVE  ViewShape' /\ FollowerTrue'
<1>1. PaneKept'
  BY PaneStays DEF LrInv, FollowerTrue
<1>2. "post" \in Callers /\ "poll" \in Callers /\ "poll" # "post"
  BY DEF Callers
<1>3. lrReq \in [Callers -> {NoRequest} \cup Asked]
  BY DEF LrInv, LrShape, ViewShape
<1>4. PICK q \in Asked : q = lrReq["post"]
  BY <1>2, <1>3 DEF NoRequest
<1>5. PICK moved : moved = [q EXCEPT !.at = at]
  OBVIOUS
<1>6. /\ moved \in Asked /\ moved.at = at /\ moved.since = q.since /\ moved.epoch = q.epoch
  BY <1>4, <1>5 DEF Asked
<1>7. lrReq' = [lrReq EXCEPT !["post"] = moved]
  BY <1>4, <1>5
<1>8. lrReq'["post"] = moved /\ lrReq'["poll"] = lrReq["poll"] /\ lrReq' \in [Callers -> {NoRequest} \cup Asked]
  BY <1>2, <1>3, <1>6, <1>7
<1>9. RequestTrue("post", q)'
  <2>1. RequestTrue("post", q)
    BY <1>2, <1>4 DEF LrInv, FollowerTrue
  <2>2. QED BY <1>2, <2>1, RequestStays DEF LrInv
<1>10. RequestTrue("post", moved)'
  <2>1. Reached(q.epoch, q.since)' /\ q.epoch = 0
    BY <1>4, <1>9 DEF RequestTrue
  <2>2. QED BY <1>6, <2>1 DEF RequestTrue, Reached
<1>11. ViewShape'
  BY <1>8 DEF LrInv, LrShape, ViewShape
<1>12. RequestTrue("poll", lrReq["poll"])'
  BY <1>2, <1>8, WaitsTrue
<1>13. RequestTrue("post", lrReq["post"])'
  BY <1>8, <1>10, RequestTold
<1>14. QED BY <1>1, <1>11, <1>12, <1>13 DEF FollowerTrue, Callers

\* A save that is over lets the post of its clear go on.
LEMMA OverKeepsView == ASSUME LrInv, [LrNext]_lrVars, SaveOver PROVE ViewShape' /\ FollowerTrue'
<1>1. UNCHANGED <<lrNewest, lrPane>>
  BY DEF SaveOver
<1>2. CASE lrReq' = lrReq
  BY <1>1, <1>2, ViewStays DEF lrViewer
<1>3. CASE lrReq["post"].at = "wait" /\ lrReq' = [lrReq EXCEPT !["post"].at = "asked"]
  BY <1>1, <1>3, PostMoves
<1>4. QED BY <1>2, <1>3 DEF SaveOver

\* A clear makes the post it was asked for by wait.
LEMMA WipedKeepsView ==
    ASSUME LrInv, [LrNext]_lrVars, NEW by \in {"pane", "other"}, Wiped(by)
    PROVE  ViewShape' /\ FollowerTrue'
<1>1. UNCHANGED <<lrNewest, lrPane>>
  BY DEF Wiped
<1>2. CASE by = "pane"
  BY <1>1, <1>2, PostMoves DEF Wiped
<1>3. CASE by # "pane"
  BY <1>1, <1>3, ViewStays DEF Wiped, lrViewer
<1>4. QED BY <1>2, <1>3

\* The requests of a process that is gone fail.
LEMMA ReseededKeepsView == ASSUME LrInv, [LrNext]_lrVars, RingReseeded PROVE ViewShape' /\ FollowerTrue'
<1>1. lrReq' = [k \in Callers |-> NoRequest] /\ UNCHANGED <<lrNewest, lrPane>>
  BY DEF RingReseeded, Callers
<1>2. ViewShape'
  BY <1>1 DEF LrInv, LrShape, ViewShape
<1>3. PaneKept'
  BY <1>1, PaneStays DEF LrInv, FollowerTrue
<1>4. \A k \in Callers : RequestTrue(k, lrReq[k])'
  BY <1>1, IdleTrue
<1>5. QED BY <1>2, <1>3, <1>4 DEF FollowerTrue

\* A poll asks from where the pane has come to.
LEMMA PollSentKeepsView == ASSUME LrInv, [LrNext]_lrVars, PollSent PROVE ViewShape' /\ FollowerTrue'
<1>1. lrNewest' = "poll" /\ lrPane' = lrPane /\ lrRing' = lrRing
  BY DEF PollSent
<1>2. "post" \in Callers /\ "poll" \in Callers /\ "poll" # "post" /\ lrReq \in [Callers -> {NoRequest} \cup Asked]
  BY DEF Callers, LrInv, LrShape, ViewShape
<1>3. PICK cursor \in Nat, epoch \in Nat : cursor = lrPane.cursor /\ epoch = lrPane.epoch
  BY DEF LrInv, LrShape, ViewShape
<1>4. PICK q \in Asked : q = Request("asked", cursor, epoch)
  BY DEF Request, Asked
<1>5. q.at = "asked" /\ q.since = cursor /\ q.epoch = epoch
  BY <1>4 DEF Request
<1>6. lrReq' = [lrReq EXCEPT !["poll"] = q]
  BY <1>3, <1>4 DEF PollSent
<1>7. lrReq'["poll"] = q /\ lrReq'["post"] = lrReq["post"] /\ lrReq' \in [Callers -> {NoRequest} \cup Asked]
  BY <1>2, <1>6
<1>8. ViewShape'
  BY <1>1, <1>2, <1>7 DEF LrInv, LrShape, ViewShape
<1>9. PaneKept'
  BY <1>1, PaneStays DEF LrInv, FollowerTrue
<1>10. RequestTrue("poll", q)'
  <2>1. Reached(epoch, cursor)'
    BY <1>1, <1>3, <1>9 DEF PaneKept, Reached
  <2>2. q.since = lrPane'.cursor /\ q.epoch = lrPane'.epoch
    BY <1>1, <1>3, <1>5
  <2>3. Reached(q.epoch, q.since)'
    BY <1>5, <2>1 DEF Reached
  <2>4. QED BY <1>5, <2>2, <2>3 DEF RequestTrue
<1>11. RequestTrue("poll", lrReq["poll"])'
  BY <1>7, <1>10, RequestTold
<1>12. RequestTrue("post", lrReq["post"])'
  BY <1>2, <1>7, WaitsTrue
<1>13. QED BY <1>8, <1>9, <1>11, <1>12 DEF FollowerTrue, Callers

\* A post asks for the newest.
LEMMA PostSentKeepsView ==
    ASSUME LrInv, [LrNext]_lrVars, NEW at \in {"clear", "asked"}, PostSent(at)
    PROVE  ViewShape' /\ FollowerTrue'
<1>1. lrNewest' = "post" /\ lrPane' = lrPane /\ lrRing' = lrRing
  BY DEF PostSent
<1>2. "post" \in Callers /\ "poll" \in Callers /\ "poll" # "post" /\ lrReq \in [Callers -> {NoRequest} \cup Asked]
  BY DEF Callers, LrInv, LrShape, ViewShape
<1>3. PICK q \in Asked : q = Request(at, 0, 0)
  BY DEF Request, Asked
<1>4. q.at = at /\ q.since = 0 /\ q.epoch = 0
  BY <1>3 DEF Request
<1>5. lrReq' = [lrReq EXCEPT !["post"] = q]
  BY <1>3 DEF PostSent
<1>6. lrReq'["post"] = q /\ lrReq'["poll"] = lrReq["poll"] /\ lrReq' \in [Callers -> {NoRequest} \cup Asked]
  BY <1>2, <1>5
<1>7. ViewShape'
  BY <1>1, <1>2, <1>6 DEF LrInv, LrShape, ViewShape
<1>8. PaneKept'
  BY <1>1, PaneStays DEF LrInv, FollowerTrue
<1>9. RequestTrue("post", q)'
  <2>1. lrRing.epoch \in Nat \ {0}
    BY DEF LrInv, LrShape, RingShape
  <2>2. Reached(q.epoch, q.since)'
    BY <1>1, <1>4, <2>1 DEF Reached
  <2>3. QED BY <1>4, <2>2 DEF RequestTrue
<1>10. RequestTrue("post", lrReq["post"])'
  BY <1>6, <1>9, RequestTold
<1>11. RequestTrue("poll", lrReq["poll"])'
  BY <1>1, <1>2, <1>6, WaitsTrue
<1>12. QED BY <1>7, <1>8, <1>10, <1>11 DEF FollowerTrue, Callers

\* A request that moves on, the ring and the pane where they were, is true when
\* it is true of them.
LEMMA OneMoves ==
    ASSUME LrInv, [LrNext]_lrVars, UNCHANGED <<lrNewest, lrPane>>, NEW k \in Callers,
           NEW q \in {NoRequest} \cup Asked, lrReq' = [lrReq EXCEPT ![k] = q], RequestTrue(k, q)'
    PROVE  ViewShape' /\ FollowerTrue'
<1>1. lrReq \in [Callers -> {NoRequest} \cup Asked]
  BY DEF LrInv, LrShape, ViewShape
<1>2. lrReq'[k] = q /\ lrReq' \in [Callers -> {NoRequest} \cup Asked]
      /\ \A j \in Callers : j # k => lrReq'[j] = lrReq[j]
  BY <1>1
<1>3. ViewShape'
  BY <1>2 DEF LrInv, LrShape, ViewShape
<1>4. PaneKept'
  BY PaneStays DEF LrInv, FollowerTrue
<1>5. ASSUME NEW j \in Callers PROVE RequestTrue(j, lrReq[j])'
  <2>1. CASE j = k
    BY <1>2, <2>1, RequestTold
  <2>2. CASE j # k
    BY <1>2, <2>2, WaitsTrue
  <2>3. QED BY <2>1, <2>2
<1>6. QED BY <1>3, <1>4, <1>5 DEF FollowerTrue

\* A request is lost.
LEMMA LostKeepsView ==
    ASSUME LrInv, [LrNext]_lrVars, NEW k \in Callers, RequestLost(k)
    PROVE  ViewShape' /\ FollowerTrue'
<1>1. UNCHANGED <<lrNewest, lrPane>> /\ lrReq' = [lrReq EXCEPT ![k] = NoRequest]
  BY DEF RequestLost
<1>2. RequestTrue(k, NoRequest)'
  BY DEF RequestTrue, NoRequest
<1>3. QED BY <1>1, <1>2, OneMoves

\* The handler reads the epoch it will name.
LEMMA EpochReadKeepsView ==
    ASSUME LrInv, [LrNext]_lrVars, NEW k \in Callers, EpochRead(k)
    PROVE  ViewShape' /\ FollowerTrue'
<1>1. /\ lrReq[k].at = "asked" /\ UNCHANGED <<lrNewest, lrPane, lrRing>>
      /\ lrReq' = [lrReq EXCEPT ![k].at = "named", ![k].named = lrRing.epoch]
  BY DEF EpochRead
<1>2. lrReq \in [Callers -> {NoRequest} \cup Asked] /\ lrRing.epoch \in Nat \ {0}
  BY DEF LrInv, LrShape, ViewShape, RingShape
<1>3. PICK q \in Asked : q = lrReq[k]
  BY <1>1, <1>2 DEF NoRequest
<1>4. PICK named : \E epoch \in Nat \ {0} : epoch = lrRing.epoch /\ named = [q EXCEPT !.at = "named", !.named = epoch]
  BY <1>2
<1>5. /\ named \in Asked /\ named.at = "named" /\ named.since = q.since /\ named.epoch = q.epoch
      /\ named.named = lrRing.epoch /\ named = [q EXCEPT !.at = "named", !.named = lrRing.epoch]
  BY <1>3, <1>4 DEF Asked
<1>6. lrReq' = [lrReq EXCEPT ![k] = named]
  BY <1>1, <1>2, <1>3, <1>5
<1>7. RequestTrue(k, q)
  BY <1>3 DEF LrInv, FollowerTrue
<1>8. RequestTrue(k, q)'
  BY <1>1, <1>7, RequestStays DEF LrInv
<1>9. RequestTrue(k, named)'
  <2>1. /\ Reached(q.epoch, q.since)'
        /\ k = "post" => q.epoch = 0
        /\ k = "poll" /\ lrNewest' = "poll" => q.since = lrPane'.cursor /\ q.epoch = lrPane'.epoch
    BY <1>1, <1>3, <1>8 DEF RequestTrue
  <2>2. Reached(named.epoch, named.since)'
    BY <1>5, <2>1 DEF Reached
  <2>3. named.named \in 1..lrRing'.epoch
    BY <1>1, <1>2, <1>5
  <2>4. QED BY <1>5, <2>1, <2>2, <2>3 DEF RequestTrue
<1>10. QED BY <1>1, <1>5, <1>6, <1>9, OneMoves

-----------------------------------------------------------------------------
\* The newest lines of the ring, and the place after them.
LEMMA NewestIs ==
    ASSUME LrShape, RingHeld
    PROVE  /\ NewestWindow.lines \in Seq(Nat) /\ NewestWindow.next \in Nat /\ NewestWindow.dropped = 0
           /\ NewestWindow.next <= End /\ Follows(NewestWindow.lines, NewestWindow.next)
<1>1. /\ lrRing.lines \in Seq(Nat) /\ Len(lrRing.lines) \in Nat /\ lrRing.dropped \in Nat /\ End \in Nat
      /\ End = lrRing.dropped + Len(lrRing.lines) /\ Limit \in Nat
  BY LogRingAssumption DEF LrShape, RingShape, End
<1> DEFINE n == Min({Limit, Len(lrRing.lines)})
           from == Len(lrRing.lines) - n
<1>2. n \in {Limit, Len(lrRing.lines)} /\ n <= Len(lrRing.lines)
  <2>1. PICK a \in Int, b \in Int : a = Limit /\ b = Len(lrRing.lines)
    BY <1>1
  <2>2. Min({a, b}) \in {a, b} /\ Min({a, b}) <= b
    BY LowerOfTwo
  <2>3. QED BY <2>1, <2>2
<1>3. n \in 0..Len(lrRing.lines)
  BY <1>1, <1>2
<1>4. NewestWindow = [lines |-> LastOf(lrRing.lines, n), next |-> End, dropped |-> 0]
  BY DEF NewestWindow
<1> HIDE DEF n
<1>5. from \in 0..Len(lrRing.lines) /\ Len(lrRing.lines) \in from..Len(lrRing.lines)
  BY <1>1, <1>3
<1> HIDE DEF from
<1>6. /\ SubSeq(lrRing.lines, from + 1, Len(lrRing.lines)) \in Seq(Nat)
      /\ Follows(SubSeq(lrRing.lines, from + 1, Len(lrRing.lines)), lrRing.dropped + Len(lrRing.lines))
  BY <1>5, StretchFollows
<1>7. LastOf(lrRing.lines, n) = SubSeq(lrRing.lines, from + 1, Len(lrRing.lines))
  BY DEF LastOf, from
<1>8. QED BY <1>1, <1>4, <1>6, <1>7

\* The oldest lines past a place, the place after them, and how many that were
\* there are gone.
LEMMA SinceIs ==
    ASSUME LrShape, RingHeld, NEW seq \in Nat
    PROVE  LET w == SinceWindow(seq)
           IN  /\ w.lines \in Seq(Nat) /\ w.next \in Nat /\ w.dropped \in Nat /\ w.next <= End
               /\ Follows(w.lines, w.next)
               /\ seq <= End /\ w.dropped = 0 => w.next = seq + Len(w.lines)
               /\ w.dropped > 0 /\ w.lines = <<>> => lrHeld = {} /\ w.next = End
<1>1. /\ lrRing.lines \in Seq(Nat) /\ Len(lrRing.lines) \in Nat /\ lrRing.dropped \in Nat /\ End \in Nat
      /\ End = lrRing.dropped + Len(lrRing.lines) /\ Limit \in Nat \ {0}
  BY LogRingAssumption DEF LrShape, RingShape, End
<1>2. PICK held \in Nat, dropped \in Nat, end \in Nat :
         held = Len(lrRing.lines) /\ dropped = lrRing.dropped /\ end = End /\ end = dropped + held
  BY <1>1
<1>3. PICK high \in Nat : high = Max({seq, dropped}) /\ high \in {seq, dropped} /\ high >= seq /\ high >= dropped
  <2>1. Max({seq, dropped}) \in {seq, dropped} /\ Max({seq, dropped}) >= seq /\ Max({seq, dropped}) >= dropped
    BY HigherOfTwo
  <2>2. QED BY <2>1
<1>4. PICK low \in Nat : low = Min({high, end}) /\ low \in {high, end} /\ low <= high /\ low <= end
  <2>1. Min({high, end}) \in {high, end} /\ Min({high, end}) <= high /\ Min({high, end}) <= end
    BY LowerOfTwo
  <2>2. QED BY <2>1
<1>5. PICK from \in 0..held : from = low - dropped
  <2>1. dropped <= low /\ low <= dropped + held
    BY <1>2, <1>3, <1>4
  <2>2. low - dropped \in 0..held
    BY <2>1
  <2>3. QED BY <2>2
<1>6. PICK to \in from..held : to = Min({from + Limit, held}) /\ to \in {from + Limit, held}
  <2>1. /\ Min({from + Limit, held}) \in {from + Limit, held}
        /\ Min({from + Limit, held}) <= from + Limit /\ Min({from + Limit, held}) <= held
    <3>1. PICK a \in Int : a = from + Limit
      BY <1>1
    <3>2. Min({a, held}) \in {a, held} /\ Min({a, held}) <= a /\ Min({a, held}) <= held
      BY LowerOfTwo
    <3>3. QED BY <3>1, <3>2
  <2>2. Min({from + Limit, held}) \in from..held
    BY <1>1, <2>1
  <2>3. QED BY <2>1, <2>2
<1>7. PICK lost \in Nat : lost = Max({dropped - seq, 0}) /\ (lost = 0 => dropped <= seq) /\ (lost > 0 => seq < dropped)
  <2>1. Max({dropped - seq, 0}) \in {dropped - seq, 0} /\ Max({dropped - seq, 0}) >= dropped - seq /\ Max({dropped - seq, 0}) >= 0
    BY HigherOfTwo
  <2>2. Max({dropped - seq, 0}) \in Nat
    BY <2>1
  <2>3. QED BY <2>1, <2>2
<1>8. SinceWindow(seq) = [lines |-> SubSeq(lrRing.lines, from + 1, to), next |-> lrRing.dropped + to, dropped |-> lost]
  BY <1>2, <1>3, <1>4, <1>5, <1>6, <1>7 DEF SinceWindow
<1>9. from \in 0..Len(lrRing.lines) /\ to \in from..Len(lrRing.lines)
  BY <1>2
<1>10. /\ SubSeq(lrRing.lines, from + 1, to) \in Seq(Nat)
       /\ Len(SubSeq(lrRing.lines, from + 1, to)) = to - from
       /\ Follows(SubSeq(lrRing.lines, from + 1, to), lrRing.dropped + to)
       /\ lrRing.dropped + to \in Nat /\ lrRing.dropped + to <= End
  BY <1>9, StretchFollows
<1>11. PICK some \in Seq(Nat) : some = SubSeq(lrRing.lines, from + 1, to) /\ Len(some) = to - from
  BY <1>10
<1>12. seq <= end /\ lost = 0 => dropped + to = seq + Len(some)
  <2> SUFFICES ASSUME seq <= end, lost = 0 PROVE dropped + to = seq + Len(some)
    OBVIOUS
  <2>1. dropped <= seq
    BY <1>7
  <2>2. high = seq /\ low = seq /\ from = seq - dropped
    BY <1>3, <1>4, <1>5, <2>1
  <2>3. QED BY <1>11, <2>2
<1>13. lost > 0 /\ some = <<>> => held = 0 /\ to = held
  <2> SUFFICES ASSUME lost > 0, some = <<>> PROVE held = 0 /\ to = held
    OBVIOUS
  <2>1. seq < dropped
    BY <1>7
  <2>2. low = dropped /\ from = 0
    BY <1>2, <1>3, <1>4, <1>5, <2>1
  <2>3. to = from
    BY <1>11
  <2>4. QED BY <1>1, <1>6, <2>2, <2>3
<1>14. lost > 0 /\ some = <<>> => lrHeld = {} /\ dropped + to = end
  <2> SUFFICES ASSUME lost > 0, some = <<>> PROVE lrHeld = {} /\ dropped + to = end
    OBVIOUS
  <2>1. held = 0 /\ to = held
    BY <1>13
  <2>2. lrRing.lines = <<>>
    <3>1. lrRing.lines \in Seq(Nat) /\ Len(lrRing.lines) = 0
      BY <1>1, <1>2, <2>1
    <3>2. QED BY <3>1, EmptySeq
  <2>3. QED BY <1>2, <2>1, <2>2 DEF RingHeld
<1>15. PICK w : w = SinceWindow(seq)
  OBVIOUS
<1>16. w.lines = some /\ w.next = lrRing.dropped + to /\ w.dropped = lost
  BY <1>8, <1>11, <1>15
<1>17. /\ w.lines \in Seq(Nat) /\ w.next \in Nat /\ w.dropped \in Nat /\ w.next <= End
       /\ Follows(w.lines, w.next)
  BY <1>10, <1>11, <1>16
<1>18. /\ seq <= End /\ w.dropped = 0 => w.next = seq + Len(w.lines)
       /\ w.dropped > 0 /\ w.lines = <<>> => lrHeld = {} /\ w.next = End
  BY <1>2, <1>12, <1>14, <1>16
<1>19. QED BY <1>15, <1>17, <1>18

\* What a window that is read answers is true of the ring it names.
LEMMA WindowReadKeepsView ==
    ASSUME LrInv, [LrNext]_lrVars, NEW k \in Callers, WindowRead(k)
    PROVE  ViewShape' /\ FollowerTrue'
<1> USE DEF LrInv
<1>1. lrReq[k].at = "named" /\ UNCHANGED <<lrNewest, lrPane, lrRing, lrHeld>> /\ End' = End
  BY DEF WindowRead, End
<1>2. lrReq \in [Callers -> {NoRequest} \cup Asked] /\ lrRing.epoch \in Nat \ {0} /\ End \in Nat
  BY DEF LrShape, ViewShape, RingShape, End
<1>3. PICK q \in Asked : q = lrReq[k]
  BY <1>1, <1>2 DEF NoRequest
<1>4. /\ RequestTrue(k, q) /\ q.at = "named" /\ q.named \in 1..lrRing.epoch /\ q.since \in Nat /\ q.epoch \in Nat
      /\ Reached(q.epoch, q.since)
  BY <1>1, <1>3 DEF FollowerTrue, RequestTrue, Asked
<1> DEFINE w == IF q.epoch = q.named THEN SinceWindow(q.since) ELSE NewestWindow
<1>5. /\ w.lines \in Seq(Nat) /\ w.next \in Nat /\ w.dropped \in Nat /\ w.next <= End
      /\ Follows(w.lines, w.next)
      /\ q.named = lrRing.epoch /\ q.epoch = q.named /\ w.dropped = 0 => w.next = q.since + Len(w.lines)
      /\ w.dropped > 0 /\ w.lines = <<>> => lrHeld = {} /\ w.next = End
  <2>1. CASE q.epoch = q.named
    <3>1. w = SinceWindow(q.since)
      BY <2>1
    <3>2. q.named = lrRing.epoch => q.since <= End
      BY <1>4, <2>1 DEF Reached
    <3> HIDE DEF w
    <3>3. QED BY <1>4, <3>1, <3>2, SinceIs
  <2>2. CASE q.epoch # q.named
    <3>1. w = NewestWindow
      BY <2>2
    <3> HIDE DEF w
    <3>2. QED BY <2>2, <3>1, NewestIs
  <2>3. QED BY <2>1, <2>2
<1>6. PICK lines \in Seq(Nat), next \in Nat, dropped \in Nat :
         /\ lines = w.lines /\ next = w.next /\ dropped = w.dropped
         /\ next <= End /\ Follows(lines, next)
         /\ q.named = lrRing.epoch /\ q.epoch = q.named /\ dropped = 0 => next = q.since + Len(lines)
         /\ dropped > 0 /\ lines = <<>> => lrHeld = {} /\ next = End
  <2> HIDE DEF w
  <2>1. QED BY <1>5
<1>7. PICK answer \in Answers : answer = [epoch |-> q.named, lines |-> lines, next |-> next, dropped |-> dropped]
  <2>1. q.named \in Nat
    BY <1>3 DEF Asked
  <2>2. QED BY <2>1 DEF Answers
<1>8. answer.epoch = q.named /\ answer.lines = lines /\ answer.next = next /\ answer.dropped = dropped
  BY <1>7
<1>9. PICK answered : answered = [q EXCEPT !.at = "answered", !.answer = answer]
  OBVIOUS
<1>10. /\ answered \in Asked /\ answered.at = "answered" /\ answered.since = q.since /\ answered.epoch = q.epoch
       /\ answered.named = q.named /\ answered.answer = answer
  BY <1>3, <1>9 DEF Asked
<1>11. lrReq' = [lrReq EXCEPT ![k] = answered]
  <2>1. lrReq' = [lrReq EXCEPT ![k].at = "answered",
                      ![k].answer = [epoch |-> q.named, lines |-> w.lines, next |-> w.next, dropped |-> w.dropped]]
    BY <1>3 DEF WindowRead
  <2> HIDE DEF w
  <2>2. lrReq' = [lrReq EXCEPT ![k].at = "answered", ![k].answer = answer]
    BY <1>6, <1>7, <2>1
  <2>3. QED BY <1>2, <1>3, <1>9, <2>2
<1>12. AnswerTrue(answered)
  <2>1. Reached(q.named, next)
    BY <1>2, <1>4, <1>6 DEF Reached
  <2>2. dropped > 0 /\ lines = <<>> => After(Gap) = End - next
    <3>1. lrHeld = {} => After(Gap) = 0
      BY FS_EmptySet DEF After
    <3>2. QED BY <1>2, <1>6, <3>1
  <2>3. QED BY <1>6, <1>8, <1>10, <2>1, <2>2 DEF AnswerTrue
<1>13. RequestTrue(k, answered)
  <2>1. /\ k = "post" => q.epoch = 0
        /\ k = "poll" /\ lrNewest = "poll" => q.since = lrPane.cursor /\ q.epoch = lrPane.epoch
    BY <1>4 DEF RequestTrue
  <2>2. Reached(answered.epoch, answered.since)
    BY <1>4, <1>10
  <2>3. QED BY <1>4, <1>10, <1>12, <2>1, <2>2 DEF RequestTrue
<1>14. RequestTrue(k, answered)'
  BY <1>1, <1>10, <1>13, RequestStays
<1>15. QED BY <1>1, <1>10, <1>11, <1>14, OneMoves

-----------------------------------------------------------------------------
\* The pane keeps no more lines than there are.
LEMMA ViewIs ==
    ASSUME NEW lines \in Seq(Nat)
    PROVE  Min({ViewMax, Len(lines)}) \in 0..Len(lines)
<1>1. ViewMax \in Nat
  BY LogRingAssumption
<1>2. PICK a \in Int, b \in Int : a = ViewMax /\ b = Len(lines) /\ a >= 0 /\ b >= 0
  BY <1>1
<1>3. Min({a, b}) \in {a, b} /\ Min({a, b}) <= b
  BY LowerOfTwo
<1>4. QED BY <1>2, <1>3

\* A stretch that comes after what the pane shows is shown after it, behind a
\* seam if lines between the two are gone.
LEMMA AppendedShows ==
    ASSUME LrShape, NEW q, NEW lines \in Seq(Nat), NEW more \in Seq(Nat), NEW cursor \in Nat, NEW next \in Nat,
           NEW lost \in Nat, lines = lrPane.lines, more = q.answer.lines, lost = q.answer.dropped,
           lines # <<>>, more # <<>> \/ lost > 0, Shown(lines, cursor), Follows(more, next),
           lost = 0 => next = cursor + Len(more),
           lost > 0 /\ more = <<>> => After(Gap) = End - next
    PROVE  Appended(q) \in Seq(Nat) /\ Shown(Appended(q), next)
<1>1. End \in Nat /\ Gap \in Nat
  <2>1. End \in Nat
    BY DEF LrShape, RingShape, End
  <2>2. Gap \in Nat
    BY DEF Gap
  <2>3. QED BY <2>1, <2>2
<1>2. more # <<>> => Shown(more, next)
  BY FollowsShown
<1>3. PICK all \in Seq(Nat) : all = (lines \o (IF lost > 0 THEN <<Gap>> ELSE <<>>)) \o more
  <2>1. <<Gap>> \in Seq(Nat) /\ <<>> \in Seq(Nat)
    BY <1>1
  <2>2. PICK seam \in Seq(Nat) : seam = IF lost > 0 THEN <<Gap>> ELSE <<>>
    BY <2>1
  <2>3. lines \o seam \in Seq(Nat)
    OBVIOUS
  <2>4. (lines \o seam) \o more \in Seq(Nat)
    BY <2>3
  <2>5. QED BY <2>2, <2>4
<1>4. Shown(all, next)
  <2>1. CASE lost = 0
    <3>1. all = lines \o more
      <4>1. lines \o <<>> = lines
        BY ConcatEmptySeq
      <4>2. all = (lines \o <<>>) \o more
        BY <1>3, <2>1
      <4>3. QED BY <4>1, <4>2
    <3>2. more # <<>> /\ next = cursor + Len(more)
      BY <2>1
    <3>3. After(lines[Len(lines)]) = End - cursor
      BY DEF Shown
    <3>4. 1 \in 1..Len(more) /\ Len(more) \in Nat
      BY <3>2
    <3>5. After(more[1]) = End - next + (Len(more) - 1)
      BY <3>4 DEF Follows
    <3>6. After(lines[Len(lines)]) = After(more[1]) + 1
      <4> DEFINE last == After(lines[Len(lines)])
                 first == After(more[1])
                 end == End
                 all2 == Len(more)
      <4>1. /\ last = end - cursor /\ first = end - next + (all2 - 1) /\ next = cursor + all2
            /\ end \in Int /\ all2 \in Int
        BY <1>1, <3>2, <3>3, <3>4, <3>5
      <4> HIDE DEF last, first, end, all2
      <4>2. last = first + 1
        BY <4>1
      <4>3. QED BY <4>2 DEF last, first
    <3>7. QED BY <1>2, <3>1, <3>2, <3>6, ShownJoin
  <2>2. CASE lost > 0
    <3>0. PICK seam \in Seq(Nat) : seam = <<Gap>>
      <4>1. <<Gap>> \in Seq(Nat)
        BY <1>1
      <4>2. QED BY <4>1
    <3>1. PICK seamed \in Seq(Nat) : seam = <<Gap>> /\ seamed = lines \o seam
      <4>1. lines \o seam \in Seq(Nat)
        OBVIOUS
      <4>2. QED BY <3>0, <4>1
    <3>2. all = seamed \o more
      BY <1>3, <2>2, <3>1
    <3>3. seam # <<>> /\ Len(seam) = 1 /\ seam[1] = Gap
      BY <3>1
    <3>4. After(Gap) \in Nat
      BY <1>1, AfterIs
    <3>5. PICK place \in Int : place = End - After(Gap)
      BY <1>1, <3>4
    <3>6. Shown(seam, place)
      <4>1. After(Gap) = End - place
        BY <1>1, <3>4, <3>5
      <4>2. QED BY <3>3, <4>1 DEF Shown
    <3>7. Shown(seamed, place)
      <4>1. cursor \in Int /\ seam[1] = Gap
        BY <3>3
      <4>2. Shown(lines \o seam, place)
        BY <3>3, <3>6, <4>1, ShownJoin
      <4>3. QED BY <3>1, <4>2
    <3>8. seamed # <<>> /\ seamed[Len(seamed)] = Gap
      BY <3>1
    <3>9. CASE more = <<>>
      <4>1. all = seamed
        BY <3>2, <3>9, ConcatEmptySeq
      <4>2. place = next
        BY <1>1, <2>2, <3>4, <3>5, <3>9
      <4>3. QED BY <3>7, <4>1, <4>2
    <3>10. CASE more # <<>>
      BY <1>2, <3>2, <3>7, <3>8, <3>10, ShownJoin
    <3>11. QED BY <3>9, <3>10
  <2>3. QED BY <2>1, <2>2
<1>5. Appended(q) = LastOf(all, Min({ViewMax, Len(all)}))
  BY <1>3 DEF Appended
<1>6. Min({ViewMax, Len(all)}) \in 0..Len(all)
  BY ViewIs
<1>7. QED BY <1>4, <1>5, <1>6, LastOfIs, ShownOfLast

\* What is rendered is true of the ring its answer names.
LEMMA RenderedKeepsPane ==
    ASSUME LrInv, NEW k \in Callers, Rendered(k), lrPane' # lrPane
    PROVE  /\ lrPane' \in [lines : Seq(Nat), epoch : Nat, cursor : Nat, open : BOOLEAN]
           /\ PaneKept' /\ lrNewest' = k
<1> USE DEF LrInv
<1>1. /\ lrReq[k].at = "answered" /\ lrNewest = k /\ lrNewest' = lrNewest /\ UNCHANGED <<lrRing, lrHeld>> /\ End' = End
      /\ ~(k = "post" /\ lrReq[k].answer.epoch = lrPane.epoch)
  BY DEF Rendered, End
<1>2. lrReq \in [Callers -> {NoRequest} \cup Asked]
  BY DEF LrShape, ViewShape
<1>3. PICK q \in Asked : q = lrReq[k]
  BY <1>1, <1>2 DEF NoRequest
<1>4. RequestTrue(k, q) /\ AnswerTrue(q)
  BY <1>1, <1>3 DEF FollowerTrue, RequestTrue
<1>5. PICK more \in Seq(Nat), next \in Nat, lost \in Nat, named \in Nat :
         /\ more = q.answer.lines /\ next = q.answer.next /\ lost = q.answer.dropped /\ named = q.answer.epoch
         /\ named = q.named
  BY <1>4 DEF AnswerTrue, Answers
<1>6. PICK lines \in Seq(Nat), epoch \in Nat, cursor \in Nat :
         lines = lrPane.lines /\ epoch = lrPane.epoch /\ cursor = lrPane.cursor
  BY DEF LrShape, ViewShape
<1>7. lrPane \in [lines : Seq(Nat), epoch : Nat, cursor : Nat, open : BOOLEAN]
  BY DEF LrShape, ViewShape
<1>8. Reached(named, next)
  BY <1>4, <1>5 DEF AnswerTrue
<1>9. named = lrRing.epoch =>
         /\ Follows(more, next)
         /\ q.epoch = named /\ lost = 0 => next = q.since + Len(more)
         /\ lost > 0 /\ more = <<>> => After(Gap) = End - next
  BY <1>4, <1>5 DEF AnswerTrue
<1>10. epoch = lrRing.epoch => Shown(lines, cursor)
  BY <1>6 DEF FollowerTrue, PaneKept
\* What follows this pane's own ring is a poll of its cursor and its epoch.
<1>11. Mode(q) # "replace" =>
          q.epoch # 0 /\ lines # <<>> /\ named = epoch /\ k = "poll" /\ q.since = cursor /\ q.epoch = epoch
  <2> SUFFICES ASSUME Mode(q) # "replace"
               PROVE  q.epoch # 0 /\ lines # <<>> /\ named = epoch /\ k = "poll" /\ q.since = cursor /\ q.epoch = epoch
    OBVIOUS
  <2>1. q.epoch # 0 /\ lines # <<>> /\ named = epoch
    BY <1>5, <1>6 DEF Mode
  <2>2. q.at = "answered"
    BY <1>1, <1>3
  <2>3. k = "poll"
    BY <1>1, <1>4, <2>1, <2>2 DEF RequestTrue, Callers
  <2>4. q.since = cursor /\ q.epoch = epoch
    BY <1>1, <1>4, <1>6, <2>2, <2>3 DEF RequestTrue
  <2>5. QED BY <2>1, <2>3, <2>4
<1>12. PICK now \in Seq(Nat), since \in Nat, of \in Nat :
          /\ lrPane'.lines = now /\ lrPane'.cursor = since /\ lrPane'.epoch = of
          /\ lrPane' \in [lines : Seq(Nat), epoch : Nat, cursor : Nat, open : BOOLEAN]
          /\ of = named /\ since = next /\ (named = lrRing.epoch => Shown(now, next))
  <2>1. CASE Mode(q) = "skip"
    <3>1. lrPane' = [lrPane EXCEPT !.cursor = next]
      BY <1>1, <1>3, <1>5, <2>1 DEF Rendered
    <3>2. lrPane'.lines = lines /\ lrPane'.cursor = next /\ lrPane'.epoch = epoch
      BY <1>6, <1>7, <3>1
    <3>3. lrPane' \in [lines : Seq(Nat), epoch : Nat, cursor : Nat, open : BOOLEAN]
      BY <1>7, <3>1
    <3>4. more = <<>> /\ lost = 0
      BY <1>5, <2>1 DEF Mode
    <3>5. named = epoch /\ q.since = cursor /\ q.epoch = epoch
      BY <1>11, <2>1
    <3>6. named = lrRing.epoch => next = cursor
      BY <1>9, <3>4, <3>5
    <3>7. named = lrRing.epoch => Shown(lines, next)
      BY <1>10, <3>5, <3>6
    <3>8. QED BY <3>2, <3>3, <3>5, <3>7
  <2>2. CASE Mode(q) = "append"
    <3>1. lrPane' = [lines |-> Appended(q), epoch |-> named, cursor |-> next, open |-> TRUE]
      BY <1>1, <1>3, <1>5, <2>2 DEF Rendered
    <3>2. more # <<>> \/ lost > 0
      BY <1>5, <2>2 DEF Mode
    <3>3. lines # <<>> /\ named = epoch /\ q.since = cursor /\ q.epoch = epoch
      BY <1>11, <2>2
    <3>4. Appended(q) \in Seq(Nat)
      <4>1. <<Gap>> \in Seq(Nat) /\ <<>> \in Seq(Nat)
        BY DEF Gap
      <4>2. PICK seam \in Seq(Nat) : seam = IF lost > 0 THEN <<Gap>> ELSE <<>>
        BY <4>1
      <4>3. lines \o seam \in Seq(Nat)
        OBVIOUS
      <4>4. PICK all \in Seq(Nat) : all = (lines \o seam) \o more
        <5>1. (lines \o seam) \o more \in Seq(Nat)
          BY <4>3
        <5>2. QED BY <5>1
      <4>5. Appended(q) = LastOf(all, Min({ViewMax, Len(all)}))
        BY <1>5, <1>6, <4>2, <4>4 DEF Appended
      <4>6. QED BY <4>5, ViewIs, LastOfIs
    <3>5. named = lrRing.epoch => Shown(Appended(q), next)
      <4> SUFFICES ASSUME named = lrRing.epoch PROVE Shown(Appended(q), next)
        OBVIOUS
      <4>1. /\ Shown(lines, cursor) /\ Follows(more, next) /\ (lost = 0 => next = cursor + Len(more))
            /\ lost > 0 /\ more = <<>> => After(Gap) = End - next
        BY <1>9, <1>10, <3>3
      <4>2. LrShape /\ lines = lrPane.lines /\ more = q.answer.lines /\ lost = q.answer.dropped
        BY <1>5, <1>6
      <4>3. QED BY <3>2, <3>3, <4>1, <4>2, AppendedShows
    <3>6. PICK some \in Seq(Nat) : some = Appended(q)
      BY <3>4
    <3>7. lrPane' = [lines |-> some, epoch |-> named, cursor |-> next, open |-> TRUE]
      BY <3>1, <3>6
    <3>8. QED BY <3>5, <3>6, <3>7
  <2>3. CASE Mode(q) = "replace"
    <3>1. lrPane' = [lines |-> more, epoch |-> named, cursor |-> next, open |-> TRUE]
      BY <1>1, <1>3, <1>5, <2>3 DEF Rendered
    <3>2. named = lrRing.epoch => Shown(more, next)
      BY <1>9, FollowsShown
    <3>3. QED BY <3>1, <3>2
  <2>4. QED BY <2>1, <2>2, <2>3 DEF Mode
<1>13. Reached(lrPane.epoch, lrPane.cursor)'
  BY <1>1, <1>8, <1>12 DEF Reached
<1>14. of = lrRing.epoch => Shown(now, since)'
  BY <1>1, <1>12 DEF Shown, After
<1>15. PaneKept'
  BY <1>1, <1>12, <1>13, <1>14 DEF PaneKept, Shown, After
<1>16. QED BY <1>1, <1>12, <1>15

\* The answer that is rendered is done with.
LEMMA RenderedKeepsView ==
    ASSUME LrInv, [LrNext]_lrVars, NEW k \in Callers, Rendered(k)
    PROVE  ViewShape' /\ FollowerTrue'
<1>1. lrNewest' = lrNewest /\ lrReq' = [lrReq EXCEPT ![k] = NoRequest]
  BY DEF Rendered
<1>2. CASE lrPane' = lrPane
  <2>1. RequestTrue(k, NoRequest)'
    BY DEF RequestTrue, NoRequest
  <2>2. QED BY <1>1, <1>2, <2>1, OneMoves
<1>3. CASE lrPane' # lrPane
  <2>1. lrReq \in [Callers -> {NoRequest} \cup Asked]
    BY DEF LrInv, LrShape, ViewShape
  <2>2. lrReq'[k] = NoRequest /\ lrReq' \in [Callers -> {NoRequest} \cup Asked]
        /\ \A j \in Callers : j # k => lrReq'[j] = lrReq[j]
    BY <1>1, <2>1
  <2>3. /\ lrPane' \in [lines : Seq(Nat), epoch : Nat, cursor : Nat, open : BOOLEAN]
        /\ PaneKept' /\ lrNewest' = k
    BY <1>3, RenderedKeepsPane
  <2>4. ViewShape'
    BY <1>1, <2>2, <2>3 DEF LrInv, LrShape, ViewShape
  <2>5. ASSUME NEW j \in Callers PROVE RequestTrue(j, lrReq[j])'
    <3>1. CASE j = k
      BY <2>2, <3>1, IdleTrue
    <3>2. CASE j # k
      BY <2>2, <2>3, <3>2, WaitsTrue
    <3>3. QED BY <3>1, <3>2
  <2>6. QED BY <2>3, <2>4, <2>5 DEF FollowerTrue
<1>4. QED BY <1>2, <1>3

\* The pane tells the truth of the ring, or has lost track of it and knows.
LEMMA ViewKeeps == ASSUME LrInv, [LrNext]_lrVars PROVE ViewShape' /\ FollowerTrue'
<1>1. CASE UNCHANGED lrVars \/ Logged \/ (\E by \in {"timer", "clear"} : SaveTaken(by)) \/ SaveRenamed \/ Touched
  <2>1. UNCHANGED lrViewer
    BY <1>1 DEF lrVars, lrViewer, Logged, SaveTaken, SaveRenamed, Touched
  <2>2. QED BY <2>1, ViewStays
<1>2. CASE SaveSkipped \/ SaveDone \/ SaveFailed
  BY <1>2, OverKeepsView DEF SaveSkipped, SaveDone, SaveFailed, SaveNil
<1>3. CASE (\E by \in {"pane", "other"} : Wiped(by)) \/ RingReseeded
  BY <1>3, WipedKeepsView, ReseededKeepsView
<1>4. CASE PollSent \/ (\E at \in {"clear", "asked"} : PostSent(at))
  BY <1>4, PollSentKeepsView, PostSentKeepsView
<1>5. CASE \E k \in Callers : EpochRead(k) \/ WindowRead(k) \/ RequestLost(k) \/ Rendered(k)
  BY <1>5, EpochReadKeepsView, WindowReadKeepsView, LostKeepsView, RenderedKeepsView
<1>6. QED BY <1>1, <1>2, <1>3, <1>4, <1>5 DEF LrNext, Callers

\* The invariant stands.
LEMMA LrInvNext == LrInv /\ [LrNext]_lrVars => LrInv'
<1> SUFFICES ASSUME LrInv, [LrNext]_lrVars PROVE LrInv'
  OBVIOUS
<1>1. RingShape' /\ RingHeld'
  BY RingKeeps DEF LrInv
<1>2. DiskShape' /\ DiskTrue'
  BY DiskKeeps
<1>3. ViewShape' /\ FollowerTrue'
  BY ViewKeeps
<1>4. QED BY <1>1, <1>2, <1>3 DEF LrInv, LrShape

\* The copies of the log tell the truth about it: a pane shows lines of the ring
\* it follows, in order, with a seam where one is missing and none left out, and
\* a save that returned nil has its lines on disk, none of them of a clear.
THEOREM CopiesAreTrue == LrSpec => []CopiesTrue
<1>1. LrInv => CopiesTrue
  <2> SUFFICES ASSUME LrInv PROVE CopiesTrue
    OBVIOUS
  <2>1. SnapshotTrue
    BY DEF LrInv, DiskTrue
  <2>2. ASSUME lrPane.epoch = lrRing.epoch
        PROVE  LET p == lrPane.lines
                   Between(a, b) == {h \in lrHeld : a < h /\ h < b}
               IN  /\ ToSet(p) \ {Gap} \subseteq lrHeld
                   /\ \A i \in 1..(Len(p) - 1) : Gap \notin {p[i], p[i + 1]}
                          => p[i] < p[i + 1] /\ Between(p[i], p[i + 1]) = {}
                   /\ p # <<>> => Cardinality({h \in lrHeld : h > Last(p)}) = End - lrPane.cursor
    <3>1. PICK p \in Seq(Nat) : p = lrPane.lines
      BY DEF LrInv, LrShape, ViewShape
    <3>2. Shown(p, lrPane.cursor)
      BY <2>2, <3>1 DEF LrInv, FollowerTrue, PaneKept
    <3>3. Len(p) \in Nat /\ DOMAIN p = 1..Len(p)
      OBVIOUS
    <3>4. ToSet(p) \ {Gap} \subseteq lrHeld
      BY <3>2, <3>3 DEF ToSet, Shown
    <3>5. ASSUME NEW i \in 1..(Len(p) - 1), p[i] # Gap, p[i + 1] # Gap
          PROVE  p[i] < p[i + 1] /\ {h \in lrHeld : p[i] < h /\ h < p[i + 1]} = {}
      <4>1. i \in 1..Len(p) /\ i + 1 \in 1..Len(p)
        BY <3>3
      <4>2. p[i] \in lrHeld /\ p[i + 1] \in lrHeld /\ After(p[i]) = After(p[i + 1]) + 1
        BY <3>2, <3>5, <4>1 DEF Shown
      <4>3. QED BY <4>2, NextIs DEF LrInv
    <3>6. p # <<>> => Cardinality({h \in lrHeld : h > Last(p)}) = End - lrPane.cursor
      BY <3>2 DEF Shown, After, Last
    <3>7. QED BY <3>1, <3>4, <3>5, <3>6
  <2>3. QED BY <2>1, <2>2 DEF CopiesTrue, PaneTrue
<1>2. QED BY <1>1, LrInvInit, LrInvNext, PTL DEF LrSpec
-----------------------------------------------------------------------------
(* SpeedLedger: the rows a speedtest leaves behind                         *)

Parts == {"result", "failure", "extra", "member"}
LedgerRow == [run : Nat \ {0}, part : Parts, at : Nat \ {0}, of : Nat, round : Nat,
              failed : BOOLEAN, stage : BOOLEAN, bytes : Nat]
Report == [run : Nat \ {0}, at : Nat \ {0}, servers : 1 .. 2]
Writing == [run : Nat, at : Nat, loser : Nat, servers : Nat, left : Seq({"extra", "report", "member"})]

\* A row says by its columns which part of a run it is.
RowIs(s) ==
    CASE s.part = "result" -> s.of = 0 /\ s.round = 0 /\ ~s.failed
      [] s.part = "failure" -> s.of = 0 /\ s.round = 0 /\ s.failed
      [] s.part = "extra" -> s.of # 0 /\ s.round = 0 /\ s.failed
      [] s.part = "member" -> s.of = 0 /\ s.round # 0 /\ ~s.failed

\* The second of the result a row belongs to.
Owner(s) == IF s.part = "extra" THEN s.of ELSE IF s.part = "member" THEN s.round ELSE s.at

SlShape ==
    /\ slNow \in Nat /\ slNow >= 2 /\ slRuns \in Nat
    /\ slRows \in SUBSET LedgerRow /\ IsFiniteSet(slRows)
    /\ slReports \in SUBSET Report /\ IsFiniteSet(slReports)
    /\ slBackup \in [made : BOOLEAN, rows : SUBSET LedgerRow, reports : SUBSET Report]
    /\ IsFiniteSet(slBackup.rows) /\ IsFiniteSet(slBackup.reports)
    /\ slWriting \in Writing
    /\ slWriting.run # 0 => slWriting.at >= 2 /\ slWriting.servers \in 1 .. 2
    /\ slWriting.run = 0 => slWriting.left = <<>>

\* What is in the tables, and what an export of them holds.
AllRows == slRows \union slBackup.rows
AllReports == slReports \union slBackup.reports

\* No two rows of a table sit on one second.
OneEach(rows) == \A r, s \in rows : r.at = s.at => r = s

\* A row that is nobody's stray has its result beside it.
Joined(rows) == \A s \in rows \ slStray : \E q \in rows : q.run = s.run /\ q.part \in {"result", "failure"}

\* A run in one row: it has one result, on one second, that its other rows name.
SameRun(s, t) ==
    s.run = t.run =>
        /\ Owner(s) = Owner(t)
        /\ (t.part = "failure" \/ {s.part, t.part} = {"result"}) => s = t

\* ... a row and the report that is still being written.
WritingIs ==
    /\ \A s \in AllRows : s.run = slWriting.run => Owner(s) = slWriting.at /\ s.part # "failure"
    /\ \A p \in AllReports : p.run = slWriting.run =>
          p = [run |-> slWriting.run, at |-> slWriting.at, servers |-> slWriting.servers]

ReportIs ==
    /\ \A p \in AllReports, s \in AllRows : p.run = s.run => p.at = Owner(s)
    /\ \A p, q \in AllReports : p.run = q.run => p = q

SlInv ==
    /\ SlShape
    /\ \A s \in AllRows : RowIs(s) /\ s.run <= slRuns
    /\ \A p \in AllReports : p.run <= slRuns
    /\ slWriting.run <= slRuns
    /\ OneEach(slRows) /\ OneEach(slBackup.rows)
    /\ Joined(slRows) /\ Joined(slBackup.rows)
    /\ \A s, t \in AllRows : SameRun(s, t)
    /\ WritingIs /\ ReportIs
    /\ slRows \ slStray = slOnBill \ slStray

LEMMA LeastSecond ==
    ASSUME NEW S \in SUBSET Nat, S # {}
    PROVE  Min(S) \in S /\ \A y \in S : Min(S) <= y
<1>1. PICK x \in S : \A y \in S : ~(<<y, x>> \in OpToRel(<, Nat))
  BY NatLessThanWellFounded, WFMin
<1>2. \A y \in S : x <= y
  <2>1. OpToRel(<, Nat) = {ss \in Nat \X Nat : ss[1] < ss[2]}
    BY DEF OpToRel
  <2> SUFFICES ASSUME NEW y \in S, y < x PROVE FALSE
    OBVIOUS
  <2>2. <<y, x>> \in {ss \in Nat \X Nat : ss[1] < ss[2]}
    OBVIOUS
  <2>3. QED BY <1>1, <2>1, <2>2
<1>3. QED BY <1>2 DEF Min

\* What a table's rows are read for, all at once, is finite.
LEMMA SecondsFinite ==
    ASSUME NEW rows \in SUBSET LedgerRow, IsFiniteSet(rows)
    PROVE  IsFiniteSet({r.at : r \in rows}) /\ {r.at : r \in rows} \subseteq Nat
<1> DEFINE ats == {r.at : r \in rows}
           at == [r \in rows |-> r.at]
<1>1. at \in Surjection(rows, ats)
  BY DEF Surjection
<1>2. IsFiniteSet(ats)
  BY <1>1, FS_Surjection
<1>3. ats \subseteq Nat
  BY DEF LedgerRow
<1>4. QED BY <1>2, <1>3

\* A row is stored on a second nothing holds, at or after the one asked for.
LEMMA FreeIsFree ==
    ASSUME slRows \in SUBSET LedgerRow, IsFiniteSet(slRows), NEW t \in Nat \ {0}
    PROVE  /\ FirstFree(t) \in Nat \ {0} /\ FirstFree(t) >= t
           /\ \A r \in slRows : r.at # FirstFree(t)
<1> DEFINE taken == {r.at : r \in slRows}
           n == Cardinality(taken)
           after == {s + 1 : s \in {u \in taken : u >= t /\ u + 1 \notin taken}}
<1>1. IsFiniteSet(taken) /\ taken \subseteq Nat
  BY SecondsFinite
<1>2. n \in Nat
  BY <1>1, FS_CardinalityType
<1>3. FirstFree(t) = IF t \notin taken THEN t ELSE Min(after)
  BY DEF FirstFree
<1>4. CASE t \notin taken
  <2>1. FirstFree(t) = t
    BY <1>3, <1>4
  <2>2. \A r \in slRows : r.at \in taken
    OBVIOUS
  <2>3. QED BY <1>4, <2>1, <2>2
<1>5. CASE t \in taken
  <2> DEFINE free == {u \in t .. (t + n) : u \notin taken}
  <2>1. free # {}
    <3> SUFFICES ASSUME free = {} PROVE FALSE
      OBVIOUS
    <3>1. t .. (t + n) \subseteq taken
      OBVIOUS
    <3>2. Cardinality(t .. (t + n)) <= n
      BY <1>1, <3>1, FS_Subset
    <3>3. Cardinality(t .. (t + n)) = n + 1
      <4> HIDE DEF n
      <4>0. t + n \in Int
        BY <1>2
      <4>1. PICK last \in Int : last = t + n
        BY <4>0
      <4>2. Cardinality(t .. last) = IF t > last THEN 0 ELSE last - t + 1
        BY FS_Interval
      <4>3. Cardinality(t .. last) = n + 1
        BY <1>2, <4>1, <4>2
      <4>4. QED BY <4>1, <4>3
    <3>4. QED BY <1>2, <3>2, <3>3
  <2>2. free \in SUBSET Nat
    BY <1>2
  <2>3. Min(free) \in free /\ \A y \in free : Min(free) <= y
    BY <2>1, <2>2, LeastSecond
  <2> DEFINE m == Min(free)
  <2>4. m \in Nat /\ m > t /\ m <= t + n /\ m \notin taken
    <3>1. m \in t .. (t + n) /\ m \notin taken
      BY <2>3
    <3>2. m # t
      BY <1>5, <3>1
    <3> HIDE DEF m, taken
    <3>3. QED BY <1>2, <3>1, <3>2
  <2>5. m - 1 \in taken
    <3>1. m - 1 \in t .. (t + n) /\ ~(m <= m - 1)
      BY <1>2, <2>4
    <3>2. QED BY <2>3, <3>1
  <2>6. m \in after
    <3> HIDE DEF m, taken
    <3>2. (m - 1) + 1 = m /\ m - 1 >= t
      BY <2>4
    <3>1. m - 1 \in {u \in taken : u >= t /\ u + 1 \notin taken}
      BY <2>4, <2>5, <3>2
    <3>3. QED BY <3>1, <3>2
  <2>7. \A x \in after : x \in Nat \ {0} /\ x > t /\ x \notin taken
    BY <1>1
  <2>8. Min(after) \in after
    <3> HIDE DEF after
    <3>1. after \in SUBSET Nat /\ after # {}
      BY <2>6, <2>7
    <3>2. QED BY <3>1, LeastSecond
  <2>9. FirstFree(t) \in after
    BY <1>3, <1>5, <2>8
  <2>10. \A r \in slRows : r.at \in taken
    OBVIOUS
  <2>11. QED BY <2>7, <2>9, <2>10
<1>6. QED BY <1>4, <1>5

\* What the invariant says of the tables and of the run being stored.
LEMMA SlParts ==
    ASSUME SlInv
    PROVE  /\ slNow \in Nat \ {0} /\ slRuns \in Nat
           /\ slRows \in SUBSET LedgerRow /\ IsFiniteSet(slRows)
           /\ slReports \in SUBSET Report /\ IsFiniteSet(slReports)
           /\ slBackup.rows \in SUBSET LedgerRow /\ IsFiniteSet(slBackup.rows)
           /\ slBackup.reports \in SUBSET Report /\ IsFiniteSet(slBackup.reports)
           /\ slBackup \in [made : BOOLEAN, rows : SUBSET LedgerRow, reports : SUBSET Report]
           /\ slWriting \in Writing
           /\ AllRows \in SUBSET LedgerRow /\ AllReports \in SUBSET Report
  BY DEF SlInv, SlShape, AllRows, AllReports

\* No run is being stored any more.
LEMMA NoneWriting == NotWriting \in Writing /\ NotWriting.run = 0 /\ NotWriting.left = <<>>
<1>1. <<>> \in Seq({"extra", "report", "member"})
  BY EmptySeq
<1>2. QED BY <1>1 DEF NotWriting, Writing

LEMMA SlInvInit == ASSUME SlInit PROVE SlInv
<1>1. /\ slNow = 2 /\ slRows = {} /\ slReports = {} /\ slOnBill = {} /\ slStray = {} /\ slRuns = 0
      /\ slWriting = NotWriting /\ slBackup.rows = {} /\ slBackup.reports = {}
      /\ slBackup \in [made : BOOLEAN, rows : SUBSET LedgerRow, reports : SUBSET Report]
  BY DEF SlInit, NoExport
<1>2. SlShape
  BY <1>1, NoneWriting, FS_EmptySet DEF SlShape
<1>3. AllRows = {} /\ AllReports = {}
  BY <1>1 DEF AllRows, AllReports
<1>4. slWriting.run <= slRuns
  BY <1>1, NoneWriting
<1>5. OneEach(slRows) /\ OneEach(slBackup.rows) /\ Joined(slRows) /\ Joined(slBackup.rows)
  BY <1>1 DEF OneEach, Joined
<1>6. WritingIs /\ ReportIs
  BY <1>3 DEF WritingIs, ReportIs
<1>7. QED BY <1>1, <1>2, <1>3, <1>4, <1>5, <1>6 DEF SlInv

\* With fewer rows and reports, and nothing written, what is said of pairs of them stays.
LEMMA FewerRows ==
    ASSUME SlInv, slRows' \subseteq slRows, slReports' \subseteq slReports, slBackup' = slBackup,
           slWriting' \in {slWriting, NotWriting}, slRuns' = slRuns, slNow' \in Nat, slNow' >= 2,
           Joined(slRows)', Joined(slBackup.rows)', (slRows \ slStray = slOnBill \ slStray)'
    PROVE  SlInv'
<1>1. /\ slRows' \in SUBSET LedgerRow /\ IsFiniteSet(slRows')
      /\ slReports' \in SUBSET Report /\ IsFiniteSet(slReports')
  BY SlParts, FS_Subset
<1>2. slWriting' \in Writing /\ (slWriting'.run # 0 => slWriting'.at >= 2 /\ slWriting'.servers \in 1 .. 2)
      /\ slWriting'.run <= slRuns /\ (slWriting'.run = 0 => slWriting'.left = <<>>)
  BY NoneWriting DEF SlInv, SlShape
<1>3. SlShape'
  BY <1>1, <1>2 DEF SlInv, SlShape
<1>4. AllRows' \subseteq AllRows /\ AllReports' \subseteq AllReports
  BY DEF AllRows, AllReports
<1>5. /\ (\A s \in AllRows : RowIs(s) /\ s.run <= slRuns)' /\ (\A p \in AllReports : p.run <= slRuns)'
      /\ (\A s, t \in AllRows : SameRun(s, t))'
  BY <1>4 DEF SlInv, RowIs, SameRun, Owner
<1>6. OneEach(slRows)' /\ OneEach(slBackup.rows)'
  BY DEF SlInv, OneEach
<1>7. ReportIs'
  BY <1>4 DEF SlInv, ReportIs, Owner
<1>8. WritingIs'
  <2>1. CASE slWriting' = slWriting
    BY <1>4, <2>1 DEF SlInv, WritingIs, Owner
  <2>2. CASE slWriting' = NotWriting
    <3>1. (\A s \in AllRows : s.run # 0)' /\ (\A p \in AllReports : p.run # 0)'
      BY <1>4, SlParts DEF LedgerRow, Report
    <3>2. QED BY <2>2, <3>1, NoneWriting DEF WritingIs
  <2>3. QED BY <2>1, <2>2
<1>9. QED BY <1>2, <1>3, <1>5, <1>6, <1>7, <1>8 DEF SlInv

\* Time goes on, a run's last rows are given up.
LEMMA AsideStep ==
    ASSUME SlInv, SecondPasses \/ ClockBack \/ WritingCut \/ UNCHANGED slVars
    PROVE  SlInv'
<1>1. /\ slRows' = slRows /\ slReports' = slReports /\ slBackup' = slBackup /\ slRuns' = slRuns
      /\ slOnBill' = slOnBill /\ slStray' = slStray /\ slWriting' \in {slWriting, NotWriting}
  BY DEF SecondPasses, ClockBack, WritingCut, slVars
<1>2. slNow' \in Nat /\ slNow' >= 2
  <2>1. slNow \in Nat /\ slNow >= 2
    BY DEF SlInv, SlShape
  <2>2. slNow' = slNow \/ slNow' = slNow + 1 \/ (slNow > 2 /\ slNow' = slNow - 1)
    BY DEF SecondPasses, ClockBack, WritingCut, slVars
  <2>3. QED BY <2>1, <2>2
<1>3. Joined(slRows)' /\ Joined(slBackup.rows)' /\ (slRows \ slStray = slOnBill \ slStray)'
  BY <1>1 DEF SlInv, Joined
<1>4. QED BY <1>1, <1>2, <1>3, FewerRows

\* An export holds what the tables hold.
LEMMA ExportStep == ASSUME SlInv, SpeedExported PROVE SlInv'
<1>1. /\ slBackup' = [made |-> TRUE, rows |-> slRows, reports |-> slReports]
      /\ UNCHANGED <<slNow, slBack, slRows, slReports, slWriting, slRuns, slOnBill, slStray>>
  BY DEF SpeedExported
<1>2. SlShape'
  BY <1>1, SlParts DEF SlInv, SlShape
<1>3. AllRows' \subseteq AllRows /\ AllReports' \subseteq AllReports
  BY <1>1 DEF AllRows, AllReports
<1>4. /\ (\A s \in AllRows : RowIs(s) /\ s.run <= slRuns)' /\ (\A p \in AllReports : p.run <= slRuns)'
      /\ (\A s, t \in AllRows : SameRun(s, t))' /\ (slWriting.run <= slRuns)'
  BY <1>1, <1>3 DEF SlInv, RowIs, SameRun, Owner
<1>5. OneEach(slRows)' /\ OneEach(slBackup.rows)' /\ Joined(slRows)' /\ Joined(slBackup.rows)'
  BY <1>1 DEF SlInv, OneEach, Joined
<1>6. ReportIs' /\ WritingIs'
  BY <1>1, <1>3 DEF SlInv, ReportIs, WritingIs, Owner
<1>7. QED BY <1>1, <1>2, <1>4, <1>5, <1>6 DEF SlInv

\* A row stored on a second of its own, that agrees with the rest of its run.
LEMMA AddedStep ==
    ASSUME SlInv, NEW r \in LedgerRow, Added(r), RowIs(r), r.run <= slRuns',
           \A s \in slRows : s.at # r.at,
           UNCHANGED <<slNow, slBackup, slReports>>, slRuns' \in Nat, slRuns <= slRuns',
           slWriting' \in Writing, slWriting'.run <= slRuns',
           slWriting'.run # 0 => slWriting'.at >= 2 /\ slWriting'.servers \in 1 .. 2,
           slWriting'.run = 0 => slWriting'.left = <<>>,
           \A s \in AllRows : SameRun(s, r) /\ SameRun(r, s),
           \A s \in AllRows \union {r} : s.run = slWriting'.run => Owner(s) = slWriting'.at /\ s.part # "failure",
           \A p \in AllReports :
              /\ p.run = slWriting'.run => p = [run |-> slWriting'.run, at |-> slWriting'.at, servers |-> slWriting'.servers]
              /\ p.run = r.run => p.at = Owner(r)
    PROVE  SlInv'
<1>1. /\ slRows' = slRows \union {r} /\ slOnBill' = slOnBill \union {r}
      /\ slStray \subseteq slStray' /\ (ResultOf(r, slRows') = {} => r \in slStray')
  BY DEF Added
<1>2. SlShape'
  <2>1. slRows' \in SUBSET LedgerRow /\ IsFiniteSet(slRows')
    BY <1>1, SlParts, FS_AddElement
  <2>2. QED BY <2>1, SlParts DEF SlInv, SlShape
<1>3. AllRows' = AllRows \union {r} /\ AllReports' = AllReports
  BY <1>1 DEF AllRows, AllReports
<1>4. (\A s \in AllRows : RowIs(s) /\ s.run <= slRuns)' /\ (\A p \in AllReports : p.run <= slRuns)'
  <2>1. \A s \in AllRows : RowIs(s) /\ s.run <= slRuns /\ s.run \in Nat
    BY SlParts DEF SlInv, LedgerRow
  <2>2. \A p \in AllReports : p.run <= slRuns /\ p.run \in Nat
    BY SlParts DEF SlInv, Report
  <2>3. \A n \in Nat : n <= slRuns => n <= slRuns'
    BY SlParts
  <2>4. QED BY <1>3, <2>1, <2>2, <2>3 DEF RowIs
<1>5. (\A s, t \in AllRows : SameRun(s, t))'
  <2>1. SameRun(r, r)
    BY DEF SameRun
  <2>2. \A s, t \in AllRows \union {r} : SameRun(s, t)
    BY <2>1 DEF SlInv
  <2>3. QED BY <1>3, <2>2 DEF SameRun, Owner
<1>6. OneEach(slRows)' /\ OneEach(slBackup.rows)'
  BY <1>1 DEF SlInv, OneEach
<1>7. Joined(slRows)'
  <2> SUFFICES ASSUME NEW s \in slRows' \ slStray'
               PROVE  \E q \in slRows' : q.run = s.run /\ q.part \in {"result", "failure"}
    BY DEF Joined
  <2>1. CASE s = r
    BY <1>1, <2>1 DEF ResultOf
  <2>2. CASE s # r
    <3>1. s \in slRows \ slStray
      BY <1>1, <2>2
    <3>2. QED BY <1>1, <3>1 DEF SlInv, Joined
  <2>3. QED BY <2>1, <2>2
<1>8. Joined(slBackup.rows)'
  BY <1>1 DEF SlInv, Joined
<1>9. WritingIs'
  BY <1>3 DEF WritingIs, Owner
<1>10. ReportIs'
  BY <1>3 DEF SlInv, ReportIs, Owner
<1>11. (slRows \ slStray = slOnBill \ slStray)'
  <2>1. slRows \ slStray = slOnBill \ slStray
    BY DEF SlInv
  <2>2. QED BY <1>1, <2>1
<1>12. QED BY <1>2, <1>4, <1>5, <1>6, <1>7, <1>8, <1>9, <1>10, <1>11 DEF SlInv

\* A new run is nobody's.
LEMMA NewRun ==
    ASSUME SlInv
    PROVE  /\ slRuns + 1 \in Nat \ {0} /\ slRuns <= slRuns + 1
           /\ \A s \in AllRows : s.run # slRuns + 1
           /\ \A p \in AllReports : p.run # slRuns + 1
<1>1. \A s \in AllRows : s.run \in Nat /\ s.run <= slRuns
  BY SlParts DEF SlInv, LedgerRow
<1>2. \A p \in AllReports : p.run \in Nat /\ p.run <= slRuns
  BY SlParts DEF SlInv, Report
<1>3. QED BY <1>1, <1>2, SlParts

\* The first row of a run.
LEMMA MeasuredStep == ASSUME SlInv, RunMeasured PROVE SlInv'
<1> DEFINE at == FirstFree(slNow)
<1>1. /\ slWriting = NotWriting /\ slRuns' = slRuns + 1 /\ UNCHANGED <<slNow, slBack, slReports, slBackup>>
  BY DEF RunMeasured
<1>2. PICK kind \in {"single", "folded", "kept"}, extra \in BOOLEAN :
        \E loser \in IF kind = "kept" THEN {s \in {0, slNow - 1, slNow} : s >= 0} ELSE {0} :
          /\ Added([run |-> slRuns', part |-> "result", at |-> at, of |-> 0, round |-> 0,
                    failed |-> FALSE, stage |-> FALSE, bytes |-> IF kind = "folded" THEN 2 ELSE 1])
          /\ slWriting' = [run |-> slRuns', at |-> at, loser |-> loser,
                           servers |-> IF kind = "single" THEN 1 ELSE 2,
                           left |-> (IF extra THEN <<"extra">> ELSE <<>>) \o <<"report">>
                                    \o (IF kind = "kept" THEN <<"member">> ELSE <<>>)]
  BY DEF RunMeasured
<1> DEFINE bytes == IF kind = "folded" THEN 2 ELSE 1
           servers == IF kind = "single" THEN 1 ELSE 2
           left == (IF extra THEN <<"extra">> ELSE <<>>) \o <<"report">> \o (IF kind = "kept" THEN <<"member">> ELSE <<>>)
           r == [run |-> slRuns', part |-> "result", at |-> at, of |-> 0, round |-> 0,
                 failed |-> FALSE, stage |-> FALSE, bytes |-> bytes]
<1>3. PICK loser \in Nat : Added(r) /\ slWriting' = [run |-> slRuns', at |-> at, loser |-> loser, servers |-> servers, left |-> left]
  <2>1. slNow \in Nat
    BY SlParts
  <2>2. \A n \in IF kind = "kept" THEN {s \in {0, slNow - 1, slNow} : s >= 0} ELSE {0} : n \in Nat
    BY <2>1
  <2>3. QED BY <1>2, <2>2
<1>4. at \in Nat \ {0} /\ at >= 2 /\ \A s \in slRows : s.at # at
  BY SlParts, FreeIsFree DEF SlInv, SlShape
<1>5. left \in Seq({"extra", "report", "member"})
  <2>1. \A x \in {"extra", "report", "member"} : <<x>> \in Seq({"extra", "report", "member"})
    OBVIOUS
  <2>2. <<>> \in Seq({"extra", "report", "member"})
    OBVIOUS
  <2>3. \A a, b \in Seq({"extra", "report", "member"}) : a \o b \in Seq({"extra", "report", "member"})
    OBVIOUS
  <2>4. QED BY <2>1, <2>2, <2>3
<1>6. servers \in 1 .. 2 /\ bytes \in Nat
  OBVIOUS
<1>7. r \in LedgerRow /\ r.run = slRuns + 1 /\ r.part = "result" /\ r.at = at /\ RowIs(r) /\ Owner(r) = at
  BY <1>1, <1>4, <1>6, NewRun DEF LedgerRow, Parts, RowIs, Owner
<1>8. /\ slWriting' \in Writing /\ slWriting'.run = slRuns + 1 /\ slWriting'.at = at /\ slWriting'.servers = servers
  BY <1>1, <1>3, <1>4, <1>5, <1>6, NewRun DEF Writing
<1>9. \A s \in AllRows : SameRun(s, r) /\ SameRun(r, s)
  BY <1>7, NewRun DEF SameRun
<1> HIDE DEF r, at, left, servers
<1>10. \A s \in AllRows \union {r} : s.run = slWriting'.run => Owner(s) = slWriting'.at /\ s.part # "failure"
  BY <1>7, <1>8, NewRun
<1>11. \A p \in AllReports : p.run # slWriting'.run /\ p.run # r.run
  BY <1>7, <1>8, NewRun
<1>12. slRuns' \in Nat /\ slRuns <= slRuns' /\ r.run <= slRuns' /\ slWriting'.run <= slRuns' /\ slWriting'.run # 0
  BY <1>1, <1>7, <1>8, NewRun
<1>13. \A s \in slRows : s.at # r.at
  BY <1>4, <1>7
<1>14. QED BY <1>1, <1>3, <1>4, <1>6, <1>7, <1>8, <1>9, <1>10, <1>11, <1>12, <1>13, AddedStep

\* The row of a run that failed.
LEMMA FailedStep == ASSUME SlInv, RunFailed PROVE SlInv'
<1> DEFINE at == FirstFree(slNow)
<1>1. slWriting = NotWriting /\ slRuns' = slRuns + 1 /\ UNCHANGED <<slNow, slBack, slReports, slWriting, slBackup>>
  BY DEF RunFailed
<1>2. PICK stage \in BOOLEAN, moved \in BOOLEAN :
        Added([run |-> slRuns', part |-> "failure", at |-> at, of |-> 0, round |-> 0,
               failed |-> TRUE, stage |-> stage, bytes |-> IF moved THEN 1 ELSE 0])
  BY DEF RunFailed
<1> DEFINE bytes == IF moved THEN 1 ELSE 0
           r == [run |-> slRuns', part |-> "failure", at |-> at, of |-> 0, round |-> 0,
                 failed |-> TRUE, stage |-> stage, bytes |-> bytes]
<1>4. at \in Nat \ {0} /\ \A s \in slRows : s.at # at
  BY SlParts, FreeIsFree
<1>6. bytes \in Nat
  OBVIOUS
<1>7. r \in LedgerRow /\ r.run = slRuns + 1 /\ r.part = "failure" /\ r.at = at /\ RowIs(r) /\ Owner(r) = at
  BY <1>1, <1>4, <1>6, NewRun DEF LedgerRow, Parts, RowIs, Owner
<1>8. slWriting' \in Writing /\ slWriting'.run = 0 /\ slWriting'.left = <<>>
  BY <1>1, NoneWriting
<1>9. \A s \in AllRows : SameRun(s, r) /\ SameRun(r, s)
  BY <1>7, NewRun DEF SameRun
<1>10. \A s \in AllRows \union {r} : s.run # slWriting'.run
  BY <1>7, <1>8, SlParts DEF LedgerRow
<1>11. \A p \in AllReports : p.run # slWriting'.run /\ p.run # r.run
  BY <1>7, <1>8, NewRun, SlParts DEF Report
<1>12. slRuns' \in Nat /\ slRuns <= slRuns' /\ r.run <= slRuns' /\ slWriting'.run <= slRuns'
  <2> HIDE DEF r
  <2>1. QED BY <1>1, <1>7, <1>8, NewRun
<1>13. \A s \in slRows : s.at # r.at
  BY <1>4, <1>7
<1>14. Added(r)
  BY <1>2
<1> HIDE DEF r, at
<1>15. QED BY <1>1, <1>7, <1>8, <1>9, <1>10, <1>11, <1>12, <1>13, <1>14, AddedStep

\* A run's next row, or its report, is stored, or not; the run goes on to the
\* next one or is done.
LEMMA WritingMovesOn ==
    ASSUME SlInv, RowStored
    PROVE  /\ slWriting.run \in Nat \ {0} /\ slWriting.at \in Nat \ {0} /\ slWriting.at >= 2 /\ slWriting.servers \in 1 .. 2
           /\ Head(slWriting.left) \in {"extra", "report", "member"}
           /\ slWriting' \in Writing
           /\ slWriting' = NotWriting \/ (/\ slWriting'.run = slWriting.run /\ slWriting'.at = slWriting.at
                                          /\ slWriting'.servers = slWriting.servers)
<1> DEFINE kinds == {"extra", "report", "member"}
<1>1. /\ slWriting.left # <<>> /\ slWriting \in Writing /\ slWriting.left \in Seq(kinds)
      /\ slWriting' = IF Len(slWriting.left) = 1 THEN NotWriting ELSE [slWriting EXCEPT !.left = Tail(@)]
  BY SlParts DEF RowStored, Writing
<1>2. slWriting.run # 0 /\ slWriting.run \in Nat /\ slWriting.at \in Nat
  BY <1>1 DEF SlInv, SlShape, Writing
<1>3. slWriting.at >= 2 /\ slWriting.servers \in 1 .. 2
  BY <1>2 DEF SlInv, SlShape
<1>4. Head(slWriting.left) \in kinds /\ Tail(slWriting.left) \in Seq(kinds)
  BY <1>1, HeadTailProperties
<1>5. [slWriting EXCEPT !.left = Tail(@)] \in Writing
  BY <1>1, <1>4 DEF Writing
<1>6. CASE Len(slWriting.left) = 1
  BY <1>1, <1>2, <1>3, <1>4, <1>6, NoneWriting
<1>7. CASE Len(slWriting.left) # 1
  <2>1. slWriting' = [slWriting EXCEPT !.left = Tail(@)]
    BY <1>1, <1>7
  <2>2. slWriting'.run = slWriting.run /\ slWriting'.at = slWriting.at /\ slWriting'.servers = slWriting.servers
    BY <1>1, <2>1 DEF Writing
  <2>3. QED BY <1>2, <1>3, <1>4, <1>5, <2>1, <2>2
<1>8. QED BY <1>6, <1>7

\* Nobody is taken for part of a run that is not.
LEMMA NoneOfNone ==
    ASSUME SlInv
    PROVE  (\A s \in AllRows : s.run # NotWriting.run) /\ (\A p \in AllReports : p.run # NotWriting.run)
  BY SlParts, NoneWriting DEF LedgerRow, Report

LEMMA ReportStep ==
    ASSUME SlInv, RowStored, slRows' = slRows, slOnBill' = slOnBill, slStray' = slStray,
           slReports' \in {slReports, slReports \union {[run |-> slWriting.run, at |-> slWriting.at, servers |-> slWriting.servers]}}
    PROVE  SlInv'
<1> DEFINE p == [run |-> slWriting.run, at |-> slWriting.at, servers |-> slWriting.servers]
<1>1. UNCHANGED <<slNow, slBack, slBackup, slRuns>>
  BY DEF RowStored
<1>2. p \in Report /\ p.run = slWriting.run /\ p.at = slWriting.at
  BY WritingMovesOn DEF Report
<1>3. slReports' \in SUBSET Report /\ IsFiniteSet(slReports')
  <2>1. slReports \in SUBSET Report /\ IsFiniteSet(slReports) /\ slReports' \in {slReports, slReports \union {p}}
    BY SlParts
  <2>2. IsFiniteSet(slReports \union {p})
    BY <2>1, FS_AddElement
  <2>3. QED BY <1>2, <2>1, <2>2
<1>4. /\ slWriting' \in Writing /\ slWriting'.run <= slRuns
      /\ slWriting'.run # 0 => slWriting'.at >= 2 /\ slWriting'.servers \in 1 .. 2
      /\ slWriting'.run = 0 => slWriting'.left = <<>>
  <2>1. CASE slWriting' = NotWriting
    BY <2>1, NoneWriting, SlParts
  <2>2. CASE slWriting' # NotWriting
    BY <2>2, WritingMovesOn DEF SlInv
  <2>3. QED BY <2>1, <2>2
<1>5. SlShape'
  BY <1>1, <1>3, <1>4, SlParts DEF SlInv, SlShape
<1>6. AllRows' = AllRows /\ AllReports' \in {AllReports, AllReports \union {p}}
  BY <1>1 DEF AllRows, AllReports
<1>7. (\A s \in AllRows : RowIs(s) /\ s.run <= slRuns)' /\ (\A s, t \in AllRows : SameRun(s, t))'
  BY <1>1, <1>6 DEF SlInv, RowIs, SameRun, Owner
<1>8. (\A q \in AllReports : q.run <= slRuns)'
  BY <1>1, <1>2, <1>6 DEF SlInv
<1>9. OneEach(slRows)' /\ OneEach(slBackup.rows)' /\ Joined(slRows)' /\ Joined(slBackup.rows)' /\ (slRows \ slStray = slOnBill \ slStray)'
  BY <1>1 DEF SlInv, OneEach, Joined
<1>10. ReportIs'
  <2>1. \A s \in AllRows : p.run = s.run => p.at = Owner(s)
    BY <1>2 DEF SlInv, WritingIs
  <2>2. \A q \in AllReports : q.run = p.run => q = p
    BY <1>2 DEF SlInv, WritingIs
  <2>3. QED BY <1>6, <2>1, <2>2 DEF SlInv, ReportIs, Owner
<1>11. WritingIs'
  <2>1. CASE slWriting' = NotWriting
    <3>1. p.run # NotWriting.run
      BY <1>2, WritingMovesOn, NoneWriting
    <3>2. QED BY <1>6, <2>1, <3>1, NoneOfNone DEF WritingIs
  <2>2. CASE slWriting' # NotWriting
    <3>1. slWriting'.run = slWriting.run /\ slWriting'.at = slWriting.at /\ slWriting'.servers = slWriting.servers
      BY <2>2, WritingMovesOn
    <3>2. QED BY <1>6, <3>1 DEF SlInv, WritingIs, Owner
  <2>3. QED BY <2>1, <2>2
<1>12. (slWriting.run <= slRuns)'
  BY <1>1, <1>4
<1>13. QED BY <1>5, <1>7, <1>8, <1>9, <1>10, <1>11, <1>12 DEF SlInv

\* A row beside the result: what failed attempts spent, or a loser of the round.
LEMMA AttachedIs ==
    ASSUME SlInv, RowStored, Head(slWriting.left) # "report"
    PROVE  /\ Attached \in LedgerRow /\ Attached.run = slWriting.run /\ RowIs(Attached)
           /\ Owner(Attached) = slWriting.at /\ Attached.part \in {"extra", "member"}
           /\ \A s \in slRows : s.at # Attached.at
<1> DEFINE at == slWriting.at
           row == [run |-> slWriting.run, part |-> Head(slWriting.left), at |-> 0, of |-> 0, round |-> 0,
                   failed |-> FALSE, stage |-> FALSE, bytes |-> 1]
           wanted == IF slWriting.loser \in 1..(at - 1) THEN slWriting.loser ELSE at - 1
<1>1. at \in Nat \ {0} /\ at >= 2 /\ slWriting.run \in Nat \ {0} /\ Head(slWriting.left) \in {"extra", "member"}
  BY WritingMovesOn
<1>2. Attached = IF row.part = "extra" THEN [row EXCEPT !.at = FirstFree(at + 1), !.of = at, !.failed = TRUE]
                 ELSE [row EXCEPT !.at = FirstFree(wanted), !.round = at]
  BY DEF Attached
<1>3. CASE Head(slWriting.left) = "extra"
  <2>1. FirstFree(at + 1) \in Nat \ {0} /\ \A s \in slRows : s.at # FirstFree(at + 1)
    <3>1. at + 1 \in Nat \ {0}
      BY <1>1
    <3>2. QED BY <3>1, SlParts, FreeIsFree
  <2>2. Attached = [run |-> slWriting.run, part |-> "extra", at |-> FirstFree(at + 1), of |-> at, round |-> 0,
                    failed |-> TRUE, stage |-> FALSE, bytes |-> 1]
    BY <1>2, <1>3
  <2>3. QED BY <1>1, <2>1, <2>2 DEF LedgerRow, Parts, RowIs, Owner
<1>4. CASE Head(slWriting.left) = "member"
  <2>1. FirstFree(wanted) \in Nat \ {0} /\ \A s \in slRows : s.at # FirstFree(wanted)
    <3>1. wanted \in Nat \ {0}
      BY <1>1
    <3>2. QED BY <3>1, SlParts, FreeIsFree
  <2>2. Attached = [run |-> slWriting.run, part |-> "member", at |-> FirstFree(wanted), of |-> 0, round |-> at,
                    failed |-> FALSE, stage |-> FALSE, bytes |-> 1]
    BY <1>2, <1>4
  <2>3. QED BY <1>1, <2>1, <2>2 DEF LedgerRow, Parts, RowIs, Owner
<1>5. QED BY <1>1, <1>3, <1>4

LEMMA StoredStep == ASSUME SlInv, RowStored PROVE SlInv'
<1>1. CASE Head(slWriting.left) = "report" /\ UNCHANGED <<slRows, slOnBill, slStray>>
           /\ slReports' = slReports \cup {[run |-> slWriting.run, at |-> slWriting.at, servers |-> slWriting.servers]}
  BY <1>1, ReportStep
<1>2. CASE UNCHANGED <<slRows, slOnBill, slStray, slReports>>
  BY <1>2, ReportStep
<1>3. CASE Head(slWriting.left) # "report" /\ Added(Attached) /\ UNCHANGED slReports
  <2> DEFINE r == Attached
  <2>1. /\ r \in LedgerRow /\ r.run = slWriting.run /\ RowIs(r) /\ Owner(r) = slWriting.at /\ r.part \in {"extra", "member"}
        /\ \A s \in slRows : s.at # r.at
    BY <1>3, AttachedIs
  <2>2. UNCHANGED <<slNow, slBackup, slReports, slRuns>> /\ Added(r)
    BY <1>3 DEF RowStored
  <2> HIDE DEF r
  <2>3. \A s \in AllRows : SameRun(s, r) /\ SameRun(r, s)
    <3> SUFFICES ASSUME NEW s \in AllRows, s.run = slWriting.run PROVE SameRun(s, r) /\ SameRun(r, s)
      BY <2>1 DEF SameRun
    <3>1. Owner(s) = slWriting.at /\ s.part # "failure"
      BY DEF SlInv, WritingIs
    <3>2. QED BY <2>1, <3>1 DEF SameRun
  <2>4. CASE slWriting' = NotWriting
    <3>1. r.run # 0
      BY <2>1 DEF LedgerRow
    <3>2. \A s \in AllRows \union {r} : s.run # slWriting'.run
      BY <2>4, <3>1, NoneOfNone, NoneWriting
    <3>3. \A p \in AllReports : p.run # slWriting'.run /\ (p.run = r.run => p.at = Owner(r))
      BY <2>1, <2>4, NoneOfNone DEF SlInv, WritingIs
    <3>4. /\ slRuns' \in Nat /\ slRuns <= slRuns' /\ r.run <= slRuns'
          /\ slWriting' \in Writing /\ slWriting'.run = 0 /\ slWriting'.left = <<>> /\ slWriting'.run <= slRuns'
      BY <2>1, <2>2, <2>4, SlParts, NoneWriting DEF SlInv
    <3>5. QED BY <2>1, <2>2, <2>3, <3>2, <3>3, <3>4, AddedStep
  <2>5. CASE slWriting' # NotWriting
    <3>1. /\ slWriting'.run = slWriting.run /\ slWriting'.at = slWriting.at /\ slWriting'.servers = slWriting.servers
          /\ slWriting' \in Writing /\ slWriting.run # 0 /\ slWriting.at >= 2 /\ slWriting.servers \in 1 .. 2
      BY <2>5, WritingMovesOn
    <3>2. \A s \in AllRows \union {r} : s.run = slWriting'.run => Owner(s) = slWriting'.at /\ s.part # "failure"
      BY <2>1, <3>1 DEF SlInv, WritingIs
    <3>3. \A p \in AllReports :
            /\ p.run = slWriting'.run => p = [run |-> slWriting'.run, at |-> slWriting'.at, servers |-> slWriting'.servers]
            /\ p.run = r.run => p.at = Owner(r)
      BY <2>1, <3>1 DEF SlInv, WritingIs
    <3>4. slRuns' \in Nat /\ slRuns <= slRuns' /\ r.run <= slRuns' /\ slWriting'.run <= slRuns'
      BY <2>1, <2>2, <3>1, SlParts DEF SlInv
    <3>5. QED BY <2>1, <2>2, <2>3, <3>1, <3>2, <3>3, <3>4, AddedStep
  <2>6. QED BY <2>4, <2>5
<1>4. QED BY <1>1, <1>2, <1>3 DEF RowStored

\* A row that is nobody's stray and names a second is of the run whose result sits there.
LEMMA NamesItsOwn ==
    ASSUME SlInv, NEW r \in slRows, NEW s \in slRows \ slStray, s # r,
           s.round = r.at \/ s.of = r.at
    PROVE  s.run = r.run /\ r.part = "result" /\ Owner(s) = r.at
<1>1. /\ r \in AllRows /\ s \in AllRows /\ RowIs(s) /\ s \in LedgerRow /\ r \in LedgerRow
  BY SlParts DEF SlInv, AllRows
<1>2. r.at # 0 /\ s.part \in Parts
  BY <1>1 DEF LedgerRow
<1>3. Owner(s) = r.at /\ s.part \in {"extra", "member"}
  BY <1>1, <1>2 DEF RowIs, Owner, Parts
<1>4. PICK q \in slRows : q.run = s.run /\ q.part \in {"result", "failure"}
  BY DEF SlInv, Joined
<1>5. SameRun(s, q) /\ q \in AllRows
  BY <1>1, <1>4 DEF SlInv, AllRows
<1>6. q.at = r.at
  BY <1>3, <1>4, <1>5 DEF SameRun, Owner
<1>7. q = r
  BY <1>4, <1>6 DEF SlInv, OneEach
<1>8. q.part # "failure"
  BY <1>3, <1>4, <1>5 DEF SameRun
<1>9. QED BY <1>3, <1>4, <1>7, <1>8

\* A delete takes the row named and, of what is nobody's stray, the rest of its run.
LEMMA DeletedIs ==
    ASSUME SlInv, NEW r \in slRows, IsListed(r), NEW s \in slRows \ slStray
    PROVE  s \in DeletedBy(r.at) <=> s = r \/ (s.run = r.run /\ r.part = "result")
<1> DEFINE ts == r.at
           here == {x \in slRows : x.at = ts /\ x.of \in {0, ts}}
           first == {x \in here : x.of = 0}
<1>1. /\ r \in AllRows /\ s \in AllRows /\ RowIs(s) /\ RowIs(r) /\ s \in LedgerRow /\ r \in LedgerRow
  BY SlParts DEF SlInv, AllRows
<1>2. r.of = 0 /\ r.part \in Parts /\ s.part \in Parts
  BY <1>1 DEF IsListed, IsFailure, NotFailed, RowIs, LedgerRow, Parts
<1>3. first = {r} /\ here # {}
  <2>1. r \in first
    BY <1>2
  <2>2. \A x \in first : x = r
    BY DEF SlInv, OneEach
  <2>3. QED BY <2>1, <2>2
<1>4. DeletedBy(ts) = {r} \union {x \in slRows : x.round = ts \/ (x.of = ts /\ x.failed)}
  <2>1. (CHOOSE x \in (IF first # {} THEN first ELSE here) : TRUE) = r
    BY <1>3
  <2>2. DeletedBy(ts) = (IF here = {} THEN {} ELSE {CHOOSE x \in (IF first # {} THEN first ELSE here) : TRUE})
            \cup {x \in slRows : x.round = ts \/ (x.of = ts /\ x.failed)}
    BY DEF DeletedBy
  <2>3. QED BY <1>3, <2>1, <2>2
<1>5. ASSUME s \in DeletedBy(ts), s # r PROVE s.run = r.run /\ r.part = "result"
  BY <1>4, <1>5, NamesItsOwn
<1>6. ASSUME s.run = r.run, r.part = "result", s # r PROVE s \in DeletedBy(ts)
  <2>1. SameRun(s, r) /\ SameRun(r, s)
    BY <1>1 DEF SlInv
  <2>2. s.part \in {"extra", "member"} /\ Owner(s) = ts
    BY <1>2, <1>6, <2>1 DEF SameRun, Owner, Parts
  <2>3. s.round = ts \/ (s.of = ts /\ s.failed)
    BY <1>1, <2>2 DEF RowIs, Owner
  <2>4. QED BY <1>4, <2>3
<1>7. QED BY <1>4, <1>5, <1>6

LEMMA DeletedStep == ASSUME SlInv, RunRowDeleted PROVE SlInv'
<1>1. PICK r \in slRows :
        /\ IsListed(r) /\ slRows' = slRows \ DeletedBy(r.at)
        /\ slReports' = {p \in slReports : p.at # r.at}
        /\ slOnBill' = IF r.part = "result" THEN {s \in slOnBill : s.run # r.run} ELSE slOnBill \ {r}
        /\ UNCHANGED <<slNow, slBack, slWriting, slBackup, slRuns, slStray>>
  BY DEF RunRowDeleted
<1>2. \A s \in slRows \ slStray : s \in DeletedBy(r.at) <=> s = r \/ (s.run = r.run /\ r.part = "result")
  BY <1>1, DeletedIs
<1>3. Joined(slRows)'
  <2> SUFFICES ASSUME NEW s \in slRows' \ slStray
               PROVE  \E q \in slRows' : q.run = s.run /\ q.part \in {"result", "failure"}
    BY <1>1 DEF Joined
  <2>1. s \in slRows \ slStray /\ s \notin DeletedBy(r.at) /\ s # r
    BY <1>1, <1>2
  <2>2. PICK q \in slRows : q.run = s.run /\ q.part \in {"result", "failure"}
    BY <2>1 DEF SlInv, Joined
  <2>3. q # r
    <3> SUFFICES ASSUME q = r PROVE FALSE
      OBVIOUS
    <3>1. r.part = "failure"
      BY <1>2, <2>1, <2>2
    <3>2. SameRun(s, r)
      BY <2>1 DEF SlInv, AllRows
    <3>3. QED BY <2>1, <2>2, <3>1, <3>2 DEF SameRun
  <2>4. q \notin DeletedBy(r.at)
    <3>1. q \in AllRows /\ RowIs(q) /\ r \in LedgerRow
      BY <2>2, SlParts DEF SlInv, AllRows
    <3>2. q.round = 0 /\ q.of = 0 /\ r.at # 0
      BY <2>2, <3>1 DEF RowIs, LedgerRow
    <3>3. q.at # r.at
      BY <2>2, <2>3 DEF SlInv, OneEach
    <3>4. \A x \in DeletedBy(r.at) : x \in slRows /\ (x.at = r.at \/ x.round = r.at \/ x.of = r.at)
      <4> DEFINE here == {x \in slRows : x.at = r.at /\ x.of \in {0, r.at}}
                 first == {x \in here : x.of = 0}
      <4>1. here # {} => (CHOOSE x \in (IF first # {} THEN first ELSE here) : TRUE) \in here
        OBVIOUS
      <4>2. DeletedBy(r.at) = (IF here = {} THEN {} ELSE {CHOOSE x \in (IF first # {} THEN first ELSE here) : TRUE})
                \cup {x \in slRows : x.round = r.at \/ (x.of = r.at /\ x.failed)}
        BY DEF DeletedBy
      <4>3. QED BY <4>1, <4>2
    <3>5. QED BY <3>2, <3>3, <3>4
  <2>5. QED BY <1>1, <2>2, <2>4
<1>4. (slRows \ slStray = slOnBill \ slStray)'
  <2>1. slRows \ slStray = slOnBill \ slStray
    BY DEF SlInv
  <2>2. CASE r.part = "result"
    BY <1>1, <1>2, <2>1, <2>2
  <2>3. CASE r.part # "result"
    BY <1>1, <1>2, <2>1, <2>3
  <2>4. QED BY <2>2, <2>3
<1>5. Joined(slBackup.rows)'
  BY <1>1 DEF SlInv, Joined
<1>6. slNow' \in Nat /\ slNow' >= 2
  BY <1>1 DEF SlInv, SlShape
<1>7. slRows' \subseteq slRows /\ slReports' \subseteq slReports
  BY <1>1
<1>8. QED BY <1>1, <1>3, <1>4, <1>5, <1>6, <1>7, FewerRows

LEMMA ClearedStep == ASSUME SlInv, SpeedCleared PROVE SlInv'
<1>1. /\ slRows' = {} /\ slReports' = {} /\ slOnBill' = {}
      /\ UNCHANGED <<slNow, slBack, slWriting, slBackup, slRuns, slStray>>
  BY DEF SpeedCleared
<1>2. slNow' \in Nat /\ slNow' >= 2 /\ Joined(slRows)' /\ Joined(slBackup.rows)' /\ (slRows \ slStray = slOnBill \ slStray)'
  BY <1>1 DEF SlInv, SlShape, Joined
<1>3. QED BY <1>1, <1>2, FewerRows

\* What a cleanup leaves of a run whose result it took is nobody's from then on.
LEMMA PrunedStep == ASSUME SlInv, SpeedPruned PROVE SlInv'
<1>1. /\ slRows' = {r \in slRows : ~RunExpired(r.at)}
      /\ slReports' \in {slReports, {p \in slReports : ~RunExpired(p.at)}}
      /\ slOnBill' = {r \in slOnBill : ~RunExpired(r.at)}
      /\ slStray' = slStray \cup {r \in slRows' : ResultOf(r, slRows') = {}}
      /\ UNCHANGED <<slNow, slBack, slWriting, slBackup, slRuns>>
  BY DEF SpeedPruned
<1>2. Joined(slRows)' /\ Joined(slBackup.rows)'
  <2>1. Joined(slBackup.rows)'
    BY <1>1 DEF SlInv, Joined
  <2>2. \A s \in slRows' \ slStray' : \E q \in slRows' : q.run = s.run /\ q.part \in {"result", "failure"}
    BY <1>1 DEF ResultOf
  <2>3. QED BY <2>1, <2>2 DEF Joined
<1>3. (slRows \ slStray = slOnBill \ slStray)'
  <2>1. slRows \ slStray = slOnBill \ slStray
    BY DEF SlInv
  <2>2. QED BY <1>1, <2>1
<1>4. slNow' \in Nat /\ slNow' >= 2 /\ slRows' \subseteq slRows /\ slReports' \subseteq slReports
  BY <1>1 DEF SlInv, SlShape
<1>5. QED BY <1>1, <1>2, <1>3, <1>4, FewerRows

\* A restore brings back what the export held.
LEMMA RestoredStep == ASSUME SlInv, SpeedRestored PROVE SlInv'
<1>1. /\ \A r \in slBackup.rows, s \in slRows : r.at = s.at => r = s
      /\ slRows' = slRows \cup {r \in slBackup.rows : \A s \in slRows : s.at # r.at}
      /\ slReports' = slReports \cup {p \in slBackup.reports : \A q \in slReports : q.at # p.at}
      /\ slOnBill' = slOnBill \cup slBackup.rows
      /\ UNCHANGED <<slNow, slBack, slWriting, slBackup, slRuns, slStray>>
  BY DEF SpeedRestored
<1>2. slRows' = slRows \union slBackup.rows
  BY <1>1
<1>3. slReports' \subseteq AllReports /\ slReports' \in SUBSET Report /\ IsFiniteSet(slReports')
  <2> DEFINE back == {p \in slBackup.reports : \A q \in slReports : q.at # p.at}
  <2>1. back \subseteq slBackup.reports
    OBVIOUS
  <2>2. IsFiniteSet(back)
    BY <2>1, SlParts, FS_Subset
  <2>3. IsFiniteSet(slReports \union back)
    BY <2>2, SlParts, FS_Union
  <2>4. QED BY <1>1, <2>1, <2>3, SlParts DEF AllReports
<1>4. slRows' \in SUBSET LedgerRow /\ IsFiniteSet(slRows')
  BY <1>2, SlParts, FS_Union
<1>5. SlShape'
  BY <1>1, <1>3, <1>4 DEF SlInv, SlShape
<1>6. AllRows' = AllRows /\ AllReports' \subseteq AllReports
  BY <1>1, <1>2, <1>3 DEF AllRows, AllReports
<1>7. /\ (\A s \in AllRows : RowIs(s) /\ s.run <= slRuns)' /\ (\A p \in AllReports : p.run <= slRuns)'
      /\ (\A s, t \in AllRows : SameRun(s, t))' /\ (slWriting.run <= slRuns)'
  BY <1>1, <1>6 DEF SlInv, RowIs, SameRun, Owner
<1>8. OneEach(slRows)' /\ OneEach(slBackup.rows)'
  <2>1. OneEach(slRows) /\ OneEach(slBackup.rows)
    BY DEF SlInv
  <2>2. \A r, s \in slRows \union slBackup.rows : r.at = s.at => r = s
    BY <1>1, <2>1 DEF OneEach
  <2>3. QED BY <1>1, <1>2, <2>1, <2>2 DEF OneEach
<1>9. Joined(slRows)' /\ Joined(slBackup.rows)'
  <2>1. Joined(slRows) /\ Joined(slBackup.rows)
    BY DEF SlInv
  <2>2. QED BY <1>1, <1>2, <2>1 DEF Joined
<1>10. ReportIs' /\ WritingIs'
  BY <1>1, <1>6 DEF SlInv, ReportIs, WritingIs, Owner
<1>11. (slRows \ slStray = slOnBill \ slStray)'
  <2>1. slRows \ slStray = slOnBill \ slStray
    BY DEF SlInv
  <2>2. QED BY <1>1, <1>2, <2>1
<1>12. QED BY <1>5, <1>7, <1>8, <1>9, <1>10, <1>11 DEF SlInv

LEMMA SlInvNext == ASSUME SlInv, [SlNext]_slVars PROVE SlInv'
<1>1. CASE RunMeasured BY <1>1, MeasuredStep
<1>2. CASE RowStored BY <1>2, StoredStep
<1>3. CASE RunFailed BY <1>3, FailedStep
<1>4. CASE RunRowDeleted BY <1>4, DeletedStep
<1>5. CASE SpeedCleared BY <1>5, ClearedStep
<1>6. CASE SpeedPruned BY <1>6, PrunedStep
<1>7. CASE SpeedExported BY <1>7, ExportStep
<1>8. CASE SpeedRestored BY <1>8, RestoredStep
<1>9. CASE SecondPasses \/ ClockBack \/ WritingCut \/ UNCHANGED slVars BY <1>9, AsideStep
<1>10. QED BY <1>1, <1>2, <1>3, <1>4, <1>5, <1>6, <1>7, <1>8, <1>9 DEF SlNext

\* A run's rows stay its own: whatever is stored late, deleted, pruned, restored
\* or dated by a clock set back, each row has one second, and those that have a
\* result beside them name it and no other.
THEOREM RowsStayTheirRuns == SlSpec => []SlInv
<1>1. QED BY SlInvInit, SlInvNext, PTL DEF SlSpec

LEMMA Quotient ==
    ASSUME NEW a \in Nat, NEW n \in Nat \ {0}
    PROVE  a \div n \in Nat /\ n * (a \div n) <= a /\ a < n * (a \div n) + n
OBVIOUS

\* The rows an estimate is made from.
LEMMA LastRuns ==
    ASSUME SlInv
    PROVE  LET last == NewestRuns(ResultRows, AvgOver)
           IN  /\ IsFiniteSet(last) /\ last \subseteq slRows /\ Cardinality(last) \in Nat
               /\ last # {} => Cardinality(last) # 0
               /\ \A r \in last : r \in ResultRows /\ r.part = "result"
<1> DEFINE last == NewestRuns(ResultRows, AvgOver)
<1>1. last \subseteq ResultRows /\ ResultRows \subseteq slRows
  BY DEF NewestRuns, ResultRows
<1>2. IsFiniteSet(last) /\ Cardinality(last) \in Nat
  BY <1>1, SlParts, FS_Subset, FS_CardinalityType
<1>3. last # {} => Cardinality(last) # 0
  BY <1>2, FS_EmptySet
<1>4. \A r \in ResultRows : r.part = "result"
  <2> SUFFICES ASSUME NEW r \in ResultRows PROVE r.part = "result"
    OBVIOUS
  <2>1. r \in slRows /\ ~r.failed /\ r.round = 0
    BY DEF ResultRows, IsResult, NotFailed
  <2>2. RowIs(r) /\ r.part \in Parts
    BY <2>1, SlParts DEF SlInv, AllRows, LedgerRow
  <2>3. QED BY <2>1, <2>2 DEF RowIs, Parts
<1>5. QED BY <1>1, <1>2, <1>3, <1>4

\* The estimate of the bytes of the next run counts no row twice.
LEMMA EstimateIsMoved ==
    ASSUME SlInv
    PROVE  Cardinality(NewestRuns(ResultRows, AvgOver)) * AvgBytes <= BytesOf(slRows)
<1> DEFINE last == NewestRuns(ResultRows, AvgOver)
           g == [r \in slRows |-> r.bytes]
           f == [r \in last |-> RoundBytes(r)]
           part == [r \in last |-> {r} \union Members(r)]
<1>1. /\ IsFiniteSet(last) /\ last \subseteq slRows /\ Cardinality(last) \in Nat
      /\ last # {} => Cardinality(last) # 0
      /\ \A r \in last : r \in ResultRows /\ r.part = "result"
  BY LastRuns
<1>2. IsFiniteSet(slRows) /\ \A s \in slRows : g[s] \in Nat /\ g[s] = s.bytes
  BY SlParts DEF LedgerRow
<1>3. BytesOf(slRows) = Total(g, slRows) /\ BytesOf(slRows) \in Nat
  BY <1>2, TotalNat DEF BytesOf
<1>4. \A r \in last : r.round = 0 /\ r.at # 0 /\ Members(r) \subseteq slRows /\ r \notin Members(r) /\ part[r] \in SUBSET slRows
  <2> SUFFICES ASSUME NEW r \in last
               PROVE  r.round = 0 /\ r.at # 0 /\ Members(r) \subseteq slRows /\ r \notin Members(r)
    BY <1>1
  <2>1. r.round = 0 /\ r.at # 0
    BY <1>1, SlParts DEF ResultRows, IsResult, LedgerRow
  <2>2. QED BY <2>1 DEF Members
<1>5. \A r \in last : f[r] = Total(g, part[r])
  <2> SUFFICES ASSUME NEW r \in last PROVE RoundBytes(r) = Total(g, {r} \union Members(r))
    OBVIOUS
  <2> DEFINE m == Members(r)
  <2>1. m \subseteq slRows /\ r \in slRows /\ r \notin m /\ IsFiniteSet(m)
    BY <1>1, <1>2, <1>4, FS_Subset
  <2>2. BytesOf(m) = Total(g, m)
    <3>1. \A s \in m : [x \in m |-> x.bytes][s] = g[s]
      BY <2>1
    <3>2. Total([x \in m |-> x.bytes], m) = Total(g, m)
      BY <3>1, TotalSame
    <3>3. QED BY <3>2 DEF BytesOf
  <2>3. \A s \in m \union {r} : g[s] \in Nat
    BY <1>2, <2>1
  <2> HIDE DEF g, m
  <2>4. Total(g, m \union {r}) = Total(g, m) + g[r]
    BY <2>1, <2>3, TotalAdd
  <2>5. Total(g, m) \in Nat /\ g[r] \in Nat /\ g[r] = r.bytes
    BY <1>2, <2>1, <2>3, TotalNat
  <2>6. {r} \union m = m \union {r}
    OBVIOUS
  <2>7. RoundBytes(r) = r.bytes + BytesOf(m)
    BY DEF RoundBytes, m
  <2>8. RoundBytes(r) = Total(g, {r} \union m)
    <3>1. Total(g, {r} \union m) = Total(g, m \union {r})
      BY <2>6
    <3>2. RoundBytes(r) = Total(g, m) + g[r]
      <4>1. PICK x \in Nat : x = Total(g, m)
        BY <2>5
      <4>2. PICK y \in Nat : y = g[r]
        BY <2>5
      <4>3. BytesOf(m) = x /\ r.bytes = y
        BY <2>2, <2>5, <4>1, <4>2
      <4>4. QED BY <2>7, <4>1, <4>2, <4>3
    <3>3. QED BY <2>4, <3>1, <3>2
  <2>9. QED BY <2>8 DEF m
<1>6. \A x, y \in last : part[x] \cap part[y] # {} => x = y
  <2> SUFFICES ASSUME NEW x \in last, NEW y \in last, NEW z \in part[x], z \in part[y]
               PROVE  x = y
    OBVIOUS
  <2>1. (z = x \/ z.round = x.at) /\ (z = y \/ z.round = y.at)
    BY DEF Members
  <2>2. x = y \/ x.at = y.at
    BY <1>4, <2>1
  <2>3. QED BY <1>1, <2>2 DEF SlInv, OneEach
<1>7. \A r \in last : f[r] \in Nat
  <2> SUFFICES ASSUME NEW r \in last PROVE Total(g, part[r]) \in Nat
    BY <1>5
  <2>1. IsFiniteSet(part[r]) /\ \A s \in part[r] : g[s] \in Nat
    BY <1>2, <1>4, FS_Subset
  <2>2. QED BY <2>1, TotalNat
<1>8. Total(f, last) <= Total(g, slRows) /\ Total(f, last) \in Nat
  <2> HIDE DEF f, g, part, last
  <2>1. Total(f, last) <= Total(g, slRows)
    BY <1>1, <1>2, <1>4, <1>5, <1>6, TotalOfParts
  <2>2. QED BY <1>1, <1>7, <2>1, TotalNat
<1>9. AvgBytes = IF last = {} THEN 0 ELSE Total(f, last) \div Cardinality(last)
  BY DEF AvgBytes
<1> HIDE DEF f, g, part, last
<1>10. CASE last = {}
  BY <1>1, <1>3, <1>9, <1>10 DEF last
<1>11. CASE last # {}
  <2> DEFINE n == Cardinality(last)
             a == Total(f, last)
  <2>1. n \in Nat \ {0} /\ a \in Nat
    BY <1>1, <1>8, <1>11
  <2> HIDE DEF n, a
  <2>2. a \div n \in Nat /\ n * (a \div n) <= a
    BY <2>1, Quotient
  <2>3. n * (a \div n) \in Nat
    BY <2>1, <2>2
  <2>4. n * (a \div n) <= BytesOf(slRows)
    BY <1>3, <1>8, <2>1, <2>2, <2>3 DEF a
  <2>5. QED BY <1>9, <1>11, <2>4 DEF n, a, last
<1>12. QED BY <1>10, <1>11

\* The reports that name a result are its own, one at most.
LEMMA ReportsAreOwn ==
    ASSUME SlInv, NEW r \in ResultRows
    PROVE  /\ \A p \in ReportsOf(r) : ResultOf(p, slRows) # {} => p.run = r.run
           /\ \A p, q \in ReportsOf(r) : p.run = q.run => p = q
<1>1. r \in slRows /\ r \in AllRows
  BY DEF ResultRows, AllRows
<1>2. ASSUME NEW p \in ReportsOf(r), NEW q \in ResultOf(p, slRows) PROVE p.run = r.run
  <2>1. p \in AllReports /\ p.at = r.at /\ q \in slRows /\ q \in AllRows /\ q.run = p.run /\ q.part \in {"result", "failure"}
    BY <1>2 DEF ReportsOf, ResultOf, AllReports, AllRows
  <2>2. p.at = Owner(q)
    BY <2>1 DEF SlInv, ReportIs
  <2>3. q.at = r.at
    BY <2>1, <2>2 DEF Owner
  <2>4. QED BY <1>1, <2>1, <2>3 DEF SlInv, OneEach
<1>3. \A p, q \in ReportsOf(r) : p.run = q.run => p = q
  BY DEF SlInv, ReportIs, ReportsOf, AllReports
<1>4. QED BY <1>2, <1>3

\* The servers the estimate of the next run reckons with.
LEMMA EstimateOfServers ==
    ASSUME SlInv, \A p \in slReports : ResultOf(p, slRows) # {}
    PROVE  AvgServers \in 1 .. 2
<1> DEFINE last == NewestRuns(ResultRows, AvgOver)
           f == [r \in last |-> ServersOf(r)]
<1>1. /\ IsFiniteSet(last) /\ last \subseteq slRows /\ Cardinality(last) \in Nat
      /\ last # {} => Cardinality(last) # 0
      /\ \A r \in last : r \in ResultRows
  BY LastRuns
<1>2. \A r \in last : ServersOf(r) \in 1 .. 2
  <2> SUFFICES ASSUME NEW r \in ResultRows PROVE ServersOf(r) \in 1 .. 2
    BY <1>1
  <2> DEFINE own == ReportsOf(r)
             g == [p \in own |-> p.servers]
  <2>1. own \subseteq slReports /\ \A p \in own : g[p] \in 1 .. 2
    BY SlParts DEF ReportsOf, Report
  <2>2. \A p, q \in own : p = q
    BY <2>1, ReportsAreOwn
  <2>3. Total(g, own) \in 0 .. 2
    <3>1. CASE own = {}
      <4> HIDE DEF g
      <4>1. QED BY <3>1, TotalNone
    <3>2. CASE own # {}
      <4>1. PICK p \in own : own = {p}
        BY <2>2, <3>2
      <4>2. IsFiniteSet(own) /\ Cardinality(own) = 1
        BY <4>1, FS_Singleton
      <4> HIDE DEF g, own
      <4>3. Cardinality(own) <= Total(g, own) /\ Total(g, own) <= Cardinality(own) * 2
        BY <2>1, <4>2, TotalBetween
      <4>4. Total(g, own) \in Nat
        <5>1. \A q \in own : g[q] \in Nat
          BY <2>1
        <5>2. QED BY <4>2, <5>1, TotalNat
      <4>5. QED BY <4>2, <4>3, <4>4
    <3>3. QED BY <3>1, <3>2
  <2>4. ServersOf(r) = Max({1, Total(g, own)})
    BY DEF ServersOf
  <2> HIDE DEF g, own
  <2>5. PICK n \in 0 .. 2 : n = Total(g, own)
    BY <2>3
  <2>6. Max({1, n}) \in 1 .. 2
    <3>1. \E m \in {1, n} : \A y \in {1, n} : m >= y
      OBVIOUS
    <3>2. Max({1, n}) \in {1, n} /\ Max({1, n}) >= 1
      BY <3>1 DEF Max
    <3>3. QED BY <3>2
  <2>7. QED BY <2>4, <2>5, <2>6
<1>3. AvgServers = IF last = {} THEN 1 ELSE Total(f, last) \div Cardinality(last)
  BY DEF AvgServers
<1>4. CASE last = {}
  BY <1>3, <1>4
<1>5. CASE last # {}
  <2> DEFINE n == Cardinality(last)
             a == Total(f, last)
  <2>1. \A r \in last : f[r] \in 1 .. 2
    BY <1>2
  <2> HIDE DEF f, last
  <2>2. n <= a /\ a <= n * 2
    BY <1>1, <2>1, TotalBetween
  <2>3. a \in Nat /\ n \in Nat \ {0}
    <3>1. \A r \in last : f[r] \in Nat
      BY <2>1
    <3>2. QED BY <1>1, <1>5, <3>1, TotalNat
  <2> HIDE DEF n, a
  <2>4. PICK k \in Nat : k = a \div n /\ n * k <= a /\ a < n * k + n
    BY <2>3, Quotient
  <2>5. k # 0
    BY <2>2, <2>3, <2>4
  <2>6. k <= 2
    <3> SUFFICES ASSUME k >= 3 PROVE FALSE
      BY <2>4
    <3>1. n * k >= n * 3
      BY <2>3, <2>4
    <3>2. QED BY <2>2, <2>3, <2>4, <3>1
  <2>7. QED BY <1>3, <1>5, <2>4, <2>5, <2>6 DEF n, a
<1>6. QED BY <1>4, <1>5

LEMMA BillIsTrue == ASSUME SlInv PROVE BillTrue
<1>1. slRows \ slStray = slOnBill \ slStray /\ \A r, s \in slRows : r.at = s.at => r = s
  BY DEF SlInv, OneEach
<1>2. ASSUME NEW r \in ResultRows, NEW s \in slRows \ slStray, s.round = r.at \/ s.of = r.at PROVE s.run = r.run
  BY <1>2, NamesItsOwn DEF ResultRows
<1>3. ASSUME NEW r \in ResultRows, NEW p \in ReportsOf(r), ResultOf(p, slRows) # {} PROVE p.run = r.run
  BY <1>3, ReportsAreOwn
<1>4. QED BY <1>1, <1>2, <1>3, EstimateIsMoved, EstimateOfServers DEF BillTrue

\* A function on the first numbers is a sequence as long.
LEMMA LengthIs ==
    ASSUME NEW n \in Nat, NEW S, NEW s \in [1 .. n -> S]
    PROVE  s \in Seq(S) /\ Len(s) = n /\ DOMAIN s = 1 .. n
<1>1. s \in Seq(S)
  OBVIOUS
<1>2. Len(s) \in Nat /\ DOMAIN s = 1 .. Len(s)
  BY <1>1, LenProperties
<1>3. 1 .. Len(s) = 1 .. n
  BY <1>2
<1>4. Len(s) = n
  <2>1. n \in 1 .. n <=> n # 0
    OBVIOUS
  <2>2. Len(s) \in 1 .. Len(s) <=> Len(s) # 0
    BY <1>2
  <2>3. QED BY <1>2, <1>3, <2>1, <2>2
<1>5. QED BY <1>1, <1>2, <1>4

\* How many of a set of seconds are before one of them.
Earlier(S, t) == {u \in S : u < t}
Rank(S, t) == Cardinality(Earlier(S, t))

LEMMA RankIs ==
    ASSUME NEW S \in SUBSET Nat, IsFiniteSet(S)
    PROVE  /\ Cardinality(S) \in Nat
           /\ \A t \in S : Rank(S, t) \in 0 .. (Cardinality(S) - 1)
           /\ \A t, u \in S : t < u => Rank(S, t) < Rank(S, u)
           /\ \A t, u \in S : Rank(S, t) = Rank(S, u) => t = u
           /\ \A k \in 0 .. (Cardinality(S) - 1) : \E t \in S : Rank(S, t) = k
<1> DEFINE n == Cardinality(S)
<1>1. n \in Nat
  BY FS_CardinalityType
<1>2. \A t \in Nat : IsFiniteSet(Earlier(S, t)) /\ Rank(S, t) \in Nat
  BY FS_Subset, FS_CardinalityType DEF Earlier, Rank
<1>3. ASSUME NEW t \in S, NEW T \in SUBSET S, Earlier(S, t) \subseteq T, t \in T
      PROVE  Rank(S, t) + 1 <= Cardinality(T)
  <2>1. t \notin Earlier(S, t) /\ t \in Nat
    BY DEF Earlier
  <2>2. Cardinality(Earlier(S, t) \cup {t}) = Rank(S, t) + 1
    BY <1>2, <2>1, FS_AddElement DEF Rank
  <2>3. Earlier(S, t) \cup {t} \subseteq T /\ IsFiniteSet(T)
    BY <1>3, FS_Subset
  <2>4. QED BY <2>2, <2>3, FS_Subset
<1>4. \A t \in S : Rank(S, t) \in 0 .. (n - 1)
  <2> SUFFICES ASSUME NEW t \in S PROVE Rank(S, t) \in 0 .. (n - 1)
    OBVIOUS
  <2>1. Rank(S, t) + 1 <= n
    BY <1>3 DEF Earlier
  <2>2. QED BY <1>1, <1>2, <2>1
<1>5. \A t, u \in S : t < u => Rank(S, t) < Rank(S, u)
  <2> SUFFICES ASSUME NEW t \in S, NEW u \in S, t < u PROVE Rank(S, t) < Rank(S, u)
    OBVIOUS
  <2>1. Earlier(S, t) \subseteq Earlier(S, u) /\ t \in Earlier(S, u) /\ Earlier(S, u) \subseteq S
    <3>1. \A v \in S : v < t => v < u
      <4>1. t \in Nat /\ u \in Nat /\ \A v \in S : v \in Nat
        OBVIOUS
      <4>2. QED BY <4>1
    <3>2. QED BY <3>1 DEF Earlier
  <2>2. Rank(S, t) + 1 <= Rank(S, u)
    BY <1>3, <2>1 DEF Rank
  <2>3. QED BY <1>2, <2>2
<1>6. \A t, u \in S : Rank(S, t) = Rank(S, u) => t = u
  <2> SUFFICES ASSUME NEW t \in S, NEW u \in S, Rank(S, t) = Rank(S, u) PROVE t = u
    OBVIOUS
  <2>1. t \in Nat /\ u \in Nat /\ Rank(S, t) \in Nat
    BY <1>2
  <2>2. ~(t < u) /\ ~(u < t)
    BY <1>5, <2>1
  <2>3. QED BY <2>1, <2>2
<1>7. \A k \in 0 .. (n - 1) : \E t \in S : Rank(S, t) = k
  <2> DEFINE rank == [t \in S |-> Rank(S, t)]
  <2>1. rank \in Injection(S, 0 .. (n - 1))
    BY <1>4, <1>6 DEF Injection, IsInjective
  <2>2. IsFiniteSet(0 .. (n - 1)) /\ Cardinality(0 .. (n - 1)) = n
    <3> HIDE DEF n
    <3>1. PICK m \in Int : m = n - 1
      BY <1>1
    <3>2. IsFiniteSet(0 .. m) /\ Cardinality(0 .. m) = IF 0 > m THEN 0 ELSE m - 0 + 1
      BY FS_Interval
    <3>3. QED BY <1>1, <3>1, <3>2
  <2>3. rank \in Surjection(S, 0 .. (n - 1))
    BY <2>1, <2>2, FS_Injection
  <2>4. QED BY <2>3 DEF Surjection
<1>8. QED BY <1>1, <1>4, <1>5, <1>6, <1>7

\* The seconds of a set of rows, in order: each once, where its rank says.
LEMMA SecondsInOrder ==
    ASSUME NEW rows \in SUBSET LedgerRow, IsFiniteSet(rows)
    PROVE  LET S == {r.at : r \in rows}
               s == Seconds(rows)
           IN  /\ s \in Seq(Nat) /\ Len(s) = Cardinality(S) /\ Len(s) \in Nat /\ DOMAIN s = 1 .. Len(s)
               /\ \A i \in 1 .. Len(s) : s[i] \in S /\ Rank(S, s[i]) = i - 1
               /\ \A i, j \in 1 .. Len(s) : i < j => s[i] < s[j]
               /\ \A t \in S : Rank(S, t) + 1 \in 1 .. Len(s) /\ s[Rank(S, t) + 1] = t
<1> DEFINE S == {r.at : r \in rows}
           s == Seconds(rows)
           n == Cardinality(S)
<1>1. S \in SUBSET Nat /\ IsFiniteSet(S)
  BY SecondsFinite
<1>2. s = [i \in 1 .. n |-> CHOOSE t \in S : Rank(S, t) = i - 1]
  BY DEF Seconds, Rank, Earlier
<1> HIDE DEF s, S
<1>3. /\ n \in Nat /\ \A t \in S : Rank(S, t) \in 0 .. (n - 1)
      /\ \A t, u \in S : t < u => Rank(S, t) < Rank(S, u)
      /\ \A t, u \in S : Rank(S, t) = Rank(S, u) => t = u
      /\ \A k \in 0 .. (n - 1) : \E t \in S : Rank(S, t) = k
  BY <1>1, RankIs
<1> HIDE DEF n
<1>4. \A i \in 1 .. n : s[i] \in S /\ Rank(S, s[i]) = i - 1
  <2> SUFFICES ASSUME NEW i \in 1 .. n PROVE s[i] \in S /\ Rank(S, s[i]) = i - 1
    OBVIOUS
  <2>1. i - 1 \in 0 .. (n - 1)
    BY <1>3
  <2>2. \E t \in S : Rank(S, t) = i - 1
    BY <1>3, <2>1
  <2>3. s[i] = CHOOSE t \in S : Rank(S, t) = i - 1
    BY <1>2
  <2>4. QED BY <2>2, <2>3
<1>5. s \in [1 .. n -> Nat]
  BY <1>1, <1>2, <1>4
<1>6. s \in Seq(Nat) /\ Len(s) = n /\ DOMAIN s = 1 .. n
  BY <1>3, <1>5, LengthIs
<1>7. \A i, j \in 1 .. n : i < j => s[i] < s[j]
  <2> SUFFICES ASSUME NEW i \in 1 .. n, NEW j \in 1 .. n, i < j PROVE s[i] < s[j]
    OBVIOUS
  <2>1. s[i] \in Nat /\ s[j] \in Nat /\ Rank(S, s[i]) = i - 1 /\ Rank(S, s[j]) = j - 1 /\ s[i] \in S /\ s[j] \in S
    BY <1>1, <1>4
  <2>2. s[i] # s[j] /\ ~(s[j] < s[i])
    BY <1>3, <2>1
  <2>3. QED BY <2>1, <2>2
<1>8. \A t \in S : Rank(S, t) + 1 \in 1 .. n /\ s[Rank(S, t) + 1] = t
  <2> SUFFICES ASSUME NEW t \in S PROVE Rank(S, t) + 1 \in 1 .. n /\ s[Rank(S, t) + 1] = t
    OBVIOUS
  <2>1. Rank(S, t) + 1 \in 1 .. n /\ Rank(S, t) \in Nat
    BY <1>3
  <2>2. s[Rank(S, t) + 1] \in S /\ Rank(S, s[Rank(S, t) + 1]) = Rank(S, t)
    BY <1>4, <2>1
  <2>3. QED BY <1>3, <2>1, <2>2
<1>9. QED BY <1>3, <1>4, <1>6, <1>7, <1>8 DEF s, S, n

\* The positions a thinned chart takes its points from.
ThinAt(n, budget, i) == IF i = budget THEN n ELSE ((i - 1) * n) \div budget + 1

LEMMA PositionsGrow ==
    ASSUME NEW n \in Nat, NEW b \in Nat \ {0}, n > b
    PROVE  /\ \A i \in 1 .. b : ThinAt(n, b, i) \in 1 .. n
           /\ \A i \in 1 .. (b - 1) : ThinAt(n, b, i) < ThinAt(n, b, i + 1)
<1>1. ASSUME NEW i \in 1 .. (b - 1)
      PROVE  /\ ThinAt(n, b, i) = ((i - 1) * n) \div b + 1
             /\ ((i - 1) * n) \div b \in Nat
             /\ b * (((i - 1) * n) \div b) <= (i - 1) * n /\ (i - 1) * n < b * (((i - 1) * n) \div b) + b
             /\ ((i - 1) * n) \div b + 1 < n
  <2>1. (i - 1) * n \in Nat /\ i # b
    OBVIOUS
  <2>2. PICK a \in Nat : a = (i - 1) * n
    BY <2>1
  <2>3. PICK q \in Nat : q = a \div b /\ b * q <= a /\ a < b * q + b
    BY Quotient
  <2>4. q + 1 < n
    <3> SUFFICES ASSUME q >= n - 1 PROVE FALSE
      BY <2>3
    <3>1. b * q >= b * (n - 1)
      BY <2>3
    <3>2. b * (n - 1) = b * n - b
      OBVIOUS
    <3>3. (i - 1) * n <= (b - 2) * n
      <4>1. i - 1 <= b - 2 /\ i - 1 \in Int /\ b - 2 \in Int
        OBVIOUS
      <4>2. QED BY <4>1
    <3>4. (b - 2) * n = b * n - 2 * n
      OBVIOUS
    <3>5. b * n \in Nat /\ b * q \in Nat
      BY <2>3
    <3>6. QED BY <2>2, <2>3, <3>1, <3>2, <3>3, <3>4, <3>5
  <2>5. QED BY <2>1, <2>2, <2>3, <2>4 DEF ThinAt
<1>2. ThinAt(n, b, b) = n
  BY DEF ThinAt
<1>3. \A i \in 1 .. b : ThinAt(n, b, i) \in 1 .. n
  <2> SUFFICES ASSUME NEW i \in 1 .. b PROVE ThinAt(n, b, i) \in 1 .. n
    OBVIOUS
  <2>1. CASE i = b
    BY <1>2, <2>1
  <2>2. CASE i # b
    <3>1. i \in 1 .. (b - 1)
      BY <2>2
    <3>2. PICK q \in Nat : ThinAt(n, b, i) = q + 1 /\ q + 1 < n
      BY <1>1, <3>1
    <3>3. QED BY <3>2
  <2>3. QED BY <2>1, <2>2
<1>4. ASSUME NEW i \in 1 .. (b - 1) PROVE ThinAt(n, b, i) < ThinAt(n, b, i + 1)
  <2>1. PICK q \in Nat : ThinAt(n, b, i) = q + 1 /\ q + 1 < n /\ b * q <= (i - 1) * n
    BY <1>1
  <2>2. CASE i + 1 = b
    BY <1>2, <2>1, <2>2
  <2>3. CASE i + 1 # b
    <3>1. i + 1 \in 1 .. (b - 1)
      BY <2>3
    <3>2. PICK p \in Nat : ThinAt(n, b, i + 1) = p + 1 /\ ((i + 1) - 1) * n < b * p + b
      BY <1>1, <3>1
    <3>3. ((i + 1) - 1) * n = (i - 1) * n + n
      OBVIOUS
    <3>4. b * q < b * p
      <4>1. b * q \in Nat /\ b * p \in Nat /\ (i - 1) * n \in Nat
        BY <2>1, <3>2
      <4>2. QED BY <2>1, <3>2, <3>3, <4>1
    <3>5. q < p
      <4> SUFFICES ASSUME q >= p PROVE FALSE
        BY <2>1, <3>2
      <4>1. b * q >= b * p
        BY <2>1, <3>2
      <4>2. b * q \in Nat /\ b * p \in Nat
        BY <2>1, <3>2
      <4>3. QED BY <3>4, <4>1, <4>2
    <3>6. QED BY <2>1, <3>2, <3>5
  <2>4. QED BY <2>2, <2>3
<1>5. QED BY <1>3, <1>4

\* A thinned chart: as many points as there is room for, in order, up to the newest.
LEMMA ThinnedIs ==
    ASSUME NEW s \in Seq(Nat), NEW b \in Nat \ {0}, \A i, j \in 1 .. Len(s) : i < j => s[i] < s[j]
    PROVE  LET points == Thinned(s, b)
           IN  /\ Len(points) = Min({b, Len(s)})
               /\ \A i \in 1..(Len(points) - 1) : points[i] < points[i + 1]
               /\ points # <<>> => Last(points) = Last(s)
               /\ \A i \in DOMAIN points : \E j \in 1 .. Len(s) : points[i] = s[j]
<1> DEFINE points == Thinned(s, b)
           n == Len(s)
<1>1. n \in Nat /\ s \in [1 .. n -> Nat] /\ DOMAIN s = 1 .. n
  BY LenProperties
<1>2. CASE n <= b
  <2>1. points = s
    BY <1>2 DEF Thinned
  <2>2. Min({b, n}) = n
    <3> HIDE DEF n
    <3>0. n \in Int
      BY <1>1
    <3>1. PICK m \in Int : m = n
      BY <3>0
    <3>2. Min({b, m}) \in {b, m} /\ Min({b, m}) <= b /\ Min({b, m}) <= m
      BY LowerOfTwo
    <3>3. QED BY <1>1, <1>2, <3>1, <3>2
  <2>3. QED BY <1>1, <2>1, <2>2
<1>3. CASE ~(n <= b)
  <2>1. points = [i \in 1 .. b |-> IF i = b THEN Last(s) ELSE s[((i - 1) * n) \div b + 1]]
    BY <1>3 DEF Thinned
  <2>2. /\ \A i \in 1 .. b : ThinAt(n, b, i) \in 1 .. n
        /\ \A i \in 1 .. (b - 1) : ThinAt(n, b, i) < ThinAt(n, b, i + 1)
    BY <1>1, <1>3, PositionsGrow
  <2>3. \A i \in 1 .. b : points[i] = s[ThinAt(n, b, i)]
    BY <2>1 DEF ThinAt, Last
  <2> HIDE DEF points, n
  <2>4. points \in [1 .. b -> Nat]
    <3>1. \A i \in 1 .. b : points[i] \in Nat
      BY <1>1, <2>2, <2>3
    <3>2. QED BY <2>1, <3>1
  <2>5. Len(points) = b /\ DOMAIN points = 1 .. b
    BY <2>4, LengthIs
  <2>6. Min({b, n}) = b
    <3> HIDE DEF n
    <3>0. n \in Int
      BY <1>1
    <3>1. PICK m \in Int : m = n
      BY <3>0
    <3>2. Min({b, m}) \in {b, m} /\ Min({b, m}) <= b /\ Min({b, m}) <= m
      BY LowerOfTwo
    <3>3. QED BY <1>1, <1>3, <3>1, <3>2
  <2>7. ASSUME NEW i \in 1 .. (b - 1) PROVE points[i] < points[i + 1]
    <3>1. i \in 1 .. b /\ i + 1 \in 1 .. b
      OBVIOUS
    <3>2. ThinAt(n, b, i) \in 1 .. n /\ ThinAt(n, b, i + 1) \in 1 .. n /\ ThinAt(n, b, i) < ThinAt(n, b, i + 1)
      BY <2>2, <3>1
    <3>3. s[ThinAt(n, b, i)] < s[ThinAt(n, b, i + 1)]
      BY <3>2 DEF n
    <3>4. QED BY <2>3, <3>1, <3>3
  <2>8. Last(points) = Last(s)
    <3>1. b \in 1 .. b
      OBVIOUS
    <3>2. points[b] = s[n]
      BY <2>3, <3>1 DEF ThinAt
    <3>3. QED BY <2>5, <3>2 DEF Last, n
  <2>9. QED BY <2>2, <2>3, <2>5, <2>6, <2>7, <2>8 DEF points, n
<1>4. QED BY <1>2, <1>3

\* How far a run is down the runs table.
LEMMA OffsetIs ==
    ASSUME SlInv, NEW t \in {r.at : r \in ListedRows}
    PROVE  LET S == {r.at : r \in ListedRows}
           IN  SpeedRunOffset(t) = Cardinality(S) - Rank(S, t) - 1
<1> DEFINE S == {r.at : r \in ListedRows}
           newer == {r \in ListedRows : r.at > t}
           above == {u \in S : u > t}
           at == [r \in newer |-> r.at]
<1>1. ListedRows \in SUBSET LedgerRow /\ IsFiniteSet(ListedRows) /\ ListedRows \subseteq slRows
  BY SlParts, FS_Subset DEF ListedRows
<1>2. S \in SUBSET Nat /\ IsFiniteSet(S)
  BY <1>1, SecondsFinite
<1>3. newer \subseteq slRows /\ IsFiniteSet(newer)
  BY <1>1, FS_Subset
<1>4. at \in Injection(newer, above) /\ at \in Surjection(newer, above)
  <2>1. at \in [newer -> above]
    OBVIOUS
  <2>2. \A r, s \in newer : at[r] = at[s] => r = s
    BY <1>3 DEF SlInv, OneEach
  <2>3. \A u \in above : \E r \in newer : u = at[r]
    OBVIOUS
  <2>4. QED BY <2>1, <2>2, <2>3 DEF Injection, Surjection, IsInjective
<1>5. Cardinality(above) = Cardinality(newer)
  BY <1>3, <1>4, FS_Surjection
<1>6. Cardinality(S) = Rank(S, t) + 1 + Cardinality(above)
  <2> DEFINE low == Earlier(S, t)
  <2>1. low \subseteq S /\ above \subseteq S /\ t \in S /\ t \in Nat
    BY <1>2 DEF Earlier
  <2> HIDE DEF S
  <2>2. IsFiniteSet(low) /\ IsFiniteSet(above) /\ Cardinality(low) \in Nat /\ Cardinality(above) \in Nat
    BY <1>2, <2>1, FS_Subset, FS_CardinalityType
  <2>3. t \notin low /\ IsFiniteSet(low \union {t}) /\ Cardinality(low \union {t}) = Cardinality(low) + 1
    <3>1. t \notin low
      BY <2>1 DEF Earlier
    <3>2. QED BY <2>2, <3>1, FS_AddElement
  <2>4. S = (low \union {t}) \union above /\ (low \union {t}) \cap above = {}
    <3>1. \A u \in S : u < t \/ u = t \/ u > t
      BY <1>2, <2>1
    <3>2. \A u \in S : ~(u < t /\ u > t) /\ ~(t > t)
      BY <1>2, <2>1
    <3>3. S = (low \union {t}) \union above
      BY <2>1, <3>1 DEF Earlier
    <3>4. (low \union {t}) \cap above = {}
      BY <2>1, <3>2 DEF Earlier
    <3>5. QED BY <3>3, <3>4
  <2> DEFINE both == low \union {t}
  <2> HIDE DEF low, above
  <2>5. Cardinality(both \union above) = Cardinality(both) + Cardinality(above) - Cardinality(both \cap above)
    BY <2>2, <2>3, FS_Union
  <2>6. Cardinality(both \cap above) = 0
    BY <2>4, FS_EmptySet
  <2>7. QED BY <2>2, <2>3, <2>4, <2>5, <2>6 DEF Rank, low
<1>7. Rank(S, t) \in Nat /\ Cardinality(above) \in Nat
  <2>1. Earlier(S, t) \subseteq S /\ above \subseteq S
    BY DEF Earlier
  <2>2. QED BY <1>2, <2>1, FS_Subset, FS_CardinalityType DEF Rank
<1>8. SpeedRunOffset(t) = Cardinality(newer)
  BY DEF SpeedRunOffset
<1> HIDE DEF S, above, newer
<1>9. SpeedRunOffset(t) = Cardinality(S) - Rank(S, t) - 1
  BY <1>5, <1>6, <1>7, <1>8
<1>10. QED BY <1>9 DEF S

\* The page of the runs table that a run's offset names has the run on it.
LEMMA OnItsPage ==
    ASSUME SlInv, NEW t \in {r.at : r \in ListedRows}
    PROVE  LET page == SpeedRunOffset(t) \div PageSize
           IN  \E k \in 1..PageSize : LET rows == SpeedRuns(PageSize, page * PageSize)
                                      IN  k <= Len(rows) /\ rows[k] = t
<1> DEFINE S == {r.at : r \in ListedRows}
           s == Seconds(ListedRows)
           n == Len(s)
           back == Reverse(s)
           o == SpeedRunOffset(t)
           page == o \div PageSize
           from == page * PageSize
           to == Min({from + PageSize, n})
           rows == SpeedRuns(PageSize, from)
           k == o - from + 1
<1>0. PageSize \in Nat \ {0}
  BY SpeedLedgerAssumption
<1>1. ListedRows \in SUBSET LedgerRow /\ IsFiniteSet(ListedRows)
  BY SlParts, FS_Subset DEF ListedRows
<1>2. /\ s \in Seq(Nat) /\ n = Cardinality(S) /\ n \in Nat /\ DOMAIN s = 1 .. n
      /\ Rank(S, t) + 1 \in 1 .. n /\ s[Rank(S, t) + 1] = t
      /\ \A i \in 1 .. n : s[i] \in Nat
  <2>1. /\ s \in Seq(Nat) /\ n = Cardinality(S) /\ n \in Nat /\ DOMAIN s = 1 .. n
        /\ Rank(S, t) + 1 \in 1 .. n /\ s[Rank(S, t) + 1] = t
    BY <1>1, SecondsInOrder
  <2>2. \A i \in 1 .. n : s[i] \in Nat
    BY <2>1, ElementOfSeq
  <2>3. QED BY <2>1, <2>2
<1>3. o = n - Rank(S, t) - 1
  BY <1>2, OffsetIs
<1>4. Rank(S, t) \in Nat
  <2>1. S \in SUBSET Nat /\ IsFiniteSet(S)
    BY <1>1, SecondsFinite
  <2>2. Earlier(S, t) \subseteq S
    BY DEF Earlier
  <2>3. QED BY <2>1, <2>2, FS_Subset, FS_CardinalityType DEF Rank
<1>5. o \in Nat /\ o < n /\ n - (o + 1) + 1 = Rank(S, t) + 1
  <2> HIDE DEF o, n, S
  <2>1. QED BY <1>2, <1>3, <1>4
<1>6. back = [i \in 1 .. n |-> s[(n - i) + 1]]
  BY DEF Reverse
<1>7. \A i \in 1 .. n : back[i] \in Nat
  <2> HIDE DEF back, n, s
  <2>1. \A i \in 1 .. n : (n - i) + 1 \in 1 .. n
    BY <1>2
  <2>2. QED BY <1>2, <1>6, <2>1
<1>8. Len(back) = n /\ back \in Seq(Nat)
  <2>1. back \in [1 .. n -> Nat]
    BY <1>6, <1>7
  <2> HIDE DEF back, n
  <2>2. QED BY <1>2, <2>1, LengthIs
<1>9. back[o + 1] = t
  <2> HIDE DEF back, n, o, s, S
  <2>1. o + 1 \in 1 .. n
    BY <1>2, <1>5
  <2>2. back[o + 1] = s[(n - (o + 1)) + 1]
    BY <1>6, <2>1
  <2>3. QED BY <1>2, <1>5, <2>2
<1>10. page \in Nat /\ from \in Nat /\ from <= o /\ o < from + PageSize
  <2> HIDE DEF o
  <2>1. page \in Nat /\ PageSize * page <= o /\ o < PageSize * page + PageSize
    BY <1>0, <1>5, Quotient
  <2>2. PageSize * page = from /\ from \in Nat
    BY <1>0, <2>1
  <2>3. QED BY <2>1, <2>2
<1>11. rows = SubSeq(back, from + 1, to)
  BY <1>8 DEF SpeedRuns
<1> HIDE DEF n, o, from, back, page, rows
<1>12. to \in {from + PageSize, n} /\ to <= from + PageSize /\ to <= n /\ to \in Nat
  <2>1. PICK m \in Int : m = from + PageSize
    BY <1>0, <1>10
  <2>2. n \in Int
    BY <1>2
  <2>3. Min({m, n}) \in {m, n} /\ Min({m, n}) <= m /\ Min({m, n}) <= n
    BY <2>2, LowerOfTwo
  <2>4. QED BY <1>0, <1>2, <1>10, <2>1, <2>3
<1> HIDE DEF to
<1>13. o + 1 <= to
  BY <1>0, <1>2, <1>5, <1>10, <1>12
<1>14. /\ Len(rows) = to - (from + 1) + 1
       /\ \A i \in 1 .. (to - (from + 1) + 1) : rows[i] = back[from + 1 + i - 1]
  <2>1. PICK a \in Int : a = from + 1
    BY <1>10
  <2>2. to \in Int /\ \A i \in a .. to : back[i] \in Nat
    BY <1>2, <1>7, <1>10, <1>12, <2>1
  <2>3. /\ Len(SubSeq(back, a, to)) = IF a <= to THEN to - a + 1 ELSE 0
        /\ \A i \in 1 .. to - a + 1 : SubSeq(back, a, to)[i] = back[a + i - 1]
    BY <2>2, SubSeqProperties
  <2>4. a <= to
    BY <1>5, <1>10, <1>12, <1>13, <2>1
  <2>5. QED BY <1>11, <2>1, <2>3, <2>4
<1>15. k \in 1 .. PageSize /\ k \in 1 .. (to - (from + 1) + 1) /\ from + 1 + k - 1 = o + 1
  BY <1>0, <1>5, <1>10, <1>12, <1>13
<1>16. k <= Len(rows) /\ rows[k] = t
  <2> HIDE DEF k
  <2>1. rows[k] = back[from + 1 + k - 1]
    BY <1>14, <1>15
  <2>2. rows[k] = t
    BY <1>9, <1>15, <2>1
  <2>3. QED BY <1>12, <1>10, <1>14, <1>15, <2>2
<1>17. QED BY <1>15, <1>16 DEF rows, from, page, o

LEMMA ChartIsTrue == ASSUME SlInv PROVE ChartTrue
<1>1. ASSUME NEW budget \in Budgets
      PROVE  LET points == Thinned(Charted, budget)
             IN  /\ Len(points) = Min({budget, Len(Charted)})
                 /\ \A i \in 1..(Len(points) - 1) : points[i] < points[i + 1]
                 /\ points # <<>> => Last(points) = Last(Charted)
                 /\ \A i \in DOMAIN points :
                       LET page == SpeedRunOffset(points[i]) \div PageSize
                       IN  \E k \in 1..PageSize : LET rows == SpeedRuns(PageSize, page * PageSize)
                                                  IN  k <= Len(rows) /\ rows[k] = points[i]
  <2> DEFINE drawn == {r \in slRows : NotFailed(r) /\ r.at < ReadHorizon}
             points == Thinned(Charted, budget)
  <2>1. drawn \in SUBSET LedgerRow /\ IsFiniteSet(drawn) /\ Charted = Seconds(drawn) /\ budget \in Nat \ {0}
    BY SlParts, FS_Subset, SpeedLedgerAssumption DEF Charted
  <2>2. drawn \subseteq ListedRows
    BY DEF ListedRows, IsListed
  <2>3. /\ Charted \in Seq(Nat)
        /\ \A i \in 1 .. Len(Charted) : Charted[i] \in {r.at : r \in drawn}
        /\ \A i, j \in 1 .. Len(Charted) : i < j => Charted[i] < Charted[j]
    BY <2>1, SecondsInOrder
  <2>4. /\ Len(points) = Min({budget, Len(Charted)})
        /\ \A i \in 1..(Len(points) - 1) : points[i] < points[i + 1]
        /\ points # <<>> => Last(points) = Last(Charted)
        /\ \A i \in DOMAIN points : \E j \in 1 .. Len(Charted) : points[i] = Charted[j]
    BY <2>1, <2>3, ThinnedIs
  <2>5. \A i \in DOMAIN points : points[i] \in {r.at : r \in ListedRows}
    <3> SUFFICES ASSUME NEW i \in DOMAIN points PROVE points[i] \in {r.at : r \in ListedRows}
      OBVIOUS
    <3>1. PICK j \in 1 .. Len(Charted) : points[i] = Charted[j]
      BY <2>4
    <3>2. PICK r \in drawn : Charted[j] = r.at
      BY <2>3
    <3>3. QED BY <2>2, <3>1, <3>2
  <2> HIDE DEF points
  <2>6. \A i \in DOMAIN points :
          LET page == SpeedRunOffset(points[i]) \div PageSize
          IN  \E k \in 1..PageSize : LET rows == SpeedRuns(PageSize, page * PageSize)
                                     IN  k <= Len(rows) /\ rows[k] = points[i]
    BY <2>5, OnItsPage
  <2>7. QED BY <2>4, <2>6 DEF points
<1>2. SpeedRunCount <= SpeedCount /\ SpeedCount <= Cardinality(ListedRows)
  <2> DEFINE results == {r \in slRows : IsResult(r)}
             tests == {r \in slRows : NotFailed(r)}
  <2>1. results \subseteq tests /\ tests \subseteq ListedRows /\ ListedRows \subseteq slRows
    BY DEF IsResult, IsListed, ListedRows
  <2>2. IsFiniteSet(tests) /\ IsFiniteSet(ListedRows)
    BY <2>1, SlParts, FS_Subset
  <2>3. Cardinality(results) <= Cardinality(tests) /\ Cardinality(tests) <= Cardinality(ListedRows)
    BY <2>1, <2>2, FS_Subset
  <2>4. QED BY <2>3 DEF SpeedRunCount, SpeedCount
<1>3. ASSUME NEW r \in LatestSpeed, r.at # ReadHorizon
      PROVE  r.at = Max({s.at : s \in {t \in slRows : IsResult(t) /\ t.at < ReadHorizon}})
  <2> DEFINE S == {s.at : s \in {t \in slRows : IsResult(t) /\ t.at < ReadHorizon}}
  <2>1. r \in ResultRows /\ \A s \in ResultRows : s.at <= r.at
    BY DEF LatestSpeed
  <2>2. \A s \in slRows : s.at \in Nat
    BY SlParts DEF LedgerRow
  <2>3. ReadHorizon \in Nat
    BY SlParts, SpeedLedgerAssumption DEF ReadHorizon
  <2>4. r.at \in S /\ r.at \in Nat
    BY <1>3, <2>1, <2>2, <2>3 DEF ResultRows
  <2>5. \A u \in S : u \in Nat /\ u <= r.at
    BY <2>1, <2>2, <2>3 DEF ResultRows
  <2> HIDE DEF S
  <2>6. Max(S) \in S /\ Max(S) >= r.at
    <3>1. \E m \in S : \A y \in S : m >= y
      BY <2>4, <2>5
    <3>2. Max(S) \in S /\ \A y \in S : Max(S) >= y
      BY <3>1 DEF Max
    <3>3. QED BY <2>4, <3>2
  <2>7. r.at = Max(S)
    BY <2>4, <2>5, <2>6
  <2>8. QED BY <2>7 DEF S
<1>4. QED BY <1>1, <1>2, <1>3 DEF ChartTrue

\* What is read off the rows is true of the runs: none misses, none is taken for
\* another's, no byte is reckoned twice, and chart, table and status agree.
THEOREM LedgerIsTrue == SlSpec => []LedgerTrue
<1>1. SlInv => LedgerTrue
  BY BillIsTrue, ChartIsTrue DEF LedgerTrue
<1>2. QED BY <1>1, RowsStayTheirRuns, PTL

=============================================================================
