------------------------------ MODULE Rebuild ------------------------------
(***************************************************************************)
(* Opening a database that is damaged, with -on-corrupt rebuild: a whole   *)
(* replacement is built beside it, the damaged file and its sidecars are   *)
(* moved aside one rename at a time, and the replacement is renamed into   *)
(* place.  The process may die, or a rename fail, between any two steps;   *)
(* the next start finishes what it finds.                                  *)
(*                                                                         *)
(* A database is known by a number; its write-ahead log (which stands for  *)
(* the shm file too) bears the number of the database it belongs to.       *)
(***************************************************************************)
EXTENDS Naturals, FiniteSets

CONSTANT MaxDbs   \* databases ever created

VARIABLES rbPath,   \* what is at the database's path: the main file and a WAL
          rbBuilt,  \* the file <path>.rebuilt
          rbAside,  \* files moved aside: main files and WALs
          rbProc,   \* the start in progress
          rbMade    \* databases created so far

rbVars == <<rbPath, rbBuilt, rbAside, rbProc, rbMade>>

NoFile == [id |-> 0, kind |-> "none", consented |-> FALSE, hold |-> FALSE, damaged |-> FALSE]
Exited == [pc |-> "down", rebuild |-> FALSE, firstRun |-> FALSE]

RbInit ==
    /\ rbPath = [main |-> NoFile, wal |-> 0]
    /\ rbBuilt = NoFile
    /\ rbAside = [main |-> {}, wal |-> {}]
    /\ rbProc = Exited
    /\ rbMade = 0

At(pc) == rbProc.pc = pc
To(pc) == rbProc' = [rbProc EXCEPT !.pc = pc]
Exit == rbProc' = Exited

-----------------------------------------------------------------------------
(* The environment.                                                        *)

Damage ==
    /\ At("down") /\ rbPath.main.id # 0
    /\ rbPath' = [rbPath EXCEPT !.main.damaged = TRUE]
    /\ UNCHANGED <<rbBuilt, rbAside, rbProc, rbMade>>

\* A crash leaves every file as it is; a clean stop folds the WAL in.
Die ==
    /\ ~At("down")
    /\ Exit
    /\ UNCHANGED <<rbPath, rbBuilt, rbAside, rbMade>>

CleanStop ==
    /\ At("running")
    /\ rbPath' = [rbPath EXCEPT !.wal = 0]
    /\ Exit
    /\ UNCHANGED <<rbBuilt, rbAside, rbMade>>

-----------------------------------------------------------------------------
(* Open.                                                                   *)

Begin ==
    /\ At("down")
    /\ \E rebuild \in BOOLEAN : rbProc' = [Exited EXCEPT !.pc = "finish", !.rebuild = rebuild]
    /\ UNCHANGED <<rbPath, rbBuilt, rbAside, rbMade>>

\* finishInterruptedRebuild: nothing at the path, and a replacement beside it.
Unfinished_Never == FALSE
Unfinished == rbPath.main.id = 0 /\ rbBuilt.kind # "none"

FinishSkipped ==
    /\ At("finish") /\ ~Unfinished /\ To("open")
    /\ UNCHANGED <<rbPath, rbBuilt, rbAside, rbMade>>

\* os.Rename of one file out of the path; one that fails ends the start.
AsideMain(from, to) ==
    /\ At(from)
    /\ \/ /\ rbAside' = [rbAside EXCEPT !.main = @ \cup ({rbPath.main} \ {NoFile})]
          /\ rbPath' = [rbPath EXCEPT !.main = NoFile]
          /\ To(to)
       \/ rbPath.main.id # 0 /\ Exit /\ UNCHANGED <<rbPath, rbAside>>
    /\ UNCHANGED <<rbBuilt, rbMade>>

AsideWal(from, to) ==
    /\ At(from)
    /\ \/ /\ rbAside' = [rbAside EXCEPT !.wal = @ \cup ({rbPath.wal} \ {0})]
          /\ rbPath' = [rbPath EXCEPT !.wal = 0]
          /\ To(to)
       \/ rbPath.wal # 0 /\ Exit /\ UNCHANGED <<rbPath, rbAside>>
    /\ UNCHANGED <<rbBuilt, rbMade>>

\* The set-aside of finishInterruptedRebuild finds only sidecars.
FinishAsides == Unfinished /\ AsideWal("finish", "place")

\* renameIntoPlaceFn, after either set-aside
Place ==
    /\ At("place")
    /\ \/ /\ rbPath' = [rbPath EXCEPT !.main = rbBuilt]
          /\ rbBuilt' = NoFile
          /\ To("open")
       \/ Exit /\ UNCHANGED <<rbPath, rbBuilt>>
    /\ UNCHANGED <<rbAside, rbMade>>

\* sql.Open creates what is not there.  A database that initializes is the one
\* this process runs on; one that is damaged is refused, or rebuilt.  The offer
\* it was still inside is read from it where it can be.
OpenDatabase ==
    /\ At("open")
    /\ IF rbPath.main.id = 0
       THEN /\ rbMade < MaxDbs /\ rbMade' = rbMade + 1
            /\ rbPath' = [main |-> [id |-> rbMade', kind |-> "fresh", consented |-> FALSE, hold |-> FALSE,
                                    damaged |-> FALSE],
                          wal |-> IF rbPath.wal = 0 THEN rbMade' ELSE rbPath.wal]
            /\ To("running")
       ELSE IF ~rbPath.main.damaged
       THEN /\ \/ To("running") /\ rbPath' = [rbPath EXCEPT !.wal = IF @ = 0 THEN rbPath.main.id ELSE @]
               \/ Exit /\ UNCHANGED rbPath
            /\ UNCHANGED rbMade
       ELSE /\ \E read \in BOOLEAN :
                  IF rbProc.rebuild
                  THEN rbProc' = [rbProc EXCEPT !.pc = "build", !.firstRun = read /\ ~rbPath.main.consented]
                  ELSE Exit
            /\ UNCHANGED <<rbPath, rbMade>>
    /\ UNCHANGED <<rbBuilt, rbAside>>

\* buildRebuiltStore clears an earlier build and makes a new one ...
BuildStarts ==
    /\ At("build") /\ rbMade < MaxDbs
    /\ rbMade' = rbMade + 1
    /\ rbBuilt' = [NoFile EXCEPT !.id = rbMade', !.kind = "partial"]
    /\ To("building")
    /\ UNCHANGED <<rbPath, rbAside>>

\* ... whole, with the anchor and the access hold, or removes it.
BuildEnds ==
    /\ At("building")
    /\ \/ /\ rbBuilt' = [rbBuilt EXCEPT !.kind = "rebuilt", !.consented = ~rbProc.firstRun, !.hold = TRUE]
          /\ To("aside")
       \/ rbBuilt' = NoFile /\ Exit
    /\ UNCHANGED <<rbPath, rbAside, rbMade>>

\* The operator answers the offer, or sets a password, which ends the hold.
Configure ==
    /\ At("running")
    /\ \/ rbPath' = [rbPath EXCEPT !.main.consented = TRUE]
       \/ rbPath' = [rbPath EXCEPT !.main.hold = FALSE, !.main.kind = "install"]
    /\ UNCHANGED <<rbBuilt, rbAside, rbProc, rbMade>>

RbNext ==
    \/ Damage \/ Die \/ CleanStop \/ Begin
    \/ FinishSkipped \/ FinishAsides \/ Place \/ OpenDatabase
    \/ BuildStarts \/ BuildEnds
    \/ AsideMain("aside", "aside wal") \/ AsideWal("aside wal", "place")
    \/ Configure

RbSpec == RbInit /\ [][RbNext]_rbVars

-----------------------------------------------------------------------------
(* Properties.                                                             *)

RbTypeOK ==
    /\ rbPath.wal \in 0..MaxDbs /\ rbPath.main.id \in 0..MaxDbs
    /\ \A f \in rbAside.main : f.id \in 1..MaxDbs
    /\ rbAside.wal \subseteq 1..MaxDbs
    /\ rbBuilt.kind \in {"none", "partial", "rebuilt"}

\* However often a start dies, the daemon never runs on a brand-new store where
\* another was: it runs on the install's own database or on a replacement
\* that records both that the install existed (unless it was still inside its
\* offer) and that nobody has a login on it; never on a half-built one, and
\* never through the WAL of another database.
RunsOnItsStore ==
    At("running") =>
        /\ rbPath.main.kind \in {"fresh", "install", "rebuilt"}
        /\ rbPath.main.kind = "fresh" => rbPath.main.id = 1
        /\ rbPath.main.kind = "rebuilt" => rbPath.main.hold
        /\ (\E f \in rbAside.main : f.consented) => rbPath.main.consented
        /\ rbPath.wal = rbPath.main.id
=============================================================================
