------------------------------ MODULE Restore ------------------------------
(***************************************************************************)
(* A restore beside a cleanup that was already running and beside Delete   *)
(* now: how handleImport tells the operator of every restored row that is  *)
(* gone, or goes at the next cleanup.  The restore knows its rows by rowid *)
(* (RowMark), and a table that is emptied hands its rowids out again.      *)
(*                                                                         *)
(* One table stands for a category (latency and speed; the outage record's *)
(* lock only takes interleavings away).  A row has an age class, and a     *)
(* window deletes the classes under its cutoff; the last class is stamped  *)
(* past the future horizon.  The daemon's own newest row is new.           *)
(***************************************************************************)
EXTENDS Naturals, FiniteSets, FiniteSetsExt

CONSTANTS MaxRestored, \* rows the backup brings
          MaxOwn,      \* rows the daemon writes meanwhile
          MaxClears    \* how often Delete now is pressed

ASSUME RestoreAssumption == {MaxRestored, MaxOwn, MaxClears} \subseteq Nat

VARIABLES rsRows,    \* the table
          rsCut,     \* the cutoff of the window in force
          rsPass,    \* the cleanup
          rsWatch,   \* what a watch has noted, and the Delete now in progress
          rsImport,  \* the restore
          rsLost,    \* (history) how restored rows were lost
          rsUsed     \* how much of each bound is used up

rsVars == <<rsRows, rsCut, rsPass, rsWatch, rsImport, rsLost, rsUsed>>

Old == 1
New == 2
FarAhead == 9
Cutoffs == {1, 2}    \* keep forever, or past the old ones
NextId == Max({r.id : r \in rsRows} \cup {0}) + 1

NoImport == [pc |-> "idle", mark |-> 0, clearedAt |-> 0, oldest |-> FarAhead, landed |-> FALSE,
             cut |-> 1, emptied |-> 0, due |-> 0, ahead |-> 0, there |-> [due |-> 0, ahead |-> 0], told |-> {}]

RsInit ==
    /\ rsRows = {[id |-> 1, age |-> Old, own |-> TRUE], [id |-> 2, age |-> New, own |-> TRUE]}
    /\ rsCut \in Cutoffs
    /\ rsPass = [pc |-> "off", cut |-> 1]
    /\ rsWatch = [rows |-> 0, cut |-> 0, cleared |-> 0, clearing |-> "no"]
    /\ rsImport = NoImport
    /\ rsLost = {}
    /\ rsUsed = [restored |-> 0, own |-> 0, clears |-> 0]

-----------------------------------------------------------------------------
(* The cleanup, in chunks of one row.                                      *)

\* HoldCleanup: from the start of the restore to its reply none starts.
Held == rsImport.pc \notin {"idle", "done"}
Watching == Held

PassStarts ==
    /\ rsPass.pc = "off" /\ ~Held
    /\ rsPass' = [pc |-> "age", cut |-> rsCut]
    /\ UNCHANGED <<rsRows, rsCut, rsWatch, rsImport, rsLost, rsUsed>>

\* Whether a loss is the restore's to tell: one before its count, or one at the
\* next cleanup under a window no shorter.
Loses(r, how) ==
    rsLost' = IF r.own \/ (rsImport.pc = "done" /\ rsCut > rsImport.cut) THEN rsLost
              ELSE rsLost \cup {IF rsImport.pc = "done" THEN <<"next", how>> ELSE <<"during", how>>}

\* Every chunk is noted in the watch, one by age with the cutoff it cut at.
PassDeletes(arm, due, noted, next) ==
    /\ rsPass.pc = arm
    /\ IF due = {}
       THEN rsPass' = [rsPass EXCEPT !.pc = next] /\ UNCHANGED <<rsRows, rsWatch, rsLost>>
       ELSE LET r == CHOOSE x \in due : \A y \in due : x.id <= y.id IN
            /\ rsRows' = rsRows \ {r}
            /\ Loses(r, arm)
            /\ rsWatch' = IF Watching
                          THEN [rsWatch EXCEPT !.rows = 1, !.cut = Max({@, noted})]
                          ELSE rsWatch
            /\ UNCHANGED rsPass
    /\ UNCHANGED <<rsCut, rsImport, rsUsed>>

Pass ==
    \/ LET cut == Min({rsPass.cut, rsCut}) IN
       PassDeletes("age", {r \in rsRows : r.age < cut}, cut, "ahead")
    \/ PassDeletes("ahead", {r \in rsRows : r.age = FarAhead}, 0, "off")

\* The operator moves a window.
SetWindow ==
    /\ rsCut' \in Cutoffs \ {rsCut}
    /\ UNCHANGED <<rsRows, rsPass, rsWatch, rsImport, rsLost, rsUsed>>

OwnRow ==
    /\ rsUsed.own < MaxOwn
    /\ rsRows' = rsRows \cup {[id |-> NextId, age |-> New, own |-> TRUE]}
    /\ rsUsed' = [rsUsed EXCEPT !.own = @ + 1]
    /\ UNCHANGED <<rsCut, rsPass, rsWatch, rsImport, rsLost>>

-----------------------------------------------------------------------------
(* Delete now: announced, committed, and only then noted as done.          *)

ClearBegins ==
    /\ rsWatch.clearing = "no" /\ rsUsed.clears < MaxClears
    /\ rsWatch' = [rsWatch EXCEPT !.clearing = "begun"]
    /\ rsUsed' = [rsUsed EXCEPT !.clears = @ + 1]
    /\ UNCHANGED <<rsRows, rsCut, rsPass, rsImport, rsLost>>

ClearCommits ==
    /\ rsWatch.clearing = "begun"
    /\ rsRows' = {}
    /\ rsWatch' = [rsWatch EXCEPT !.clearing = "emptied"]
    /\ rsLost' = IF rsImport.pc # "done" /\ \E r \in rsRows : ~r.own
                 THEN rsLost \cup {<<"during", "clear">>} ELSE rsLost
    /\ UNCHANGED <<rsCut, rsPass, rsImport, rsUsed>>

\* One that failed ends without having emptied anything.
ClearEnds ==
    /\ rsWatch.clearing # "no"
    /\ rsWatch' = [rsWatch EXCEPT !.clearing = "no",
                      !.cleared = IF rsWatch.clearing = "emptied" /\ Watching THEN @ + 1 ELSE @]
    /\ UNCHANGED <<rsRows, rsCut, rsPass, rsImport, rsLost, rsUsed>>

-----------------------------------------------------------------------------
(* The restore.                                                            *)

Step(pc) == rsImport' = [rsImport EXCEPT !.pc = pc]

\* HoldCleanup and WatchPrunes
ImportBegins ==
    /\ rsImport.pc = "idle" /\ Step("tally")
    /\ rsWatch' = [rsWatch EXCEPT !.rows = 0, !.cut = 0, !.cleared = 0]
    /\ UNCHANGED <<rsRows, rsCut, rsPass, rsLost, rsUsed>>

\* How often the table had been emptied is read before where it stands.
ImportTallies ==
    /\ rsImport.pc = "tally"
    /\ rsImport' = [rsImport EXCEPT !.pc = "mark", !.clearedAt = rsWatch.cleared]
    /\ UNCHANGED <<rsRows, rsCut, rsPass, rsWatch, rsLost, rsUsed>>

ImportMarks ==
    /\ rsImport.pc = "mark"
    /\ rsImport' = [rsImport EXCEPT !.pc = "rows", !.mark = NextId - 1]
    /\ UNCHANGED <<rsRows, rsCut, rsPass, rsWatch, rsLost, rsUsed>>

ImportRow ==
    /\ rsImport.pc = "rows" /\ rsUsed.restored < MaxRestored
    /\ \E age \in {Old, FarAhead} :
          /\ rsRows' = rsRows \cup {[id |-> NextId, age |-> age, own |-> FALSE]}
          /\ rsImport' = [rsImport EXCEPT !.landed = TRUE, !.oldest = Min({@, age})]
    /\ rsUsed' = [rsUsed EXCEPT !.restored = @ + 1]
    /\ UNCHANGED <<rsCut, rsPass, rsWatch, rsLost>>

\* The backup's settings go live last, and may only lengthen a window; then
\* the windows in force and the watch are read for the count.
CountStarts ==
    /\ rsImport.pc = "rows"
    /\ \E cut \in 1..rsCut :
          /\ rsCut' = cut
          /\ rsImport' = [rsImport EXCEPT !.pc = "due", !.cut = cut, !.emptied = rsWatch.cleared]
    /\ UNCHANGED <<rsRows, rsPass, rsWatch, rsLost, rsUsed>>

\* A table emptied since it was marked is counted from the start.
Since_Mark == rsImport.mark
Since == IF rsImport.emptied > rsImport.clearedAt THEN 0 ELSE rsImport.mark

\* PruneDue
CountsDue ==
    /\ rsImport.pc = "due"
    /\ LET due == {r \in rsRows : r.age < rsImport.cut} IN
       rsImport' = [rsImport EXCEPT !.pc = "ahead", !.due = Cardinality({r \in due : r.id > Since}),
                                    !.there.due = Cardinality({r \in due : ~r.own})]
    /\ UNCHANGED <<rsRows, rsCut, rsPass, rsWatch, rsLost, rsUsed>>

\* PruneDueAhead
CountsAhead ==
    /\ rsImport.pc = "ahead"
    /\ LET due == {r \in rsRows : r.age = FarAhead} IN
       rsImport' = [rsImport EXCEPT !.pc = "reply", !.ahead = Cardinality({r \in due : r.id > Since}),
                                    !.there.ahead = Cardinality({r \in due : ~r.own})]
    /\ UNCHANGED <<rsRows, rsCut, rsPass, rsWatch, rsLost, rsUsed>>

\* restoredRowsDue closes the watch and words the reply.  A Delete now that is
\* under way, or ended during the count, makes the count mean nothing.
Deleting == rsWatch.clearing # "no" \/ rsWatch.cleared # rsImport.emptied
Deleted == rsImport.emptied > rsImport.clearedAt
Replies ==
    /\ rsImport.pc = "reply"
    /\ LET counted == ~(rsImport.landed /\ Deleting)
           told == (IF rsImport.due > 0 /\ counted THEN {"due"} ELSE {})
              \cup (IF rsImport.ahead > 0 /\ counted THEN {"ahead"} ELSE {})
              \cup (IF rsImport.landed /\ (Deleting \/ Deleted) THEN {"clear"} ELSE {})
              \cup (IF counted THEN {"counted"} ELSE {})
              \cup (IF rsWatch.rows > 0 /\ rsImport.landed /\ rsImport.oldest < rsWatch.cut
                    THEN {"gone"} ELSE {})
       IN  rsImport' = [rsImport EXCEPT !.pc = "done", !.told = told]
    /\ UNCHANGED <<rsRows, rsCut, rsPass, rsWatch, rsLost, rsUsed>>

RsNext ==
    \/ PassStarts \/ Pass \/ SetWindow \/ OwnRow
    \/ ClearBegins \/ ClearCommits \/ ClearEnds
    \/ ImportBegins \/ ImportTallies \/ ImportMarks \/ ImportRow
    \/ CountStarts \/ CountsDue \/ CountsAhead \/ Replies

RsSpec == RsInit /\ [][RsNext]_rsVars

-----------------------------------------------------------------------------
(* Properties.                                                             *)

RsTypeOK ==
    /\ rsRows \subseteq [id : 1..(4 + MaxRestored + MaxOwn), age : {Old, New, FarAhead}, own : BOOLEAN]
    /\ \A r, s \in rsRows : r.id = s.id => r = s
    /\ rsImport.told \subseteq {"due", "ahead", "clear", "gone", "counted"}

\* The reply leaves no restored row unmentioned: one a running cleanup deleted
\* for its age, one a Delete now took, and every one the next cleanup deletes.
\* And what it counts are exactly the restore's rows, never the daemon's own.
\* (A row stamped ahead of the clock that the running cleanup deletes is not
\* mentioned: the watch notes no cutoff for that arm.)
RestoreTells ==
    rsImport.pc = "done" =>
        /\ <<"during", "age">> \in rsLost => "gone" \in rsImport.told
        /\ <<"during", "clear">> \in rsLost => "clear" \in rsImport.told
        /\ <<"next", "age">> \in rsLost => rsImport.told \cap {"due", "clear"} # {}
        /\ <<"next", "ahead">> \in rsLost => rsImport.told \cap {"ahead", "clear"} # {}
        /\ "counted" \in rsImport.told => rsImport.there = [due |-> rsImport.due, ahead |-> rsImport.ahead]

=============================================================================
