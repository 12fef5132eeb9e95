------------------------------- MODULE BestOf -------------------------------
(***************************************************************************)
(* A run of the Ookla engine (RunReason): its targets are measured one     *)
(* after the other, a download and an upload each, with retries.  The      *)
(* library does not hear a cancelled context, so a transfer whose context  *)
(* dies is left behind and ends by itself.  What every transfer had moved  *)
(* when the run let go of it must be on the rows the scheduler stores.     *)
(*                                                                         *)
(* A transfer moves one unit or nothing; which of the measured servers     *)
(* scores best is left open.  The direction is "both".                     *)
(***************************************************************************)
EXTENDS Naturals, Sequences, Sums

CONSTANTS MaxServers,   \* targets of a best-of round
          Retries,      \* further attempts at a direction
          MaxEngineRuns \* bound: runs in a behaviour

ASSUME BestOfAssumption == MaxServers \in Nat \ {0} /\ Retries \in Nat /\ MaxEngineRuns \in Nat

VARIABLES boRun,     \* the run: where it is, its contexts, what it has measured
          boOrphans, \* liveTransfers, but for the run's own: those left behind that have not returned
          boRuns,    \* (bound) runs begun
          boMoved,   \* (history) what the run's transfers had moved, as it left them
          boRows     \* what the run handed to the scheduler, as rows

boVars == <<boRun, boOrphans, boRuns, boMoved, boRows>>

NoBytes == [down |-> 0, up |-> 0]
Plus(a, b) == [down |-> a.down + b.down, up |-> a.up + b.up]
Sole(leg, n) == [NoBytes EXCEPT ![leg] = n]

NoRun == [pc |-> "idle", targets |-> 0, best |-> FALSE, keep |-> FALSE, at |-> 0, tries |-> 0,
          leg |-> "down", ctx |-> FALSE, slice |-> FALSE, stuck |-> FALSE, bytes |-> NoBytes,
          results |-> <<>>, spent |-> NoBytes]

BoInit ==
    /\ boRun = NoRun /\ boOrphans = [closing |-> 0, stuck |-> FALSE] /\ boRuns = 0
    /\ boMoved = NoBytes /\ boRows = {}

-----------------------------------------------------------------------------
(* Transfers.                                                              *)

Alive == boRun.ctx /\ boRun.slice

\* awaitQuietTransfers: a transfer closes itself within its capture window,
\* which is shorter than the wait, unless it is stuck: when the wait gives up,
\* what is left is the stuck one.
Quiet == boOrphans.closing = 0 /\ ~boOrphans.stuck
BoundElapsed == boOrphans.closing = 0 /\ boOrphans.stuck

\* runTransfer starts nothing once its context is dead.
TransferBegins ==
    /\ boRun.pc = "attempt" /\ Alive
    /\ \E stuck \in {FALSE, ~boOrphans.stuck} : boRun' = [boRun EXCEPT !.pc = "transfer", !.stuck = stuck]
    /\ UNCHANGED <<boOrphans, boRuns, boMoved, boRows>>

\* measure tallies the manager's counters whether the transfer finished or was
\* left behind.
Tallied_Finished(run, n, finished) == IF finished THEN Plus(run.bytes, Sole(run.leg, n)) ELSE run.bytes
Tallied(run, n, finished) == Plus(run.bytes, Sole(run.leg, n))

\* A target that failed leaves its traffic with the run, and the loop stops,
\* waits for the transfer left behind, or takes the next target.
Failed(run, abandoned) ==
    [run EXCEPT !.spent = Plus(@, run.bytes), !.bytes = NoBytes,
                !.pc = IF ~run.ctx THEN "fold" ELSE IF abandoned THEN "resume" ELSE "next"]

\* A target whose upload failed for good keeps its download; the upload's
\* traffic is not its measured upload.
Measured(run, partial) ==
    [run EXCEPT !.results = Append(@, IF partial THEN [down |-> run.bytes.down, up |-> 0, extra |-> run.bytes.up]
                                      ELSE [down |-> run.bytes.down, up |-> run.bytes.up, extra |-> 0]),
                !.bytes = NoBytes, !.pc = IF run.best THEN "next" ELSE "fold"]

\* withRetryPred: again while there are retries, the context lives and the
\* failure is one worth it.
MayRetry(run) == run.tries < Retries /\ run.ctx /\ run.slice
Again(run) == [run EXCEPT !.pc = "attempt", !.tries = @ + 1]

\* A transfer that returns as its context dies may be told apart either way.
TransferEnds ==
    /\ boRun.pc = "transfer" /\ ~boRun.stuck
    /\ \E n \in 0..1, ok \in BOOLEAN, again \in BOOLEAN :
          LET run == [boRun EXCEPT !.bytes = Tallied(boRun, n, TRUE)] IN
          /\ ok => n = 1 /\ Alive
          /\ boMoved' = Plus(boMoved, Sole(run.leg, n))
          /\ boRun' = IF ok /\ run.leg = "down" THEN [run EXCEPT !.pc = "attempt", !.leg = "up", !.tries = 0]
                      ELSE IF ok THEN Measured(run, FALSE)
                      ELSE IF again /\ MayRetry(run) THEN Again(run)
                      ELSE IF run.leg = "up" /\ Alive THEN Measured(run, TRUE)
                      ELSE Failed(run, FALSE)
    /\ UNCHANGED <<boOrphans, boRuns, boRows>>

TransferAbandoned ==
    /\ ~Alive
    /\ \/ /\ boRun.pc = "transfer"
          /\ \E n \in 0..1 :
                /\ boMoved' = Plus(boMoved, Sole(boRun.leg, n))
                /\ boRun' = Failed([boRun EXCEPT !.bytes = Tallied(boRun, n, FALSE), !.stuck = FALSE], TRUE)
          /\ boOrphans' = IF boRun.stuck THEN [boOrphans EXCEPT !.stuck = TRUE]
                          ELSE [boOrphans EXCEPT !.closing = @ + 1]
       \/ boRun.pc = "attempt" /\ boRun' = Failed(boRun, TRUE) /\ UNCHANGED <<boMoved, boOrphans>>
    /\ UNCHANGED <<boRuns, boRows>>

\* A transfer left behind ends by its own capture timer; a stuck one later.
OrphanEnds ==
    /\ \/ boOrphans.closing > 0 /\ boOrphans' = [boOrphans EXCEPT !.closing = @ - 1]
       \/ boOrphans.stuck /\ boOrphans' = [boOrphans EXCEPT !.stuck = FALSE]
    /\ UNCHANGED <<boRun, boRuns, boMoved, boRows>>

-----------------------------------------------------------------------------
(* The run.                                                                *)

RunStarts ==
    /\ boRun.pc = "idle" /\ boRuns < MaxEngineRuns
    /\ \E best \in BOOLEAN, keep \in BOOLEAN, n \in 1..MaxServers :
          /\ best \/ (~keep /\ n <= 2)
          /\ boRun' = [NoRun EXCEPT !.pc = "await", !.best = best, !.keep = keep, !.targets = n, !.ctx = TRUE]
    /\ boRuns' = boRuns + 1
    /\ boMoved' = NoBytes /\ boRows' = {}
    /\ UNCHANGED boOrphans

LinkAwaited == boRun.pc = "await" /\ (Quiet \/ BoundElapsed \/ ~boRun.ctx)
LinkWaited ==
    /\ LinkAwaited
    /\ boRun' = [boRun EXCEPT !.pc = IF boRun.ctx THEN "next" ELSE "fold"]
    /\ UNCHANGED <<boOrphans, boRuns, boMoved, boRows>>

NextTarget ==
    /\ boRun.pc = "next"
    /\ boRun' = IF boRun.ctx /\ boRun.at < boRun.targets
                THEN [boRun EXCEPT !.pc = "attempt", !.at = @ + 1, !.tries = 0, !.leg = "down", !.slice = TRUE]
                ELSE [boRun EXCEPT !.pc = "fold"]
    /\ UNCHANGED <<boOrphans, boRuns, boMoved, boRows>>

\* resumeAfterAbandon
Resume ==
    /\ boRun.pc = "resume"
    /\ \/ boRun.at = boRun.targets /\ boRun' = [boRun EXCEPT !.pc = "fold"]
       \/ boRun.at < boRun.targets /\ Quiet /\ boRun' = [boRun EXCEPT !.pc = "next"]
       \/ (BoundElapsed \/ ~boRun.ctx) /\ ~Quiet /\ boRun' = [boRun EXCEPT !.pc = "fold"]
    /\ UNCHANGED <<boOrphans, boRuns, boMoved, boRows>>

\* An abort or the run's deadline; a target's own slice of it.
ContextDies ==
    /\ boRun.pc # "idle" /\ boRun.ctx
    /\ boRun' = [boRun EXCEPT !.ctx = FALSE]
    /\ UNCHANGED <<boOrphans, boRuns, boMoved, boRows>>
SliceEnds ==
    /\ boRun.pc \in {"attempt", "transfer"} /\ boRun.slice
    /\ boRun' = [boRun EXCEPT !.slice = FALSE]
    /\ UNCHANGED <<boOrphans, boRuns, boMoved, boRows>>

\* foldRoundBytes: the winner's row carries the round's traffic, but for kept
\* losers' own; a row counts upload bytes only where an upload was measured.
TotalOf(field, results) == Total([i \in DOMAIN results |-> results[i][field]], DOMAIN results)
Fold(own, total, spent, extra) ==
    {[kind |-> "run", down |-> total.down + spent.down, up |-> IF own.up = 0 THEN 0 ELSE total.up + spent.up],
     [kind |-> "usage", down |-> 0, up |-> extra + (IF own.up = 0 THEN total.up + spent.up ELSE 0)]}

\* bestIndex: a target that measured both directions outscores a partial one,
\* unless the first round of an install goes by ping alone.
Winners(results, bootstrap) ==
    LET whole == {i \in DOMAIN results : results[i].up > 0}
    IN  IF bootstrap \/ whole = {} THEN DOMAIN results ELSE whole

Rows(run, win) ==
    LET own == run.results[win]
        total == [down |-> TotalOf("down", run.results), up |-> TotalOf("up", run.results)]
        extra == TotalOf("extra", run.results)
        kept == run.keep /\ run.best /\ Len(run.results) > 1
    IN  Fold(own, IF kept THEN own ELSE total, run.spent, extra)
        \cup {[kind |-> "member", at |-> i, down |-> run.results[i].down, up |-> run.results[i].up] :
                 i \in IF kept THEN DOMAIN run.results \ {win} ELSE {}}

RunFolds ==
    /\ boRun.pc = "fold"
    /\ IF boRun.results = <<>>
       THEN boRows' = {[kind |-> "failed", down |-> boRun.spent.down, up |-> boRun.spent.up]} /\ boRun' = [boRun EXCEPT !.pc = "done"]
       ELSE \E bootstrap \in {FALSE, boRun.best} : \E win \in Winners(boRun.results, bootstrap) :
               /\ boRows' = Rows(boRun, win)
               /\ boRun' = [boRun EXCEPT !.pc = "done", !.at = win]
    /\ UNCHANGED <<boOrphans, boRuns, boMoved>>

RunEnds ==
    /\ boRun.pc = "done" /\ boRun' = NoRun /\ boMoved' = NoBytes /\ boRows' = {}
    /\ UNCHANGED <<boOrphans, boRuns>>

BoNext ==
    \/ RunStarts \/ LinkWaited \/ NextTarget \/ Resume \/ RunFolds \/ RunEnds
    \/ TransferBegins \/ TransferEnds \/ TransferAbandoned \/ OrphanEnds
    \/ ContextDies \/ SliceEnds

BoSpec == BoInit /\ [][BoNext]_boVars

-----------------------------------------------------------------------------
(* Properties.                                                             *)

BoTypeOK ==
    /\ boRun.pc \in {"idle", "await", "next", "attempt", "transfer", "resume", "fold", "done"}
    /\ boRun.leg \in {"down", "up"} /\ boRun.at \in 0..MaxServers /\ boRun.tries \in 0..Retries
    /\ boOrphans \in [closing : Nat, stuck : BOOLEAN] /\ boRuns \in 0..MaxEngineRuns

\* However a run ends - a target failed, a transfer was left behind, an upload
\* gave way, the losers kept or not, the winner picked by ping - the rows count
\* each unit its transfers had moved exactly once, and no row counts upload
\* bytes for a server whose upload was not measured.
SpendOnTheBill ==
    boRun.pc = "done" =>
        /\ Total([r \in boRows |-> r.down], boRows) = boMoved.down
        /\ Total([r \in boRows |-> r.up], boRows) = boMoved.up
        /\ \A r \in boRows : r.kind = "run" => (r.up > 0 <=> boRun.results[boRun.at].up > 0)

\* Two transfers share the link only where one of them has outlived its own
\* capture window: neither the next target nor the next run, however soon it
\* follows an abort, measures beside what the last one left behind.
LinkNotShared ==
    boRun.pc = "transfer" => boOrphans.closing = 0

\* A run accounts for what it moved, and measures with the link to itself.
EngineTrue == SpendOnTheBill /\ LinkNotShared
=============================================================================
