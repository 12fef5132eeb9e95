---------------------------- MODULE SpeedLedger ----------------------------
(***************************************************************************)
(* The rows a speedtest leaves behind (internal/store, tables speed and    *)
(* speed_servers; written by internal/speedtest).  A run stores its result *)
(* first and then, one statement each, the bytes its failed attempts spent,*)
(* its selection report and the losers of its round.  Nothing but the      *)
(* second a row sits on ties them together, while runs fail in a second,   *)
(* the clock is set back, the operator deletes runs, and cleanups and a    *)
(* restore come in between.                                                *)
(***************************************************************************)
EXTENDS Integers, FiniteSets, FiniteSetsExt, Sequences, SequencesExt, Sums

CONSTANTS MaxRuns, LedgerEnd,  \* bounds: runs, time
          MaxOdd,       \* bound: steps back of the clock and exports, together
          Retained,     \* the retention of runs, in seconds
          RunSlack,     \* pruneFutureSlack
          ReadSkew,     \* metricsFutureSkew
          AvgOver,      \* runs an estimate averages over (20)
          Budgets,      \* points a chart may ask for
          PageSize      \* rows of a page of the runs table

ASSUME SpeedLedgerAssumption ==
    /\ {MaxRuns, LedgerEnd, MaxOdd, Retained, RunSlack, ReadSkew} \subseteq Nat
    /\ {AvgOver, PageSize} \cup Budgets \subseteq Nat \ {0}

VARIABLES slNow, slBack,   \* the wall clock, and how far it was set back so far
          slRows,      \* table speed; run and part say what a row is (history)
          slReports,   \* table speed_servers: a report and how many servers it measured
          slWriting,   \* the run whose rows are being stored
          slBackup,    \* an export, once one was made
          slRuns,      \* runs so far
          slOnBill,    \* (history) the rows that should be there
          slStray      \* (history) rows whose result had gone when they were stored, or went before them

slVars == <<slNow, slBack, slRows, slReports, slWriting, slBackup, slRuns, slOnBill, slStray>>

NotWriting == [run |-> 0, at |-> 0, loser |-> 0, servers |-> 0, left |-> <<>>]
NoExport == [made |-> FALSE, rows |-> {}, reports |-> {}]

SlInit ==
    /\ slNow = 2 /\ slBack = 0
    /\ slRows = {} /\ slReports = {} /\ slOnBill = {} /\ slStray = {}
    /\ slWriting = NotWriting /\ slBackup = NoExport /\ slRuns = 0

-----------------------------------------------------------------------------
(* What a read takes a row for.                                            *)

NotFailed(r) == ~r.failed
IsResult(r) == NotFailed(r) /\ r.round = 0
IsFailure(r) == r.failed /\ r.stage /\ r.of = 0 /\ r.round = 0
IsListed(r) == NotFailed(r) \/ IsFailure(r)

ReadHorizon == slNow + ReadSkew
NewestRuns(rows, n) == {r \in rows : Cardinality({s \in rows : s.at > r.at}) < n}
BytesOf(rows) == Total([r \in rows |-> r.bytes], rows)

-----------------------------------------------------------------------------
(* Storing.                                                                *)

\* InsertSpeedTS: the second asked for, or the first free one after it.
FirstFree(t) ==
    LET taken == {r.at : r \in slRows}
    IN  IF t \notin taken THEN t ELSE Min({s + 1 : s \in {u \in taken : u >= t /\ u + 1 \notin taken}})

ResultOf(r, rows) == {s \in rows : s.run = r.run /\ s.part \in {"result", "failure"}}
Added(r) ==
    /\ slRows' = slRows \cup {r} /\ slOnBill' = slOnBill \cup {r}
    /\ slStray' = IF ResultOf(r, slRows') = {} THEN slStray \cup {r} ELSE slStray

\* The result.  One server, or a round of two whose loser is folded into the
\* winner's bytes or kept as a row of its own; extra is what failed attempts spent.
RunMeasured ==
    /\ slWriting = NotWriting /\ slRuns < MaxRuns /\ slRuns' = slRuns + 1
    /\ \E kind \in {"single", "folded", "kept"}, extra \in BOOLEAN :
          \E loser \in IF kind = "kept" THEN {s \in {0, slNow - 1, slNow} : s >= 0} ELSE {0} :
             LET at == FirstFree(slNow)
             IN  /\ Added([run |-> slRuns', part |-> "result", at |-> at, of |-> 0, round |-> 0,
                           failed |-> FALSE, stage |-> FALSE, bytes |-> IF kind = "folded" THEN 2 ELSE 1])
                 /\ slWriting' = [run |-> slRuns', at |-> at, loser |-> loser,
                                  servers |-> IF kind = "single" THEN 1 ELSE 2,
                                  left |-> (IF extra THEN <<"extra">> ELSE <<>>) \o <<"report">>
                                           \o (IF kind = "kept" THEN <<"member">> ELSE <<>>)]
    /\ UNCHANGED <<slNow, slBack, slReports, slBackup>>

Attached ==
    LET at == slWriting.at
        row == [run |-> slWriting.run, part |-> Head(slWriting.left), at |-> 0, of |-> 0, round |-> 0,
                failed |-> FALSE, stage |-> FALSE, bytes |-> 1]
        wanted == IF slWriting.loser \in 1..(at - 1) THEN slWriting.loser ELSE at - 1
    IN  IF row.part = "extra" THEN [row EXCEPT !.at = FirstFree(at + 1), !.of = at, !.failed = TRUE]
        ELSE [row EXCEPT !.at = FirstFree(wanted), !.round = at]

\* recordExtraUsage, InsertSpeedServers, recordLosers: one that cannot be
\* stored is logged and the next one is tried.
RowStored ==
    /\ slWriting.left # <<>>
    /\ slWriting' = IF Len(slWriting.left) = 1 THEN NotWriting ELSE [slWriting EXCEPT !.left = Tail(@)]
    /\ \/ Head(slWriting.left) = "report"
          /\ slReports' = slReports \cup {[run |-> slWriting.run, at |-> slWriting.at, servers |-> slWriting.servers]}
          /\ UNCHANGED <<slRows, slOnBill, slStray>>
       \/ Head(slWriting.left) # "report" /\ Added(Attached) /\ UNCHANGED slReports
       \/ UNCHANGED <<slRows, slOnBill, slStray, slReports>>
    /\ UNCHANGED <<slNow, slBack, slBackup, slRuns>>

\* A shutdown or a crash between two of them.
WritingCut ==
    /\ slWriting # NotWriting /\ slWriting' = NotWriting
    /\ UNCHANGED <<slNow, slBack, slRows, slReports, slBackup, slRuns, slOnBill, slStray>>

\* recordFailedUsage: bytes moved, or a failure the operator wants recorded.
RunFailed ==
    /\ slWriting = NotWriting /\ slRuns < MaxRuns /\ slRuns' = slRuns + 1
    /\ \E stage, moved \in BOOLEAN :
          /\ stage \/ moved
          /\ Added([run |-> slRuns', part |-> "failure", at |-> FirstFree(slNow), of |-> 0, round |-> 0,
                    failed |-> TRUE, stage |-> stage, bytes |-> IF moved THEN 1 ELSE 0])
    /\ UNCHANGED <<slNow, slBack, slReports, slWriting, slBackup>>

-----------------------------------------------------------------------------
(* Deleting.                                                               *)

\* DeleteSpeed: one row on that second that bills for no other run, the report,
\* the members of its round, and the accounting rows that name it.
DeletedBy_Position(ts) == {r \in slRows : r.at = ts \/ r.round = ts \/ (r.at = ts + 1 /\ r.failed)}
DeletedBy(ts) ==
    LET here == {r \in slRows : r.at = ts /\ r.of \in {0, ts}}
        first == {r \in here : r.of = 0}
    IN  (IF here = {} THEN {} ELSE {CHOOSE r \in (IF first # {} THEN first ELSE here) : TRUE})
        \cup {r \in slRows : r.round = ts \/ (r.of = ts /\ r.failed)}

\* The operator names a row of the runs table by its second.
RunRowDeleted ==
    /\ \E r \in slRows :
          /\ IsListed(r)
          /\ slRows' = slRows \ DeletedBy(r.at)
          /\ slReports' = {p \in slReports : p.at # r.at}
          /\ slOnBill' = IF r.part = "result" THEN {s \in slOnBill : s.run # r.run} ELSE slOnBill \ {r}
    /\ UNCHANGED <<slNow, slBack, slWriting, slBackup, slRuns, slStray>>

SpeedCleared ==
    /\ slRows # {} /\ slRows' = {} /\ slReports' = {} /\ slOnBill' = {}
    /\ UNCHANGED <<slNow, slBack, slWriting, slBackup, slRuns, slStray>>

\* The cleanup; a pass may stop between the runs and their reports.
RunExpired(at) == at < slNow - Retained \/ at > slNow + RunSlack
SpeedPruned ==
    /\ \E r \in slRows : RunExpired(r.at)
    /\ slRows' = {r \in slRows : ~RunExpired(r.at)}
    /\ slReports' \in {slReports, {p \in slReports : ~RunExpired(p.at)}}
    /\ slOnBill' = {r \in slOnBill : ~RunExpired(r.at)}
    /\ slStray' = slStray \cup {r \in slRows' : ResultOf(r, slRows') = {}}
    /\ UNCHANGED <<slNow, slBack, slWriting, slBackup, slRuns>>

-----------------------------------------------------------------------------
(* A backup, and the clock.                                                *)

OddSoFar == slBack + (IF slBackup.made THEN 1 ELSE 0)
SpeedExported ==
    /\ ~slBackup.made /\ OddSoFar < MaxOdd
    /\ slBackup' = [made |-> TRUE, rows |-> slRows, reports |-> slReports]
    /\ UNCHANGED <<slNow, slBack, slRows, slReports, slWriting, slRuns, slOnBill, slStray>>

\* importTableBatch keeps the row that is there.  Not followed: a backup some
\* second of which another row holds by now.
SpeedRestored ==
    /\ slBackup.made
    /\ \A r \in slBackup.rows, s \in slRows : r.at = s.at => r = s
    /\ slRows' = slRows \cup {r \in slBackup.rows : \A s \in slRows : s.at # r.at}
    /\ slReports' = slReports \cup {p \in slBackup.reports : \A q \in slReports : q.at # p.at}
    /\ slOnBill' = slOnBill \cup slBackup.rows
    /\ UNCHANGED <<slNow, slBack, slWriting, slBackup, slRuns, slStray>>

SecondPasses ==
    /\ slNow < LedgerEnd /\ slNow' = slNow + 1
    /\ UNCHANGED <<slBack, slRows, slReports, slWriting, slBackup, slRuns, slOnBill, slStray>>

ClockBack ==
    /\ OddSoFar < MaxOdd /\ slBack' = slBack + 1
    /\ slNow > 2 /\ slNow' = slNow - 1
    /\ UNCHANGED <<slRows, slReports, slWriting, slBackup, slRuns, slOnBill, slStray>>

SlNext ==
    \/ RunMeasured \/ RowStored \/ WritingCut \/ RunFailed
    \/ RunRowDeleted \/ SpeedCleared \/ SpeedPruned
    \/ SpeedExported \/ SpeedRestored
    \/ SecondPasses \/ ClockBack

SlSpec == SlInit /\ [][SlNext]_slVars

-----------------------------------------------------------------------------
(* What is read from them.                                                 *)

\* The estimate of the next run: what the last rounds moved, losers included,
\* and how many servers they measured.
ResultRows == {r \in slRows : IsResult(r) /\ r.at <= ReadHorizon}
Members(r) == {s \in slRows : s.round = r.at}
RoundBytes(r) == r.bytes + BytesOf(Members(r))
AvgBytes ==
    LET last == NewestRuns(ResultRows, AvgOver)
    IN  IF last = {} THEN 0 ELSE Total([r \in last |-> RoundBytes(r)], last) \div Cardinality(last)
ReportsOf(r) == {p \in slReports : p.at = r.at}
ServersOf(r) == Max({1, Total([p \in ReportsOf(r) |-> p.servers], ReportsOf(r))})
AvgServers ==
    LET last == NewestRuns(ResultRows, AvgOver)
    IN  IF last = {} THEN 1 ELSE Total([r \in last |-> ServersOf(r)], last) \div Cardinality(last)

\* The runs table: rows newest first, a page of them, where a run stands.
Seconds(rows) ==
    LET ats == {r.at : r \in rows}
    IN  [i \in 1..Cardinality(ats) |-> CHOOSE t \in ats : Cardinality({u \in ats : u < t}) = i - 1]
ListedRows == {r \in slRows : IsListed(r)}
SpeedRuns(n, offset) ==
    LET newestFirst == Reverse(Seconds(ListedRows))
    IN  SubSeq(newestFirst, offset + 1, Min({offset + n, Len(newestFirst)}))
SpeedRunOffset(ts) == Cardinality({r \in ListedRows : r.at > ts})

\* The chart: the runs of the window, thinned to a number of points by position
\* and the newest kept.
Charted == Seconds({r \in slRows : NotFailed(r) /\ r.at < ReadHorizon})
Thinned(all, budget) ==
    IF Len(all) <= budget THEN all
    ELSE [i \in 1..budget |-> IF i = budget THEN Last(all)
                              ELSE all[((i - 1) * Len(all)) \div budget + 1]]
LatestSpeed == {r \in ResultRows : \A s \in ResultRows : s.at <= r.at}
SpeedRunCount == Cardinality({r \in slRows : IsResult(r)})
SpeedCount == Cardinality({r \in slRows : NotFailed(r)})

-----------------------------------------------------------------------------
SlTypeOK ==
    /\ slNow \in 0..LedgerEnd /\ slBack \in 0..MaxOdd /\ slRuns \in 0..MaxRuns
    /\ \A r \in slRows \cup slOnBill :
          /\ r.run \in 1..MaxRuns /\ r.part \in {"result", "extra", "member", "failure"}
          /\ {r.at, r.of, r.round, r.bytes} \subseteq Nat
    /\ \A p \in slReports : p.run \in 1..MaxRuns /\ p.servers \in 1..2
    /\ slWriting.left \in Seq({"extra", "report", "member"})

\* Every row and every byte is where it should be.  Through collisions of
\* seconds, a clock set back, deletes, cleanups and restores: the rows kept
\* are those of the runs that were made and not deleted, all of them
\* (a delete takes what belongs to its run and nothing of another's);
\* no two rows sit on one second; what a result is joined with - the losers of
\* its round, the bytes spent beside it, its selection report - is its own;
\* and the estimate of the next run counts no byte twice.  Rows and reports
\* stored after their run was deleted or pruned are nobody's: they stay, and a
\* run that gets their second is taken for theirs.
BillTrue ==
    /\ slRows \ slStray = slOnBill \ slStray
    /\ \A r, s \in slRows : r.at = s.at => r = s
    /\ \A r \in ResultRows :
          /\ \A s \in slRows \ slStray : s.round = r.at \/ s.of = r.at => s.run = r.run
          /\ \A p \in ReportsOf(r) : ResultOf(p, slRows) # {} => p.run = r.run
    /\ Cardinality(NewestRuns(ResultRows, AvgOver)) * AvgBytes <= BytesOf(slRows)
    /\ (\A p \in slReports : ResultOf(p, slRows) # {}) => AvgServers \in 1..2

\* The surfaces agree on the runs.  A thinned chart has as many points as it
\* was given room for, in order, and ends with its newest run; each of its
\* points is on the page of the runs table that the offset names; the count of
\* the table's tests is no less than that of its runs; and the run the status
\* shows is the chart's newest that is no loser's, unless it sits on the second
\* the chart's window ends with.
ChartTrue ==
    /\ \A budget \in Budgets :
          LET points == Thinned(Charted, budget)
          IN  /\ Len(points) = Min({budget, Len(Charted)})
              /\ \A i \in 1..(Len(points) - 1) : points[i] < points[i + 1]
              /\ points # <<>> => Last(points) = Last(Charted)
              /\ \A i \in DOMAIN points :
                    LET page == SpeedRunOffset(points[i]) \div PageSize
                    IN  \E k \in 1..PageSize : LET rows == SpeedRuns(PageSize, page * PageSize)
                                               IN  k <= Len(rows) /\ rows[k] = points[i]
    /\ SpeedRunCount <= SpeedCount /\ SpeedCount <= Cardinality(ListedRows)
    /\ \A r \in LatestSpeed :
          r.at = ReadHorizon \/ r.at = Max({s.at : s \in {t \in slRows : IsResult(t) /\ t.at < ReadHorizon}})
\* Whatever happens to the rows, what is read off them is true of the runs.
LedgerTrue == BillTrue /\ ChartTrue
=============================================================================
