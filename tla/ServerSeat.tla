----------------------------- MODULE ServerSeat -----------------------------
(***************************************************************************)
(* Which server an automatic speedtest measures.  The server of the last   *)
(* automatic run keeps its seat while its ping stays within noise of the   *)
(* fastest; now and then a scheduled run measures its rival instead, which *)
(* takes the seat only if it beats what the seat's holder has been         *)
(* measuring.  Nothing but the stored runs remembers any of this.          *)
(*                                                                         *)
(* A reading is the server's own rate or, where it accepts bytes faster    *)
(* than it delivers them, four times that; a failed one is 0.              *)
(***************************************************************************)
EXTENDS Naturals, Sequences, FiniteSets, SequencesExt

CONSTANTS Servers, Rate,     \* Rate[s]: what the line does to s
          OnNet,             \* the servers of the line's own provider
          Fields,            \* the ranked lists a run may find: <<[id, ms], ...>>, 0 ms unanswered
          Window,            \* winners the incumbent is looked for among (12)
          Every,             \* automatic runs between two challenges
          History,           \* scores of the holder a challenge is judged by (12)
          MinHistory,        \* ... and how many it takes (3)
          GoodFrom,          \* scores from which the best one is set aside (5)
          MaxTests, MaxInflated  \* bounds: stored runs; inflated readings

NoServer == "none"

ASSUME ServerSeatAssumption ==
    /\ Rate \in [Servers -> Nat \ {0}] /\ OnNet \subseteq Servers /\ NoServer \notin Servers
    /\ Fields \subseteq Seq([id : Servers, ms : Nat]) \ {<<>>}
    /\ \A f \in Fields : \A i, j \in DOMAIN f : i < j =>
          f[i].id # f[j].id /\ (f[j].ms > 0 => f[i].ms > 0 /\ f[i].ms <= f[j].ms)
    /\ {Window, Every, History, MinHistory, GoodFrom} \subseteq Nat \ {0} /\ GoodFrom # 1

VARIABLES seRows,      \* the winner row of each stored run, newest first
          seBudget,    \* (bound) runs stored, and inflated readings, so far
          seRun        \* (history) what the last run was, and how its holder fared

seVars == <<seRows, seBudget, seRun>>

NoneRan == [kind |-> "none", seated |-> TRUE, failed |-> FALSE]

SeInit == seRows = <<>> /\ seBudget = [tests |-> 0, inflated |-> 0] /\ seRun = NoneRan

-----------------------------------------------------------------------------
(* What the stored runs tell.                                              *)

\* The first of some positions, 0 where there is none.
FirstOf(found) == IF found = {} THEN 0 ELSE CHOOSE i \in found : \A j \in found : i <= j

Skipped(row) == row.reason \in {"pinned", "challenger"}
Incumbent(rows) ==
    LET first == FirstOf({i \in DOMAIN rows : i <= Window /\ ~Skipped(rows[i])})
    IN  IF first = 0 THEN NoServer ELSE rows[first].id

\* newChallengeFn: the last Every automatic runs are there and held none.
ChallengeRun(row) == row.reason \in {"challenger", "challenger_won", "challenger_failed"}
ChallengeDue(rows) ==
    LET auto == SelectSeq(rows, LAMBDA row : row.reason # "pinned")
    IN  Len(auto) >= Every /\ \A i \in 1..Every : ~ChallengeRun(auto[i])

\* The k-th of some numbers in rising order: fewer than k are below it, and at
\* least k up to it.
Kth(read, k) ==
    CHOOSE v \in {read[i] : i \in DOMAIN read} :
        /\ Cardinality({i \in DOMAIN read : read[i] < v}) < k
        /\ k <= Cardinality({i \in DOMAIN read : read[i] <= v})

\* RecentServerScores, in rising order.
Scores(rows, s) ==
    LET of == {i \in DOMAIN rows : s \in DOMAIN rows[i].scores}
        last == {i \in of : Cardinality({j \in of : j < i}) < History}
    IN  [k \in 1..Cardinality(last) |-> Kth([i \in last |-> rows[i].scores[s]], k)]

\* Twice the median, so that it stays whole.
HistoryMedian2(h) ==
    IF h = <<>> THEN 0
    ELSE h[(Len(h) + 1) \div 2] + h[Len(h) \div 2 + 1]
HistoryGood(h) == IF h = <<>> THEN 0 ELSE IF Len(h) >= GoodFrom THEN h[Len(h) - 1] ELSE h[Len(h)]

-----------------------------------------------------------------------------
(* The choice.                                                             *)

RankMargin(ms) == IF ms * 15 < 200 THEN 200 ELSE ms * 15   \* in hundredths
InBand(field, i) == field[i].ms > 0 /\ field[i].ms * 100 <= field[1].ms * 100 + RankMargin(field[1].ms)
Seated(field, s) == \E i \in DOMAIN field : field[i].id = s /\ InBand(field, i)

At(field, s) == FirstOf({i \in DOMAIN field : field[i].id = s})
Rival(field, s) == FirstOf({i \in DOMAIN field : field[i].id # s /\ field[i].ms > 0})
ToHead(field, i) == <<field[i]>> \o RemoveAt(field, i)
Ledger(field, i, lead) == [field |-> ToHead(field, i), lead |-> lead]

\* challengeIncumbent: only against a holder that would keep its seat, and
\* with a rival that answered.
MayChallenge(field, s) ==
    /\ s # NoServer /\ Len(field) >= 2 /\ Seated(field, s)
    /\ Rival(field, s) # 0

\* promoteIncumbent: the holder, else the provider's own server, in the band.
Promoted(field, s) ==
    LET i == IF Seated(field, s) THEN At(field, s)
             ELSE IF field[1].id \in OnNet THEN 0
             ELSE LET own == FirstOf({j \in DOMAIN field : field[j].id \in OnNet})
                  IN  IF own # 0 /\ InBand(field, own) THEN own ELSE 0
    IN  IF Len(field) < 2 \/ i <= 1 THEN [field |-> field, lead |-> ""]
        ELSE Ledger(field, i, "promoted")

\* pickServers for one automatic server.
Chosen(rows, field, challenge) ==
    LET s == Incumbent(rows) IN
    IF challenge /\ Len(Scores(rows, s)) >= MinHistory /\ MayChallenge(field, s)
    THEN Ledger(field, Rival(field, s), "challenger")
    ELSE Promoted(field, s)

\* The head, and behind it the holder on a challenge, else the next server
\* that answered its ping.
Targets(rows, chosen) ==
    LET next == FirstOf({i \in DOMAIN chosen.field \ {1} :
                            IF chosen.lead = "challenger" THEN chosen.field[i].id = Incumbent(rows)
                            ELSE chosen.field[i].ms > 0})
    IN  <<chosen.field[1].id>> \o IF next = 0 THEN <<>> ELSE <<chosen.field[next].id>>

-----------------------------------------------------------------------------
(* The verdict.                                                            *)

\* A reading beyond anything the record supports is judged as its median.
JudgedRun_Raw(score, h) == 2 * score
JudgedRun(score, h) == IF HistoryGood(h) > 0 /\ score > 3 * HistoryGood(h) THEN HistoryMedian2(h) ELSE 2 * score

\* challengeWon, doubled.
ChallengeWon(judged, h) ==
    /\ Len(h) >= MinHistory /\ judged > 0
    /\ judged * 100 > HistoryMedian2(h) * 115 /\ judged > 2 * HistoryGood(h)

WinReason(rows, lead, s, score) ==
    LET holder == Incumbent(rows)
        h == Scores(rows, holder)
    IN  IF lead # "challenger" THEN "auto"
        ELSE IF s = holder THEN "challenger_failed"
        ELSE IF ChallengeWon(JudgedRun(score, h), h) THEN "challenger_won" ELSE "challenger"

-----------------------------------------------------------------------------
(* Runs, one at a time.                                                    *)

Inflated(read) == Cardinality({s \in DOMAIN read : read[s] > Rate[s]})
Readings(ids) == {[s \in ids |-> times[s] * Rate[s]] : times \in [ids -> {0, 1, 4}]}

Stored(kind, field, read, winner, reason, scores) ==
    /\ seBudget.tests < MaxTests /\ seBudget.inflated + Inflated(read) <= MaxInflated
    /\ seRows' = <<[id |-> winner, reason |-> reason, scores |-> scores]>> \o seRows
    /\ seBudget' = [tests |-> seBudget.tests + 1, inflated |-> seBudget.inflated + Inflated(read)]
    /\ seRun' = [kind |-> kind, seated |-> Seated(field, Incumbent(seRows)),
                 failed |-> \E s \in DOMAIN read : s = Incumbent(seRows) /\ read[s] = 0]

\* One server; the second target is measured where the first could not be.  A
\* run that measured none stores no winner.
AutomaticRun ==
    \E scheduled \in BOOLEAN, field \in Fields :
        LET chosen == Chosen(seRows, field, scheduled /\ ChallengeDue(seRows))
            targets == Targets(seRows, chosen)
        IN  \E i \in DOMAIN targets, times \in {1, 4} :
               LET winner == targets[i]
                   score == times * Rate[winner]
                   read == [s \in ToSet(SubSeq(targets, 1, i)) |-> IF s = winner THEN score ELSE 0]
               IN  Stored(chosen.lead, field, read, winner,
                          WinReason(seRows, chosen.lead, winner, score), [s \in {winner} |-> score])

\* Best of several: whichever of the measured servers scores best.
BestOfRun ==
    \E field \in Fields : \E read \in Readings({field[i].id : i \in DOMAIN field}) :
        LET measured == {s \in DOMAIN read : read[s] > 0} IN
        \E s \in measured : Stored("round", field, read, s, "auto", [m \in measured |-> read[m]])

\* A pinned server, alone or with companions, one of which may win.
PinnedRun ==
    \E ids \in SUBSET Servers \ {{}} : \E read \in Readings(ids) :
        LET measured == {s \in ids : read[s] > 0} IN
        \E s \in measured : Stored("pinned", <<>>, read, s, "pinned", [m \in measured |-> read[m]])

\* The operator deletes a run, and its report with it.
RunDeleted ==
    /\ \E i \in DOMAIN seRows : seRows' = RemoveAt(seRows, i)
    /\ seRun' = NoneRan
    /\ UNCHANGED seBudget

SeNext == AutomaticRun \/ BestOfRun \/ PinnedRun \/ RunDeleted

SeSpec == SeInit /\ [][SeNext]_seVars

-----------------------------------------------------------------------------
(* Properties.                                                             *)

SeTypeOK ==
    /\ \A i \in DOMAIN seRows :
          /\ seRows[i].id \in DOMAIN seRows[i].scores
          /\ seRows[i].reason \in {"auto", "challenger", "challenger_won", "challenger_failed", "pinned"}
    /\ seBudget \in [tests : 0..MaxTests, inflated : 0..MaxInflated]

\* A reading that the holder's record supports: no more than thrice a score of it.
Supported(score, holder) ==
    \E i \in DOMAIN seRows : holder \in DOMAIN seRows[i].scores /\ score <= 3 * seRows[i].scores[holder]

\* No run takes the seat from its holder but a best-of round, a run that did
\* not find the holder within noise of the fastest, one that tried the holder
\* first and could not measure it, and a challenge by a server that really is
\* more than 15% faster or whose inflated reading the record supports: an
\* inflated reading of the holder's never moves it, nor one of the rival's
\* beyond thrice what the holder has shown.  The seat is forgotten only behind
\* a full window of runs that decide nothing.
SeatByRight ==
    [][LET holder == Incumbent(seRows)
           next == Incumbent(seRows')
           reading == seRows'[1].scores[next]
       IN  (Len(seRows') > Len(seRows) /\ holder # NoServer /\ next # holder) =>
              IF next = NoServer THEN \A i \in 1..Window : seRows'[i].reason \in {"pinned", "challenger"}
              ELSE \/ seRun'.kind = "round"
                   \/ ~seRun'.seated \/ seRun'.failed
                   \/ /\ seRun'.kind = "challenger"
                      /\ \/ Rate[next] * 100 > Rate[holder] * 115
                         \/ reading > Rate[next] /\ Supported(reading, holder)]_seVars
=============================================================================
