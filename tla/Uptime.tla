------------------------------- MODULE Uptime -------------------------------
(***************************************************************************)
(* How internal/store answers "how long was the link down": UptimeSince    *)
(* (the uptime shown), ResolvedOutagesSince (the digest) and               *)
(* downtimeByDayAt (the heatmap) read the same events, pauses and samples  *)
(* and book the same outages by three routes.  The routes are translated   *)
(* as they are, on spans <<from, to>>; what they should agree on is said   *)
(* second by second.                                                       *)
(*                                                                         *)
(* The tables are those a monitor leaves second by second: it watches, is  *)
(* paused, sleeps with its host, restarts; the cleanup drops old events; a *)
(* restore may have added a pause of another installation.  Events are     *)
(* never dated ahead of the clock here, so the horizon of the scans        *)
(* (currentHorizon) is the clock itself.                                   *)
(***************************************************************************)
EXTENDS Integers, FiniteSets, FiniteSetsExt, Sequences, SequencesExt

CONSTANTS LastTime,   \* the bound of the clock
          DayLength,  \* seconds of a local day
          Zones,      \* how the host's zone may shift: offsets by second
          MaxSleeps, MaxReboots, MaxSweeps

ASSUME UptimeAssumption ==
    /\ LastTime \in Nat \ {0, 1} /\ DayLength \in Nat \ {0}
    /\ \A z \in Zones : z \in [1..LastTime + DayLength -> Nat]

VARIABLES utNow,      \* the wall clock
          utEvents,   \* the 'down' and 'up' rows, an 'up' with its length
          utPauses,   \* the pause rows
          utSamples,  \* the seconds probed: "good" where a majority answered
          utMon,      \* the running monitor: its outage and the seconds counted
          utBudget,   \* sleeps, restarts and sweeps so far
          utTruth,    \* (history) the seconds the link was down under watch
          utExact     \* (history) no sleep, no unrecorded restart, no sweep so far

utVars == <<utNow, utEvents, utPauses, utSamples, utMon, utBudget, utTruth, utExact>>

Watch == [down |-> 0, counted |-> 0]
Unused == [sleeps |-> 0, reboots |-> 0, sweeps |-> 0]

UtInit ==
    /\ utNow = 1
    /\ utEvents = {}
    /\ utPauses \in {{}} \cup {{[ts |-> a, len |-> n]} : a \in 1..LastTime - 1, n \in 1..2}
    /\ utSamples = [s \in {} |-> "good"]
    /\ utMon = Watch /\ utBudget = Unused
    /\ utTruth = {} /\ utExact = TRUE

-----------------------------------------------------------------------------
(* A second of the monitor, which writes the tables.                       *)

Passes == utNow < LastTime /\ utNow' = utNow + 1

\* An answered round ends the outage with the seconds counted, a failed one
\* begins it; the seconds between two rounds count for the outage.
Answered ==
    /\ Passes
    /\ utSamples' = utSamples @@ (utNow :> "good")
    /\ utEvents' = IF utMon.down = 0 THEN utEvents
                   ELSE utEvents \cup {[ts |-> utNow, type |-> "up", len |-> utMon.counted]}
    /\ utMon' = Watch
    /\ UNCHANGED <<utPauses, utBudget, utTruth, utExact>>

Unanswered ==
    /\ Passes
    /\ utSamples' = utSamples @@ (utNow :> "bad")
    /\ utEvents' = IF utMon.down # 0 THEN utEvents
                   ELSE utEvents \cup {[ts |-> utNow, type |-> "down", len |-> 0]}
    /\ utMon' = [down |-> IF utMon.down = 0 THEN utNow ELSE utMon.down,
                 counted |-> utMon.counted + 1]
    /\ utTruth' = utTruth \cup {utNow}
    /\ UNCHANGED <<utPauses, utBudget, utExact>>

\* A pause is stored in slices: this second is a row of its own, or the row
\* of the pause so far reaches one second further.
PauseRows ==
    {utPauses \cup {[ts |-> utNow, len |-> 1]}}
    \cup {(utPauses \ {p}) \cup {[p EXCEPT !.len = @ + 1]} : p \in {q \in utPauses : q.ts + q.len = utNow}}

Paused ==
    /\ Passes
    /\ utPauses' \in PauseRows
    /\ UNCHANGED <<utEvents, utSamples, utMon, utBudget, utTruth, utExact>>

\* The host sleeps: the monotonic clock stands still and no row says so.
Asleep ==
    /\ Passes
    /\ utBudget.sleeps < MaxSleeps
    /\ utBudget' = [utBudget EXCEPT !.sleeps = @ + 1]
    /\ utExact' = FALSE
    /\ UNCHANGED <<utEvents, utPauses, utSamples, utMon, utTruth>>

\* The daemon restarts and forgets the outage; the second it was away for is
\* stored as a pause, or is lost with a store that refused it.
Restarted ==
    /\ Passes
    /\ utBudget.reboots < MaxReboots
    /\ utBudget' = [utBudget EXCEPT !.reboots = @ + 1]
    /\ utMon' = Watch
    /\ \/ utPauses' \in PauseRows /\ UNCHANGED utExact
       \/ utExact' = FALSE /\ UNCHANGED utPauses
    /\ UNCHANGED <<utEvents, utSamples, utTruth>>

\* A cleanup drops the events before its cutoff, a 'down' without its 'up'
\* among them.
EventsSwept ==
    /\ utBudget.sweeps < MaxSweeps
    /\ utBudget' = [utBudget EXCEPT !.sweeps = @ + 1]
    /\ \E cut \in 2..utNow :
          /\ \E e \in utEvents : e.ts < cut
          /\ utEvents' = {e \in utEvents : e.ts >= cut}
    /\ utExact' = FALSE
    /\ UNCHANGED <<utNow, utPauses, utSamples, utMon, utTruth>>

UtNext == Answered \/ Unanswered \/ Paused \/ Asleep \/ Restarted \/ EventsSwept

UtSpec == UtInit /\ [][UtNext]_utVars

-----------------------------------------------------------------------------
(* Spans.                                                                  *)

Larger(a, b) == IF a > b THEN a ELSE b
Smaller(a, b) == IF a < b THEN a ELSE b
Width(sp) == sp[2] - sp[1]

\* The part of each span inside [from, to), without those that have none.
SpansIn(spans, from, to) ==
    SelectSeq([i \in DOMAIN spans |-> <<Larger(spans[i][1], from), Smaller(spans[i][2], to)>>],
              LAMBDA sp : sp[1] < sp[2])

SpanOverlap(spans, from, to) ==
    FoldLeft(LAMBDA n, sp : n + Width(sp), 0, SpansIn(spans, from, to))

\* Spans sorted by their start; those that overlap or touch become one.
MergeSpans_Raw(spans) == spans
MergeSpans(spans) ==
    FoldLeft(LAMBDA out, sp :
                 IF out = <<>> \/ sp[1] > Last(out)[2] THEN Append(out, sp)
                 ELSE Append(Front(out), <<Last(out)[1], Larger(Last(out)[2], sp[2])>>),
             <<>>, spans)

PauseSpans(from, to) ==
    LET rows == {p \in utPauses : p.ts < to /\ p.ts + p.len > from}
        inOrder == SetToSortSeq(rows, LAMBDA p, q : p.ts < q.ts \/ (p.ts = q.ts /\ p.len < q.len))
    IN  MergeSpans(SpansIn([i \in DOMAIN inOrder |-> <<inOrder[i].ts, inOrder[i].ts + inOrder[i].len>>],
                           from, to))

\* The stretches of an outage between its pauses ...
BetweenPauses(pauses, start, end) ==
    LET walked == FoldLeft(LAMBDA w, p :
                      IF p[2] <= w.cur \/ p[1] >= end THEN w
                      ELSE [cur |-> p[2],
                            out |-> IF p[1] > w.cur THEN Append(w.out, <<w.cur, p[1]>>) ELSE w.out],
                  [cur |-> start, out |-> <<>>], MergeSpans(pauses))
    IN  IF walked.cur < end THEN Append(walked.out, <<walked.cur, end>>) ELSE walked.out

\* ... and of those the first `observed` seconds.
FirstSeconds(spans, observed) ==
    FoldLeft(LAMBDA w, sp :
                 LET n == Smaller(Width(sp), w.left) IN
                 [left |-> w.left - n,
                  out |-> IF n > 0 THEN Append(w.out, <<sp[1], sp[1] + n>>) ELSE w.out],
             [left |-> observed, out |-> <<>>], spans).out

ObservedOutageSpans(pauses, start, end, observed) ==
    IF end <= start THEN <<>> ELSE FirstSeconds(BetweenPauses(pauses, start, end), observed)

-----------------------------------------------------------------------------
(* The scans of the record that the three routes share.                    *)

\* firstQuorumRecovery and newestSampleAt: 0 where there is none.
FirstRecovery(after, before) ==
    LET good == {s \in DOMAIN utSamples : s > after /\ s <= before /\ utSamples[s] = "good"}
    IN  IF good = {} THEN 0 ELSE Min(good)
Newest == Max(DOMAIN utSamples \cup {0})

\* From the last event at or before the window, so that an outage across its
\* edge is seen; a 'down' sorts first in a shared second.
Scanned(since) ==
    LET from == Max({e.ts : e \in {f \in utEvents : f.ts <= since}} \cup {0})
    IN  SetToSortSeq({e \in utEvents : e.ts >= from /\ e.ts <= utNow},
                     LAMBDA e, f : e.ts < f.ts \/ (e.ts = f.ts /\ e.type = "down" /\ f.type = "up"))

\* completedOutagesSince: an 'up' with what is before it.
Completed(from, to) ==
    LET ev == Scanned(from)
        Start(i) == IF i > 1 /\ ev[i - 1].type = "down" THEN ev[i - 1].ts ELSE ev[i].ts - ev[i].len
    IN  {[start |-> Start(i), end |-> ev[i].ts, observed |-> ev[i].len] :
            i \in {j \in DOMAIN ev : ev[j].type = "up" /\ Start(j) < to /\ ev[j].ts > from}}

\* pauseUnionFor: the pauses over the outages' own intervals, not the window's.
PauseUnionFor(outages, from, to) ==
    PauseSpans(Min({o.start : o \in outages} \cup {from}), Max({o.end : o \in outages} \cup {to}))

ObservedDowntimeIn(outages, union, from, to) ==
    MapThenSumSet(LAMBDA o : SpanOverlap(
                      ObservedOutageSpans(SpansIn(union, o.start, o.end), o.start, o.end, o.observed),
                      from, to), outages)

\* What a stretch with no length of its own books: its wall time less pauses.
Booked(start, end, since, pauses) ==
    LET from == Larger(start, since) IN
    IF end > from THEN Larger(end - from - SpanOverlap(pauses, from, end), 0) ELSE 0

\* orphanGapDowntime: a 'down' that the next 'down' follows ended at the first
\* recovery between them, or not at all.
OrphanGaps(since) ==
    LET ev == Scanned(since) IN
    {[down |-> ev[i].ts, next |-> ev[i + 1].ts, rec |-> FirstRecovery(ev[i].ts, ev[i + 1].ts)] :
        i \in {j \in DOMAIN ev : j < Len(ev) /\ ev[j].type = "down" /\ ev[j + 1].type = "down"}}
GapEnd(g) == IF g.rec # 0 /\ g.rec < g.next THEN g.rec ELSE g.next
OrphanGapDowntime(since) ==
    MapThenSumSet(LAMBDA g : Booked(g.down, Smaller(GapEnd(g), utNow), since, PauseSpans(since, utNow)),
                  OrphanGaps(since))

\* The newest event where it is a 'down': an outage under way or left open.
LeftOpen ==
    LET newest == {e \in utEvents : \A f \in utEvents : f.ts <= e.ts}
    IN  IF \A e \in newest : e.type = "down" THEN {e.ts : e \in newest} ELSE {}

\* It ended at the recovery, else as far as the samples reach.
OpenEnd(down) ==
    LET rec == FirstRecovery(down, utNow) IN
    IF rec # 0 /\ rec < utNow THEN rec
    ELSE IF Newest < utNow /\ Newest > down THEN Newest ELSE utNow

\* monitoringSince
MonitoringSince ==
    Min(DOMAIN utSamples \cup {e.ts : e \in utEvents} \cup {utNow})

-----------------------------------------------------------------------------
(* The uptime and the digest.                                              *)

UptimeSince(from) ==
    LET since == Larger(from, MonitoringSince)
        outages == Completed(since, utNow)
        union == PauseUnionFor(outages, since, utNow)
        open == {Booked(d, OpenEnd(d), since, union) : d \in LeftOpen}
        down == ObservedDowntimeIn(outages, union, since, utNow)
                + OrphanGapDowntime(since) + SumSet(open)
        observed == Larger(utNow - since - SpanOverlap(union, since, utNow), 0)
    IN  [window |-> utNow - since, observed |-> observed, down |-> Smaller(down, observed)]

\* The digest leaves out what no recovery ended.
ResolvedOutagesSince(since) ==
    LET outages == Completed(since, utNow)
        open == {d \in LeftOpen : FirstRecovery(d, utNow) > since}
    IN  ObservedDowntimeIn(outages, PauseUnionFor(outages, since, utNow), since, utNow)
        + OrphanGapDowntime(since)
        + SumSet({Booked(d, FirstRecovery(d, utNow), since, PauseSpans(since, utNow)) : d \in open})

-----------------------------------------------------------------------------
(* The heatmap: each outage split over the local days it touches.          *)

LocalDate(zone, t) == (t + zone[t]) \div DayLength

\* nextLocalDay: local midnight, unless the zone shifts before it; then the
\* shift itself where it changes the date, else on from the shift.
NextLocalDay(zone, t) ==
    LET Midnight(u) == u + DayLength - ((u + zone[u]) % DayLength)
        Shifts(u) == {v \in DOMAIN zone : v > u /\ v <= Midnight(u) /\ zone[v] # zone[v - 1]}
        From[u \in DOMAIN zone] ==
            IF Shifts(u) = {} THEN Midnight(u)
            ELSE IF LocalDate(zone, Min(Shifts(u))) # LocalDate(zone, t) THEN Min(Shifts(u))
            ELSE From[Min(Shifts(u))]
    IN  From[t]

\* The seconds of [a, b) that fall on a date, walked boundary by boundary.
CreditedTo(zone, date, a, b) ==
    LET Walk[t \in a..Larger(a, b)] ==
            IF t >= b THEN 0
            ELSE LET next == Smaller(NextLocalDay(zone, t), b) IN
                 (IF LocalDate(zone, t) = date THEN next - t ELSE 0) + Walk[next]
    IN  Walk[a]

\* The loop over the events: an 'up' ends the 'down' before it, a 'down' ends
\* the one before it at its recovery, and one left open is closed at its end.
Pieces(since) ==
    LET ev == Scanned(since)
        Of(i) ==
            IF ev[i].type = "up"
            THEN {[start |-> IF i > 1 /\ ev[i - 1].type = "down" /\ ev[i - 1].ts < ev[i].ts
                             THEN ev[i - 1].ts ELSE ev[i].ts - ev[i].len,
                   end |-> ev[i].ts, budget |-> ev[i].len]}
            ELSE IF i = Len(ev)
            THEN {[start |-> ev[i].ts, end |-> OpenEnd(ev[i].ts), budget |-> OpenEnd(ev[i].ts) - ev[i].ts]}
            ELSE IF ev[i + 1].type = "down"
            THEN LET rec == FirstRecovery(ev[i].ts, ev[i + 1].ts)
                     end == IF rec # 0 /\ rec < ev[i + 1].ts THEN rec ELSE ev[i + 1].ts
                 IN  {[start |-> ev[i].ts, end |-> end, budget |-> end - ev[i].ts]}
            ELSE {}
    IN  UNION {Of(i) : i \in DOMAIN ev}

\* prorate spends an outage's seconds from its start, and cuts to the window
\* after that.
Prorate_WindowFirst(piece, spans, since) ==
    ObservedOutageSpans(SpansIn(spans, Larger(piece.start, since), piece.end),
                        Larger(piece.start, since), Smaller(piece.end, utNow), piece.budget)
Prorate(piece, spans, since) ==
    SpansIn(ObservedOutageSpans(SpansIn(spans, piece.start, piece.end), piece.start, piece.end,
                                piece.budget), since, utNow)

DowntimeOf(date, since, zone) ==
    LET ev == Scanned(since)
        spans == PauseSpans(IF ev # <<>> /\ ev[1].ts < since THEN ev[1].ts ELSE since, utNow)
    IN  MapThenSumSet(LAMBDA piece :
            FoldLeft(LAMBDA n, sp : n + CreditedTo(zone, date, sp[1], sp[2]), 0,
                     Prorate(piece, spans, since)), Pieces(since))

\* What of a day was watched: its seconds since monitoring began, less pauses.
ObservedOf(date, since, zone) ==
    LET Days[t \in since..Larger(since, utNow)] ==
            IF t >= utNow THEN 0
            ELSE LET next == Smaller(NextLocalDay(zone, t), utNow)
                     lo == Larger(t, MonitoringSince)
                 IN  (IF LocalDate(zone, t) = date /\ lo < next
                      THEN next - lo - SpanOverlap(PauseSpans(since, utNow), lo, next) ELSE 0)
                     + Days[next]
    IN  Days[since]

-----------------------------------------------------------------------------
(* Properties.                                                             *)

UtTypeOK ==
    /\ utNow \in 1..LastTime
    /\ utEvents \subseteq [ts : 1..LastTime, type : {"down", "up"}, len : 0..LastTime]
    /\ utPauses \subseteq [ts : 1..LastTime, len : 1..LastTime]
    /\ DOMAIN utSamples \subseteq 1..LastTime
    /\ utTruth \subseteq 1..LastTime

Dates(zone) == {LocalDate(zone, t) : t \in 1..LastTime}

\* A second of the past is paused where any row covers it.
Covered(s) == \E p \in utPauses : p.ts <= s /\ s < p.ts + p.len

\* The uptime, the digest and the days of the heatmap tell one story: over any
\* window, in any zone, across restarts, sleeps, overlapping pauses and a
\* record whose start was swept, they book the same seconds, except that the
\* digest leaves out an outage nothing has ended; the uptime has nothing to cap.
SurfacesAgree ==
    \A since \in 1..utNow - 1 :
        LET shown == UptimeSince(since).down
            resolved == ResolvedOutagesSince(since)
            unended == \E d \in LeftOpen : FirstRecovery(d, utNow) = 0
        IN  /\ IF unended THEN resolved <= shown ELSE resolved = shown
            /\ \A zone \in Zones :
                  MapThenSumSet(LAMBDA d : DowntimeOf(d, since, zone), Dates(zone)) = shown

\* With a record that lost nothing and no outage left to end, every day shows
\* exactly the seconds the link was down under watch on that local date, and as
\* watched exactly those no pause covers: each second lands on one day, whatever
\* the zone does.
DaysAreTrue ==
    utExact /\ (\A d \in LeftOpen : FirstRecovery(d, utNow) # 0) =>
        \A since \in 1..utNow - 1, zone \in Zones : \A date \in Dates(zone) :
            LET Of(S) == {s \in S : s >= since /\ s < utNow /\ LocalDate(zone, s) = date /\ ~Covered(s)} IN
            /\ DowntimeOf(date, since, zone) = Cardinality(Of(utTruth))
            /\ ObservedOf(date, since, zone) = Cardinality(Of(MonitoringSince..utNow))

=============================================================================
