----------------------------- MODULE Retention -----------------------------
(***************************************************************************)
(* The hourly cleanup of internal/store: what a clock that was set, a host *)
(* that slept or a window that moved may cost.  Two tables stand for the   *)
(* five: samples, and the paused time, which has a quarantine of its own.  *)
(*                                                                         *)
(* Hours pass whether the host sleeps or not (sinceOpen counts sleep); the *)
(* wall clock is those hours plus an offset that time sync, a bad battery  *)
(* or a hypervisor changes at any moment.  An offset of zero is the right  *)
(* time.  A row is one second long.                                        *)
(***************************************************************************)
EXTENDS Integers, FiniteSets

CONSTANTS LastHour,   \* the bound of time
          Jump,       \* how far a wrong clock is off
          Epoch,      \* plausibleEpoch
          Settle,     \* pruneClockSettle
          RtSlack,\* pruneFutureSlack, and pauseRepairFutureSkew
          Windows,    \* retention windows the operator may choose
          MaxSets,    \* how often the clock is set
          MaxRows     \* rows written

ASSUME RetentionAssumption ==
    /\ Jump \in Nat /\ Jump > RtSlack
    /\ Settle \in Nat \ {0} /\ {Epoch, RtSlack} \cup Windows \subseteq Nat

VARIABLES rtTime,    \* the hour, the clock's offset, and (history) since when it has that, and
                     \* whether it went and came back without a cleanup seeing it gone
          rtRows,    \* the rows, and which of them are held aside
          rtKeep,    \* the retention window in force
          rtClock,   \* the store's judgement of the clock
          rtPass     \* the pruner

rtVars == <<rtTime, rtRows, rtKeep, rtClock, rtPass>>

FirstHour == 40
Tables == {"samples", "pauses"}
\* Right, ahead, behind, or not set at all since the battery went.
Offsets == {0, Jump, -Jump, -FirstHour}
Wall == rtTime.hour + rtTime.off

\* The baseline is kept as the offset it saw: a drift is a change of offset.
ClockAtOpen == [up |-> TRUE, base |-> rtTime.off, settled |-> 0, stepSeen |-> FALSE,
           vetted |-> "none", frame |-> 0, armed |-> Wall < Epoch]
NotOpen == [ClockAtOpen EXCEPT !.up = FALSE]
NoPass == [pc |-> "idle", due |-> TRUE, start |-> 0, began |-> 0, window |-> rtKeep, believed |-> FALSE]

RtInit ==
    /\ rtTime = [hour |-> FirstHour, off |-> 0, sets |-> 0, since |-> FirstHour, returned |-> FALSE]
    /\ rtRows = {}
    /\ rtKeep \in Windows
    /\ rtClock = NotOpen
    /\ rtPass = NoPass

-----------------------------------------------------------------------------
(* The clock.                                                              *)

\* clockStepped: a step starts the wait over; a wait served arms a new
\* judgement of the paused time, in the frame of the clock just believed.
Stepped_NoSettle(c) ==
    IF rtTime.off # c.base THEN <<TRUE, [c EXCEPT !.base = rtTime.off, !.stepSeen = TRUE]>>
    ELSE <<FALSE, [c EXCEPT !.stepSeen = FALSE]>>
Stepped(c) ==
    IF rtTime.off # c.base
    THEN <<TRUE, [c EXCEPT !.base = rtTime.off, !.settled = rtTime.hour + Settle, !.stepSeen = TRUE]>>
    ELSE IF rtTime.hour < c.settled THEN <<TRUE, c>>
    ELSE IF c.stepSeen
    THEN <<FALSE, [c EXCEPT !.stepSeen = FALSE, !.vetted = "yes", !.frame = rtTime.off, !.armed = TRUE]>>
    ELSE <<FALSE, c>>

\* repairReading: the frame of the last settled step, moved on by the uptime;
\* none while a step settles.
Reading(c) == IF c.vetted = "yes" THEN rtTime.hour + c.frame ELSE Wall
MayJudge(c) == c.armed /\ ~c.stepSeen /\ Reading(c) >= Epoch

\* repairFutureReachingPausesAt: held rows inside the horizon come back, live
\* ones past it are held aside; none is deleted.
Judged(rows, at) ==
    {IF r.table = "pauses" THEN [r EXCEPT !.held = r.ts > at + RtSlack] ELSE r : r \in rows}

\* maybeRepairFuturePauses; one that fails is owed still.
RepairPauses(c) ==
    \E ok \in BOOLEAN :
       IF MayJudge(c) /\ ok
       THEN rtRows' = Judged(rtRows, Reading(c)) /\ rtClock' = [c EXCEPT !.armed = FALSE]
       ELSE rtClock' = c /\ UNCHANGED rtRows

-----------------------------------------------------------------------------
(* The daemon and its rows.                                                *)

\* Open judges the paused time at once when the clock is plausible.
RtOpen ==
    /\ ~rtClock.up
    /\ rtClock' = ClockAtOpen
    /\ rtRows' = IF Wall >= Epoch THEN Judged(rtRows, Wall) ELSE rtRows
    /\ rtTime' = [rtTime EXCEPT !.since = -Settle, !.returned = FALSE]
    /\ rtPass' = NoPass
    /\ UNCHANGED rtKeep

RtStop ==
    /\ rtClock.up
    /\ rtClock' = NotOpen
    /\ rtPass' = NoPass
    /\ UNCHANGED <<rtTime, rtRows, rtKeep>>

\* InsertSamples and InsertPause judge the paused time first.
Write(t) ==
    /\ rtClock.up /\ Cardinality(rtRows) < MaxRows /\ Wall >= 0
    /\ LET row == [table |-> t, ts |-> Wall, born |-> rtTime.hour, held |-> FALSE]
           judged == IF MayJudge(rtClock) THEN Judged(rtRows, Reading(rtClock)) ELSE rtRows
       IN  /\ \A r \in rtRows : r.table # t \/ r.born # rtTime.hour
           /\ rtRows' = judged \cup {row}
           /\ rtClock' = [rtClock EXCEPT !.armed = @ /\ ~MayJudge(rtClock)]
    /\ UNCHANGED <<rtTime, rtKeep, rtPass>>

SetRetention ==
    /\ rtClock.up
    /\ rtKeep' \in Windows \ {rtKeep}
    /\ UNCHANGED <<rtTime, rtRows, rtClock, rtPass>>

\* The pruner's ticker stands still while the host sleeps.
HourPasses ==
    /\ rtTime.hour < LastHour
    /\ rtTime' = [rtTime EXCEPT !.hour = @ + 1]
    /\ \E awake \in BOOLEAN : rtPass' = [rtPass EXCEPT !.due = @ \/ awake]
    /\ UNCHANGED <<rtRows, rtKeep, rtClock>>

ClockSet ==
    /\ rtTime.sets < MaxSets
    /\ \E o \in Offsets \ {rtTime.off} :
          rtTime' = [rtTime EXCEPT !.off = o, !.sets = @ + 1, !.since = rtTime.hour,
                               !.returned = @ \/ (rtClock.up /\ o = rtClock.base)]
    /\ UNCHANGED <<rtRows, rtKeep, rtClock, rtPass>>

-----------------------------------------------------------------------------
(* PruneLive.                                                              *)

\* (history) The clock has stood like this since the store was opened, or for a
\* settle.
Believed == rtTime.hour - rtTime.since >= Settle

\* The guards: an implausible clock is not even compared, a stepped one is
\* waited out.  The windows are read for the reading just vetted.
PruneStarts ==
    /\ rtClock.up /\ rtPass.pc = "idle" /\ rtPass.due
    /\ IF Wall < Epoch
       THEN rtPass' = [rtPass EXCEPT !.due = FALSE] /\ UNCHANGED rtClock
       ELSE LET judged == Stepped(rtClock) IN
            /\ rtClock' = judged[2]
            /\ rtPass' = IF judged[1] THEN [rtPass EXCEPT !.due = FALSE]
                         ELSE [pc |-> "repair", due |-> FALSE, start |-> Wall, began |-> rtTime.hour,
                               window |-> rtKeep, believed |-> Believed]
    /\ UNCHANGED <<rtTime, rtRows, rtKeep>>

PruneRepairs ==
    /\ rtPass.pc = "repair"
    /\ RepairPauses(rtClock)
    /\ rtPass' = [rtPass EXCEPT !.pc = "samples age"]
    /\ UNCHANGED <<rtTime, rtKeep>>

\* The earlier of the cutoff the pass started at and the one asked for now.
Cut ==
    LET atStart == rtPass.start - rtPass.window
        now == rtPass.start - rtKeep
    IN  IF now < atStart THEN now ELSE atStart

\* The horizon moves on with the uptime, and ends when the wall clock no longer
\* agrees with it.
Ahead ==
    LET ran == rtTime.hour - rtPass.began IN
    <<Wall - rtPass.start = ran, rtPass.start + ran + RtSlack>>

\* Deletes the oldest row of the arm, or goes on to the next arm.
Chunk(from, due, to) ==
    /\ rtPass.pc = from
    /\ IF due = {}
       THEN rtPass' = [rtPass EXCEPT !.pc = to] /\ UNCHANGED rtRows
       ELSE LET r == CHOOSE x \in due : \A y \in due : x.ts <= y.ts IN
            rtRows' = rtRows \ {r} /\ UNCHANGED rtPass
    /\ UNCHANGED <<rtTime, rtKeep, rtClock>>

LiveRows(t) == {r \in rtRows : r.table = t /\ ~r.held}
PastWindow(t) == {r \in LiveRows(t) : r.ts < Cut}
TooFar(t) == {r \in LiveRows(t) : Ahead[1] /\ r.ts > Ahead[2]}

\* The paused time ahead of the clock goes only when no judgement is owed.
Healed == ~rtClock.armed

PruneDeletes ==
    \/ Chunk("samples age", PastWindow("samples"), "samples ahead")
    \/ Chunk("samples ahead", TooFar("samples"), "pauses age")
    \/ Chunk("pauses age", PastWindow("pauses"), "pauses ahead")
    \/ Chunk("pauses ahead", IF Healed THEN TooFar("pauses") ELSE {}, "idle")

RtNext ==
    \/ RtOpen \/ RtStop \/ \E t \in Tables : Write(t)
    \/ SetRetention \/ HourPasses \/ ClockSet
    \/ PruneStarts \/ PruneRepairs \/ PruneDeletes

RtSpec == RtInit /\ [][RtNext]_rtVars

-----------------------------------------------------------------------------
(* Properties.                                                             *)

RtTypeOK ==
    /\ rtRows \subseteq [table : Tables, ts : Int, born : FirstHour..LastHour, held : BOOLEAN]
    /\ \A r \in rtRows : r.held => r.table = "pauses"
    /\ rtKeep \in Windows

\* A cleanup costs no row the operator's window keeps.  What it deletes is past
\* the window in force as it goes, or was stamped by a wrong clock - whatever
\* the clock, the windows and the host's sleep do between its chunks.  Only a
\* wrong clock that has stood since the store was opened, or for the settle,
\* is believed; and even that one, running behind, costs no paused time.  (What
\* no cleanup can tell apart is a clock that went and came back between two
\* looks: the wrong one it came back to passes for one that stood.)
Expired(r) == r.born + rtKeep < rtTime.hour
Misdated(r) == r.ts # r.born
Wrong == rtPass.start # rtPass.began
FreshKept ==
    [][\A r \in rtRows :
          (\A s \in rtRows' : s.table # r.table \/ s.born # r.born)
              => \/ Expired(r) \/ Misdated(r)
                 \/ Wrong /\ rtTime.returned
                 \/ /\ Wrong /\ rtPass.believed
                    /\ r.table = "pauses" => rtPass.start > rtPass.began]_rtVars
=============================================================================
