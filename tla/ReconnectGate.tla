--------------------------- MODULE ReconnectGate ---------------------------
(***************************************************************************)
(* What a recovered link sets off (main.go: OnReconnect, reconnectGate,    *)
(* reconnectDispatch): a refresh of the connection details and a test of   *)
(* the link, each behind a gate that spaces it out.  The test's window is  *)
(* reserved when it is dispatched and handed back when it comes to         *)
(* nothing: after a long outage it waits for the link to settle, which may *)
(* be down again by then, and another run may have the slot.  Meanwhile    *)
(* the link flaps and the operator changes the interval.                   *)
(***************************************************************************)
EXTENDS Integers, FiniteSets, FiniteSetsExt

CONSTANTS NetinfoGap, SpeedGapFloor,   \* reconnectNetinfoGap, minReconnectSpeedGap
          SettleAfter, Settle,         \* reconnectSettleAfter, reconnectSettle
          Intervals,                   \* what the operator may set as SpeedInterval
          LastMinute                   \* bound

ASSUME GateAssumption ==
    /\ {NetinfoGap, SettleAfter, Settle} \subseteq Nat
    /\ {SpeedGapFloor, LastMinute} \subseteq Nat \ {0} /\ Intervals \subseteq Nat /\ Intervals # {}

VARIABLES rgNow,       \* the monotonic clock
          rgLink,      \* the monitor's verdict: since when the link is down, 0 when it is up
          rgLast,      \* reconnectGate.last of both gates, 0 while open
          rgInterval,  \* set.SpeedInterval
          rgWaiting,   \* each reconnectDispatch: the window it reserved, until when it settles, and has it
          rgTaken,     \* some run has the scheduler's slot
          rgMeasured   \* (history) the windows whose test ran

rgVars == <<rgNow, rgLink, rgLast, rgInterval, rgWaiting, rgTaken, rgMeasured>>

RgInit ==
    /\ rgNow = 1 /\ rgLink = 0
    /\ rgLast = [netinfo |-> 0, speed |-> 0]
    /\ rgInterval \in Intervals
    /\ rgWaiting = {} /\ rgTaken = FALSE /\ rgMeasured = {}

\* reconnectGate.allow and release
Allows(last, gap) == last = 0 \/ rgNow - last >= gap
ReleasedBy(d) == IF rgLast.speed = d.window THEN [rgLast EXCEPT !.speed = 0] ELSE rgLast

SpeedGap == Max({rgInterval, SpeedGapFloor})

WentDown ==
    /\ rgLink = 0 /\ rgLink' = rgNow
    /\ UNCHANGED <<rgNow, rgLast, rgInterval, rgWaiting, rgTaken, rgMeasured>>

\* OnReconnect; wanted: monitoring, the trigger's setting and the schedule allow it.
Reconnected ==
    /\ rgLink # 0 /\ rgNow > rgLink /\ rgLink' = 0
    /\ \E wanted \in BOOLEAN :
          LET runs == wanted /\ Allows(rgLast.speed, SpeedGap)
              settle == IF rgNow - rgLink >= SettleAfter THEN Settle ELSE 0
          IN  /\ rgLast' = [netinfo |-> IF Allows(rgLast.netinfo, NetinfoGap) THEN rgNow ELSE rgLast.netinfo,
                            speed |-> IF runs THEN rgNow ELSE rgLast.speed]
              /\ rgWaiting' = IF runs THEN rgWaiting \cup {[window |-> rgNow, until |-> rgNow + settle,
                                                             settled |-> FALSE]}
                              ELSE rgWaiting
    /\ UNCHANGED <<rgNow, rgInterval, rgTaken, rgMeasured>>

\* settleBeforeReconnectRun: the link must be up at the end of the wait.
Settled(d) ==
    /\ ~d.settled /\ rgNow >= d.until
    /\ IF rgLink = 0
       THEN rgWaiting' = (rgWaiting \ {d}) \cup {[d EXCEPT !.settled = TRUE]} /\ UNCHANGED rgLast
       ELSE rgWaiting' = rgWaiting \ {d} /\ rgLast' = ReleasedBy(d)
    /\ UNCHANGED <<rgNow, rgLink, rgInterval, rgTaken, rgMeasured>>

\* RunOnce takes the slot and measures, whatever comes of it.
TestRuns(d) ==
    /\ d.settled /\ ~rgTaken
    /\ rgTaken' = TRUE /\ rgMeasured' = rgMeasured \cup {d.window}
    /\ rgWaiting' = rgWaiting \ {d}
    /\ UNCHANGED <<rgNow, rgLink, rgLast, rgInterval>>

\* Or it answers ErrBusy.
Bounced_KeepsWindow(d) ==
    /\ d.settled /\ rgTaken
    /\ rgWaiting' = rgWaiting \ {d}
    /\ UNCHANGED <<rgNow, rgLink, rgLast, rgInterval, rgTaken, rgMeasured>>
Bounced(d) ==
    /\ d.settled /\ rgTaken
    /\ rgWaiting' = rgWaiting \ {d} /\ rgLast' = ReleasedBy(d)
    /\ UNCHANGED <<rgNow, rgLink, rgInterval, rgTaken, rgMeasured>>

\* Scheduled, manual and degraded runs take the slot too, and every run ends.
SlotTurns ==
    /\ rgTaken' = ~rgTaken
    /\ UNCHANGED <<rgNow, rgLink, rgLast, rgInterval, rgWaiting, rgMeasured>>

IntervalSet ==
    /\ rgInterval' \in Intervals
    /\ UNCHANGED <<rgNow, rgLink, rgLast, rgWaiting, rgTaken, rgMeasured>>

MinutePasses ==
    /\ rgNow < LastMinute /\ rgNow' = rgNow + 1
    /\ UNCHANGED <<rgLink, rgLast, rgInterval, rgWaiting, rgTaken, rgMeasured>>

RgNext ==
    \/ WentDown \/ Reconnected \/ SlotTurns \/ IntervalSet \/ MinutePasses
    \/ \E d \in rgWaiting : Settled(d) \/ TestRuns(d) \/ Bounced(d)

RgSpec == RgInit /\ [][RgNext]_rgVars
-----------------------------------------------------------------------------
RgTypeOK ==
    /\ rgNow \in 1..LastMinute /\ rgLink \in 0..LastMinute /\ rgInterval \in Intervals
    /\ rgLast \in [netinfo : 0..LastMinute, speed : 0..LastMinute]
    /\ rgMeasured \subseteq 1..LastMinute /\ rgTaken \in BOOLEAN
    /\ \A d \in rgWaiting : d.window \in 1..LastMinute /\ d.settled \in BOOLEAN

\* A closed window is one somebody earned: its test ran, or is still to run.
\* No bounce, no relapse of the link and no reconnect that was itself refused
\* shuts the next recovery out.  And however late a test hands its window back,
\* two that ran were dispatched at least the floor apart.
WindowEarned ==
    /\ rgLast.speed # 0 => rgLast.speed \in rgMeasured \cup {d.window : d \in rgWaiting}
    /\ \A m, n \in rgMeasured : m < n => n - m >= SpeedGapFloor
=============================================================================
