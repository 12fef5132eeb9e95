---------------------------- MODULE LinkMonitor ----------------------------
(***************************************************************************)
(* The probe loop of internal/monitor: the debounced state of the link and *)
(* of each address family, the rounds a speedtest holds from down-after,   *)
(* the degraded episode with its dispatches, and the transition events     *)
(* with their retry buffer.                                                *)
(*                                                                         *)
(* Time is the monotonic clock in ticks, read once a round.  The wall      *)
(* clock, and the length an outage is given, are left out: an event is     *)
(* its place in the order of transitions.  Settings may be saved at any    *)
(* moment, so each read of one picks any of its values.                    *)
(***************************************************************************)
EXTENDS Integers, FiniteSets, Sequences

CONSTANTS
    Families,     \* address families that may be probed
    Link,         \* the machine of the overall state
    DownAfters, UpAfters,  \* values of the two debounce settings
    Latencies,    \* what a round measures of an online link: "low", "high",
                  \* or "off" when degraded detection is off
    HoldMax,      \* speedtestHoldMax, in ticks
    MaxPending,   \* maxPendingEvents
    StoreFails,   \* may an event write fail
    MaxRounds, MaxEdges, MaxRestarts  \* bounds on a behaviour

ASSUME MachinesAssumption == Link \notin Families
ASSUME SettingsAssumption ==
    /\ DownAfters \subseteq Nat \ {0} /\ UpAfters \subseteq Nat \ {0}
    /\ Latencies \subseteq {"off", "low", "high"}
ASSUME BoundsAssumption ==
    /\ HoldMax \in Nat \ {0} /\ MaxPending \in Nat \ {0}
    /\ StoreFails \in BOOLEAN
    /\ MaxRounds \in Nat /\ MaxEdges \in Nat /\ MaxRestarts \in Nat

Machines == Families \union {Link}
NoTime   == 0      \* the zero time.Time; the first round is tick 1
NoSeq    == -1     \* no round is out
NoID     == 0      \* degradedID outside an episode

\* degradedRounds
DegradedRounds == 2

VARIABLES
    now,       \* tick of the latest round
    wire,      \* the scheduler's wire counter (SpeedRun's wireSeq)
    seq0,      \* what round read of it before its probe, or NoSeq
    mach,      \* the debounce state of the link and of each family
    degStreak, degSent, degID, degSeq,   \* the degraded episode
    retry,     \* degradedRetry: the dispatch id last reported bounced
    report,    \* per dispatch: where the goroutine it spawned is
    seen,      \* what that goroutine loaded from retry
    pending,   \* transition events waiting for the store
    disk,      \* transition events in the store
    restarts,  \* times the daemon was started again
    overlap,   \* history: did a test use the network in the round that is out
    past,      \* history: the failed rounds of each machine's failing run
    flips,     \* history: transitions so far; the event of one is its number
    lost       \* history: events that will never reach the store

degVars   == <<degStreak, degSent, degID, degSeq, retry, report, seen>>
eventVars == <<pending, disk, flips, lost>>
vars == <<now, wire, seq0, mach, degVars, eventVars, restarts, overlap, past>>

Fresh == [online |-> TRUE, ok |-> 0, bad |-> 0, held |-> 0, start |-> NoTime,
          due |-> NoTime, since |-> NoTime]

DispatchIds == 1 .. MaxRounds

Init ==
    /\ now = 0 /\ wire = 0 /\ seq0 = NoSeq
    /\ mach = [x \in Machines |-> Fresh]
    /\ degStreak = 0 /\ degSent = FALSE /\ degID = NoID /\ degSeq = 0
    /\ retry = NoID /\ report = [d \in DispatchIds |-> "none"]
    /\ seen = [d \in DispatchIds |-> NoID]
    /\ pending = <<>> /\ disk = {} /\ restarts = 0
    /\ overlap = FALSE /\ past = [x \in Machines |-> {}]
    /\ flips = 0 /\ lost = {}

-----------------------------------------------------------------------------
(* One machine and one round                                               *)

\* resetStreaks, and noteFamilies of a family that is no longer probed.
Cleared(m) ==
    [m EXCEPT !.ok = 0, !.bad = 0, !.held = 0, !.start = NoTime, !.due = NoTime]

Pass(m) == [Cleared(m) EXCEPT !.ok = m.ok + 1]

\* Variant: the cap is measured from the previous failed round.
Fail_CapSlides(m, da, during) ==
    LET bad  == m.bad + 1
        held == during
    IN [m EXCEPT !.ok = 0, !.bad = bad, !.start = IF bad = 1 THEN now ELSE m.start,
                 !.held = IF held THEN m.held + 1 ELSE m.held,
                 !.due = IF m.due = NoTime /\ bad >= da THEN now ELSE m.due]

\* failRun.fail: the round is held if a test overlapped it and the run is
\* young; the run is dated where it first reached down-after, held or not.
Fail(m, da, during) ==
    LET bad   == m.bad + 1
        start == IF bad = 1 THEN now ELSE m.start
        held  == IF during /\ now - start < HoldMax THEN m.held + 1 ELSE m.held
    IN [m EXCEPT !.ok = 0, !.bad = bad, !.start = start, !.held = held,
                 !.due = IF m.due = NoTime /\ bad >= da THEN now ELSE m.due]

\* The debounced flip of advance and advanceFamily, and its date.
Flip(m, da, ua) ==
    CASE ~m.online /\ m.ok >= ua ->
            [m EXCEPT !.online = TRUE, !.since = now]
      [] m.online /\ m.bad - m.held >= da ->
            [m EXCEPT !.online = FALSE,
                      !.since = IF m.due = NoTime THEN now ELSE m.due]
      [] OTHER -> m

\* Variant: only a test that is running when the probe returns is noticed.
During_EndOnly == wire % 2 = 1

\* The wire counter was odd before the probe, or moved while it was out.
During == seq0 % 2 = 1 \/ wire # seq0

Judged(m, good, da, ua) ==
    Flip(IF good THEN Pass(m) ELSE Fail(m, da, During), da, ua)

\* A round with the probed families and those of them that passed quorum: the
\* link is online when one of them is.
Advance(probed, passed, da, ua) ==
    mach' = [x \in Machines |->
        IF x = Link THEN Judged(mach[x], passed # {}, da[x], ua)
        ELSE IF x \in probed THEN Judged(mach[x], x \in passed, da[x], ua)
        ELSE Cleared(mach[x])]

\* The same round in the history: the failed rounds since the last one that
\* passed or was not probed, and what was known of each.
Remember(probed, passed, da) ==
    past' = [x \in Machines |->
        IF (x = Link /\ passed = {}) \/ (x \in probed \ passed)
        THEN past[x] \union {[ts |-> now, da |-> da[x], test |-> overlap]}
        ELSE {}]

-----------------------------------------------------------------------------
(* Transition events                                                       *)

\* Variant: the newcomer is dropped when the buffer is full.
Buffer_DropsNewest(e) ==
    /\ IF Len(pending) >= MaxPending
       THEN lost' = lost \union {e} /\ UNCHANGED pending
       ELSE pending' = Append(pending, e) /\ UNCHANGED lost
    /\ UNCHANGED disk

\* bufferPendingEvent: past the cap the oldest is dropped.
Buffer(e) ==
    /\ IF Len(pending) >= MaxPending
       THEN /\ pending' = Append(Tail(pending), e)
            /\ lost' = lost \union {Head(pending)}
       ELSE pending' = Append(pending, e) /\ UNCHANGED lost
    /\ UNCHANGED disk

\* transition: the event is written at once, whatever is still waiting.
RecordFlip ==
    IF mach'[Link].online = mach[Link].online THEN UNCHANGED eventVars
    ELSE /\ flips' = flips + 1
         /\ \/ disk' = disk \union {flips + 1} /\ UNCHANGED <<pending, lost>>
            \/ StoreFails /\ Buffer(flips + 1)

\* flushPendingEvents: in order, up to the first that fails.
Flush ==
    /\ \E k \in 0 .. Len(pending) :
         /\ StoreFails \/ k = Len(pending)
         /\ disk' = disk \union {pending[i] : i \in 1 .. k}
         /\ pending' = SubSeq(pending, k + 1, Len(pending))
    /\ UNCHANGED <<flips, lost>>

-----------------------------------------------------------------------------
(* The degraded episode                                                    *)

\* resetDegraded; a report in retry is left alone.
EndEpisode ==
    /\ degStreak' = 0 /\ degSent' = FALSE /\ degID' = NoID
    /\ UNCHANGED <<degSeq, retry, report, seen>>

\* Variant: any report re-arms the episode.
Rearmed_ByAny == degSent /\ retry # NoID

\* Only a report that names the live dispatch re-arms the episode.
Rearmed == degSent /\ retry = degID

\* A reading over the threshold: after degradedRounds of them, dispatch, and
\* again when the dispatch was reported bounced.  Outside the speed schedule
\* OnDegraded spawns nothing.
Brownout ==
    /\ degStreak' = IF degStreak < DegradedRounds THEN degStreak + 1 ELSE degStreak
    /\ IF degStreak' < DegradedRounds \/ (degSent /\ ~Rearmed)
       THEN UNCHANGED <<degSent, degID, degSeq, retry, report>>
       ELSE /\ retry' = IF Rearmed THEN NoID ELSE retry
            /\ degSent' = TRUE /\ degSeq' = degSeq + 1 /\ degID' = degSeq + 1
            /\ \E where \in {"out", "none"} :
                 report' = [report EXCEPT ![degSeq + 1] = where]
    /\ UNCHANGED seen

\* noteDegraded and checkDegraded: a round with no family online, or with a
\* test on the wire, has no reading and leaves the episode as it is.
CheckDegraded(passed, latency) ==
    IF latency = "off" \/ ~mach'[Link].online THEN EndEpisode
    ELSE IF passed = {} \/ During THEN UNCHANGED degVars
    ELSE IF latency = "high" THEN Brownout
    ELSE EndEpisode

-----------------------------------------------------------------------------
(* The loop                                                                *)

\* An iteration of Run that waits, and the retry it begins with.
Idle ==
    /\ seq0 = NoSeq
    /\ Flush
    /\ UNCHANGED <<now, wire, seq0, mach, degVars, restarts, overlap, past>>

\* round, up to its probe.  Two reads of the clock may be a tick or more apart.
BeginRound ==
    /\ seq0 = NoSeq
    /\ \E t \in now + 1 .. MaxRounds : now' = t
    /\ Flush
    /\ seq0' = wire
    /\ overlap' = (wire % 2 = 1)
    /\ UNCHANGED <<wire, mach, degVars, restarts, past>>

\* The rest of a round that measured something.
EndRound(probed, passed, da, ua, latency) ==
    /\ seq0 # NoSeq
    /\ Advance(probed, passed, da, ua)
    /\ Remember(probed, passed, da)
    /\ RecordFlip
    /\ CheckDegraded(passed, latency)
    /\ seq0' = NoSeq /\ overlap' = FALSE
    /\ UNCHANGED <<now, wire, restarts>>

ResetStreaks ==
    /\ mach' = [x \in Machines |-> Cleared(mach[x])]
    /\ past' = [x \in Machines |-> {}]
    /\ EndEpisode

\* A round that measured nothing: skipped, or raced by the shutdown.
VoidRound ==
    /\ seq0 # NoSeq
    /\ ResetStreaks
    /\ seq0' = NoSeq /\ overlap' = FALSE
    /\ UNCHANGED <<now, wire, eventVars, restarts>>

\* Probing is paused, or the host was suspended: an iteration of Run.
Gap ==
    /\ seq0 = NoSeq
    /\ Flush
    /\ ResetStreaks
    /\ UNCHANGED <<now, wire, seq0, restarts, overlap>>

-----------------------------------------------------------------------------
(* The others                                                              *)

\* A speedtest opens or closes its wire window.
WireEdge ==
    /\ wire < MaxEdges
    /\ wire' = wire + 1
    /\ overlap' = (seq0 # NoSeq)
    /\ UNCHANGED <<now, seq0, mach, degVars, eventVars, restarts, past>>

Report(d, from, to) == report[d] = from /\ report' = [report EXCEPT ![d] = to]

\* degradedDispatch: the run was made, or bounced off another (ErrBusy).
DispatchRuns(d) ==
    /\ Report(d, "out", "ran") \/ Report(d, "out", "load")
    /\ UNCHANGED <<now, wire, seq0, mach, degStreak, degSent, degID, degSeq,
                   retry, seen, eventVars, restarts, overlap, past>>

\* RetryDegraded, from the goroutine of the dispatch: the slot only moves up.
LoadRetry(d) ==
    /\ Report(d, "load", IF retry >= d THEN "done" ELSE "cas")
    /\ seen' = [seen EXCEPT ![d] = retry]
    /\ UNCHANGED <<now, wire, seq0, mach, degStreak, degSent, degID, degSeq,
                   retry, eventVars, restarts, overlap, past>>

CasRetry(d) ==
    /\ Report(d, "cas", IF retry = seen[d] THEN "done" ELSE "load")
    /\ retry' = IF retry = seen[d] THEN d ELSE retry
    /\ UNCHANGED <<now, wire, seq0, mach, degStreak, degSent, degID, degSeq,
                   seen, eventVars, restarts, overlap, past>>

\* The daemon dies and is started again: New, with only the store kept.
Restart ==
    /\ restarts < MaxRestarts
    /\ restarts' = restarts + 1
    /\ wire' = 0 /\ seq0' = NoSeq
    /\ mach' = [x \in Machines |-> Fresh]
    /\ degStreak' = 0 /\ degSent' = FALSE /\ degID' = NoID /\ degSeq' = 0
    /\ retry' = NoID /\ report' = [d \in DispatchIds |-> "none"]
    /\ seen' = [d \in DispatchIds |-> NoID]
    /\ pending' = <<>>
    /\ lost' = lost \union {pending[i] : i \in 1 .. Len(pending)}
    /\ overlap' = FALSE /\ past' = [x \in Machines |-> {}]
    /\ UNCHANGED <<now, disk, flips>>

Next ==
    \/ Idle \/ BeginRound \/ VoidRound \/ Gap \/ WireEdge \/ Restart
    \/ \E probed \in SUBSET Families \ {{}}, da \in [Machines -> DownAfters],
          ua \in UpAfters, latency \in Latencies :
         \E passed \in SUBSET probed : EndRound(probed, passed, da, ua, latency)
    \/ \E d \in DispatchIds : DispatchRuns(d) \/ LoadRetry(d) \/ CasRetry(d)

Spec == Init /\ [][Next]_vars
-----------------------------------------------------------------------------
(* Properties                                                              *)

First(run)  == CHOOSE e \in run : \A x \in run : e.ts <= x.ts
Latest(run) == CHOOSE e \in run : \A x \in run : e.ts >= x.ts

\* The failed rounds that say something about the line: no test used it, or
\* the run was already older than the cap.
Evidence(run) == {e \in run : e.test => e.ts - First(run).ts >= HoldMax}

WentDown(x) == mach[x].online /\ ~mach'[x].online

\* No outage is made of our own tests: a machine goes down only on down-after
\* rounds of one unbroken failing run that no test excuses, whenever in a round
\* the test started or ended.
DownOnEvidence ==
    [][\A x \in Machines : WentDown(x) =>
          Cardinality(Evidence(past'[x])) >= Latest(past'[x]).da]_vars

\* No outage hides behind the tests: a machine that is still up has less than
\* down-after rounds of evidence, so a run past the cap is confirmed even with
\* a test hanging on the dead line (speedtestHoldMax).
OutageNotMissed ==
    \A x \in Machines : mach[x].online /\ past[x] # {} =>
        Cardinality(Evidence(past[x])) < Latest(past[x]).da

\* A brownout is measured again only because its dispatch was reported bounced:
\* no report of an older dispatch re-fires it or doubles a run in flight.
RedispatchedOnlyIfBounced ==
    [][(degID # NoID /\ degID' \notin {NoID, degID}) => report[degID] = "done"]_vars

Waiting == {pending[i] : i \in 1 .. Len(pending)}

\* Every transition is in the store, waiting in order, or lost, and just one of
\* them; what is lost is older than anything that still waits.
EventsKept ==
    /\ 1 .. flips = disk \union Waiting \union lost
    /\ disk \intersect (Waiting \union lost) = {}
    /\ \A i \in 1 .. Len(pending) :
         /\ \A j \in 1 .. i - 1 : pending[j] < pending[i]
         /\ \A e \in lost : e < pending[i]
=============================================================================
