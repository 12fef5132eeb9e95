---------------------------- MODULE OutageClock ----------------------------
(***************************************************************************)
(* How long an outage was and where it sits in the history: the two clocks *)
(* of internal/monitor's loop, the pauses and suspends it books as rows,   *)
(* and the transition that turns them into a stored outage.                *)
(*                                                                         *)
(* Time is counted in ticks, TPS of them to a second, so that the rounding *)
(* of stored times is visible.  The monotonic clock may stand still while  *)
(* the wall clock moves (a suspend), and the wall clock may be stepped     *)
(* back.  Both move only while the loop waits or a probe is out; the       *)
(* debounce that makes a round a transition is the module LinkMonitor.     *)
(***************************************************************************)
EXTENDS Integers, FiniteSets, Sequences, FiniteSetsExt

CONSTANTS
    TPS,          \* ticks in a second
    Interval, Recheck, \* ticks of a wait, when probing and when paused
    RoundMax,     \* the longest round, in ticks (config.MaxTimeout)
    Slack,        \* suspendGapSlack, in ticks
    Checkpoint,   \* pauseCheckpoint, in ticks
    GapMin,       \* startupGapMin, in ticks
    Epoch,        \* plausibleWallEpoch, in seconds
    Skew,         \* pauseFutureSkew, in seconds
    FutureSlack,  \* store.FutureSlack, in seconds
    MaxHeld,      \* maxHeldGaps
    StoreFails,   \* may a row's write fail
    Wall0,        \* the wall clock at the first start
    Suspends,     \* lengths a suspend may have
    Corrections,  \* steps of the wall clock
    MaxTicks, MaxJumps, MaxFlips, MaxStarts  \* bounds on a behaviour

ASSUME ClockAssumption ==
    /\ TPS \in Nat \ {0} /\ Interval \in Nat \ {0} /\ Recheck \in Nat \ {0}
    /\ RoundMax \in Nat /\ Slack \in Nat /\ Checkpoint \in Nat /\ GapMin \in Nat
    /\ Epoch \in Nat /\ Skew \in Nat /\ FutureSlack \in Nat
    /\ MaxHeld \in Nat \ {0} /\ Wall0 \in Nat
    /\ Suspends \subseteq Nat /\ Corrections \subseteq Int
    /\ StoreFails \in BOOLEAN
ASSUME BoundsAssumption ==
    /\ MaxTicks \in Nat /\ MaxJumps \in Nat /\ MaxFlips \in Nat /\ MaxStarts \in Nat

VARIABLES
    mono, wall,   \* the two clocks
    lpc,          \* where the loop is
    due,          \* the monotonic tick the armed wait ends at
    waited,       \* lastInterval: the wait the next gap is judged against
    check,        \* lastWall, with both readings
    lastRound,    \* the monotonic tick the last round ended at
    ts,           \* res.TS of the round that is out
    fail,         \* the round the failing run is dated at, or NoTime
    online, since, lastEv,  \* m.online, m.since, m.lastEventWall
    pauseAt,      \* pauseSpanStart; a pause is open while it is set
    book,         \* the accumulators of the outage, and the rows
    newest,       \* the newest transition event in the store
    seen,         \* seconds with a sample or an event in the store
    flips,        \* history: transitions so far
    closed,       \* history: the outage closed last, the wall seconds it took
                  \* and the pauses and suspends cut out of it; while one is
                  \* open, the second it began
    back,         \* history: the wall clock was set back
    ticks, jumps, starts \* history: ticks, suspends and steps, and starts so far

clockVars == <<mono, wall, ticks, jumps, back>>
loopVars  == <<lpc, due, waited, check, lastRound, ts>>
linkVars  == <<fail, online, since, lastEv, newest, seen, flips, closed>>
vars == <<clockVars, loopVars, linkVars, pauseAt, book, starts>>

Sec(t) == t \div TPS
\* ceilSeconds
CeilSec(t) == -((-t) \div TPS)
Bigger(a, b) == IF a > b THEN a ELSE b

Now    == [m |-> mono, w |-> wall]
NoTime == [m |-> -1, w |-> -1]
NoSec  == -1       \* an unset event time

NoOutage == [start |-> NoSec, end |-> NoSec, observed |-> 0, from |-> 0, to |-> 0,
             wall |-> 0, num |-> 0, cuts |-> 0]

\* New: the accumulators, the retry queue, and what is in the store.  The
\* history keeps when the open pause began; the pauses of this outage and their
\* slices, and what slices that were taken back held of sleep; and the slices
\* that have no row and stay deducted: those refused while their pause was open
\* (kept), and those given up or settled after it (gone).
NewBook(rows) ==
    [pausedGap |-> 0, frozenGap |-> 0, downPausedAt |-> NoTime, gen |-> 0,
     held |-> <<>>, rows |-> rows, began |-> -1, pauses |-> 0, slices |-> 0,
     slept |-> 0, kept |-> {}, gone |-> {}]

Init ==
    /\ mono = 0 /\ wall = Wall0 /\ ticks = 0 /\ jumps = 0 /\ back = FALSE /\ starts = 0
    /\ lpc = "down" /\ due = 0 /\ waited = 0
    /\ check = NoTime /\ lastRound = 0 /\ ts = NoTime
    /\ fail = NoTime /\ online = TRUE /\ since = 0 /\ lastEv = NoSec
    /\ newest = NoSec /\ seen = {} /\ flips = 0 /\ closed = NoOutage
    /\ pauseAt = NoTime /\ book = NewBook({})

-----------------------------------------------------------------------------
(* The clocks                                                              *)

Blocked == lpc \in {"wait", "probe"}

\* Time passes for both.  A wait is over when it is due, a round by RoundMax.
Pass ==
    /\ Blocked /\ ticks < MaxTicks /\ ticks' = ticks + 1
    /\ lpc = "wait" => mono < due
    /\ lpc = "probe" => mono < ts.m + RoundMax
    /\ mono' = mono + 1 /\ wall' = wall + 1
    /\ UNCHANGED <<jumps, back, loopVars, linkVars, pauseAt, book, starts>>

\* The host sleeps, or the process is stopped: the monotonic clock stands
\* still, or runs on, as the platform has it.
Suspend(d, e) ==
    /\ Blocked /\ jumps < MaxJumps
    /\ jumps' = jumps + 1
    /\ wall' = wall + d /\ mono' = mono + e
    /\ UNCHANGED <<ticks, back, loopVars, linkVars, pauseAt, book, starts>>

\* The wall clock is set.
Correct(d) ==
    /\ Blocked /\ jumps < MaxJumps /\ wall + d >= 0
    /\ jumps' = jumps + 1
    /\ wall' = wall + d /\ back' = (back \/ d < 0)
    /\ UNCHANGED <<mono, ticks, loopVars, linkVars, pauseAt, book, starts>>

-----------------------------------------------------------------------------
(* Rows: pendingGap, flushGap and the retry queue                          *)

\* A measured span; own and [from, till) are history: the outage it was
\* measured in and the monotonic ticks it covers.
Span(start, secs, deduct, frozen, pause) ==
    [start |-> start, secs |-> secs, deduct |-> deduct, frozen |-> frozen,
     pause |-> pause, gen |-> book.gen, own |-> IF online THEN 0 ELSE flips,
     from |-> start.m, till |-> mono]

\* PauseSpanSane: InsertPause refuses every other span.
PauseSpanSane(p) ==
    p.secs > 0 /\ Sec(p.start.w) >= Epoch /\ Sec(p.start.w) + p.secs <= Sec(wall) + Skew

\* revertGapDeduction: only while the outage it was booked in is open.
RevertGapDeduction(b, p) ==
    IF p.gen # b.gen \/ (p.deduct <= 0 /\ p.frozen <= 0) THEN b
    ELSE [b EXCEPT !.pausedGap = Bigger(@ - p.deduct, 0),
                   !.frozenGap = Bigger(@ - p.frozen, 0)]

\* What the row of a slice would hold beyond what the monotonic clock saw of it:
\* the host slept, or its whole seconds are more than it took.
Excess(p) == Bigger(p.secs * TPS - (p.till - p.from), 0)

\* dropRefusedPauseDeduction: the fold of the open pause begins later.  History:
\* a slice it does not take back stays deducted, its pause open or folded.
DropRefusedPauseDeduction(b, p) ==
    IF b.downPausedAt # NoTime /\ p.gen = b.gen /\ p.start.m >= b.downPausedAt.m
    THEN [b EXCEPT !.downPausedAt = [m |-> @.m + p.secs * TPS, w |-> @.w + p.secs * TPS],
                   !.slept = @ + Excess(p)]
    ELSE IF b.began # -1 /\ p.from >= b.began THEN [b EXCEPT !.kept = @ \union {p}]
    ELSE [b EXCEPT !.gone = @ \union {p}]

\* flushGap of a span the store can write, refuses, or cannot write now.
Flush(b, p, lands) ==
    IF ~PauseSpanSane(p)
    THEN IF p.pause THEN DropRefusedPauseDeduction(b, p) ELSE RevertGapDeduction(b, p)
    ELSE IF lands THEN [b EXCEPT !.rows = @ \union {p}]
    ELSE [b EXCEPT !.held = Append(@, p)]

\* appendHeldGap: past the cap the oldest is dropped; a pause slice cannot
\* give its fold back.
Evict(b) ==
    LET oldest == Head(b.held)
    IN IF Len(b.held) <= MaxHeld THEN b
       ELSE [RevertGapDeduction(b, oldest) EXCEPT
               !.held = Tail(@), !.gone = IF oldest.pause THEN @ \union {oldest} ELSE @]

\* A span that was just measured.
Offer(b, p, lands) == Evict(Flush(b, p, lands))

\* retryHeldGaps: each replays its own span.
RetryHeldGaps(lands) ==
    LET replayed[n \in 0 .. Len(book.held)] ==
            IF n = 0 THEN [book EXCEPT !.held = <<>>]
            ELSE Flush(replayed[n - 1], book.held[n], lands)
    IN replayed[Len(book.held)]

-----------------------------------------------------------------------------
(* The gap check: what the loop slept through                              *)

\* unobservedGap
UnobservedGap ==
    LET gap == Sec(wall) - Sec(check.w)
    IN IF \/ Sec(check.w) < Epoch \/ Sec(wall) < Epoch
          \/ gap <= Sec(waited + Slack)
       THEN 0 ELSE gap

\* unobservedInOutage: the part of the gap the elapsed time will contain.
UnobservedInOutage(gap) ==
    LET moved == mono - check.m
    IN IF moved <= 0 THEN 0 ELSE IF moved > gap * TPS THEN gap * TPS ELSE moved

\* Variant: the gap is deducted though the open pause will fold it too.
BookUnobservedGap_Twice(b, lands) ==
    LET gap    == UnobservedGap
        deduct == IF online THEN 0 ELSE UnobservedInOutage(gap)
        frozen == IF online THEN 0 ELSE gap * TPS - deduct
    IN IF gap = 0 THEN b
       ELSE Offer([b EXCEPT !.pausedGap = @ + deduct, !.frozenGap = @ + frozen],
                  Span(check, gap, deduct, frozen, FALSE), lands)

\* bookUnobservedGap: an open pause already covers the stretch.
BookUnobservedGap(b, lands) ==
    LET gap    == UnobservedGap
        deduct == IF online THEN 0 ELSE UnobservedInOutage(gap)
        frozen == IF online THEN 0 ELSE gap * TPS - deduct
    IN IF gap = 0 \/ pauseAt # NoTime THEN b
       ELSE Offer([b EXCEPT !.pausedGap = @ + deduct, !.frozenGap = @ + frozen],
                  Span(check, gap, deduct, frozen, FALSE), lands)

\* A wait is left when it is due, or a save moves the gate; one that moves
\* something else is left out, and a wait takes a tick at least.
Wakes(probing) ==
    \/ lpc = "top"
    \/ lpc = "wait" /\ Now # check /\ (mono >= due \/ (pauseAt = NoTime) # probing)

\* The head of an iteration: the held rows, then the gap check.
Woken(lands) == BookUnobservedGap(RetryHeldGaps(lands), lands)
\* A gap clears the failing run.
Unbroken == IF UnobservedGap > 0 THEN NoTime ELSE fail

-----------------------------------------------------------------------------
(* Pauses                                                                  *)

\* The wall length of the open span, but not less than the monotonic one.
PauseSpan == Bigger((Sec(wall) - Sec(pauseAt.w)) * TPS, mono - pauseAt.m)
Implausible == Sec(pauseAt.w) < Epoch \/ Sec(wall) < Epoch
WritesSlice(force) ==
    ~Implausible /\ PauseSpan > 0 /\ (force \/ PauseSpan >= Checkpoint)

\* bookPauseSpan: what the row holds and the monotonic clock did not see is
\* credited to the pair, exactly and signed.
BookPauseSpan(b, lands) ==
    LET secs   == Sec(PauseSpan)
        credit == secs * TPS - (mono - pauseAt.m)
    IN Offer([b EXCEPT !.frozenGap = IF online THEN @ ELSE @ + credit, !.slices = @ + 1],
             Span(pauseAt, secs, 0, 0, TRUE), lands)

\* flushPause: a span with an implausible end is given up, unwritten.
FlushPause(b, force, lands) ==
    IF Implausible THEN [b EXCEPT !.gone = @ \union {Span(pauseAt, Sec(mono - pauseAt.m), 0, 0, TRUE)},
                                  !.slices = @ + 1]
    ELSE IF WritesSlice(force) THEN BookPauseSpan(b, lands)
    ELSE b
\* Where the span of a pause that goes on begins afterwards.
Reanchored == IF Implausible \/ WritesSlice(FALSE) THEN Now ELSE pauseAt

\* notePause
NotePause(b) ==
    [b EXCEPT !.downPausedAt = IF ~online /\ @ = NoTime THEN Now ELSE @,
              !.began = mono, !.pauses = @ + 1]

\* noteResume: the pause as the monotonic clock saw it.
NoteResume(b) ==
    [b EXCEPT !.pausedGap = IF b.downPausedAt = NoTime THEN @
                            ELSE @ + Bigger(mono - b.downPausedAt.m, 0),
              !.downPausedAt = NoTime, !.began = -1]

\* An iteration that finds the gate shut: a pause begins, or is checkpointed;
\* lands tells if the store takes writes.
Paused(lands) ==
    /\ Wakes(FALSE)
    /\ IF pauseAt = NoTime
       THEN book' = NotePause(Woken(lands)) /\ pauseAt' = Now
       ELSE book' = FlushPause(Woken(lands), FALSE, lands) /\ pauseAt' = Reanchored
    /\ fail' = NoTime /\ check' = Now
    /\ lpc' = "wait" /\ due' = mono + Recheck /\ waited' = Recheck
    /\ UNCHANGED <<clockVars, lastRound, ts, online, since, lastEv, newest, seen,
                   flips, closed, starts>>

\* The resume edge, if a pause is open: its last slice, and the fold.
ResumeEdge(lands) ==
    IF pauseAt = NoTime THEN Woken(lands)
    ELSE NoteResume(FlushPause(Woken(lands), TRUE, lands))

Deadline == lastRound + Interval

\* An iteration that finds the gate open: a round is due, or the rest of the
\* interval is armed.
Probing(lands) ==
    /\ Wakes(TRUE)
    /\ book' = ResumeEdge(lands) /\ pauseAt' = NoTime
    /\ fail' = Unbroken /\ check' = Now
    /\ IF Deadline <= mono
       THEN lpc' = "probe" /\ ts' = Now /\ waited' = 0 /\ UNCHANGED due
       ELSE /\ lpc' = "wait" /\ due' = Deadline /\ waited' = Deadline - mono
            /\ UNCHANGED ts
    /\ UNCHANGED <<clockVars, lastRound, online, since, lastEv, newest, seen,
                   flips, closed, starts>>

-----------------------------------------------------------------------------
(* Rounds and transitions                                                  *)

\* The stored time of a transition dated at t: never before the last event.
EventAfter(t) == Bigger(Sec(t.w), lastEv)

\* transition to offline: strictly after the last event.
Down(t) ==
    LET at == IF EventAfter(t) = lastEv THEN lastEv + 1 ELSE EventAfter(t)
    IN /\ online' = FALSE /\ since' = t.m /\ lastEv' = at
       /\ closed' = [NoOutage EXCEPT !.wall = Sec(t.w)]

Elapsed(t) == Bigger(t.m - since, 0)

\* duration_s: the elapsed seconds without those of the pauses.
Observed(t) == Bigger(Sec(Elapsed(t)) - Sec(book.pausedGap), 0)

\* Variant: time asleep is not added to the pair.
Width_NoFreeze(t) == Sec(Elapsed(t))

\* How wide the stored pair has to be.
Width(t) == Sec(Elapsed(t)) + CeilSec(book.frozenGap)

Held == {book.held[i] : i \in 1 .. Len(book.held)}
OfOutage(n, spans) == {p \in spans : p.own = n}

\* The pauses of the open outage, and its suspends with a row or one to come.
Cuts == book.pauses + Cardinality({p \in OfOutage(flips, book.rows \union Held) : ~p.pause})

\* transition to online, which closes the outage.
Up(t) ==
    LET at == IF Observed(t) > 0 /\ lastEv # NoSec
              THEN Bigger(EventAfter(t), lastEv + Width(t)) ELSE EventAfter(t)
    IN /\ online' = TRUE /\ since' = t.m /\ lastEv' = at
       /\ closed' = [start |-> lastEv, end |-> at, observed |-> Observed(t),
                     from |-> since, to |-> t.m, cuts |-> Cuts,
                     wall |-> Sec(t.w) - closed.wall, num |-> flips]

\* The accumulators of the next incarnation.
NextIncarnation ==
    [book EXCEPT !.gen = @ + 1, !.pausedGap = 0, !.frozenGap = 0,
                 !.downPausedAt = NoTime, !.pauses = 0, !.slices = 0, !.slept = 0]

Record ==
    /\ newest' = Bigger(newest, lastEv')
    /\ seen' = IF starts < MaxStarts THEN seen \union {Sec(ts.w), lastEv'} ELSE {}
    /\ flips' = flips + 1
    /\ book' = NextIncarnation

\* Back to the head of the loop.  The first round of a process comes before
\* the gap check has an anchor.
RoundDone ==
    /\ lpc' = "top" /\ lastRound' = mono /\ ts' = NoTime
    /\ check' = IF check = NoTime THEN Now ELSE check
    /\ UNCHANGED <<clockVars, due, waited, pauseAt, starts>>

\* A round that changes nothing: it passed, or failed short of down-after, or
\* failed with the run held from being confirmed and dated here.
Round(dated) ==
    /\ lpc = "probe"
    /\ fail' = CASE dated = "none" -> NoTime
                 [] dated # "none" /\ online /\ fail = NoTime -> ts
                 [] OTHER -> fail
    /\ seen' = IF starts < MaxStarts THEN seen \union {Sec(ts.w)} ELSE {}
    /\ RoundDone
    /\ UNCHANGED <<online, since, lastEv, newest, flips, closed, book>>

\* A round that confirms an outage, at the date of its run.
GoDown ==
    /\ lpc = "probe" /\ online /\ flips < MaxFlips
    /\ Down(IF fail = NoTime THEN ts ELSE fail)
    /\ fail' = NoTime
    /\ Record /\ RoundDone

\* A round that confirms a recovery.
GoUp ==
    /\ lpc = "probe" /\ ~online /\ flips < MaxFlips
    /\ Up(ts)
    /\ fail' = NoTime
    /\ Record /\ RoundDone

-----------------------------------------------------------------------------
(* Starting                                                                *)

\* Variant: only this process's events are guarded.
Seed_None == NoSec

\* lastEventWall of a new process: the newest event, unless it is condemned.
Seed == IF newest # NoSec /\ newest <= Sec(wall) + FutureSlack THEN newest ELSE NoSec

\* LastObservedTS: the newest sample or event the clock has reached, or the end
\* of a row it has reached the start of.
LastObserved ==
    LET Reached(t) == t >= Epoch /\ t <= Sec(wall)
        known == {t \in seen : Reached(t)} \union
                 {Sec(p.start.w) + p.secs : p \in {q \in book.rows : Reached(Sec(q.start.w))}}
    IN IF known = {} THEN NoSec ELSE Max(known)

\* The time the daemon was down, as a row.
StartupGap(b, lands) ==
    LET last == LastObserved
        gap  == wall - last * TPS
    IN IF last = NoSec \/ gap <= GapMin THEN b
       ELSE Offer(b, [Span([m |-> mono, w |-> last * TPS], Sec(gap), 0, 0, TRUE)
                        EXCEPT !.gen = 0, !.own = 0], lands)

\* Run, up to its first round if the gate is open.
Start(probing, lands) ==
    /\ lpc = "down" /\ starts < MaxStarts
    /\ starts' = starts + 1
    /\ online' = TRUE /\ since' = mono /\ fail' = NoTime /\ closed' = NoOutage
    /\ lastEv' = Seed
    /\ book' = StartupGap(NewBook(book.rows), lands)
    /\ pauseAt' = NoTime /\ waited' = Interval /\ due' = mono /\ lastRound' = mono
    /\ IF probing THEN lpc' = "probe" /\ ts' = Now /\ check' = NoTime
                  ELSE lpc' = "top" /\ ts' = NoTime /\ check' = Now
    /\ UNCHANGED <<clockVars, newest, seen, flips>>

\* The process dies, and the clock is at d when it is started again.
Die(d) ==
    /\ Blocked /\ starts < MaxStarts
    /\ lpc' = "down" /\ wall' = wall + d
    /\ UNCHANGED <<mono, ticks, jumps, back, due, waited, check, lastRound, ts, linkVars, pauseAt,
                   book, starts>>

-----------------------------------------------------------------------------
Landings == IF StoreFails THEN BOOLEAN ELSE {TRUE}

Next ==
    \/ Pass
    \/ \E d \in Suspends, e \in {0, 1} : Suspend(d, e * d)
    \/ \E d \in Corrections : Correct(d)
    \/ \E lands \in Landings : Probing(lands)
    \/ \E lands \in Landings : Paused(lands)
    \/ \E dated \in {"none", "run"} : Round(dated)
    \/ GoDown
    \/ GoUp
    \/ \E probing \in BOOLEAN, lands \in Landings : Start(probing, lands)
    \/ \E d \in Suspends \union {0} : Die(d)

Spec == Init /\ [][Next]_vars

-----------------------------------------------------------------------------
(* Properties                                                              *)

\* The ticks of an outage that none of these spans stands for: a row stands for
\* no more time than it holds.
Uncovered(o, spans) ==
    {t \in o.from .. o.to - 1 : ~\E p \in spans :
        p.from <= t /\ t < p.till /\ t < p.from + p.secs * TPS}

Closes == closed'.num # closed.num /\ closed'.num # 0

\* The seconds of an outage that nobody can be said not to have watched.
Counted(o, spans) == Sec(Cardinality(Uncovered(o, OfOutage(o.num, spans))))

\* What was cut out of an outage and has its row, is to have it, or has none and
\* could not be put back.
Cut == book.rows \union Held \union book.gone

\* When it closes, an outage is as long as it lasted less the time nobody
\* watched.  No longer: each pause and suspend with a row, or one to come, is
\* taken out once; a refused slice is left in with the sleep in it, which its row
\* would have held.  No shorter: nothing is taken out twice, but for what each
\* slice is rounded by, and nothing without a row but for a pause given up, or
\* refused when it was folded, and slices refused as RefusalsTakenBack needs.
WatchedTimeKept ==
    [][Closes =>
        LET watched == Counted(closed', Cut \union book.kept)
        IN /\ closed'.observed <= watched + CeilSec(book.slept) + 1
           /\ closed'.observed >= watched - book.slices]_vars

\* monitor.go of dropRefusedPauseDeduction: "A refused span will never have a
\* row, so the stretch it covers must not be deducted from the open outage
\* either."  It is not so for a slice that follows one whose row was longer than
\* its time on the monotonic clock: the anchor is already past its start.
RefusalsTakenBack ==
    [][Closes => closed'.observed >= Counted(closed', Cut) - book.slices]_vars

\* The seconds of the stored pair that the rows measured in it leave.
Observable(o, spans) ==
    Cardinality({t \in o.start .. o.end - 1 : ~\E p \in spans :
        Sec(p.start.w) <= t /\ t < Sec(p.start.w) + p.secs})

\* The stored pair holds its length: with its own rows subtracted, those that
\* will still be written too, it has at least duration_s seconds left, so that
\* uptime, the outage list and the heatmap book what duration_s claims.  And on a
\* host whose clock is never set back it is no wider than the outage was, to a
\* second for each pause and suspend in it: the rounding does not grow with the
\* length of a pause and walk the recovery into the future.
PairHoldsLength ==
    closed.num # 0 =>
        LET own == OfOutage(closed.num, book.rows \union Held) IN
        /\ Observable(closed, own) >= closed.observed
        /\ ~back => closed.end - closed.start <= closed.wall + 1 + closed.cuts

\* Events keep their order in the store across backward steps and restarts:
\* an outage begins strictly after every event before it, and a recovery is
\* not before its outage.
EventsOrdered ==
    [][flips' # flips =>
         IF online' THEN lastEv' >= newest ELSE lastEv' > newest]_vars
=============================================================================
