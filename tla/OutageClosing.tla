--------------------------- MODULE OutageClosing ---------------------------
(***************************************************************************)
(* The outage record of internal/store: the running monitor writes 'down'  *)
(* and 'up' through InsertEvent, and every other writer of the record (the *)
(* close of outages whose end only the samples show, a cleanup, the two    *)
(* Delete nows, the delete of one outage) works under outageMu.  The close *)
(* reads which outages have no end, searches the samples for each, and     *)
(* only then writes; the list of the monitor's own outages keeps it away   *)
(* from what the monitor will end itself.                                  *)
(*                                                                         *)
(* A time is a second of the wall clock.  A write of the monitor may fail  *)
(* and is tried again later; a close that fails part way stops there.      *)
(***************************************************************************)
EXTENDS Naturals, FiniteSets, FiniteSetsExt

CONSTANTS LastSecond,   \* the bound of the clock, a second less for each upset
          UpAfter,      \* good rounds in a row the monitor ends an outage at
          Skew,         \* metricsFutureSkew: the readers' tolerance
          FutureSlack,  \* pruneFutureSlack: what the sweep leaves ahead of the clock
          MaxUpsets,    \* bound: restarts and clocks set back, together
          LastUpset     \* bound: the second after which there is none

\* The sweep reaches two days ahead of the clock, the readers two minutes.
ASSUME OutageClosingAssumption ==
    /\ LastSecond \in Nat /\ UpAfter \in Nat \ {0} /\ MaxUpsets \in Nat /\ LastUpset \in Nat
    /\ Skew \in Nat /\ FutureSlack \in Nat \ {0} /\ Skew <= FutureSlack

VARIABLES ocEvents,   \* the events table
          ocSamples,  \* what the samples show of a second
          ocClock,    \* the wall clock, and the second it was set back from
          ocMon,      \* the running monitor and the events it holds for a retry
          ocLive,     \* monitorOutages
          ocMu,       \* who holds outageMu: "free" or a caller
          ocJob,      \* the close, the delete and the clear in progress
          ocSpoiled,  \* (history) a held event was lost or its outage deleted under it,
              \* or a clock set back lives the second of a 'down' again
          ocMisled    \* (history) outages whose end a close misread, a 'down' being held

ocVars == <<ocEvents, ocSamples, ocClock, ocMon, ocLive, ocMu, ocJob, ocSpoiled, ocMisled>>

\* The monitor dates an 'up' at most this far ahead of a clock set back.
Horizon == LastSecond + 2
Second == 1..Horizon
Event == [ts : Second, type : {"down", "up"}]
Never == Horizon + 1

NoJob == [pc |-> "idle", now |-> 0, cutoff |-> 0, gaps |-> {}, gap |-> {}, rec |-> 0,
          synth |-> {}]
NoJobs == [pruner |-> NoJob, web |-> NoJob]
FreshMonitor(restarts) == [due |-> FALSE, down |-> 0, good |-> 0, len |-> 0, last |-> 0,
                    held |-> {}, restarts |-> restarts]
NoOutages == [open |-> {}, closing |-> FALSE, waiting |-> 0]

\* A previous process may have left an outage it never saw end.
OcInit ==
    /\ ocEvents \in {{}, {[ts |-> 1, type |-> "down"]}}
    /\ ocSamples = [s \in Second |-> "none"]
    /\ ocClock = [now |-> 2, lived |-> 0]
    /\ ocMon = FreshMonitor(0) /\ ocLive = NoOutages
    /\ ocMu = "free" /\ ocJob = NoJobs /\ ocSpoiled = FALSE /\ ocMisled = {}

-----------------------------------------------------------------------------
(* Reading the record and the samples.                                     *)

\* A 'down' sorts first where the two share a second.
Before(e, f) == e.ts < f.ts \/ (e.ts = f.ts /\ e.type = "down" /\ f.type = "up")
Following(events, e) == {f \in events : Before(e, f)}
Next1(events, e) == CHOOSE f \in Following(events, e) :
                        \A g \in Following(events, e) \ {f} : Before(f, g)

\* firstQuorumRecovery: the first good second in (after, before], or 0.
Recovery(after, before) ==
    LET good == {s \in Second : s > after /\ s <= before /\ ocSamples[s] = "good"}
    IN  IF good = {} THEN 0 ELSE Min(good)

\* monitorOutages.line
Line == Min({o.down : o \in ocLive.open} \cup {Never})

\* The pairing query of closeDanglingDowns, at the clock it read.
Gaps_LastOnly(now) ==
    {[down |-> d.ts, end |-> now, final |-> TRUE, pairUp |-> 0] :
        d \in {e \in ocEvents : e.type = "down" /\ e.ts <= now /\ Following(ocEvents, e) = {}}}
Gaps(now) ==
    LET seen == {e \in ocEvents : e.ts <= now + FutureSlack}
        Shape(d) ==
            IF Following(seen, d) = {}
            THEN [down |-> d.ts, end |-> now, final |-> TRUE, pairUp |-> 0]
            ELSE LET n == Next1(seen, d) IN
                 IF n.type = "down"
                 THEN [down |-> d.ts, end |-> n.ts, final |-> FALSE, pairUp |-> 0]
                 ELSE [down |-> d.ts, end |-> now, final |-> FALSE, pairUp |-> n.ts]
        Dangles(d) ==
            \/ Following(seen, d) = {}
            \/ LET n == Next1(seen, d) IN n.type = "down" \/ n.ts > now + Skew
    IN  {Shape(d) : d \in {e \in seen : e.type = "down" /\ Dangles(e)}}

-----------------------------------------------------------------------------
(* monitorOutages, the list a close keeps away from.                       *)

Forget(open, reached) ==
    {o \in open : ~(o.downLanded /\ o.up # 0 /\ o.up <= reached)}

Opened(live, at, now) ==
    IF \E o \in live.open : o.down = at THEN live
    ELSE [live EXCEPT !.open = (IF live.closing \/ live.waiting > 0 THEN @ ELSE Forget(@, now))
                               \cup {[down |-> at, downLanded |-> FALSE, up |-> 0]}]

EventLanded(live, e) ==
    IF e.type = "down"
    THEN [live EXCEPT !.open = {IF o.down = e.ts THEN [o EXCEPT !.downLanded = TRUE] ELSE o : o \in @}]
    ELSE LET mine == {o \in live.open : o.up = 0 /\ o.down <= e.ts}
             last == Max({o.down : o \in mine} \cup {0})
         IN  [live EXCEPT !.open = {IF o \in mine /\ o.down = last THEN [o EXCEPT !.up = e.ts] ELSE o : o \in @}]

-----------------------------------------------------------------------------
(* The monitor: InsertEvent, and what decides its events.                  *)

\* The event goes on the list before its row can be on disk.
InsertEvent(e, ok, live, events) ==
    LET listed == IF e.type = "down" THEN Opened(live, e.ts, ocClock.now) ELSE live
    IN  IF ok THEN <<EventLanded(listed, e), events \cup {e}>> ELSE <<listed, events>>

\* A round is stored, then judged; what it confirms is written at once, or
\* held when the store refuses.
RoundAt(good) ==
    LET now == ocClock.now IN
    [ocSamples EXCEPT ![now] = IF good /\ @ \in {"none", "good"} THEN "good" ELSE "bad"]

BadRound ==
    /\ ocMon.due
    /\ ocSamples' = RoundAt(FALSE)
    /\ \E ok \in BOOLEAN :
          IF ocMon.down # 0
          THEN /\ ocMon' = [ocMon EXCEPT !.due = FALSE, !.good = 0]
               /\ UNCHANGED <<ocEvents, ocLive, ocSpoiled>>
          ELSE LET e == [ts |-> Max({ocClock.now, ocMon.last + 1}), type |-> "down"]
                   wrote == InsertEvent(e, ok, ocLive, ocEvents)
               IN  /\ e.ts \in Second
                   /\ ocSpoiled' = (ocSpoiled \/ e.ts > ocClock.now \/ ocClock.now <= ocClock.lived)
                   /\ ocLive' = wrote[1] /\ ocEvents' = wrote[2]
                   /\ ocMon' = [ocMon EXCEPT !.due = FALSE, !.down = e.ts, !.good = 0, !.len = 0, !.last = e.ts,
                                             !.held = IF ok THEN @ ELSE @ \cup {e}]
    /\ UNCHANGED <<ocClock, ocMu, ocJob, ocMisled>>

\* The length is the monotonic clock's; an 'up' is dated ahead of a clock that
\* was set back (the widen in Monitor.transition).
GoodRound ==
    /\ ocMon.due
    /\ ocSamples' = RoundAt(TRUE)
    /\ ocSpoiled' = (ocSpoiled \/ \E d \in ocEvents \cup ocMon.held :
                                     d.type = "down" /\ d.ts = ocClock.now)
    /\ IF ocMon.down = 0 \/ ocMon.good + 1 < UpAfter
       THEN /\ ocMon' = [ocMon EXCEPT !.due = FALSE, !.good = IF ocMon.down = 0 THEN 0 ELSE @ + 1]
            /\ UNCHANGED <<ocEvents, ocLive>>
       ELSE LET e == [ts |-> Max({ocClock.now, ocMon.down + ocMon.len}), type |-> "up"] IN
            \E ok \in BOOLEAN :
               LET wrote == InsertEvent(e, ok, ocLive, ocEvents) IN
               /\ e.ts \in Second
               /\ ocLive' = wrote[1] /\ ocEvents' = wrote[2]
               /\ ocMon' = [ocMon EXCEPT !.due = FALSE, !.down = 0, !.good = 0, !.len = 0, !.last = e.ts,
                                         !.held = IF ok THEN @ ELSE @ \cup {e}]
    /\ UNCHANGED <<ocClock, ocMu, ocJob, ocMisled>>

\* The retry buffer writes its oldest event again.
Retry ==
    /\ ocMon.held # {}
    /\ LET e == CHOOSE f \in ocMon.held : \A g \in ocMon.held \ {f} : Before(f, g)
           wrote == InsertEvent(e, TRUE, ocLive, ocEvents)
       IN  /\ ocLive' = wrote[1] /\ ocEvents' = wrote[2]
           /\ ocMon' = [ocMon EXCEPT !.held = @ \ {e}]
    /\ UNCHANGED <<ocSamples, ocClock, ocMu, ocJob, ocSpoiled, ocMisled>>

Upsets == ocMon.restarts + (IF ocClock.lived = 0 THEN 0 ELSE 1)
MayUpset == Upsets < MaxUpsets /\ ocClock.now <= LastUpset

Tick ==
    /\ ocClock.now < LastSecond - Upsets
    /\ ocClock' = [ocClock EXCEPT !.now = @ + 1]
    /\ ocMon' = [ocMon EXCEPT !.due = TRUE, !.len = IF ocMon.down = 0 THEN 0 ELSE @ + 1]
    /\ UNCHANGED <<ocEvents, ocSamples, ocLive, ocMu, ocJob, ocSpoiled, ocMisled>>

\* A restart loses the list, the held events and any close in progress, and
\* the new monitor starts out believing the link is up.
DaemonRestart ==
    /\ MayUpset
    /\ ocMon' = [FreshMonitor(ocMon.restarts + 1) EXCEPT !.last =
                    Max({e.ts : e \in ocEvents} \cup {0})]
    /\ ocLive' = NoOutages /\ ocMu' = "free" /\ ocJob' = NoJobs
    /\ ocSpoiled' = (ocSpoiled \/ \E d \in ocMon.held : d.type = "down"
                                      /\ \E u \in ocEvents : u.type = "up" /\ u.ts >= d.ts)
    /\ UNCHANGED <<ocEvents, ocSamples, ocClock, ocMisled>>

SetBack ==
    /\ ocClock.lived = 0 /\ ocClock.now > 2 /\ MayUpset
    /\ ocClock' = [now |-> ocClock.now - 1, lived |-> ocClock.now]
    /\ UNCHANGED <<ocEvents, ocSamples, ocMon, ocLive, ocMu, ocJob, ocSpoiled, ocMisled>>

-----------------------------------------------------------------------------
(* The close of outages: the pruner runs it at its sample cutoff, a latency *)
(* Delete now at the present.                                              *)

Callers == {"pruner", "web"}
Changes(c, job) == ocJob' = [ocJob EXCEPT ![c] = job]

\* What each of them does next under outageMu.
TakesMu_Free(c) == ocMu' = c
TakesMu(c) == ocMu = "free" /\ ocMu' = c

CloseAsks(c) ==
    /\ ocJob[c].pc = "idle"
    /\ \E cutoff \in IF c = "pruner" THEN 2..ocClock.now ELSE {ocClock.now + 1} :
          Changes(c, [NoJob EXCEPT !.pc = "wait", !.now = ocClock.now, !.cutoff = cutoff])
    /\ ocLive' = [ocLive EXCEPT !.waiting = @ + 1]
    /\ UNCHANGED <<ocEvents, ocSamples, ocClock, ocMon, ocMu, ocSpoiled, ocMisled>>

\* The monitor writes an 'up' straight to the store while the 'down' before it
\* waits: what dangles before that 'down' then seems to end with the 'up'.
EndedByAnothers ==
    {d.ts : d \in {e \in ocEvents : e.type = "down" /\ Following(ocEvents, e) # {}
                      /\ \E h \in ocMon.held : h.type = "down" /\ Before(e, h)
                             /\ Before(h, Next1(ocEvents, e))}}

\* The finished outages come off the list, then the record is read.
CloseBegins(c) ==
    /\ ocJob[c].pc = "wait" /\ TakesMu(c)
    /\ ocLive' = [open |-> Forget(ocLive.open, ocJob[c].now + Skew), closing |-> TRUE,
                  waiting |-> ocLive.waiting - 1]
    /\ Changes(c, [ocJob[c] EXCEPT !.pc = "search", !.gaps = Gaps(ocJob[c].now)])
    /\ ocMisled' = ocMisled \cup EndedByAnothers
    /\ UNCHANGED <<ocEvents, ocSamples, ocClock, ocMon, ocSpoiled>>

\* An outage at or past the line is the monitor's; an earlier one's search
\* stops at the line, which makes it neither final nor the owner of an 'up'
\* past it.
Bounded(g, line) ==
    IF g.end > line
    THEN [g EXCEPT !.end = line, !.final = FALSE, !.pairUp = IF @ > line THEN 0 ELSE @]
    ELSE g

CloseSearches(c) ==
    /\ ocJob[c].pc = "search" /\ ocJob[c].gaps # {}
    /\ LET job == ocJob[c]
           g == CHOOSE h \in job.gaps : \A k \in job.gaps : h.down <= k.down
           b == Bounded(g, Line)
       IN  Changes(c, IF g.down >= Line THEN [job EXCEPT !.gaps = @ \ {g}]
                      ELSE [job EXCEPT !.pc = "judge", !.gaps = @ \ {g}, !.gap = {b},
                                       !.rec = Recovery(b.down, b.end)])
    /\ UNCHANGED <<ocEvents, ocSamples, ocClock, ocMon, ocLive, ocMu, ocSpoiled, ocMisled>>

\* The line is read again: an outage confirmed during the search owns what
\* came after it.  Only a recovery the samples are about to lose is written.
Due(job, g) == job.rec > g.down /\ job.rec < Line /\ job.rec < job.cutoff

CloseJudges(c) ==
    /\ ocJob[c].pc = "judge"
    /\ LET job == ocJob[c]
           g == CHOOSE h \in job.gap : TRUE
           end == [ts |-> job.rec, down |-> g.down, final |-> g.final, pairUp |-> g.pairUp]
       IN  Changes(c, [job EXCEPT !.pc = "search", !.gap = {}, !.rec = 0,
                                  !.synth = IF Due(job, g) THEN @ \cup {end} ELSE @])
    /\ UNCHANGED <<ocEvents, ocSamples, ocClock, ocMon, ocLive, ocMu, ocSpoiled, ocMisled>>

\* An outage gets one closing event: its own 'up' ahead of the clock is moved
\* back, and only for want of one is an end written.
MovedFrom(u) ==
    LET next == {f \in ocEvents : f.ts > u.down /\ \A g \in ocEvents : g.ts > u.down => ~Before(g, f)}
    IN  IF u.pairUp # 0 THEN {u.pairUp}
        ELSE IF u.final THEN {f.ts : f \in {n \in next : n.type = "up"}} ELSE {}

CloseWrites(c) ==
    /\ ocJob[c].pc = "search" /\ ocJob[c].gaps = {} /\ ocJob[c].synth # {}
    /\ LET synth == ocJob[c].synth
           u == CHOOSE h \in synth : \A k \in synth : h.down <= k.down
           gone == {[ts |-> t, type |-> "up"] : t \in MovedFrom(u)} \cap ocEvents
           lost == u.pairUp # 0 /\ gone = {}
       IN  /\ ocEvents' = IF lost THEN ocEvents ELSE (ocEvents \ gone) \cup {[ts |-> u.ts, type |-> "up"]}
           /\ Changes(c, [ocJob[c] EXCEPT !.synth = @ \ {u}])
           /\ ocMisled' = ocMisled \cup {o.down : o \in {p \in ocLive.open : [ts |-> p.up, type |-> "up"] \in gone}}
    /\ UNCHANGED <<ocSamples, ocClock, ocMon, ocLive, ocMu, ocSpoiled>>

\* Variant: a close that failed is followed by the delete all the same.
Complete_Anyway(job) == TRUE
Complete(job) == job.gaps = {} /\ job.synth = {}

\* Every way out of the close lets go of the list and of outageMu; one that
\* failed deletes nothing afterwards.
CloseEnds(c) ==
    /\ ocJob[c].pc = "search"
    /\ ocMu' = "free" /\ ocLive' = [ocLive EXCEPT !.closing = FALSE]
    /\ Changes(c, IF Complete(ocJob[c]) THEN [ocJob[c] EXCEPT !.pc = "delete"] ELSE NoJob)
    /\ UNCHANGED <<ocEvents, ocSamples, ocClock, ocMon, ocSpoiled, ocMisled>>

\* A latency Delete now takes every sample, a cleanup those past its cutoff.
SamplesGo(c) ==
    /\ ocJob[c].pc = "delete"
    /\ ocSamples' = [s \in Second |->
                        IF c = "web" \/ s < ocJob[c].cutoff THEN "none" ELSE ocSamples[s]]
    /\ Changes(c, IF c = "pruner" THEN [NoJob EXCEPT !.pc = "sweep", !.now = ocJob[c].now] ELSE NoJob)
    /\ UNCHANGED <<ocEvents, ocClock, ocMon, ocLive, ocMu, ocSpoiled, ocMisled>>

\* The sweep of old outages, at the outage window's own cutoff: a 'down' goes
\* only with the end after it; one that straddles the cutoff, or has no end, is
\* kept (variant: everything goes by age).  What it leaves ahead of the clock
\* moves on with the pass's own uptime.
Swept_Halves(cutoff) == {e \in ocEvents : e.ts < cutoff}
Swept(cutoff) ==
    {e \in ocEvents : e.ts < cutoff
        /\ (e.type = "up" \/ \E u \in ocEvents : u.type = "up" /\ u.ts > e.ts /\ u.ts < cutoff)}

SweepEvents ==
    /\ ocJob["pruner"].pc = "sweep" /\ ocMu = "free"
    /\ \E cutoff \in 1..ocJob["pruner"].now :
          ocEvents' = {e \in ocEvents \ Swept(cutoff) :
                          e.ts <= Max({ocJob["pruner"].now, ocClock.now}) + FutureSlack}
    /\ ocSpoiled' = (ocSpoiled \/ \E e \in ocMon.held, f \in ocEvents \ ocEvents' : Before(e, f))
    /\ Changes("pruner", NoJob)
    /\ UNCHANGED <<ocSamples, ocClock, ocMon, ocLive, ocMu, ocMisled>>

-----------------------------------------------------------------------------
(* The other writers of the record.                                        *)

\* DeleteOutage reads the downs that belong to an 'up' ...
Belonging(ts) ==
    LET floor == Max({e.ts : e \in {f \in ocEvents : f.type = "up" /\ f.ts < ts}} \cup {0})
        downs == {e.ts : e \in {f \in ocEvents : f.type = "down" /\ f.ts <= ts /\ f.ts > floor}}
        Broken(d) == LET later == {x \in downs : x > d} IN
                     /\ later # {}
                     /\ Recovery(d, Min(later)) \in 1..(Min(later) - 1)
    IN  {d \in downs : \A x \in downs : x >= d => ~Broken(x)}

DeleteOutageReads ==
    /\ ocJob["web"].pc = "idle" /\ TakesMu("web")
    /\ \E e \in ocEvents : e.type = "up"
          /\ Changes("web", [NoJob EXCEPT !.pc = "commit", !.cutoff = e.ts, !.gaps = Belonging(e.ts)])
    /\ ocSpoiled' = (ocSpoiled \/ ocMon.held # {})
    /\ UNCHANGED <<ocEvents, ocSamples, ocClock, ocMon, ocLive, ocMisled>>

\* ... and deletes exactly those, if the 'up' is still there.
DeleteOutageCommits ==
    /\ ocJob["web"].pc = "commit"
    /\ LET up == [ts |-> ocJob["web"].cutoff, type |-> "up"] IN
       ocEvents' = IF up \in ocEvents
                   THEN ocEvents \ ({up} \cup {[ts |-> d, type |-> "down"] : d \in ocJob["web"].gaps})
                   ELSE ocEvents
    /\ ocSpoiled' = (ocSpoiled \/ ocMon.held # {})
    /\ Changes("web", NoJob) /\ ocMu' = "free"
    /\ UNCHANGED <<ocSamples, ocClock, ocMon, ocLive, ocMisled>>

\* The downtime Delete now takes the whole record, a running outage's 'down'
\* and the halves of outages the monitor still holds the rest of included.
ClearDowntime ==
    /\ ocJob["web"].pc = "idle" /\ ocMu = "free" /\ ocEvents # {}
    /\ ocEvents' = {}
    /\ ocSpoiled' = (ocSpoiled \/ ocMon.down # 0 \/ ocMon.held # {})
    /\ UNCHANGED <<ocSamples, ocClock, ocMon, ocLive, ocMu, ocJob, ocMisled>>

OcNext ==
    \/ BadRound \/ GoodRound \/ Retry \/ DaemonRestart \/ Tick \/ SetBack
    \/ \E c \in Callers : \/ CloseAsks(c) \/ CloseBegins(c) \/ CloseSearches(c)
                          \/ CloseJudges(c) \/ CloseWrites(c) \/ CloseEnds(c) \/ SamplesGo(c)
    \/ SweepEvents
    \/ DeleteOutageReads \/ DeleteOutageCommits \/ ClearDowntime

OcSpec == OcInit /\ [][OcNext]_ocVars

-----------------------------------------------------------------------------
(* Properties.                                                             *)

OcTypeOK ==
    /\ ocEvents \subseteq Event
    /\ ocMu \in {"free"} \cup Callers
    /\ ocLive.waiting = Cardinality({c \in Callers : ocJob[c].pc = "wait"})

\* With what the monitor still holds for a retry, every 'up' ends an outage of
\* its own: no close, however it interleaves with the monitor, a cleanup or a
\* delete, leaves an outage with two ends or an end with no outage.
Whole == ocEvents \cup ocMon.held
OneEndEach ==
    ~ocSpoiled =>
        \A u \in Whole : u.type = "up" =>
            \E d \in Whole : d.type = "down" /\ Before(d, u)
                /\ \A v \in Whole : v.type = "up" /\ v # u => ~(Before(d, v) /\ Before(v, u))

\* The outages that are over, and have no end, by the samples a job is to take.
Unproved(job) ==
    {d \in ocEvents : /\ d.type = "down" /\ d.ts < Line
        /\ LET after == {e.ts : e \in Following(ocEvents, d)}
               shut  == Min(after \cup {Line, job.now}) IN
           /\ \A u \in Following(ocEvents, d) : u.type = "up" => \E e \in ocEvents :
                  e.type = "down" /\ Before(d, e) /\ Before(e, u)
           /\ Recovery(d.ts, shut - 1) \in 1..(Min({job.cutoff, job.now}) - 1)}

\* The samples of these outages are gone once the step is done.
SamplesGone(c) == ocJob[c].pc = "delete" /\ ocSamples' # ocSamples

\* Samples never go while they are the only proof that an outage ended: one
\* the monitor is not still counting has its end on disk first.  (Rounds stored
\* after the close began, and a clock set back under one, are not its concern;
\* the ends that the close misreads are left to SelfSufficient.)
ProofKept ==
    [][\A c \in Callers : SamplesGone(c) =>
          \/ ocSpoiled \/ ocClock.lived # 0
          \/ {d.ts : d \in Unproved(ocJob[c])} \subseteq ocMisled]_ocVars

\* store.go of resolveDanglingDowns: it "makes the events log self-sufficient
\* BEFORE the evidence samples are pruned".  Not of an outage that an 'up' of the
\* monitor's seems to end, whose own 'down' is still to be written: once that
\* 'down' lands, nothing ends the outage, and the samples that did are gone.
SelfSufficient ==
    [][\A c \in Callers : SamplesGone(c) =>
          ocSpoiled \/ ocClock.lived # 0 \/ Unproved(ocJob[c]) = {}]_ocVars

=============================================================================
