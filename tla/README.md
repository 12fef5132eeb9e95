# Pingularity in TLA+

Pingularity is a single Go daemon that probes the internet connection it runs
on, runs speedtests, records outages in SQLite and serves a dashboard.  This
directory holds TLA+ modules of its core, the TLC instances that check them, and
the TLAPS proofs of what matters most.

    tlc -workers 2 -config SpeedRunStops.cfg MCSpeedRun
    tlapm SpeedRunProofs.tla

## 1. The system

One process.  `main.go` wires the parts and starts one goroutine per loop; they
share memory (atomics and mutexes), the store, and the broadcast channel of the
settings.  Numbers below are lines of non-test Go.

| Part | State it keeps | Operations | Hard about it | What makes it correct |
|---|---|---|---|---|
| speedtest scheduler, `internal/speedtest/scheduler.go` (1.5k) | atomics `runSeq`, `curID`, `cur`, `abortFor`, `wireSeq`, `startupGate`, `completions`; nudge channel; breach streak; the loop's anchor and startup slot | `RunOnce`, `Abort`, `Loop` | lock-free; four triggers and any number of stops; a stop in the window before the cancel exists; one startup run per boot | one run at a time; an accepted stop stops; no startup run is doubled or lost; rows in an order that survives a crash |
| link monitor, `internal/monitor` (1.9k) | debounce streaks and failing runs of the link and of each family; degraded episode; event buffer; pause, suspend and gap accounting; DNS generation | `Run`, `round`, `transition`, `RetryDegraded` | our own tests overlap rounds; settings change under a run; bounce reports come late; lookups outlast a pause; the store fails; clocks jump | outages are of the line, none is missed, dated right, and each is stored |
| store, `internal/store` (11.1k) | SQLite; the sample buffer with its timer and gate; caches and memos | inserts, batched saves, reads, prune, clear, delete, import, export, closing of dangling outages | timers against readers against ordered writes; failing saves; the close; chunked cleanups; clock steps | every reading is stored or counted; nothing is served from a memo that a save made wrong; an outage is closed once |
| settings, `internal/settings` (3.5k) | values, writer lock, changed channel, session epoch, quick-setup hold | setters, `Reload`, `ApplyQuickSetup`, broadcast | read-modify-write against reload; an initial load that failed | no setter reverts another's field; a wake is never lost; the hold holds |
| web and access, `internal/web` (8.6k) | status snapshots, import gate, sign-in limiter, sessions | HTTP handlers | requests decided on stale snapshots; concurrent sign-ins; one import at a time | a stop names its run; the limiter counts each failure once; the network sees the dashboard without a login only by choice |
| engines, `ookla.go`, `iperf.go`, `lul.go`, `lossprobe.go`, `selection.go`, `cityrace.go` (10k) | pool of servers, exclusions, challenge state | one measurement | cancel at any stage; partial results | bytes are counted once; a conviction needs its evidence |
| connection details, `internal/netinfo` (3.3k) | published details, refresh generation | `refresh`, `Loop`, exit traces | slow answers of an old network | a stale answer is not published over a newer one |
| smaller services: `logbuf`, `logfilter`, `digest`, `notify`, `update`, `secret`, `config`, `stats`, `prober`, `osperm`, `netstat`, `util` | a ring of lines; a digest slot; a sender's retry | | cursors into a ring that moves; a crash between sending and recording | no line twice, no digest twice |
| `main.go` (3.5k) | reconnect window, worker group | start, reload, shutdown, reconnect and degraded dispatch, pruner | bounced dispatches, drain at shutdown | a bounced run gives its window back |
| dashboard, `internal/web/ui` | browser | polls the API | | |

Interactions the models rest on: the scheduler's wire counter is read by the
monitor around each probe round; the monitor's callbacks start reconnect and
degraded runs, which may bounce off the slot and report back; every event row is
preceded by a save of the buffered samples; a settings broadcast closes the
channel on which the loops sleep; the web handlers call `RunOnce` and `Abort`.

## 2. Modules

| Module | Models | Checked by | Proved in |
|---|---|---|---|
| `SpeedSlot` | abstract: what the daemon is promised about the one speedtest slot | `speed_stops` (refinement) | `SpeedRunProofs` |
| `SpeedRun` | `RunOnce` and `Abort`, one action per atomic operation | `speed_stops`, `speed_live`, `speed_stop_lost` | `SpeedRunProofs` |
| `SpeedLoop` | `Loop`, extending `SpeedRun` and replacing its environment | `speed_loop` | |
| `LinkMonitor` | `round`, `advance`, `noteFamilies`, `checkDegraded`, the event buffer | `link_rounds`, `link_episode` | `LinkMonitorProofs` |
| `OutageClock` | `Run` with its pauses, suspends and rows, `transition`'s lengths and stored times | `outage_clock`, `outage_refusals` | `OutageClockProofs` |
| `SampleBuffer` | the batched saves of the store and the recovery memo | `sample_buffer` | `SampleBufferProofs` |
| `OutageClosing` | the outage record: `InsertEvent`, `closeDanglingDowns`, `DeleteOutage`, cleanup and Delete now | `sample_buffer`, `outage_evidence` | `OutageClosingProofs` |
| `Retention` | the hourly cleanup under a clock that is set: `clockStepped`, `PruneLive`, the quarantine of pauses | `history` | `HistoryProofs` |
| `Restore` | `handleImport`'s account of restored rows beside a cleanup and Delete now | `history` | `HistoryProofs` |
| `Rebuild` | the replacement of a damaged database, rename by rename | `history` | `HistoryProofs` |
| `Uptime` | `UptimeSince`, `ResolvedOutagesSince`, `downtimeByDayAt` and what they share | `history` | |
| `SpeedLedger` | the rows of a speedtest, their deletion, and the reads over them | `history` | `HistoryProofs` |
| `LogRing` | the recent log lines, their snapshot on disk and a viewer that follows them | `history` | `HistoryProofs` |
| `Digest` | the periodic digest, its watermark and its retry | `history` | `HistoryProofs` |
| `QuickSetup` | the first-run hold across boot, retry, reload, import and answers | `services` | `ServicesProofs` |
| `Settings` | the controller: one lock, values in memory over a sparse table, sealed passwords | `services` | `ServicesProofs` |
| `SignIn` | the limiter, password checks in flight, tokens and their epoch | `services` | `ServicesProofs` |
| `AccessScope` | who may reach the dashboard: stored scope, flag, rebuild hold, import repair | `services` | `ServicesProofs` |
| `BestOf` | a run of the Ookla engine: targets, retries, transfers left behind, bytes | `services` | `ServicesProofs` |
| `ServerSeat` | which server automatic runs measure, and how a challenge takes the seat | `services` | `ServicesProofs` |
| `ServerHealth` | verdicts on a server from probes and from runs | `services` | `ServicesProofs` |
| `NetinfoRefresh` | refreshes of the connection details, the exit cache and its traces | `services` | `ServicesProofs` |
| `ReconnectGate` | what a recovered link sets off, and the windows that space it out | `services` | `ServicesProofs` |
| `DnsProbe` | the resolver's lookups and their generation | `services` | `ServicesProofs` |
| `Sums` | sums over finite sets, in closed form | with `BestOf` and `SpeedLedger` | `SumTheorems` |

`MC*.tla` give the constants their values.  Operators named `X_Something` are
plausible mistakes in the code, one for every checked property; nothing refers to
them, and replacing `X` by one makes TLC report the property violated.

`MCHistory`, `MCServices` and `MCSampleBuffer` put several modules side by side
(the last one the two ways what the monitor sees reaches the store, as samples
and as events).  The modules in one of them share no variable; their variables and operators carry a prefix
(`oc`, `rt`, `rs`, `rb`, `ut`, `sl`, `lr`, `dg`; `qs`, `st`, `si`, `ac`, `bo`,
`se`, `sh`, `ni`, `rg`, `dn`).  `explored` names the one a behaviour moves, so the states are the sum of
the modules' states and not their product, and every property is checked over the
whole of its own module.  Where two components do interact, the interaction is in
one module: a close, a cleanup and the monitor in `OutageClosing`; a restore and
a cleanup in `Restore`; settings, boot and handlers in `QuickSetup` and
`AccessScope`; the scheduler's writes and the store's reads in `SpeedLedger`.
`HistoryTypeOK` and `ServicesTypeOK` collect the type invariants; they hold and
are not among the runs' properties.  So that they can be brought together no two
of these modules define the same name.

### SpeedRun

A runner is a goroutine in `RunOnce`, a stop request a call of `Abort`.  Go's
atomics are sequentially consistent, so each load, store, swap and CAS is one
action, in the code's order, and the deferred calls run in reverse.  `Call` takes
the id, `Claim`/`Bounce` are the CAS on `curID`, `SwapGate`/`CompareGate`/`Bail`
the startup preflight, `Publish`/`CheckAbort` one side of the store/load pairing
and `SwapAbort`/`CallCancel` the other; `OpenWire`/`CloseWire` are the edges of
`wireSeq`; `ReadShutdown` to `RecordFailedUsage` the failure path; `ReadCtx` to
`Nudge` the result path; `Unpublish`, `Release`, `Notified` the defers.

Abstracted: the measurement itself (`EngineReturns` chooses result or error;
a cancelled best-of-N run may still carry a result), connection details, the
breach judgement (only its consequence, that the alert is sent after the slot is
free), counters and logs.  The rows of one kind are one row; which of them a
run has anything to put in is `OptionalRows`, and the store may refuse any.
In `SpeedRun` alone the loop is an environment that arms the gate with any older
snapshot of `completions` and drains the nudge at will.

`StopHonoured` has a proviso: a stop of a run with a larger id is on record.  The
run `speed_stop_lost` drops it and shows the interleaving in which it matters
(section 5).

### SpeedLoop

The loop calls `RunOnce` on its own goroutine, so `Settle`, `Launch` and
`Deadline` are joint steps with `Call(LoopRunner, _)`, and `BootDone`,
`StartupDone` and `ScheduledDone` wait for its return.  The manual, reconnect and
degraded triggers are the other runner.  Deadlines are abstract: whenever the
loop looks, a due deadline may be due or not, and every sleep may end; so the
jitter, the interval and the anchor's value play no part, and only whether an
anchor is published is kept.  `enabled` stands for speedtests, monitoring and the
daily window together; `ChangeSettings` closes the channel the loop holds,
`ClockGate` (the window opening by the clock) does not.  `ReadyFn` and `BusyFn`
are absorbed by the nondeterminism of `Pause` and `Deadline`.

One assumption, `PauseOutlastsNudge`: the ten-second pause outlasts the few
instructions between another run's `completions.Add` and its nudge.  Without it
the token of a run counted before the snapshot could be drained as a run that
served the slot.

### LinkMonitor

`BeginRound` is `round` up to its probe, `EndRound` the rest; in between the wire
counter may move (`WireEdge`), bounce reports may land and the daemon may die.
`mach` holds for the link and each family the streaks and the `failRun`; `Judged`
is one machine in one round.  A probe's answer (which families passed quorum) is
any; the link is online when one family is.  Each read of `DownAfter` and
`UpAfter` picks any value of the instance, because a setting can be saved at any
moment; as in the code, one machine reads down-after once a round.

The episode is `degStreak`, `degSent`, `degID`, `degSeq` and the slot `retry`
which the goroutines of dispatches write by load and CAS (`LoadRetry`,
`CasRetry`).  Events are numbered by the transition that made them.

Time is the monotonic clock in ticks.  Left out here: the wall clock and the
length of an outage (`OutageClock`), DNS probes (`DnsProbe`).
`past` is a history of the failing run that `mach` summarises, from which the
properties say what an outage should rest on.

### OutageClock

An iteration of `Run` is one action, `Probing` or `Paused` by what it finds at
the gate: the held rows are offered again (`RetryHeldGaps`), the gap check books
what the loop slept through (`BookUnobservedGap`), and a pause begins, is
checkpointed (`FlushPause`) or is folded (`ResumeEdge`).  The loop is at the `top`
of an iteration, in the timed `wait`, or in a `probe`; `Round`, `GoDown` and
`GoUp` end a round.  `book` holds the accumulators of `Monitor` (`pausedGap`,
`frozenGap`, `downPausedAt`, `gen`), the retry queue and the rows in the store.
A reading of the clock has both parts, `m` and `w`, as Go's `time.Time` has.
Time is in ticks, `TPS` to a second, so that what `Unix()`, `Seconds()` and
`ceilSeconds` round away shows.  The host may suspend with the monotonic clock
stopped or running on, and set the wall clock either way (`Suspend`, `Correct`);
the process may die and be started later (`Die`, `Start` with `LastObservedTS`,
the startup gap and the newest event).

History variables: which outage a span was measured in and the ticks it covers;
how many slices its pauses made (`slices`) and how much sleep was in those that
were refused and taken back (`slept`); the slices without a row that stay
deducted, refused while their pause was open (`kept`) or given up or refused
after it (`gone`); and the outage closed last.

Abstracted: both clocks move only in a wait or a probe, so the two readings of
the gate in one iteration (`monitor.go:605`, `621`) are one; a wait is cut short
only by a save that moves the gate; the store takes or refuses all writes of one
iteration; events land at once (the pending buffer is `LinkMonitor`'s); the
debounce is a choice (`fail` is where a run held by tests would be dated); the
hourly cleanup of rows and an explicit clear are left out.  Two things the code
documents are not counted against it: an evicted slice keeps its fold, and so
does one that is refused after its pause is over.

### SampleBuffer

A unit is a probe round (several rows) or a DNS reading (one row), numbered as
the store takes it.  What runs under `mu` is one action; the atomic read of
`waiting` outside it, the gate and the transaction are actions of their own.  `pc`
walks `SaveBuffered`: `load` (the early return), `quiet` and `wait` (`enter`),
`late` (the gate's timeout), `take`, `write`, then `landed`, `deferred` or
`failed`, and `finish` (what the code does after it unlocked).  Six callers differ
in `my[p].op`: a reader ("read"), an ordered write ("order"), a full buffer ("cap",
and "big" for a round larger than the buffer), the timer ("age"), the close
("stop").  The settings interval is read anew each time, so it is a choice.
The recovery memo is the frontier and the units it skipped; `moved` says for each
reader whether the generation moved since it was read, which is all the code
compares.  A timer goroutine knows its deadline was replaced by comparing it with
`due`; the model keeps in `mine` the goroutine whose deadline is still set.

Left out: a caller's context cancelled before its unit is taken (nothing
happens), a panic in the save (treated by the code as a failed save), a commit
whose outcome is unknown, and a crash, which loses the buffer as documented.
`Age` assumes that a save or a read is over after the five minutes of
`recFrontierSlack`, as that constant's comment does.

### OutageClosing

`ocEvents` and the samples are the store's tables, `ocMon.held` what the monitor could
not write yet.  The close runs in the code's steps: it lists the outages without
an end (taking `outageMu`, less the monitor's own), searches the samples of each,
then writes.  `InsertEvent` does not take the lock, everything else that writes
the record does.  `OneEndEach` pairs every 'up' with an outage; `ProofKept` says
that samples never go while they alone prove an end.  Restarts and clocks set
back are `Upsets`: each costs the clock a second of its bound, and none comes
after `LastUpset`, by which the record holds something to upset.

What the code documents or cannot know is exempt, through the history variable
`ocSpoiled`: a restart that loses a held 'down' whose 'up' is stored; the
operator deleting history while the monitor holds events or counts an outage; a
sweep that takes an event later than one still held (a held 'up' loses the 'down'
it would have ended); a clock set back over the second of a 'down', or a 'down'
dated ahead (there the close's search includes the next 'down''s second and the
range of `DeleteOutage` does not, so one outage may end twice).  `ProofKept`
leaves out rounds stored at or after the close's own reading of the clock, and a
clock set back.

`ocMisled` holds the outages whose end a close misreads.  `ProofKept` leaves them
out and `SelfSufficient`, which does not, is violated.  There are two ways.  The
monitor writes an 'up' while the 'down' before it waits for a retry: an earlier
outage without an end then seems to end with that 'up', and the close does not
look for its end (section 5).  Or the monitor does this to an outage that
begins while a close is searching: the close takes that 'up' for the one to move
back, as `closeNextEvent` moves any 'up' that comes next after the end it found,
and the monitor's own outage is left for the next close.

### Retention

Hours pass; the wall clock is an offset away from them.  `Stepped` is
`clockStepped` with its settle, a pass reads the clock, checks it, and deletes
chunk by chunk, and between two chunks the clock, the window or the host's sleep
may change.  Samples and paused time (which goes to a quarantine and back) stand
for the five tables, one window for the per-table ones.  Left out: `HoldCleanup`
and the guard that no pass runs before the windows are loaded (`main.go:1630`).
A wrong clock that stood through its settle since the store was opened is believed,
and one that is left and comes back between two looks is not told apart from one
that stood (`rtTime.returned` notes that this has happened): both cost history, and
`FreshKept` leaves out these two and nothing else.

### Restore

A row is a rowid with an age class; a restore inserts behind `RowMark`, a cleanup
that was already running deletes by its cutoff, Delete now empties the table and
hands its rowids out again.  `RestoreTells` follows the reply to the operator row
by row.  A row stamped ahead of the clock that the running pass's future arm
deletes is not mentioned, although `web.go:4090-4093` promises an account of
every row: the watch notes no cutoff for that arm (section 5).  A failing
`RowMark` is left out.

### Rebuild

A file is the number of the database in it, so a WAL beside the wrong main file
shows.  Each rename, each marker and each failure is a step, and a start may die
after any of them; the next start runs `Unfinished` first.

### Uptime

The three routes are translated operator by operator (`spansIn`, `mergeSpans`,
`observedOutageSpans`, `orphanGapDowntime`, the proration of `downtimeByDayAt`),
over tables that a monitor writes second by second with pauses, a sleep, a
restart, a sweep of old events and a restored pause.  `utTruth` holds the seconds
that were really down.  Events are never dated ahead here, and the retention floor is part
of the window's start.  `DaysAreTrue` compares with the truth only while the
record lost nothing (`utExact`): after a sleep, a restart the record does not
show, or a sweep, the code estimates.  An outage left open is shown up to its
newest sample by the uptime and not at all by the digest; `SurfacesAgree` allows
for exactly that.

### SpeedLedger

A run stores its result and then its failed attempts' bytes, its report and its
losers, one statement each; it can be cut, deleted or outlived by a cleanup in
between.  A second taken sends a row forward (`FirstFree`).  The reads are
translated as sets and sequences of rows.  `slOnBill` holds what was made and not
deleted.  Rows stored after their run was deleted, cleared or pruned are strays
(`slStray`): they stay, and `BillTrue` leaves them out.  One loser for each
round, one byte for each row, a restore of one chunk (`importTxRows` is 5000);
restores over seconds that were taken meanwhile are not followed.

### LogRing

A line is its number, of one of two sizes (`LongLine`), longer by its framing on
disk; so both ceilings of the ring and the bounded read of `LoadFile` bite.
`lrSave` is whoever holds `saveMu`: a copy taken under `mu`, then the skip, or the
rename and the memo, with a failure or a death possible at each.  `lrReq` holds
the viewer's poll and its post; `logWindow` reads the epoch and the window under
two holds of the lock, and answers are lost or overtaken (`logsSeq`).  `lrHeld`
is what this epoch of the ring has held.  `PaneTrue` judges a pane while its epoch
is the ring's: the next answer replaces any other.  `SnapshotTrue` lets a line of
a clear come back as long as the clear's save has not returned nil (it may have
failed, and the code only logs that).

Left out: what the code says it does not notice (a snapshot replaced by one of
the same length), symlinks, modes on Windows, snapshots in the older text format,
the masking of lines (`logfilter`), a second clear at the same time.

### Digest

One action per way through `tick`, in the code's order: gated, unread, armed, not
due, sent; `Recorded` is `setLastSent` and the copies in memory, and the process may
die before it.  A missing webhook and a cadence that is off do the same and are one
value.  A send is delivered, fails, or arrives and reports a failure; a read or a
write of the settings may fail each time.  Time is in half polls.  `dgTold` is the
last window that arrived.  `DigestsTile` has two excuses.  `dgForgot`: the daemon
cannot know what it told (the answer was lost, it died before the watermark was
stored, the clock was set back over a watermark: one that could not be overwritten
is believed again once the clock has passed it).  `dgLapsed`: no tick looked in
time (off, down, asleep, a shorter cadence, or a retry lost with the process), where
the code caps the window on purpose.  What a digest says of its window is `Uptime`'s.

### QuickSetup, Settings, AccessScope

All three have the settings table on one side (`qsDisk`, `stDisk`, `acDisk`) and
what runs on the other; loads and saves may fail, and every reader of the table
(boot, retry loop, SIGHUP, import) is an action.  `QuickSetup` adds the clock and
the loops that ask `monitoringLive`; `Settings` the lock, the forms that omit a
password and the key files that may not open one; `AccessScope` the listener, the
rebuild hold and the import's repair of the login it replaced.  A credential, a
key or an address is a model value.

### SignIn

A worker is a request: `reserve`, the bcrypt check, `releaseFail` or `ok`, in the
code's order, while the password changes and sign-outs move the epoch.  Two
workers are enough for one to be inside the check when the other settles.

### BestOf, ServerSeat, ServerHealth

`BestOf` follows one run after another through their targets.  The library does
not hear a cancelled context, so a transfer whose context dies becomes an orphan
that is `closing` while inside its capture window and `stuck` beyond it; the next
target and the next run wait for the first kind.  A transfer moves one unit or
nothing, scores are left open, the direction is "both", at most one orphan is
stuck.

`ServerSeat` has no state of its own: the seat is a function of the stored winner
rows, as in the code.  `Incumbent`, `ChallengeDue`, `Seated`, `JudgedRun` and
`ChallengeWon` are the five filters; windows and counts are scaled down (3 for
12 winners, 2 for 12 scores, 1 for 3 of them).  Reasons that no reader tells apart are
one ("auto"), and any measured server may win a round.

`ServerHealth` is one server.  A probe reads the verdict, crosses the network
without the lock and reconciles what it found on its return.  A GET is over
within one step of time.  `ExclusionsEarned` leaves out (`shLate`) a probe that
carries a copy of a record that was cleared, dropped or released meanwhile: the
race of an acceptance with a probe (`ookla.go:2206-2225` against `2386-2390`) may
bring old strikes back.  A conviction may replace a longer standing exclusion by
probes with a shorter one, and an answer heard while an exclusion stands does not
reset the streak; both are the code's.  Left out: the cap that evicts standing
exclusions when all are standing, and the log line of a conviction.

### NetinfoRefresh

A network is a number, which is also its address and its exit.  `niRefresh[w]`
walks `refresh`: `fetch`, `claim` (`claimPublish` at the end of the fetch),
`publish`, `bust`, `exit` (`cachedExit`), `trace`, `patch`.  Between any two of
them the host may move, another refresh may publish, or the cache may age.  A
network is never visited twice; `nextGen`, `knownIPv4` and `Get` are read in one
step; another exit target is an ageing of the cache and a trace that ends
"dropped"; the time after which IPv6 alone flips the panel is left open.
`RouterIsHere` leaves out (`niMissed`) moves the code cannot tell: another fetch
ends between a refresh's publish and its bust (`netinfo.go:253-277`), so the bust
is skipped; or no address was on record when the refresh began, or when an
overtaken one traced.

### ReconnectGate

`Reconnected` is the callback `OnReconnect`, one reading of the clock for both
gates; the settings that can veto the test are one choice (`wanted`), asked before
the gate as in the code.  A dispatch is a goroutine and may be late at any point:
`Settled` is the look at the link after the wait, `TestRuns` and `Bounced` the two
outcomes of `RunOnce`'s claim, whose slot others take and leave (`SlotTurns`).  A
tick is a minute.  `release` at shutdown is left out, since nothing dispatches
after it.  What the code accepts shows here too: a recovery that is refused while
an earlier test waits out its settle is not measured if that test then bounces.

### DnsProbe

`dnLoop` is `Run` between rounds, in the probe of one, or at its end, where
`RoundLooksUp` sees a switch turned off and starts the lookup; `PauseNoticed` is the
pause edge.  The goroutine compares the generation before it counts (`AnswerJudged`)
and again under the lock that publishes (`Publishes`), then stores its row.  `dnVoid`
names the lookups that had not published when the monitor dropped the reading.
A row whose lookup has published may still be stored after a pause began; it is
dated before it.  Counters other than the decision to count are left out.

## 3. Runs

| Run | Instance and bounds | Shows |
|---|---|---|
| `speed_stops` | 2 runners, 2 stops, 2 ids; attached and usage rows | `StopHonoured`, `StopHitsItsRun`, and that `SpeedSlot` is implemented |
| `speed_live` | 2 runners with startup runs, 1 stop, fair | `StopEndsRun`, `ShutdownDrains` |
| `speed_loop` | the loop and one other runner, 3 ids, fair | `GateHolds`, `SlotServed` |
| `speed_stop_lost` | as `speed_stops` | `NoStopLost` is violated |
| `link_rounds` | 2 families, 4 ticks, 3 edges, down-after 1 or 2, hold of 2 ticks | `OutageNotMissed`, `DownOnEvidence` |
| `link_episode` | 1 family, 7 ticks, 1 edge, 1 restart, buffer of 2, failing store | `EventsKept`, `RedispatchedOnlyIfBounced` |
| `outage_clock` | 2 ticks a second, 3 ticks, 2 suspends of 7 ticks or clock steps of -6 and +9, 2 transitions, 2 starts, a queue of 1, failing store | `WatchedTimeKept`, `PairHoldsLength`, `EventsOrdered` |
| `outage_refusals` | 2 ticks, 3 suspends or steps of -16, 1 start, a queue of 2 | `RefusalsTakenBack` is violated |
| `sample_buffer` | samples: 1 inserter that also writes events, 1 reader that also closes, 1 timer, 2 units of 1 to 3 rows, cap 2; outages: 5 seconds, up-after 1, a tolerance of 1 and a sweep slack of 2, 1 restart or clock set back by the third second | `Accounted`, `NotStranded`, `NilMeansSaved`, `MemoSound`, `OneEndEach`, `ProofKept` |
| `outage_evidence` | as the outages of `sample_buffer`, with no restart and no clock set back | `SelfSufficient` is violated |
| `history` | retention: 42 hours, 3 clock settings of 12 hours, windows of 1 and 3; restore: 2 restored rows, 1 own, 1 Delete now; rebuild: 4 databases; uptime: 5 seconds, days of 3, 4 zones, 1 sleep, restart and sweep each; ledger: 2 runs, 3 seconds, 1 odd event; log: 3 lines in a ring of 2, windows of 1, 1 clear, post, death and touch of the file each; digest: 8 half polls, periods of 3 and 5, 1 death, 1 clock set back | `FreshKept`, `RestoreTells`, `RunsOnItsStore`, `SurfacesAgree`, `DaysAreTrue`, `LedgerTrue`, `CopiesTrue`, `DigestsTile` |
| `services` | setup: grace of 1, 2 ticks; settings: 2 servers, 2 form values, 2 keys; sign-in: 2 requests, 2 failures, 2 credentials, 1 sign-out; engine: 2 targets, 1 retry, 2 runs; seat: 2 servers, 3 stored runs, 1 inflated reading; health: 6 steps, 3 convictions, 1 restart; netinfo: 2 callers, 3 refreshes, 1 move, 1 forced; reconnect: 8 minutes, a floor of 2, intervals of 1 and 3, a settle of 1; lookups: 3 rounds, 3 interruptions | `MeasuresWithConsent`, `SavedIsRunning`, `SecretsKept`, `BudgetHeld`, `SessionsEarned`, `AccessByChoice`, `EngineTrue`, `SeatByRight`, `ExclusionsEarned`, `RouterIsHere`, `WindowEarned`, `ReadingsLive` |

Why the bounds are enough.  Every race of `SpeedRun` is between one run and one
stop, or between two claims; a second stop adds the contest for `abortFor`, and
two ids the order in which ids and claims part.  Runners are symmetric, and so are
stops.  Three ids let the loop's startup run meet a run before and a run during
its pause.  A failing run needs down-after + 1 rounds, one of them held, and
passes the cap with one more: four ticks with a hold of two; three edges let a
test start and end inside a round, or span one.  The episode needs two rounds
to dispatch, two more to dispatch again and a recovery in between: seven ticks.
The buffer of two overflows with three transitions.  Suspends are longer than the
longest wait with `Slack`, an odd number of ticks so that a row and the
monotonic clock disagree by half a second, and steps are larger than `Skew`, so
that rows are refused; two of them make a held row that is refused later, a
suspend inside a pause, and a 'down' that sorts before the last 'up'.  Ordinary
time adds little to that: the same properties were checked once with six ticks
and one start, and along a hundred million random states with more of
everything.  Two units with sizes below,
at and above the cap meet every branch of `hold`; larger instances (a second
process for the close, three units of sizes 1 and 3) were run once and hold.

`WatchedTimeKept` allows an outage a second too many, and one too few for each of
its slices; a suspend is longer than that, so a deduction that is missed or made
twice shows.  What a refused slice holds of sleep is left in, by the second begun,
since its row would have taken it out.

In the outages of `sample_buffer`, five seconds hold an outage, the proof of its
end, the next outage, and a close, a cleanup and a delete in between; a restart or a
clock set back by the third second finds a record and leaves two seconds after it.
With one more second and without upsets (six million states) the invariants hold as
well, and along 48 million random states of eleven seconds and two upsets.

In `history`, 42 hours are a window, a settle on either side and three clock
settings (wrong, right and wrong again); two runs of two rows each collide on a second, and with a step back the
later row sits before the earlier.  Five seconds of uptime cross a local midnight
in every zone of the instance, with an outage on both sides of it and pauses that
overlap.  Three lines in a ring of two evict under a reader that takes one at a
time; with a dashboard open it meets either a death, or a clear and a post, with
one save on the timer at most and a file nobody touches, and without one the file
meets all of it (`LrOffered`).  Eight half polls hold a digest, the refusals that
take the next one past its slack, and that one.

In `services`, two callers make every overlap of a refresh with another, and the
third refresh is the one after a spell without IPv4; three convictions reach the
longest term and a restart reads it back.  Eight minutes hold two dispatches that
both wait or settle late, a third recovery between and after them, and every
distance around the floor.  Three rounds hold a lookup, one it outlasts and the one
after.

The runs explore between 170 thousand states (`speed_loop`) and five million
(`outage_clock`), each in one to two minutes; `history` and `services` one to one
and a half million.  Most of the properties are proved for every bound (section
4), so the bounds here have to be large enough for a mistake to show, and for the
properties that are not proved: those of `Uptime`, `ProofKept` and the liveness.

Four properties are conjunctions of named parts: `LedgerTrue` of `BillTrue` and
`ChartTrue`, `EngineTrue` of `SpendOnTheBill` and `LinkNotShared`, `AccessByChoice`
of `LoginKept` and `OpenedByChoice`, `CopiesTrue` of `PaneTrue` and `SnapshotTrue`.

Deadlock checking is off where behaviour ends by design: run ids, ticks and units
are bounded, and after the close nothing begins.

Fairness.  `speed_live` assumes that a goroutine that can take its next step
takes it (the Go scheduler is preemptive) and that an engine returns once its
context is cancelled, which `RunReason` and the iperf client do; nothing is
assumed of an engine that is not cancelled, nor of the alert endpoint.
`speed_loop` assumes in addition that engines end by themselves (each stage has a
time limit), that the endpoint's call ends (it has a timeout) and that timers
fire.  No fairness is assumed of operators, settings or shutdown.

## 4. Proofs

Every theorem is of the specification its run checks, for any values of the
constants that the `ASSUME`s of its module allow; the bounds of section 3 play no
part.  Each module's argument is an inductive invariant, in named parts, with a
step for each action and under it one for each part that the action can disturb.
All of these invariants were checked by TLC before they were proved.

| Module | Theorem | States |
|---|---|---|
| `SpeedRunProofs` | `TypeCorrect`, `InvariantHolds` | `TypeOK`, and `IInv` below |
| | `SlotIsSingle`, `WireParity`, `StopIsHonoured`, `GateIsRaceFree` | `SingleFlight`, `WireOddIffTesting`, `StopHonoured`, `GateHolds` are invariants |
| | `StopsReachTheirRun` | `StopHitsItsRun`, a step property |
| | `RefinesSlot` | `Spec => ImplementsSlot` |
| `LinkMonitorProofs` | `OutagesAreConfirmed`, `OutagesAreReal` | `OutageNotMissed`; `DownOnEvidence`, a step property |
| | `TransitionsAreKept`, `DispatchesAreOwed` | `EventsKept`; `RedispatchedOnlyIfBounced`, a step property |
| `OutageClockProofs` | `OutageIsAccounted`, `PairsHoldTheirLength` | `OcInv` below; `PairHoldsLength` |
| | `EventsInOrder` | `EventsOrdered`, a step property, while no event is `Condemned` |
| | `WatchedTimeIsKept`, `OutageIsWatched` | `WatchedTimeKept`, a step property, and its invariant |
| `SampleBufferProofs` | `RowsAreAccounted`, `NothingIsStranded`, `NilIsKept`, `MemoIsSound` | `Accounted`, `NotStranded`, `NilMeansSaved`, `MemoSound` |
| `OutageClosingProofs` | `EndsHaveOutages`, `OcInvHolds` | `OneEndEach`, and `OcInv` below |
| `HistoryProofs` | `DaemonRunsOnItsStore`, `StartsAreRecoverable` | `RunsOnItsStore`, and what every start finds |
| | `DigestsDoTile`, `WatermarkIsTold` | `DigestsTile`, a step property, and its invariant |
| | `RepliesInFull`, `RsTypeCorrect` | `RestoreTells`; rowids are distinct |
| | `CleanupKeepsFresh` | `FreshKept`, a step property |
| | `CopiesAreTrue` | `CopiesTrue` |
| | `LedgerIsTrue`, `RowsStayTheirRuns` | `LedgerTrue`, and its invariant |
| `ServicesProofs` | `NothingBeforeConsent`, `HoldIsKept` | `MeasuresWithConsent`, and its invariant |
| | `WhatRunsIsSaved`, `SecretsAreKept` | `SavedIsRunning`; `SecretsKept`, a step property |
| | `BudgetIsHeld`, `SessionsAreEarned` | `BudgetHeld`, `SessionsEarned` |
| | `AccessIsByChoice` | `AccessByChoice` |
| | `GateIsEarned`, `OneTestPerWindow` | `WindowEarned`; no window has two dispatches |
| | `ReadingIsLive`, `RowWrittenOnce` | `ReadingsLive`; a lookup is stored at most once |
| | `RouterStays`, `NiTypeCorrect` | `RouterIsHere` and what is on show |
| | `ExclusionsAreEarned` | `ExclusionsEarned`, a step property |
| | `RunsAreAccounted`, `LinkIsNotShared` | `EngineTrue`, and its half `LinkNotShared` |
| | `SeatIsByRight` | `SeatByRight`, a step property |

### Why the properties need more than themselves

None of them is inductive as it stands.

* **The slot** (`IInv`).  Per position of a runner, what it knows of the shared
  words: `ClaimInv` (who holds `curID`, ids are positive, distinct and not above
  `runSeq`, `cur` names the holder while it is published and nothing otherwise),
  `StopInv` (where a stop's target is recorded and who must see it: the two sides
  of the store/load pairing as one formula), `GateInv` (a runner past the
  comparison carries a snapshot equal to `completions`, which only a holder can
  move) and `AnswerInv` (a runner counted as done has counted).  `StopHitsItsRun`
  needs `AimInv`: a stop that was let in aims at the run it was decided against, and
  the id on record is one such stop's.  `RefinesSlot` maps steps to `Take`,
  `StartTest`, `FinishTest`, `Count`, `Free` or a stutter.
* **The link** (`MachinesInv`).  The machine keeps four numbers and the history
  `past` the rounds they stand for.  `Tracks` relates them: the streaks count the
  failing run, `held` counts what its tests excuse, and while a round is out
  (`RoundOut`) its start and its reading of down-after are those the history will
  record.  `Upright` then bounds the evidence against what is still up.
  `EventsInv` numbers the transitions and says that the buffer holds a run of
  them; `EpisodeInv` ties `retry` and `degID` to the last dispatch.
* **The length of an outage** (`OcInv` of `OutageClock`).  `PairHoldsLength` is about what
  is stored at the end; before it, `OutageOpen` says that the outage is paid up to
  the last check.  Its core is `Booked`: the accumulators `pausedGap` and `frozenGap`,
  with what the open pause will fold into them, hold at least the seconds that
  rows of the outage subtract, have been promised, or wait in the queue
  (`Covers`), and, on a clock that was never set back, add no more to the pair
  than the host slept and a rounding per cut (`SleepBounded`).  It must hold on
  both sides of a span's row: landed, held, refused, dropped.  `InOrder` says
  which of the loop's readings precede which, and `SpansKnown` which rows are
  whose.
* **The time nobody watched** (`WatchInv` of `OutageClock`).  `WatchedTimeKept` needs the
  other side of the same book: not how many seconds the rows hold but which ticks
  they stand for.  A span that is out of the length of the open outage, whether
  written, waiting, given up or kept, lies between its begin and the last check or
  the begin of the open span, no two of them stand for the same tick, and a gap
  deducts exactly its own (`Within`).  Then the ticks they stand for are a number,
  and `Tallies` bounds it from both sides by `pausedGap`, the fold the open pause
  will make, the sleep in slices taken back and a second for each slice.  A span
  on its way into the book is neither in it nor gone, so both parts are said with
  one still to be placed (`Apart1`, and the last two arguments of `Tallies`).
* **The order of the events** (`LastIsNewest` of `OutageClock`).  `EventsInOrder` rests on it.  Its hypothesis says what the seed of
  a start assumes: an event further ahead of the clock than `FutureSlack` is left
  out by the code, so what comes after it may sort before it.
* **The buffer** (`SbInv`).  `OneSave` (one process is past the gate, and what it
  carries is what left the queue), `Placed` (every row is waiting, in a save,
  stored or written off, and in one of these), `Counted` (the counters are the
  rows of these sets, as cardinalities), `Tended` (waiting rows have a timer, a
  caller or the close) and `OwedMet` (what each pending answer still speaks for).
  `MemoSound` needs `Remembered`: what a reader on its way to the memo knows of
  the saves that ended since it read.
* **The outage record** (`OcInv`).  The record, with what waits for a retry, is read
  as two sets of seconds, so that `Paired` says of numbers what `OneEndEach` says
  of events.  A close acts on what it read, so its work must stay true while the
  monitor writes: `GapOK` says that whatever came into a gap since is at or past
  the line, `EndOK` that an end to be written has nothing but itself in the
  outage it ends, and that no 'up' loses its outage to it but the one it moves.
  Both hold through any step of the monitor because of `Listed` (what is held is
  on the list, as landed as it is, and an 'up' past a listed outage has a 'down'
  of the monitor's before it), `Running` (the outage the monitor is in is the
  last of the record) and `Timely` (no second of a 'down' shows a good line, so a
  recovery the samples show is never at one).  One lemma for the monitor and the
  clock (`JobsKept`) serves six actions.  That the line is read again before an
  end is kept is what `Judging` rests on.
* **The rebuild** (`RbInv`).  For every step between two renames, what is at the
  path, what is aside and what the markers say: there is something whole to start
  from (`SomethingIsThere`), what was built is whole, and it carries the consent.
* **The digests** (`DgInv`).  `WatermarkKnown`: unless what was told is forgotten,
  the watermark is what was told last, or a retry stands that begins there.
* **The restore** (`RsInv`).  `MarkStands` (the mark is below the restored rows until
  the table is emptied), `CountsTrue` (what was counted is what was there, unless a
  Delete now undoes the count) and `LossesWatched` (for every restored row that is
  gone before the reply, the watch has noted the cutoff or the clearing).
* **The cleanup** (`RtInv`).  A pass deletes by the clock it read at its start, and
  what that clock is worth is known from earlier looks: `StoodByLook` (a clock that
  stands where the last look left it has not been set since the store was
  opened, or has served its settle), `QuarantineKept` (paused time that is live is
  not ahead of a clock that was believed) and `PassStands` (a pass runs on what the
  look before it believed).
* **The log** (`LrInv`).  A viewer holds a copy of an earlier ring and a place in it.
  `Follows` says, of the ring, of a window on its way and of the pane alike, that
  lines are consecutive and end just before a place; `FollowerTrue` keeps it through
  evictions, a clear, a death and answers out of order (`Reached` orders epochs
  and places).  For the file, `SavedTrue` says when a noted place may be taken for
  the ring's (`size` and a prefix of the ring's lines), and `CopyTrue` that a save
  under way carries nothing that a clear has wiped.
* **The speed rows** (`SlInv`).  `LedgerTrue` is about what is joined by seconds; rows
  know nothing else of their run.  `SameRun` and `ReportIs` say that a run has one
  result on one second and that its other rows and its report name it, of the
  tables and of an export together, since a restore brings rows back from the one
  into the other.  `Joined` says that a row that is nobody's stray has its result
  beside it, `WritingIs` the same of what is still being written.  A delete takes
  by seconds, and takes a run because of these.  For the estimate, rounds are
  disjoint parts of the rows (`TotalOfParts`); for the chart and its pages, a
  second is its rank among those charted.
* **The setup** (`QsInv`, `StInv`, `SiInv`).  `HeldUntil` says that neither disk nor
  memory knows a reason to measure before there is one, with every load and save
  in flight.  `ReadIsStored` and `SaveIsCurrent` say that what the holder of the
  lock has read is still in the table, which no property mentions and every one
  needs.  `PlacesHeld` and `PendingRuns` count checks in flight against the
  budget; `MintsProved` and `RevokedBehind` say why a token was given.
* **The network** (`RgInv`, `DnInv`, `NiInv`).  `Spaced` and `OneOwner` are about the
  windows measured and reserved together, since a bounced dispatch gives its
  window back.  `CalledOffIsOld` relates a lookup's generation to the
  interruptions.  For the router: generations in flight differ (`GensDiffer`), and
  if the network is known to a refresh then the cache is clean or the newest
  refresh is about to bust it (`KnownIsClean`).
* **The verdicts and the engine** (`ShInv`, `BoInv`).  `CarriesNoMore`: a probe on the
  network carries no more strikes than the record, unless the record was cleared
  under it (`shLate`).  `BoInv` says where the runner may be beside a transfer
  that is closing.  `BillInv` adds the account: what is spent, open and under a
  result of the run (`Billed`) is what was moved, so that a fold that drops a losing
  row or a winner picked among them moves bytes between rows and loses none.
* **The seat** (`SeInv`).  That no stored score is below its server's rate is all a
  step needs to know of the others.  The work is in the verdict: the k-th smallest
  of the holder's scores is one of them (`KthIsOne`), so its median is no less than
  its rate and its good hour is something it has shown (`RecordBounds`); and in the
  window, which moves by one behind every run (`WindowMoves`).

### Assumptions

The `ASSUME`s of the modules, which TLC evaluates in the runs.  Bounds are natural
numbers; positive are the terms, windows, spacings and sizes that the code has
as positive constants or validates.  Beyond that: `Workers` of `SignIn` is finite
(the budget is compared with a cardinality); `Keys` of `Settings` are none of the
shapes that a stored password may have; `Link` is none of the families; the ranked lists
of `ServerSeat` are of its servers and not empty; in
`OutageClosing` the sweep reaches further ahead of the clock than the readers
(`pruneFutureSlack` is two days, `metricsFutureSkew` two minutes).

### What proving corrected

Three `CASE`s had overlapping arms, of which TLC takes the first and a proof must
allow any (`ServerHealth.ProbeLands`, `AccessScope.Judged`, `OutageClock.Round`):
their guards are exclusive now, as the code's `else if` makes them.
`RouterIsHere` says more than it did, and needs to.  `Restore` names what the
table holds before a restore.  `SampleBuffer` counts rows as a cardinality and
`BestOf` bounds the time of an attempt that is over; it and `SpeedLedger` add up rows
with `Sums`, and `SpeedLedger` orders seconds by their rank; `LogRing` counts the bytes
of a file in closed form.  Looking for the invariant of `OutageClosing` showed a history
its exemptions had missed, a held 'up' whose 'down' is swept, and led to the run
`outage_evidence`.  In `OutageClock` the rounding that a pair is allowed (`Cuts`) counts
the cuts of the outage it belongs to.
`WatchedTimeKept` said less than it says now: it left out every outage with a slice
refused as in `outage_refusals`, and allowed a rounding for each span; stating how
much sleep a refused slice holds, and that a gap is deducted to the tick, made it
a bound on every outage.  `FreshKept` was not true of `Retention`: with two
settings of the clock its run could not leave a wrong clock and come back to it,
and the invariant could not be had without saying so; the run sets the clock
three times now and the property names that case.  `SeatByRight` said that an
inflated reading never moves the seat, which was true of the run's rates and of one
such reading only: four times the rate of a slow server can be within thrice the
holder's.  It says now up to which reading a challenge is believed, for any rates
and any number of them; `ServerSeat` orders scores by their rank, and assumes that
the good hour leaves something when the best is set aside (`GoodFrom`).

### Only model-checked

* Liveness (`StopEndsRun`, `ShutdownDrains`, `SlotServed`): out of the prover's
  reach, as is `ENABLED`.
* `SurfacesAgree` and `DaysAreTrue` of `Uptime`: they compare folds over sequences of
  events and of days, and what a fold computes for every input needs an induction
  over data, which the prover cannot instantiate.  (Where a sum has a closed form,
  in `BestOf`, `OutageClock` and `SpeedLedger`, `SumTheorems` takes its place.)
* `ProofKept` of `OutageClosing`: it needs to be said of every 'down' how far the close
  has got with it, through what other writers remove meanwhile.

## 5. What was found

* `speed_stop_lost` (`scheduler.go:355`).  Ids are taken before the claim, so a
  run that claims late may carry a smaller id than a run that was stopped before
  it.  `recordAbort` keeps the largest id, so a stop accepted for the late run
  before its cancel is published is not recorded, finds nothing to cancel, and
  answers that it is stopping.  The comment at `scheduler.go:505` says that one
  side always sees the other.  `StopHonoured` states what does hold, and is
  proved.
* `outage_evidence` (`store.go:7690`).  The retry buffer keeps its own order, but a
  transition is written directly even when an older one waits (`monitor.go:1853`),
  so an 'up' can be stored while the 'down' it closes is still in memory; the
  comment at `monitor.go:1897` says that this order is preserved.  It has a
  consequence in the store: an earlier outage that has no end, left by a process
  that died in it, seems to end with that 'up', so the close does not look for its
  end, and the samples that prove it are deleted.  When the 'down' lands, the
  earlier outage has neither an end nor the evidence of one.  `store.go:7516` says
  that the events log is self-sufficient before the samples go.
* `outage_refusals` (`monitor.go:1069`).  A refused slice moves the anchor of the
  pause by the whole seconds of its row, which can be more than it lasted on the
  monotonic clock.  The next slice then starts before the anchor, and when it is
  refused too, it is not taken back: an outage is reported shorter by a stretch
  that has no row.  The comment at `monitor.go:1049` says that such a stretch is
  never deducted.  It needs a failed write, a clock set back and a second slice
  in the same pause; `WatchedTimeKept` counts such a slice as cut out.
* `readerGaveUp` (`store.go:2894`) may shorten the five seconds after a failed
  save to one.  Harmless, and not a property.

Smaller ones, met while modelling and exempt from the properties as section 2
says; no run is about them:

* A restored row stamped ahead of the clock, deleted by the future arm of a
  cleanup that was running, is not in the reply (`web.go:4090-4093`).
* A loser whose second is taken walks forward and may sit above its result;
  `scheduler.go:974` says it never does.  The reads do not depend on it.
* A bust is skipped when another fetch ends between a refresh's publish and its
  bust; the panel then shows the old network's router until the cache ages
  (`netinfo.go:277`).
* Old strikes may come back when a run's acceptance clears the record while a
  probe is on the network (`ookla.go:2206`).

## 6. Not modelled, and what is next

Not modelled: the transfer loops, discovery and pings of the engines and the
latency sampling (network I/O; their results are inputs of `BestOf` and
`SpeedRun`); SQL aggregation of the sample series, schema migrations and the row
copying of the salvage; parsing and validation of configuration, settings and
backups; the status snapshot and streams of the dashboard and the dashboard
itself; lookups of the connection details; the update check, the secrets' file
format and the utilities, which keep no state another part depends on; the
probes' quorum rule, whose outcome `LinkMonitor` takes as any.

Small protocols that could be modelled and are not yet: the drain of the workers
in `main.go` and the retry of the alerts' sender.

Proofs to come: `ProofKept` of `OutageClosing`, on top of `OcInv`; then `Uptime`, with its
folds brought to a closed form.

Stated abstractly so far is `SpeedSlot`; a settings register (`Settings`) is the next
abstract specification worth stating.
