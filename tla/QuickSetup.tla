----------------------------- MODULE QuickSetup -----------------------------
(***************************************************************************)
(* The first-run hold: a fresh install measures nothing until its operator *)
(* answers Quick Setup or the offer has stood for its grace, and the store *)
(* is marked with the release that saw it born (internal/settings,         *)
(* main.go).  The actors are the boot, the loop that retries a failed      *)
(* load, SIGHUP, the dashboard's handlers, an import, and the measurement  *)
(* loops asking monitoringLive; all of them meet in the settings table.    *)
(***************************************************************************)
EXTENDS Integers

CONSTANTS Grace,      \* quickSetupGrace, in ticks of the wall clock
          LastTick,   \* the clock stops here
          FlagConsent \* -monitoring flags or -quick-setup=skip on the command line

ASSUME QuickSetupAssumption ==
    Grace \in Nat \ {0} /\ LastTick \in Nat /\ FlagConsent \in BOOLEAN

VARIABLES qsDisk,   \* the settings table, and whether the store has history
          qsMem,    \* the controller, the hold's latch, and monitoringLive's answer
          qsStep,   \* where each actor that takes several steps has got to
          qsNow,    \* time.Now().Unix()
          qsWhy     \* what has happened that lets this install measure (history)

qsVars == <<qsDisk, qsMem, qsStep, qsNow, qsWhy>>

Loaders == {"hup", "retry"}

\* What this daemon's memory holds before the settings are loaded: the
\* defaults, and nobody has answered.
Unloaded(created) ==
    [up |-> TRUE, loaded |-> FALSE, done |-> FALSE, on |-> TRUE,
     created |-> created, pending |-> FALSE, latch |-> FALSE, live |-> FALSE]

QsInit ==
    /\ \E old \in BOOLEAN, off \in BOOLEAN :
          /\ off => old
          /\ qsDisk = [done |-> FALSE, offer |-> 0, born |-> FALSE,
                       history |-> old, config |-> off, on |-> ~off]
          /\ qsMem = [Unloaded(~old) EXCEPT !.up = FALSE]
          /\ qsWhy = [consent |-> old, age |-> 0, voided |-> FALSE]
    /\ qsStep = [hup |-> "idle", retry |-> "idle", import |-> "idle"]
    /\ qsNow = 1

Established == qsDisk.history \/ qsDisk.config

\* A read of the store either answers or fails.
Reads == {"ok", "fails"}

-----------------------------------------------------------------------------
(* Loading: ensureBornMarker, and the rest of New and reload.              *)

\* stampBornMarker, and completePendingBornMarker after a save
Stamped(disk, mem, ok) ==
    IF mem.pending /\ ok
    THEN <<[disk EXCEPT !.born = TRUE], [mem EXCEPT !.pending = FALSE]>>
    ELSE <<disk, mem>>

\* Only a store this daemon created may be judged brand-new; the judgement is
\* kept while the stamp has not landed.
EnsureBornMarker(disk, mem, read, ok) ==
    CASE disk.born -> <<disk, [mem EXCEPT !.pending = FALSE]>>
      [] ~disk.born /\ ~mem.created -> <<disk, mem>>
      [] ~disk.born /\ mem.created /\ mem.pending -> Stamped(disk, mem, ok)
      [] OTHER ->
            IF read = "fails" \/ disk.history \/ disk.config
            THEN <<disk, mem>>
            ELSE Stamped(disk, [mem EXCEPT !.pending = TRUE], ok)

Judges(disk, mem) == ~disk.born /\ mem.created /\ ~mem.pending

\* Reload, under the controller's write lock; New is the same with wasLoaded
\* FALSE.  A read that fails leaves the controller as it was.
Load(disk, mem, read, est, ok) ==
    IF read = "fails" THEN <<disk, mem>>
    ELSE LET marked == EnsureBornMarker(disk, mem, est, ok) IN
         <<marked[1], [marked[2] EXCEPT !.loaded = TRUE, !.done = disk.done,
                                        !.on = disk.on]>>

\* ForgetBirthWitness: what an import is about to restore was not seen born.
ForgetBirthWitness(mem) == [mem EXCEPT !.pending = FALSE]

-----------------------------------------------------------------------------
(* The offer's clock and the answer.                                       *)

SetQuickSetupDone(disk, mem, ok) ==
    IF mem.loaded /\ ok
    THEN <<[disk EXCEPT !.done = TRUE], [mem EXCEPT !.done = TRUE]>>
    ELSE <<disk, mem>>

\* An offer is re-anchored only when it lies in the future.
SeedOfferClock(disk) ==
    IF disk.offer # 0 /\ disk.offer <= qsNow THEN disk
    ELSE [disk EXCEPT !.offer = qsNow]

EnsureQuickSetupOffer(disk, mem, read, ok) ==
    CASE mem.done \/ read = "fails" -> <<disk, mem>>
      [] ~mem.done /\ read = "ok" /\ (disk.history \/ disk.config) ->
            SetQuickSetupDone(disk, mem, ok)
      [] OTHER -> <<IF ok THEN SeedOfferClock(disk) ELSE disk, mem>>

MaterializeQuickSetup(disk, mem, read, marks, ok) ==
    LET flagged == IF FlagConsent /\ ~mem.done
                   THEN SetQuickSetupDone(disk, mem, marks)
                   ELSE <<disk, mem>>
    IN  EnsureQuickSetupOffer(flagged[1], flagged[2], read, ok)

\* Both halves of a pair the operators above return.
Becomes(pair) == qsDisk' = pair[1] /\ qsMem' = pair[2]

Noting(why) == qsWhy' = why

-----------------------------------------------------------------------------
(* The process: boot, the retry loop, SIGHUP, and its end.                 *)

\* run: New, and the first-run decision when the load succeeded; else the
\* retry loop is started and nothing is decided.
Boot ==
    /\ ~qsMem.up
    /\ \E read, est, offer \in Reads, stamps, marks, seeds \in BOOLEAN :
          LET new  == Load(qsDisk, Unloaded(qsMem.created), read, est, stamps) IN
          IF read = "ok"
          THEN Becomes(MaterializeQuickSetup(new[1], new[2], offer, marks, seeds))
          ELSE Becomes(new)
    /\ qsStep' = [hup |-> "idle", import |-> "idle",
                  retry |-> IF qsMem'.loaded THEN "idle" ELSE "seed"]
    /\ Noting([qsWhy EXCEPT !.consent = @ \/ FlagConsent, !.voided = FALSE])
    /\ UNCHANGED qsNow

\* The process ends at any point; what it created is no longer new.
Crash ==
    /\ qsMem.up
    /\ qsMem' = [Unloaded(FALSE) EXCEPT !.up = FALSE]
    /\ qsStep' = [hup |-> "idle", retry |-> "idle", import |-> "idle"]
    /\ UNCHANGED <<qsDisk, qsNow, qsWhy>>

Sighup ==
    /\ qsMem.up /\ qsStep.hup = "idle"
    /\ qsStep' = [qsStep EXCEPT !.hup = "seed"]
    /\ UNCHANGED <<qsDisk, qsMem, qsNow, qsWhy>>

\* seedQuickSetupOfferEarly: before the load, so the dialog is on offer as
\* soon as the interface is served.  The retry loop first looks whether
\* something else has loaded the settings.
SeedEarly(l) ==
    /\ qsStep[l] = "seed"
    /\ IF qsMem.loaded
       THEN /\ UNCHANGED <<qsDisk, qsMem>>
            /\ qsStep' = [qsStep EXCEPT ![l] = IF l = "hup" THEN "reload" ELSE "idle"]
       ELSE /\ \E read \in Reads, ok \in BOOLEAN :
                  Becomes(EnsureQuickSetupOffer(qsDisk, qsMem, read, ok))
            /\ qsStep' = [qsStep EXCEPT ![l] = "reload"]
    /\ UNCHANGED <<qsNow, qsWhy>>

\* handleReload and retrySettingsLoad: a load that fails ends the signal's
\* work; the loop goes round again.
Reload(l) ==
    /\ qsStep[l] = "reload"
    /\ \E read, est \in Reads, ok \in BOOLEAN :
          /\ Becomes(Load(qsDisk, qsMem, read, est, ok))
          /\ qsStep' = [qsStep EXCEPT ![l] =
                IF read = "ok" THEN "decide" ELSE IF l = "hup" THEN "idle" ELSE "seed"]
          /\ Noting([qsWhy EXCEPT !.voided =
                @ /\ ~(read = "ok" /\ est = "ok" /\ Judges(qsDisk, qsMem))])
    /\ UNCHANGED qsNow

Decide(l) ==
    /\ qsStep[l] = "decide"
    /\ \E read \in Reads, marks, ok \in BOOLEAN :
          Becomes(MaterializeQuickSetup(qsDisk, qsMem, read, marks, ok))
    /\ qsStep' = [qsStep EXCEPT ![l] = "idle"]
    /\ UNCHANGED <<qsNow, qsWhy>>

-----------------------------------------------------------------------------
(* The dashboard.  Every save is one transaction, refused until the        *)
(* settings are loaded, and completes a pending birth stamp.               *)

Saved(disk, mem) ==
    /\ qsMem.up /\ qsMem.loaded
    /\ \E ok \in BOOLEAN : Becomes(Stamped(disk, mem, ok))
    /\ UNCHANGED <<qsStep, qsNow>>

\* ApplyQuickSetup with answers, which also starts monitoring
Answer ==
    /\ Saved([qsDisk EXCEPT !.done = TRUE, !.on = TRUE, !.config = TRUE],
             [qsMem EXCEPT !.done = TRUE, !.on = TRUE])
    /\ Noting([qsWhy EXCEPT !.consent = TRUE])

\* ApplyQuickSetup with Dismiss: the marker alone
Dismiss ==
    /\ Saved([qsDisk EXCEPT !.done = TRUE], [qsMem EXCEPT !.done = TRUE])
    /\ Noting([qsWhy EXCEPT !.consent = TRUE])

\* SetMonitoringAnsweringSetup: switching on is an answer, off is not.
SetMonitoringAnsweringSetup(on) ==
    /\ Saved([qsDisk EXCEPT !.on = on, !.config = TRUE, !.done = @ \/ on],
             [qsMem EXCEPT !.on = on, !.done = @ \/ on])
    /\ Noting([qsWhy EXCEPT !.consent = TRUE])

\* Update and the other setters: a stored choice is configuration.
Save ==
    /\ Saved([qsDisk EXCEPT !.config = TRUE], qsMem)
    /\ Noting([qsWhy EXCEPT !.consent = TRUE])

\* An import voids a pending stamp before its rows land; rows of the data
\* tables and of the settings table land, and with the latter it reloads.
ImportStart ==
    /\ qsMem.up /\ qsMem.loaded /\ qsStep.import = "idle"
    /\ qsMem' = ForgetBirthWitness(qsMem)
    /\ qsStep' = [qsStep EXCEPT !.import = "land"]
    /\ Noting([qsWhy EXCEPT !.voided = TRUE])
    /\ UNCHANGED <<qsDisk, qsNow>>

ImportLand ==
    /\ qsStep.import = "land"
    /\ \E data, config \in BOOLEAN :
          /\ \E on \in BOOLEAN :
                qsDisk' = [qsDisk EXCEPT !.history = @ \/ data,
                                         !.config = @ \/ config,
                                         !.on = IF config THEN on ELSE @]
          /\ qsStep' = [qsStep EXCEPT !.import = IF config THEN "reload" ELSE "idle"]
          /\ Noting([qsWhy EXCEPT !.consent = @ \/ data \/ config])
    /\ UNCHANGED <<qsMem, qsNow>>

\* A load that fails is tried again, then given up.
ImportReload ==
    /\ qsStep.import = "reload"
    /\ \E read, est \in Reads, ok \in BOOLEAN :
          /\ Becomes(Load(qsDisk, qsMem, read, est, ok))
          /\ Noting([qsWhy EXCEPT !.voided =
                @ /\ ~(read = "ok" /\ est = "ok" /\ Judges(qsDisk, qsMem))])
          /\ \E next \in IF read = "ok" THEN {"idle"} ELSE {"reload", "idle"} :
                qsStep' = [qsStep EXCEPT !.import = next]
    /\ UNCHANGED qsNow

-----------------------------------------------------------------------------
(* The measurement loops.                                                  *)

\* A clock behind the offer holds: elapsed is negative.
QuickSetupHold == qsDisk.offer # 0 /\ qsNow - qsDisk.offer < Grace

HoldState_NoSettings(read, est) ==
    IF qsMem.loaded /\ QuickSetupHold THEN "held" ELSE "released"

\* quickSetupHoldState: "provisional" lets monitoring run without latching.
HoldState(read, est) ==
    LET evidence == IF est = "ok" /\ Established THEN "provisional" ELSE "held" IN
    CASE ~qsMem.loaded -> evidence
      [] qsMem.loaded /\ qsMem.done -> "released"
      [] qsMem.loaded /\ ~qsMem.done /\ read = "fails" -> "held"
      [] qsMem.loaded /\ ~qsMem.done /\ read = "ok" /\ qsDisk.offer = 0 -> evidence
      [] OTHER -> IF QuickSetupHold THEN "held" ELSE "released"

\* monitoringLive as newMonitoringLiveFn makes it: released once, released
\* for good.  A measurement it allows is history on the disk.
MonitoringLive ==
    /\ qsMem.up
    /\ \E read, est \in Reads :
          LET hold  == IF qsMem.latch THEN "released" ELSE HoldState(read, est)
              live  == hold # "held" /\ qsMem.on
          IN  /\ qsMem' = [qsMem EXCEPT !.latch = hold = "released", !.live = live]
              /\ qsDisk' = [qsDisk EXCEPT !.history = @ \/ live]
    /\ UNCHANGED <<qsStep, qsNow, qsWhy>>

-----------------------------------------------------------------------------
(* The wall clock: it runs, and a host without a battery starts in the past.*)

Tick ==
    /\ qsNow < LastTick
    /\ qsNow' = qsNow + 1
    /\ Noting([qsWhy EXCEPT !.age = IF qsDisk.offer # 0 /\ @ < Grace THEN @ + 1 ELSE @])
    /\ UNCHANGED <<qsDisk, qsMem, qsStep>>

ClockReset ==
    /\ qsNow > 1 /\ ~qsMem.up
    /\ qsNow' = 1
    /\ UNCHANGED <<qsDisk, qsMem, qsStep, qsWhy>>

QsNext ==
    \/ Boot \/ Crash \/ Sighup
    \/ \E l \in Loaders : SeedEarly(l) \/ Reload(l) \/ Decide(l)
    \/ Answer \/ Dismiss \/ Save
    \/ \E on \in BOOLEAN : SetMonitoringAnsweringSetup(on)
    \/ ImportStart \/ ImportLand \/ ImportReload
    \/ MonitoringLive
    \/ Tick \/ ClockReset

QsSpec == QsInit /\ [][QsNext]_qsVars

-----------------------------------------------------------------------------
(* Properties.                                                             *)

QsTypeOK ==
    /\ qsDisk \in [done : BOOLEAN, offer : 0..LastTick, born : BOOLEAN,
                   history : BOOLEAN, config : BOOLEAN, on : BOOLEAN]
    /\ qsNow \in 1..LastTick
    /\ qsStep.import \in {"idle", "land", "reload"}
    /\ \A l \in Loaders : qsStep[l] \in {"idle", "seed", "reload", "decide"}

\* Nothing is measured on a fresh install before its operator has answered,
\* configured or restored something, or the offer has been on the table for
\* the whole grace: not while the settings cannot be read, not through a
\* restart that meets a clock in the past, not in the middle of a reload.
MeasuresWithConsent == qsMem.live => qsWhy.consent \/ qsWhy.age = Grace

=============================================================================
