----------------------------- MODULE SpeedLoop -----------------------------
(***************************************************************************)
(* Scheduler.Loop: the startup slot, the schedule, and the wakes that end  *)
(* its sleep, composed with the runs and stops of SpeedRun.  The loop      *)
(* calls RunOnce on its own goroutine (LoopRunner); the other runners are  *)
(* the manual, reconnect and degraded triggers.                            *)
(*                                                                         *)
(* Time is abstract: a deadline may be due or not whenever the loop looks, *)
(* and every sleep may end.                                                *)
(***************************************************************************)
EXTENDS SpeedRun

CONSTANT LoopRunner     \* the goroutine of Loop

ASSUME LoopAssumption == LoopRunner \in Runners

VARIABLES
    enabled,        \* EnabledFn: speedtests, monitoring and the daily window
    byClock,        \* did the daily window, not a settings change, set it last
    wake,           \* is the broadcast channel the loop holds closed
    lpc,            \* where Loop is
    startupPending, \* is the startup slot still unclaimed
    entry,          \* entryCompletions, later latchEntryCompletions
    anchored        \* is a deadline published (anchor # nil)

loopVars == <<lpc, startupPending, entry, anchored>>
envVars  == <<enabled, byClock, wake>>
allVars  == <<vars, loopVars, envVars>>

LoopPCs == {"enter", "settle", "boot", "subscribe", "latch", "pause", "drain",
            "count", "consent", "launch", "startup", "deadline", "scheduled",
            "sleep", "exit"}

LInit ==
    /\ Init
    /\ enabled \in BOOLEAN /\ byClock = FALSE /\ wake = FALSE
    /\ lpc = "enter" /\ startupPending = FALSE /\ entry = 0 /\ anchored = FALSE

LGoto(from, to) == lpc = from /\ lpc' = to
Returned == pc[LoopRunner] = "idle"

-----------------------------------------------------------------------------
(* The boot slot                                                           *)

\* initiallyEnabled and entryCompletions, read before the settle sleep; the
\* slot of a loop that starts disabled is carried over to the latch.
Enter ==
    /\ LGoto("enter", "settle")
    /\ startupPending' = ~enabled
    /\ entry' = completions
    /\ UNCHANGED <<vars, envVars, anchored>>

\* startupRunWanted
StartupRunWanted == ~startupPending /\ enabled /\ completions = entry

\* The boot run fires at once, or the loop goes on to its schedule.
Settle ==
    \/ /\ StartupRunWanted
       /\ LGoto("settle", "boot")
       /\ Call(LoopRunner, "startup")
       /\ UNCHANGED <<envVars, startupPending, entry, anchored>>
    \/ /\ ~StartupRunWanted
       /\ LGoto("settle", "subscribe")
       /\ anchored' = TRUE
       /\ UNCHANGED <<vars, envVars, startupPending, entry>>

BootDone ==
    /\ Returned
    /\ LGoto("boot", "subscribe")
    /\ anchored' = TRUE
    /\ UNCHANGED <<vars, envVars, startupPending, entry>>

-----------------------------------------------------------------------------
(* The latch: the startup slot of a loop that was disabled at boot         *)

\* The channel is fetched before any state the sleep depends on is read.
Subscribe ==
    /\ LGoto("subscribe", "latch")
    /\ wake' = FALSE
    /\ UNCHANGED <<vars, enabled, byClock, startupPending, entry, anchored>>

\* Consent seen: snapshot completions and withdraw the deadline.
Latch ==
    \/ /\ startupPending /\ enabled
       /\ LGoto("latch", "pause")
       /\ entry' = completions
       /\ anchored' = FALSE
       /\ UNCHANGED <<vars, envVars, startupPending>>
    \/ /\ ~(startupPending /\ enabled)
       /\ LGoto("latch", "deadline")
       /\ UNCHANGED <<vars, envVars, startupPending, entry, anchored>>

\* firstEnableDelay and the bounded wait for ReadyFn.  Assumed: ten seconds
\* outlast the instructions between a run's completions.Add and its nudge.
PauseOutlastsNudge == \A r \in Runners : pc[r] # "nudge"

Pause ==
    /\ PauseOutlastsNudge
    /\ LGoto("pause", "drain")
    /\ UNCHANGED <<vars, envVars, startupPending, entry, anchored>>

\* A token nobody observed is a run that served the slot.
Drain ==
    /\ LGoto("drain", "count")
    /\ startupPending' = ~runWake
    /\ runWake' = FALSE
    /\ UNCHANGED <<claimVars, wireSeq, startupGate, completions, shutdown,
                   stored, pc, runVars, stopVars, envVars, entry, anchored>>

\* So is one that completed since the snapshot.
Count ==
    /\ LGoto("count", "consent")
    /\ startupPending' = (startupPending /\ completions = entry)
    /\ UNCHANGED <<vars, envVars, entry, anchored>>

\* Still unserved and still enabled: arm the gate.  Otherwise publish a
\* deadline again, and the slot stays open if nothing served it.
Consent ==
    \/ /\ startupPending /\ enabled
       /\ LGoto("consent", "launch")
       /\ startupGate' = entry
       /\ UNCHANGED <<claimVars, wireSeq, doneVars, shutdown, stored, pc,
                      runVars, stopVars, envVars, startupPending, entry,
                      anchored>>
    \/ /\ ~(startupPending /\ enabled)
       /\ LGoto("consent", "subscribe")
       /\ anchored' = TRUE
       /\ UNCHANGED <<vars, envVars, startupPending, entry>>

Launch ==
    /\ LGoto("launch", "startup")
    /\ Call(LoopRunner, "startup")
    /\ UNCHANGED <<envVars, startupPending, entry, anchored>>

\* Variant: the slot stays open after its run.
StartupDone_KeepsSlot ==
    /\ Returned
    /\ LGoto("startup", "subscribe")
    /\ anchored' = TRUE
    /\ UNCHANGED <<vars, envVars, startupPending, entry>>

\* Run, failed or bounced: the slot is claimed.
StartupDone ==
    /\ Returned
    /\ LGoto("startup", "subscribe")
    /\ startupPending' = FALSE
    /\ anchored' = TRUE
    /\ UNCHANGED <<vars, envVars, entry>>

-----------------------------------------------------------------------------
(* The schedule                                                            *)

\* Room is kept for the startup run's id (MaxRuns bounds the model).
RoomToSpare == runSeq + 1 < BootSeed + MaxRuns

\* Due, enabled and the link not busy: run.  Otherwise sleep, until the
\* deadline or for the recheck.
Deadline ==
    \/ /\ enabled /\ RoomToSpare
       /\ LGoto("deadline", "scheduled")
       /\ Call(LoopRunner, "scheduled")
       /\ UNCHANGED <<envVars, startupPending, entry, anchored>>
    \/ /\ LGoto("deadline", "sleep")
       /\ UNCHANGED <<vars, envVars, startupPending, entry, anchored>>

\* Run or skipped (ErrBusy), the anchor advances.
ScheduledDone ==
    /\ Returned
    /\ LGoto("scheduled", IF shutdown THEN "exit" ELSE "subscribe")
    /\ anchored' = TRUE
    /\ UNCHANGED <<vars, envVars, startupPending, entry>>

\* The timer: the deadline, or the thirty-second recheck.
TimerWake ==
    /\ LGoto("sleep", "subscribe")
    /\ UNCHANGED <<vars, envVars, startupPending, entry, anchored>>

SettingsWake ==
    /\ wake
    /\ LGoto("sleep", "subscribe")
    /\ UNCHANGED <<vars, envVars, startupPending, entry, anchored>>

\* A run completed: it serves a slot that is still open, and re-anchors.
RunWake ==
    /\ runWake
    /\ LGoto("sleep", "subscribe")
    /\ runWake' = FALSE
    /\ startupPending' = FALSE
    /\ UNCHANGED <<claimVars, wireSeq, startupGate, completions, shutdown,
                   stored, pc, runVars, stopVars, envVars, entry, anchored>>

Exit ==
    /\ shutdown /\ lpc \in {"settle", "pause", "sleep"}
    /\ lpc' = "exit"
    /\ UNCHANGED <<vars, envVars, startupPending, entry, anchored>>

LoopStep ==
    \/ Enter \/ Settle \/ BootDone \/ Subscribe \/ Latch \/ Pause \/ Drain
    \/ Count \/ Consent \/ Launch \/ StartupDone \/ Deadline \/ ScheduledDone
    \/ TimerWake \/ SettingsWake \/ RunWake \/ Exit

-----------------------------------------------------------------------------
(* The environment and the specification                                   *)

\* A settings change is broadcast: the held channel is closed.
ChangeSettings ==
    /\ enabled' = ~enabled /\ byClock' = FALSE /\ wake' = TRUE
    /\ UNCHANGED <<vars, loopVars>>

\* The daily window opens or closes; nothing broadcasts that.
ClockGate ==
    /\ enabled' = ~enabled /\ byClock' = TRUE
    /\ UNCHANGED <<vars, loopVars, wake>>

\* The other triggers.
Trigger(r) ==
    /\ r # LoopRunner /\ RoomToSpare
    /\ Call(r, "manual")

LNext ==
    \/ LoopStep
    \/ ChangeSettings \/ ClockGate
    \/ /\ \/ \E r \in Runners : \/ Trigger(r) \/ Proceed(r)
                                \/ EngineReturns(r) \/ Notified(r)
          \/ \E s \in Stops : StopStep(s)
          \/ Shutdown
       /\ UNCHANGED <<loopVars, envVars>>

LSpec == LInit /\ [][LNext]_allVars

\* The goroutines keep going, timers fire, and the engines of RunOnce return
\* by themselves (each stage of theirs is time-limited).
LFairness ==
    /\ WF_allVars(LoopStep)
    /\ \A r \in Runners :
         /\ WF_allVars(Proceed(r) /\ UNCHANGED <<loopVars, envVars>>)
         /\ WF_allVars(EngineReturns(r) /\ UNCHANGED <<loopVars, envVars>>)
         /\ WF_allVars(Notified(r) /\ UNCHANGED <<loopVars, envVars>>)

LFairSpec == LSpec /\ LFairness

-----------------------------------------------------------------------------
(* Properties                                                              *)

\* Enabled for good, the startup slot does not stay open.
SlotServed == <>[](enabled /\ ~shutdown) => <>(~startupPending /\ lpc # "enter")
=============================================================================
