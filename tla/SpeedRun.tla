------------------------------ MODULE SpeedRun ------------------------------
(***************************************************************************)
(* One speedtest run and the requests that stop it: Scheduler.RunOnce,     *)
(* Scheduler.Abort and the atomics they share                              *)
(* (internal/speedtest/scheduler.go).  Every load, store, Swap, Add and    *)
(* CompareAndSwap of the code is a step of its own, so the interleavings   *)
(* are those of the goroutines.  Go's atomics are sequentially consistent. *)
(*                                                                         *)
(* The schedule loop is the environment here: it may arm the startup gate  *)
(* and drain the completion nudge at any moment.  SpeedLoop replaces that  *)
(* environment by Scheduler.Loop itself.                                   *)
(***************************************************************************)
EXTENDS Integers, FiniteSets

CONSTANTS
    Runners,    \* goroutines that call RunOnce
    Stops,      \* stop requests, each one call of Abort
    Triggers,   \* the triggers the runners pass; "startup" is the gated one
    BootSeed,   \* where this boot's run ids start (bootRunSeed)
    OptionalRows,   \* rows that follow or replace a measurement, where the
                    \* run has something to put in them
    MaxRuns     \* bound: run ids handed out in a behaviour

ASSUME SeedAssumption  == BootSeed \in Nat
ASSUME RowsAssumption  == OptionalRows \subseteq {"attached", "usage", "failed"}
ASSUME BoundAssumption == MaxRuns \in Nat

NoRun  == 0     \* curID when the claim is free, cur when nothing is published
NoGate == -1    \* a nil startupGate

VARIABLES
    runSeq,       \* last run id handed out
    curID,        \* the single-flight claim: id of the run that holds it
    cur,          \* id of the published in-flight cancel, NoRun for nil
    abortFor,     \* newest run id a stop was recorded for
    cancelled,    \* ids whose run context a cancel reached
    wireSeq,      \* edges of the wire window, odd while an engine works
    startupGate,  \* completions snapshot armed by the latch, or NoGate
    completions,  \* persisted runs
    runWake,      \* is the capacity-1 nudge channel full
    shutdown,     \* is the daemon's context cancelled
    stored,       \* rows in the store: <<run id, kind>>
    pc, myID, reason, gate, answer,  \* locals of each runner
    apc, asked, target, old          \* locals of each stop request

claimVars == <<runSeq, curID, cur, abortFor, cancelled>>
doneVars  == <<completions, runWake>>
runVars   == <<myID, reason, gate, answer>>
stopVars  == <<apc, asked, target, old>>
vars == <<claimVars, wireSeq, startupGate, doneVars, shutdown, stored, pc,
          runVars, stopVars>>

Ids   == BootSeed + 1 .. BootSeed + MaxRuns
\* The rows a run may leave: its measurement, what is attached to it (the wire
\* span, the extra usage, the selection report, the losers of the round), the
\* usage of a failed run, and a failure record.
Kinds == {"result", "attached", "usage", "failed"}

\* Where a runner holds the claim, where its cancel is published, and where
\* its engine is working.
WirePCs  == {"engine", "closeOK", "closeErr"}
AfterPCs == {"judge", "usage", "result", "persist", "attach", "complete",
             "nudge", "unpublish"}
PublishedPCs == {"check", "open"} \union WirePCs \union {"failed"} \union AfterPCs
HoldPCs == {"gate", "compare", "bail", "publish", "release"} \union PublishedPCs
PCs     == {"idle", "claim", "notify"} \union HoldPCs
Answers == {"none", "shutdown", "aborted", "failure", "done"}

Init ==
    /\ runSeq = BootSeed /\ curID = NoRun /\ cur = NoRun /\ abortFor = 0
    /\ cancelled = {} /\ wireSeq = 0 /\ startupGate = NoGate
    /\ completions = 0 /\ runWake = FALSE /\ shutdown = FALSE /\ stored = {}
    /\ pc = [r \in Runners |-> "idle"] /\ myID = [r \in Runners |-> NoRun]
    /\ reason = [r \in Runners |-> "none"] /\ gate = [r \in Runners |-> NoGate]
    /\ answer = [r \in Runners |-> "none"]
    /\ apc = [s \in Stops |-> "new"] /\ asked = [s \in Stops |-> NoRun]
    /\ target = [s \in Stops |-> NoRun] /\ old = [s \in Stops |-> 0]

Goto(r, from, to) == pc[r] = from /\ pc' = [pc EXCEPT ![r] = to]
Answer(r, a)      == answer' = [answer EXCEPT ![r] = a]

\* RunOnce returns, and its locals with it.
Return(r, from) ==
    /\ Goto(r, from, "idle")
    /\ myID' = [myID EXCEPT ![r] = NoRun]
    /\ reason' = [reason EXCEPT ![r] = "none"]
    /\ gate' = [gate EXCEPT ![r] = NoGate]
    /\ Answer(r, "none")

-----------------------------------------------------------------------------
(* RunOnce: the claim                                                      *)

\* The run id is taken before the claim is tried: runSeq.Add(1).
Call(r, why) ==
    /\ Goto(r, "idle", "claim")
    /\ runSeq < BootSeed + MaxRuns
    /\ runSeq' = runSeq + 1
    /\ myID' = [myID EXCEPT ![r] = runSeq + 1]
    /\ reason' = [reason EXCEPT ![r] = why]
    /\ UNCHANGED <<curID, cur, abortFor, cancelled, wireSeq, startupGate,
                   doneVars, shutdown, stored, gate, answer, stopVars>>

\* curID.CompareAndSwap(0, myID) succeeds: the id is the claim.
Claim(r) ==
    /\ curID = NoRun
    /\ Goto(r, "claim", IF reason[r] = "startup" THEN "gate" ELSE "publish")
    /\ curID' = myID[r]
    /\ UNCHANGED <<runSeq, cur, abortFor, cancelled, wireSeq, startupGate,
                   doneVars, shutdown, stored, runVars, stopVars>>

\* Variant: a refused claim moves the wire counter.
Bounce_CountsEdge(r) ==
    /\ curID # NoRun
    /\ Return(r, "claim")
    /\ wireSeq' = wireSeq + 1
    /\ UNCHANGED <<claimVars, startupGate, doneVars, shutdown, stored, stopVars>>

\* The swap fails: another run is in flight, ErrBusy.
Bounce(r) ==
    /\ curID # NoRun
    /\ Return(r, "claim")
    /\ UNCHANGED <<claimVars, wireSeq, startupGate, doneVars, shutdown, stored,
                   stopVars>>

\* The startup preflight: startupGate.Swap(nil) ...
SwapGate(r) ==
    /\ Goto(r, "gate", IF startupGate = NoGate THEN "publish" ELSE "compare")
    /\ gate' = [gate EXCEPT ![r] = startupGate]
    /\ startupGate' = NoGate
    /\ UNCHANGED <<claimVars, wireSeq, doneVars, shutdown, stored, myID, reason,
                   answer, stopVars>>

\* Variant: the snapshot is taken out but not compared.
CompareGate_Ignored(r) ==
    /\ Goto(r, "compare", "publish")
    /\ UNCHANGED <<claimVars, wireSeq, startupGate, doneVars, shutdown, stored,
                   runVars, stopVars>>

\* ... and, under the claim, the comparison with completions.
CompareGate(r) ==
    /\ Goto(r, "compare", IF completions = gate[r] THEN "publish" ELSE "bail")
    /\ UNCHANGED <<claimVars, wireSeq, startupGate, doneVars, shutdown, stored,
                   runVars, stopVars>>

\* The slot was served meanwhile: give the claim back, ErrBusy.
Bail(r) ==
    /\ Return(r, "bail")
    /\ curID' = NoRun
    /\ UNCHANGED <<runSeq, cur, abortFor, cancelled, wireSeq, startupGate,
                   doneVars, shutdown, stored, stopVars>>

-----------------------------------------------------------------------------
(* RunOnce: the cancel and the wire window                                 *)

Publish(r) ==
    /\ Goto(r, "publish", "check")
    /\ cur' = myID[r]
    /\ UNCHANGED <<runSeq, curID, abortFor, cancelled, wireSeq, startupGate,
                   doneVars, shutdown, stored, runVars, stopVars>>

\* Variant: the published run does not look for an earlier stop.
CheckAbort_Skipped(r) ==
    /\ Goto(r, "check", "open")
    /\ UNCHANGED <<claimVars, wireSeq, startupGate, doneVars, shutdown, stored,
                   runVars, stopVars>>

\* A stop recorded before the cancel was live is honoured here.
CheckAbort(r) ==
    /\ Goto(r, "check", "open")
    /\ cancelled' = IF abortFor = myID[r] THEN cancelled \union {myID[r]}
                                          ELSE cancelled
    /\ UNCHANGED <<runSeq, curID, cur, abortFor, wireSeq, startupGate, doneVars,
                   shutdown, stored, runVars, stopVars>>

OpenWire(r) ==
    /\ Goto(r, "open", "engine")
    /\ wireSeq' = wireSeq + 1
    /\ UNCHANGED <<claimVars, startupGate, doneVars, shutdown, stored, runVars,
                   stopVars>>

\* Variant: the run context is detached from the daemon's.
RunCtxDone_Detached(r) == myID[r] \in cancelled

\* runCtx is a child of the daemon's context.
RunCtxDone(r) == shutdown \/ myID[r] \in cancelled

\* The engine returns.  A cancelled best-of-N run may still hold a result.
EngineReturns(r) ==
    /\ pc[r] = "engine"
    /\ \E to \in {"closeOK", "closeErr"} : pc' = [pc EXCEPT ![r] = to]
    /\ UNCHANGED <<claimVars, wireSeq, startupGate, doneVars, shutdown, stored,
                   runVars, stopVars>>

\* onWire's deferred closing edge.
CloseWire(r) ==
    /\ \/ Goto(r, "closeOK", "result")
       \/ Goto(r, "closeErr", "failed")
    /\ wireSeq' = wireSeq + 1
    /\ UNCHANGED <<claimVars, startupGate, doneVars, shutdown, stored, runVars,
                   stopVars>>

-----------------------------------------------------------------------------
(* RunOnce: a run that failed                                              *)

\* shutdown := ctx.Err() != nil
ReadShutdown(r) ==
    /\ Goto(r, "failed", IF shutdown THEN "usage" ELSE "judge")
    /\ Answer(r, IF shutdown THEN "shutdown" ELSE "none")
    /\ UNCHANGED <<claimVars, wireSeq, startupGate, doneVars, shutdown, stored,
                   myID, reason, gate, stopVars>>

\* aborted := !shutdown && runCtx.Err() != nil
ReadAborted(r) ==
    /\ Goto(r, "judge", "usage")
    /\ Answer(r, IF RunCtxDone(r) THEN "aborted" ELSE "failure")
    /\ UNCHANGED <<claimVars, wireSeq, startupGate, doneVars, shutdown, stored,
                   myID, reason, gate, stopVars>>

\* A row a run writes; the store may refuse it, which costs the run nothing.
MayStore(r, kind) ==
    \/ kind \in OptionalRows /\ stored' = stored \union {<<myID[r], kind>>}
    \/ stored' = stored

\* recordFailedUsage: skipped on shutdown and when nothing moved; with Record
\* failed tests on, a real failure leaves a failure record instead.
RecordFailedUsage(r) ==
    /\ Goto(r, "usage", "unpublish")
    /\ IF shutdown THEN UNCHANGED stored
       ELSE \/ MayStore(r, "usage")
            \/ answer[r] = "failure" /\ MayStore(r, "failed")
    /\ UNCHANGED <<claimVars, wireSeq, startupGate, doneVars, shutdown, runVars,
                   stopVars>>

-----------------------------------------------------------------------------
(* RunOnce: a run that produced a result                                   *)

\* The gate in front of the store: nothing is written once ctx is gone.
ReadCtx(r) ==
    /\ Goto(r, "result", IF shutdown THEN "unpublish" ELSE "persist")
    /\ Answer(r, IF shutdown THEN "shutdown" ELSE "none")
    /\ UNCHANGED <<claimVars, wireSeq, startupGate, doneVars, shutdown, stored,
                   myID, reason, gate, stopVars>>

\* InsertSpeedTS: the measurement goes first, and without it nothing follows.
Persist(r) ==
    /\ \/ /\ Goto(r, "persist", "attach")
          /\ stored' = stored \union {<<myID[r], "result">>}
       \/ /\ Goto(r, "persist", "unpublish")
          /\ UNCHANGED stored
    /\ UNCHANGED <<claimVars, wireSeq, startupGate, doneVars, shutdown, runVars,
                   stopVars>>

\* recordSpan, recordExtraUsage, InsertSpeedServers and recordLosers: rows that
\* name the measurement.  Each is optional, and a failed one costs only itself.
Attach(r) ==
    /\ Goto(r, "attach", "complete")
    /\ MayStore(r, "attached")
    /\ UNCHANGED <<claimVars, wireSeq, startupGate, doneVars, shutdown, runVars,
                   stopVars>>

\* completions.Add(1), before the nudge and before the claim is released.
Complete(r) ==
    /\ Goto(r, "complete", "nudge")
    /\ completions' = completions + 1
    /\ UNCHANGED <<claimVars, wireSeq, startupGate, runWake, shutdown, stored,
                   runVars, stopVars>>

\* The non-blocking send: a pending nudge already covers this one.
Nudge(r) ==
    /\ Goto(r, "nudge", "unpublish")
    /\ runWake' = TRUE
    /\ Answer(r, "done")
    /\ UNCHANGED <<claimVars, wireSeq, startupGate, completions, shutdown,
                   stored, myID, reason, gate, stopVars>>

-----------------------------------------------------------------------------
(* RunOnce: the deferred calls, last registered first                      *)

\* cur.Store(nil).  The deferred cancel() ends a context nothing uses any more.
Unpublish(r) ==
    /\ Goto(r, "unpublish", "release")
    /\ cur' = NoRun
    /\ UNCHANGED <<runSeq, curID, abortFor, cancelled, wireSeq, startupGate,
                   doneVars, shutdown, stored, runVars, stopVars>>

\* curID.Store(0); a breaching run goes on to call its alert endpoint.
Release(r) ==
    /\ \/ Return(r, "release")
       \/ /\ answer[r] = "done" /\ Goto(r, "release", "notify")
          /\ UNCHANGED runVars
    /\ curID' = NoRun
    /\ UNCHANGED <<runSeq, cur, abortFor, cancelled, wireSeq, startupGate,
                   doneVars, shutdown, stored, stopVars>>

\* The endpoint answered, or gave up.
Notified(r) ==
    /\ Return(r, "notify")
    /\ UNCHANGED <<claimVars, wireSeq, startupGate, doneVars, shutdown, stored,
                   stopVars>>

-----------------------------------------------------------------------------
(* Abort                                                                   *)

GotoStop(s, from, to) == apc[s] = from /\ apc' = [apc EXCEPT ![s] = to]

\* The operator decides: against the run the status shows (RunID), or, for a
\* caller that never saw one, against whatever is running.
Decide(s) ==
    /\ GotoStop(s, "new", "load")
    /\ \E id \in {curID, NoRun} : asked' = [asked EXCEPT ![s] = id]
    /\ UNCHANGED <<claimVars, wireSeq, startupGate, doneVars, shutdown, stored,
                   pc, runVars, target, old>>

\* Variant: whichever run is current is the one to stop.
Refused_AnyRun(s) == curID = NoRun

Refused(s) == curID = NoRun \/ (asked[s] # NoRun /\ asked[s] # curID)

\* Abort reads curID once; a stop decided against a run that is over is refused.
LoadClaim(s) ==
    /\ GotoStop(s, "load", IF Refused(s) THEN "refused" ELSE "read")
    /\ target' = [target EXCEPT ![s] = IF Refused(s) THEN NoRun ELSE curID]
    /\ UNCHANGED <<claimVars, wireSeq, startupGate, doneVars, shutdown, stored,
                   pc, runVars, asked, old>>

\* recordAbort: the load, which ends the loop when a newer stop is recorded ...
ReadAbort(s) ==
    /\ GotoStop(s, "read", IF abortFor >= target[s] THEN "cancel" ELSE "swap")
    /\ old' = [old EXCEPT ![s] = IF abortFor >= target[s] THEN 0 ELSE abortFor]
    /\ UNCHANGED <<claimVars, wireSeq, startupGate, doneVars, shutdown, stored,
                   pc, runVars, asked, target>>

\* Variant: the id is stored whatever was recorded since the load.
SwapAbort_Store(s) ==
    /\ GotoStop(s, "swap", "cancel")
    /\ abortFor' = target[s]
    /\ old' = [old EXCEPT ![s] = 0]
    /\ UNCHANGED <<runSeq, curID, cur, cancelled, wireSeq, startupGate, doneVars,
                   shutdown, stored, pc, runVars, asked, target>>

\* ... and the compare-and-swap, tried again from the load when it fails.
SwapAbort(s) ==
    /\ GotoStop(s, "swap", IF abortFor = old[s] THEN "cancel" ELSE "read")
    /\ abortFor' = IF abortFor = old[s] THEN target[s] ELSE abortFor
    /\ old' = [old EXCEPT ![s] = 0]
    /\ UNCHANGED <<runSeq, curID, cur, cancelled, wireSeq, startupGate, doneVars,
                   shutdown, stored, pc, runVars, asked, target>>

\* The published cancel is called if it still is this run's; Abort says true.
CallCancel(s) ==
    /\ GotoStop(s, "cancel", "stopped")
    /\ cancelled' = IF cur = target[s] THEN cancelled \union {target[s]}
                                       ELSE cancelled
    /\ UNCHANGED <<runSeq, curID, cur, abortFor, wireSeq, startupGate, doneVars,
                   shutdown, stored, pc, runVars, asked, target, old>>

-----------------------------------------------------------------------------
(* The environment and the specification                                   *)

\* The latch arms the gate with a snapshot it took some time ago.
ArmGate ==
    /\ \E n \in 0 .. completions : startupGate' = n
    /\ UNCHANGED <<claimVars, wireSeq, doneVars, shutdown, stored, pc, runVars,
                   stopVars>>

TakeNudge ==
    /\ runWake
    /\ runWake' = FALSE
    /\ UNCHANGED <<claimVars, wireSeq, startupGate, completions, shutdown,
                   stored, pc, runVars, stopVars>>

Shutdown ==
    /\ ~shutdown
    /\ shutdown' = TRUE
    /\ UNCHANGED <<claimVars, wireSeq, startupGate, doneVars, stored, pc,
                   runVars, stopVars>>

\* The steps of RunOnce that follow without waiting for anyone.
Proceed(r) ==
    \/ Claim(r) \/ Bounce(r) \/ SwapGate(r) \/ CompareGate(r) \/ Bail(r)
    \/ Publish(r) \/ CheckAbort(r) \/ OpenWire(r) \/ CloseWire(r)
    \/ ReadShutdown(r) \/ ReadAborted(r) \/ RecordFailedUsage(r)
    \/ ReadCtx(r) \/ Persist(r) \/ Attach(r) \/ Complete(r) \/ Nudge(r)
    \/ Unpublish(r) \/ Release(r)

StopStep(s) ==
    Decide(s) \/ LoadClaim(s) \/ ReadAbort(s) \/ SwapAbort(s) \/ CallCancel(s)

Next ==
    \/ \E r \in Runners :
         \/ \E why \in Triggers : Call(r, why)
         \/ Proceed(r) \/ EngineReturns(r) \/ Notified(r)
    \/ \E s \in Stops : StopStep(s)
    \/ ArmGate \/ TakeNudge \/ Shutdown

Spec == Init /\ [][Next]_vars

\* What the scheduling gives: a runner keeps going, a stop request keeps going,
\* and an engine returns once its context is cancelled.  Nothing is assumed of
\* an engine nobody stops, nor of the alert endpoint.
Fairness ==
    /\ \A r \in Runners : WF_vars(Proceed(r))
    /\ \A r \in Runners : WF_vars(RunCtxDone(r) /\ EngineReturns(r))
    /\ \A s \in Stops : WF_vars(StopStep(s))

FairSpec == Spec /\ Fairness
-----------------------------------------------------------------------------
(* Properties                                                              *)

WordsOK ==
    /\ runSeq \in Nat /\ curID \in Nat /\ cur \in Nat /\ abortFor \in Nat
    /\ wireSeq \in Nat /\ startupGate \in Nat \union {NoGate}
    /\ completions \in Nat /\ runWake \in BOOLEAN /\ shutdown \in BOOLEAN

RowsOK == cancelled \subseteq Nat /\ stored \subseteq Nat \X Kinds

RunnersOK ==
    /\ pc \in [Runners -> PCs] /\ myID \in [Runners -> Nat]
    /\ reason \in [Runners -> Triggers \union {"none"}]
    /\ gate \in [Runners -> Nat \union {NoGate}]
    /\ answer \in [Runners -> Answers]

StopPCs == {"new", "load", "read", "swap", "cancel", "stopped", "refused"}

StopsOK ==
    /\ apc \in [Stops -> StopPCs] /\ asked \in [Stops -> Nat]
    /\ target \in [Stops -> Nat] /\ old \in [Stops -> Nat]

\* Every word, row and local keeps the type its Go declaration gives it.
TypeOK == WordsOK /\ RowsOK /\ RunnersOK /\ StopsOK

\* At most one run holds the slot, and the id on show is the holder's: what
\* the single-flight claim and the "id IS the claim" comment promise.
SingleFlight ==
    \A r \in Runners : pc[r] \in HoldPCs =>
        /\ curID = myID[r]
        /\ \A q \in Runners \ {r} : pc[q] \notin HoldPCs

\* The wire counter is odd exactly while some engine works, so an observer
\* that reads it twice learns whether a test overlapped (Scheduler.wireSeq).
WireOddIffTesting ==
    (wireSeq % 2 = 1) <=> \E r \in Runners : pc[r] \in WirePCs

OnTheWay == {"open", "engine"}

\* A stop that was answered "stopping" has cancelled its run before the engine
\* works for it, unless a stop of a younger run is on record (recordAbort keeps
\* the largest id only): the store/load pairing of Abort and RunOnce.
StopHonoured ==
    \A s \in Stops, r \in Runners :
        (apc[s] = "stopped" /\ target[s] = myID[r] /\ pc[r] \in OnTheWay)
            => myID[r] \in cancelled \/ abortFor > myID[r]

\* The pairing as its comment states it, for every interleaving: no accepted
\* stop falls between the two sides.
NoStopLost ==
    \A s \in Stops, r \in Runners :
        (apc[s] = "stopped" /\ target[s] = myID[r] /\ pc[r] \in OnTheWay)
            => myID[r] \in cancelled

\* A cancel only ever reaches the run its stop was decided against; a stop that
\* named a run never reaches the one that started meanwhile (Abort's id).
StopHitsItsRun ==
    [][\A id \in cancelled' \ cancelled : \E s \in Stops :
          target[s] = id /\ asked[s] \in {NoRun, id}]_vars

\* A gated startup run that got past its preflight is the first measurement
\* since the latch took its snapshot, whatever completed around its claim.
GateHolds ==
    \A r \in Runners :
        (pc[r] \in {"publish", "check", "open"} \union WirePCs
            /\ gate[r] # NoGate) => completions = gate[r]

\* An accepted stop ends its run, though the engine would never end by itself
\* (under the proviso of StopHonoured).
StopEndsRun ==
    \A s \in Stops :
        (apc[s] = "stopped" /\ abortFor = target[s])
            ~> (curID # target[s] \/ abortFor > target[s])

\* After a shutdown the slot comes free without anybody's help.
ShutdownDrains == shutdown ~> (curID = NoRun)

\* The slot the daemon is promised, read off the runners' positions.
HolderUsed == \E r \in Runners : pc[r] \in {"failed", "release"} \union AfterPCs
HolderCounted == \E r \in Runners :
    \/ pc[r] = "nudge"
    \/ pc[r] \in {"unpublish", "release"} /\ answer[r] = "done"

Slot == INSTANCE SpeedSlot WITH
    holder <- curID, onWire <- (wireSeq % 2 = 1), used <- HolderUsed,
    counted <- HolderCounted, served <- completions

\* The scheduler implements the one-slot promise (SpeedSlot).
ImplementsSlot == Slot!Spec
=============================================================================
