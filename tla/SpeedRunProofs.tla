--------------------------- MODULE SpeedRunProofs ---------------------------
(***************************************************************************)
(* Theorems about SpeedRun for any runners, stops, triggers and bounds.    *)
(***************************************************************************)
EXTENDS SpeedRun, TLAPS

-----------------------------------------------------------------------------
(* Type correctness                                                        *)

\* The initial state has the types.
LEMMA TypeInit == Init => TypeOK
<1> SUFFICES ASSUME Init PROVE TypeOK
  OBVIOUS
<1> USE DEF NoRun, NoGate, PCs, Answers, StopPCs
<1>1. WordsOK
  BY SeedAssumption DEF Init, WordsOK
<1>2. RowsOK
  BY DEF Init, RowsOK
<1>3. RunnersOK
  BY DEF Init, RunnersOK
<1>4. StopsOK
  BY DEF Init, StopsOK
<1>5. QED
  BY <1>1, <1>2, <1>3, <1>4 DEF TypeOK

\* Every step keeps them.
LEMMA TypeStep == ASSUME TypeOK, [Next]_vars PROVE TypeOK'
<1> USE DEF TypeOK, WordsOK, RowsOK, RunnersOK, StopsOK, NoRun, NoGate, Kinds,
        Answers, PCs, HoldPCs, PublishedPCs, WirePCs, AfterPCs, StopPCs,
        claimVars, doneVars, runVars, stopVars, Goto, Answer, Return, MayStore,
        GotoStop
<1>1. ASSUME NEW r \in Runners, NEW why \in Triggers, Call(r, why) PROVE TypeOK'
  BY <1>1 DEF Call
<1>2. ASSUME NEW r \in Runners, Claim(r) PROVE TypeOK'
  BY <1>2 DEF Claim
<1>3. ASSUME NEW r \in Runners, Bounce(r) PROVE TypeOK'
  BY <1>3 DEF Bounce
<1>4. ASSUME NEW r \in Runners, SwapGate(r) PROVE TypeOK'
  BY <1>4 DEF SwapGate
<1>5. ASSUME NEW r \in Runners, CompareGate(r) PROVE TypeOK'
  BY <1>5 DEF CompareGate
<1>6. ASSUME NEW r \in Runners, Bail(r) PROVE TypeOK'
  BY <1>6 DEF Bail
<1>7. ASSUME NEW r \in Runners, Publish(r) PROVE TypeOK'
  BY <1>7 DEF Publish
<1>8. ASSUME NEW r \in Runners, CheckAbort(r) PROVE TypeOK'
  BY <1>8 DEF CheckAbort
<1>9. ASSUME NEW r \in Runners, OpenWire(r) PROVE TypeOK'
  BY <1>9 DEF OpenWire
<1>10. ASSUME NEW r \in Runners, CloseWire(r) PROVE TypeOK'
  BY <1>10 DEF CloseWire
<1>11. ASSUME NEW r \in Runners, ReadShutdown(r) PROVE TypeOK'
  BY <1>11 DEF ReadShutdown
<1>12. ASSUME NEW r \in Runners, ReadAborted(r) PROVE TypeOK'
  BY <1>12 DEF ReadAborted
<1>13. ASSUME NEW r \in Runners, RecordFailedUsage(r) PROVE TypeOK'
  BY <1>13 DEF RecordFailedUsage
<1>14. ASSUME NEW r \in Runners, ReadCtx(r) PROVE TypeOK'
  BY <1>14 DEF ReadCtx
<1>15. ASSUME NEW r \in Runners, Persist(r) PROVE TypeOK'
  BY <1>15 DEF Persist
<1>16. ASSUME NEW r \in Runners, Attach(r) PROVE TypeOK'
  BY <1>16 DEF Attach
<1>17. ASSUME NEW r \in Runners, Complete(r) PROVE TypeOK'
  BY <1>17 DEF Complete
<1>18. ASSUME NEW r \in Runners, Nudge(r) PROVE TypeOK'
  BY <1>18 DEF Nudge
<1>19. ASSUME NEW r \in Runners, Unpublish(r) PROVE TypeOK'
  BY <1>19 DEF Unpublish
<1>20. ASSUME NEW r \in Runners, Release(r) PROVE TypeOK'
  BY <1>20 DEF Release
<1>21. ASSUME NEW r \in Runners, EngineReturns(r) PROVE TypeOK'
  BY <1>21 DEF EngineReturns
<1>22. ASSUME NEW r \in Runners, Notified(r) PROVE TypeOK'
  BY <1>22 DEF Notified
<1>23. ASSUME NEW s \in Stops, Decide(s) PROVE TypeOK'
  BY <1>23 DEF Decide
<1>24. ASSUME NEW s \in Stops, LoadClaim(s) PROVE TypeOK'
  BY <1>24 DEF LoadClaim
<1>25. ASSUME NEW s \in Stops, ReadAbort(s) PROVE TypeOK'
  BY <1>25 DEF ReadAbort
<1>26. ASSUME NEW s \in Stops, SwapAbort(s) PROVE TypeOK'
  BY <1>26 DEF SwapAbort
<1>27. ASSUME NEW s \in Stops, CallCancel(s) PROVE TypeOK'
  BY <1>27 DEF CallCancel
<1>28. CASE ArmGate
  BY <1>28 DEF ArmGate
<1>29. CASE TakeNudge
  BY <1>29 DEF TakeNudge
<1>30. CASE Shutdown
  BY <1>30 DEF Shutdown
<1>31. CASE UNCHANGED vars
  BY <1>31 DEF vars
<1>32. QED
  BY <1>1, <1>2, <1>3, <1>4, <1>5, <1>6, <1>7, <1>8, <1>9, <1>10, <1>11,
     <1>12, <1>13, <1>14, <1>15, <1>16, <1>17, <1>18, <1>19, <1>20, <1>21,
     <1>22, <1>23, <1>24, <1>25, <1>26, <1>27, <1>28, <1>29, <1>30, <1>31
     DEF Next, Proceed, StopStep

\* Every variable of the scheduler keeps its type, whatever the number of
\* runners and stops.
THEOREM TypeCorrect == Spec => []TypeOK
  BY TypeInit, TypeStep, PTL DEF Spec

-----------------------------------------------------------------------------
(* The inductive invariant                                                 *)

\* Ids are unique among the runners that have one, and the holder of the claim
\* is the runner whose id it is: with unique ids, nobody else holds it.
ClaimInv ==
    /\ \A r \in Runners : /\ pc[r] = "idle" <=> myID[r] = NoRun
                          /\ myID[r] <= runSeq
                          /\ pc[r] \in HoldPCs => curID = myID[r]
                          /\ pc[r] \in PublishedPCs => cur = myID[r]
    /\ \A r, q \in Runners : myID[r] = myID[q] /\ r # q => myID[r] = NoRun

\* A stop past recordAbort finds its id or a larger one on record, and one
\* about to swap read a smaller one.
StopInv ==
    /\ \A s \in Stops : apc[s] \in {"cancel", "stopped"} => abortFor >= target[s]
    /\ \A s \in Stops : apc[s] = "swap" => old[s] < target[s]
    /\ StopHonoured

\* A runner that passed no gate carries no snapshot.
GateInv ==
    /\ \A r \in Runners : pc[r] \in {"idle", "claim"} => gate[r] = NoGate
    /\ GateHolds

\* Only a run that was counted answers "done".
AnswerInv == \A r \in Runners :
    answer[r] = "done" => pc[r] \in {"unpublish", "release", "notify"}

IInv == TypeOK /\ ClaimInv /\ WireOddIffTesting /\ StopInv /\ GateInv /\ AnswerInv

\* The claim invariant alone already gives the single flight.
LEMMA ClaimIsSingle == TypeOK /\ ClaimInv => SingleFlight
  BY DEF TypeOK, WordsOK, RunnersOK, ClaimInv, SingleFlight, HoldPCs,
         PublishedPCs, WirePCs, AfterPCs, NoRun

\* Each step keeps ids unique and the claim with its holder.
LEMMA ClaimStep == ASSUME TypeOK, ClaimInv, [Next]_vars PROVE ClaimInv'
<1> USE DEF TypeOK, WordsOK, RunnersOK, StopsOK, ClaimInv, NoRun, HoldPCs,
        PublishedPCs, WirePCs, AfterPCs, PCs, claimVars, doneVars, runVars,
        stopVars, Goto, Answer, Return, GotoStop
<1>1. ASSUME NEW r \in Runners, NEW why \in Triggers, Call(r, why) PROVE ClaimInv'
  BY <1>1 DEF Call
<1>2. ASSUME NEW r \in Runners, Claim(r) PROVE ClaimInv'
  BY <1>2 DEF Claim
<1>3. ASSUME NEW r \in Runners, Bounce(r) PROVE ClaimInv'
  BY <1>3 DEF Bounce
<1>4. ASSUME NEW r \in Runners, SwapGate(r) PROVE ClaimInv'
  BY <1>4 DEF SwapGate
<1>5. ASSUME NEW r \in Runners, CompareGate(r) PROVE ClaimInv'
  BY <1>5 DEF CompareGate
<1>6. ASSUME NEW r \in Runners, Bail(r) PROVE ClaimInv'
  BY <1>6 DEF Bail
<1>7. ASSUME NEW r \in Runners, Publish(r) PROVE ClaimInv'
  BY <1>7 DEF Publish
<1>8. ASSUME NEW r \in Runners, CheckAbort(r) PROVE ClaimInv'
  BY <1>8 DEF CheckAbort
<1>9. ASSUME NEW r \in Runners, OpenWire(r) PROVE ClaimInv'
  BY <1>9 DEF OpenWire
<1>10. ASSUME NEW r \in Runners, CloseWire(r) PROVE ClaimInv'
  BY <1>10 DEF CloseWire
<1>11. ASSUME NEW r \in Runners, ReadShutdown(r) PROVE ClaimInv'
  BY <1>11 DEF ReadShutdown
<1>12. ASSUME NEW r \in Runners, ReadAborted(r) PROVE ClaimInv'
  BY <1>12 DEF ReadAborted
<1>13. ASSUME NEW r \in Runners, RecordFailedUsage(r) PROVE ClaimInv'
  BY <1>13 DEF RecordFailedUsage
<1>14. ASSUME NEW r \in Runners, ReadCtx(r) PROVE ClaimInv'
  BY <1>14 DEF ReadCtx
<1>15. ASSUME NEW r \in Runners, Persist(r) PROVE ClaimInv'
  BY <1>15 DEF Persist
<1>16. ASSUME NEW r \in Runners, Attach(r) PROVE ClaimInv'
  BY <1>16 DEF Attach
<1>17. ASSUME NEW r \in Runners, Complete(r) PROVE ClaimInv'
  BY <1>17 DEF Complete
<1>18. ASSUME NEW r \in Runners, Nudge(r) PROVE ClaimInv'
  BY <1>18 DEF Nudge
<1>19. ASSUME NEW r \in Runners, Unpublish(r) PROVE ClaimInv'
  BY <1>19 DEF Unpublish
<1>20. ASSUME NEW r \in Runners, Release(r) PROVE ClaimInv'
  BY <1>20 DEF Release
<1>21. ASSUME NEW r \in Runners, EngineReturns(r) PROVE ClaimInv'
  BY <1>21 DEF EngineReturns
<1>22. ASSUME NEW r \in Runners, Notified(r) PROVE ClaimInv'
  BY <1>22 DEF Notified
<1>23. ASSUME NEW s \in Stops, Decide(s) PROVE ClaimInv'
  BY <1>23 DEF Decide
<1>24. ASSUME NEW s \in Stops, LoadClaim(s) PROVE ClaimInv'
  BY <1>24 DEF LoadClaim
<1>25. ASSUME NEW s \in Stops, ReadAbort(s) PROVE ClaimInv'
  BY <1>25 DEF ReadAbort
<1>26. ASSUME NEW s \in Stops, SwapAbort(s) PROVE ClaimInv'
  BY <1>26 DEF SwapAbort
<1>27. ASSUME NEW s \in Stops, CallCancel(s) PROVE ClaimInv'
  BY <1>27 DEF CallCancel
<1>28. CASE ArmGate
  BY <1>28 DEF ArmGate
<1>29. CASE TakeNudge
  BY <1>29 DEF TakeNudge
<1>30. CASE Shutdown
  BY <1>30 DEF Shutdown
<1>31. CASE UNCHANGED vars
  BY <1>31 DEF vars
<1>32. QED
  BY <1>1, <1>2, <1>3, <1>4, <1>5, <1>6, <1>7, <1>8, <1>9, <1>10, <1>11,
     <1>12, <1>13, <1>14, <1>15, <1>16, <1>17, <1>18, <1>19, <1>20, <1>21,
     <1>22, <1>23, <1>24, <1>25, <1>26, <1>27, <1>28, <1>29, <1>30, <1>31
     DEF Next, Proceed, StopStep

\* Only the holder opens and closes the wire window, one edge each time.
LEMMA WireStep == ASSUME TypeOK, ClaimInv, WireOddIffTesting, [Next]_vars
                  PROVE  WireOddIffTesting'
<1> USE DEF TypeOK, WordsOK, RunnersOK, ClaimInv, NoRun, HoldPCs, PublishedPCs,
        WirePCs, AfterPCs, WireOddIffTesting, claimVars, doneVars, runVars,
        stopVars, Goto, Answer, Return
<1>1. ASSUME NEW r \in Runners, NEW why \in Triggers, Call(r, why) PROVE WireOddIffTesting'
  BY <1>1 DEF Call
<1>2. ASSUME NEW r \in Runners, Claim(r) PROVE WireOddIffTesting'
  BY <1>2 DEF Claim
<1>3. ASSUME NEW r \in Runners, Bounce(r) PROVE WireOddIffTesting'
  BY <1>3 DEF Bounce
<1>4. ASSUME NEW r \in Runners, SwapGate(r) PROVE WireOddIffTesting'
  BY <1>4 DEF SwapGate
<1>5. ASSUME NEW r \in Runners, CompareGate(r) PROVE WireOddIffTesting'
  BY <1>5 DEF CompareGate
<1>6. ASSUME NEW r \in Runners, Bail(r) PROVE WireOddIffTesting'
  BY <1>6 DEF Bail
<1>7. ASSUME NEW r \in Runners, Publish(r) PROVE WireOddIffTesting'
  BY <1>7 DEF Publish
<1>8. ASSUME NEW r \in Runners, CheckAbort(r) PROVE WireOddIffTesting'
  BY <1>8 DEF CheckAbort
<1>9. ASSUME NEW r \in Runners, OpenWire(r) PROVE WireOddIffTesting'
  BY <1>9 DEF OpenWire
<1>10. ASSUME NEW r \in Runners, CloseWire(r) PROVE WireOddIffTesting'
  BY <1>10 DEF CloseWire
<1>11. ASSUME NEW r \in Runners, ReadShutdown(r) PROVE WireOddIffTesting'
  BY <1>11 DEF ReadShutdown
<1>12. ASSUME NEW r \in Runners, ReadAborted(r) PROVE WireOddIffTesting'
  BY <1>12 DEF ReadAborted
<1>13. ASSUME NEW r \in Runners, RecordFailedUsage(r) PROVE WireOddIffTesting'
  BY <1>13 DEF RecordFailedUsage
<1>14. ASSUME NEW r \in Runners, ReadCtx(r) PROVE WireOddIffTesting'
  BY <1>14 DEF ReadCtx
<1>15. ASSUME NEW r \in Runners, Persist(r) PROVE WireOddIffTesting'
  BY <1>15 DEF Persist
<1>16. ASSUME NEW r \in Runners, Attach(r) PROVE WireOddIffTesting'
  BY <1>16 DEF Attach
<1>17. ASSUME NEW r \in Runners, Complete(r) PROVE WireOddIffTesting'
  BY <1>17 DEF Complete
<1>18. ASSUME NEW r \in Runners, Nudge(r) PROVE WireOddIffTesting'
  BY <1>18 DEF Nudge
<1>19. ASSUME NEW r \in Runners, Unpublish(r) PROVE WireOddIffTesting'
  BY <1>19 DEF Unpublish
<1>20. ASSUME NEW r \in Runners, Release(r) PROVE WireOddIffTesting'
  BY <1>20 DEF Release
<1>21. ASSUME NEW r \in Runners, EngineReturns(r) PROVE WireOddIffTesting'
  BY <1>21 DEF EngineReturns
<1>22. ASSUME NEW r \in Runners, Notified(r) PROVE WireOddIffTesting'
  BY <1>22 DEF Notified
<1>23. ASSUME NEW s \in Stops, Decide(s) PROVE WireOddIffTesting'
  BY <1>23 DEF Decide
<1>24. ASSUME NEW s \in Stops, LoadClaim(s) PROVE WireOddIffTesting'
  BY <1>24 DEF LoadClaim
<1>25. ASSUME NEW s \in Stops, ReadAbort(s) PROVE WireOddIffTesting'
  BY <1>25 DEF ReadAbort
<1>26. ASSUME NEW s \in Stops, SwapAbort(s) PROVE WireOddIffTesting'
  BY <1>26 DEF SwapAbort
<1>27. ASSUME NEW s \in Stops, CallCancel(s) PROVE WireOddIffTesting'
  BY <1>27 DEF CallCancel
<1>28. CASE ArmGate
  BY <1>28 DEF ArmGate
<1>29. CASE TakeNudge
  BY <1>29 DEF TakeNudge
<1>30. CASE Shutdown
  BY <1>30 DEF Shutdown
<1>31. CASE UNCHANGED vars
  BY <1>31 DEF vars
<1>32. QED
  BY <1>1, <1>2, <1>3, <1>4, <1>5, <1>6, <1>7, <1>8, <1>9, <1>10, <1>11,
     <1>12, <1>13, <1>14, <1>15, <1>16, <1>17, <1>18, <1>19, <1>20, <1>21,
     <1>22, <1>23, <1>24, <1>25, <1>26, <1>27, <1>28, <1>29, <1>30, <1>31
     DEF Next, Proceed, StopStep

\* Either side of the store/load pairing finds the other.
LEMMA StopInvStep == ASSUME TypeOK, ClaimInv, StopInv, [Next]_vars
                     PROVE  StopInv'
<1> USE DEF TypeOK, WordsOK, RowsOK, RunnersOK, StopsOK, ClaimInv, StopInv,
        StopHonoured, OnTheWay, StopPCs, NoRun, HoldPCs, PublishedPCs, WirePCs,
        AfterPCs, claimVars, doneVars, runVars, stopVars, Goto, Answer, Return,
        GotoStop
<1>1. ASSUME NEW r \in Runners, NEW why \in Triggers, Call(r, why) PROVE StopInv'
  BY <1>1 DEF Call
<1>2. ASSUME NEW r \in Runners, Claim(r) PROVE StopInv'
  BY <1>2 DEF Claim
<1>3. ASSUME NEW r \in Runners, Bounce(r) PROVE StopInv'
  BY <1>3 DEF Bounce
<1>4. ASSUME NEW r \in Runners, SwapGate(r) PROVE StopInv'
  BY <1>4 DEF SwapGate
<1>5. ASSUME NEW r \in Runners, CompareGate(r) PROVE StopInv'
  BY <1>5 DEF CompareGate
<1>6. ASSUME NEW r \in Runners, Bail(r) PROVE StopInv'
  BY <1>6 DEF Bail
<1>7. ASSUME NEW r \in Runners, Publish(r) PROVE StopInv'
  BY <1>7 DEF Publish
<1>8. ASSUME NEW r \in Runners, CheckAbort(r) PROVE StopInv'
  BY <1>8 DEF CheckAbort
<1>9. ASSUME NEW r \in Runners, OpenWire(r) PROVE StopInv'
  BY <1>9 DEF OpenWire
<1>10. ASSUME NEW r \in Runners, CloseWire(r) PROVE StopInv'
  BY <1>10 DEF CloseWire
<1>11. ASSUME NEW r \in Runners, ReadShutdown(r) PROVE StopInv'
  BY <1>11 DEF ReadShutdown
<1>12. ASSUME NEW r \in Runners, ReadAborted(r) PROVE StopInv'
  BY <1>12 DEF ReadAborted
<1>13. ASSUME NEW r \in Runners, RecordFailedUsage(r) PROVE StopInv'
  BY <1>13 DEF RecordFailedUsage
<1>14. ASSUME NEW r \in Runners, ReadCtx(r) PROVE StopInv'
  BY <1>14 DEF ReadCtx
<1>15. ASSUME NEW r \in Runners, Persist(r) PROVE StopInv'
  BY <1>15 DEF Persist
<1>16. ASSUME NEW r \in Runners, Attach(r) PROVE StopInv'
  BY <1>16 DEF Attach
<1>17. ASSUME NEW r \in Runners, Complete(r) PROVE StopInv'
  BY <1>17 DEF Complete
<1>18. ASSUME NEW r \in Runners, Nudge(r) PROVE StopInv'
  BY <1>18 DEF Nudge
<1>19. ASSUME NEW r \in Runners, Unpublish(r) PROVE StopInv'
  BY <1>19 DEF Unpublish
<1>20. ASSUME NEW r \in Runners, Release(r) PROVE StopInv'
  BY <1>20 DEF Release
<1>21. ASSUME NEW r \in Runners, EngineReturns(r) PROVE StopInv'
  BY <1>21 DEF EngineReturns
<1>22. ASSUME NEW r \in Runners, Notified(r) PROVE StopInv'
  BY <1>22 DEF Notified
<1>23. ASSUME NEW s \in Stops, Decide(s) PROVE StopInv'
  BY <1>23 DEF Decide
<1>24. ASSUME NEW s \in Stops, LoadClaim(s) PROVE StopInv'
  BY <1>24 DEF LoadClaim
<1>25. ASSUME NEW s \in Stops, ReadAbort(s) PROVE StopInv'
  BY <1>25 DEF ReadAbort
<1>26. ASSUME NEW s \in Stops, SwapAbort(s) PROVE StopInv'
  BY <1>26 DEF SwapAbort
<1>27. ASSUME NEW s \in Stops, CallCancel(s) PROVE StopInv'
  BY <1>27 DEF CallCancel
<1>28. CASE ArmGate
  BY <1>28 DEF ArmGate
<1>29. CASE TakeNudge
  BY <1>29 DEF TakeNudge
<1>30. CASE Shutdown
  BY <1>30 DEF Shutdown
<1>31. CASE UNCHANGED vars
  BY <1>31 DEF vars
<1>32. QED
  BY <1>1, <1>2, <1>3, <1>4, <1>5, <1>6, <1>7, <1>8, <1>9, <1>10, <1>11,
     <1>12, <1>13, <1>14, <1>15, <1>16, <1>17, <1>18, <1>19, <1>20, <1>21,
     <1>22, <1>23, <1>24, <1>25, <1>26, <1>27, <1>28, <1>29, <1>30, <1>31
     DEF Next, Proceed, StopStep

\* Only the holder counts a run, so a snapshot compared under the claim holds
\* until the run that compared it is counted itself.
LEMMA GateStep == ASSUME TypeOK, ClaimInv, GateInv, [Next]_vars PROVE GateInv'
<1> USE DEF TypeOK, WordsOK, RunnersOK, ClaimInv, GateInv, GateHolds, NoRun,
        NoGate, HoldPCs, PublishedPCs, WirePCs, AfterPCs, PCs, claimVars,
        doneVars, runVars, stopVars, Goto, Answer, Return, GotoStop
<1>1. ASSUME NEW r \in Runners, NEW why \in Triggers, Call(r, why) PROVE GateInv'
  BY <1>1 DEF Call
<1>2. ASSUME NEW r \in Runners, Claim(r) PROVE GateInv'
  BY <1>2 DEF Claim
<1>3. ASSUME NEW r \in Runners, Bounce(r) PROVE GateInv'
  BY <1>3 DEF Bounce
<1>4. ASSUME NEW r \in Runners, SwapGate(r) PROVE GateInv'
  BY <1>4 DEF SwapGate
<1>5. ASSUME NEW r \in Runners, CompareGate(r) PROVE GateInv'
  BY <1>5 DEF CompareGate
<1>6. ASSUME NEW r \in Runners, Bail(r) PROVE GateInv'
  BY <1>6 DEF Bail
<1>7. ASSUME NEW r \in Runners, Publish(r) PROVE GateInv'
  BY <1>7 DEF Publish
<1>8. ASSUME NEW r \in Runners, CheckAbort(r) PROVE GateInv'
  BY <1>8 DEF CheckAbort
<1>9. ASSUME NEW r \in Runners, OpenWire(r) PROVE GateInv'
  BY <1>9 DEF OpenWire
<1>10. ASSUME NEW r \in Runners, CloseWire(r) PROVE GateInv'
  BY <1>10 DEF CloseWire
<1>11. ASSUME NEW r \in Runners, ReadShutdown(r) PROVE GateInv'
  BY <1>11 DEF ReadShutdown
<1>12. ASSUME NEW r \in Runners, ReadAborted(r) PROVE GateInv'
  BY <1>12 DEF ReadAborted
<1>13. ASSUME NEW r \in Runners, RecordFailedUsage(r) PROVE GateInv'
  BY <1>13 DEF RecordFailedUsage
<1>14. ASSUME NEW r \in Runners, ReadCtx(r) PROVE GateInv'
  BY <1>14 DEF ReadCtx
<1>15. ASSUME NEW r \in Runners, Persist(r) PROVE GateInv'
  BY <1>15 DEF Persist
<1>16. ASSUME NEW r \in Runners, Attach(r) PROVE GateInv'
  BY <1>16 DEF Attach
<1>17. ASSUME NEW r \in Runners, Complete(r) PROVE GateInv'
  BY <1>17 DEF Complete
<1>18. ASSUME NEW r \in Runners, Nudge(r) PROVE GateInv'
  BY <1>18 DEF Nudge
<1>19. ASSUME NEW r \in Runners, Unpublish(r) PROVE GateInv'
  BY <1>19 DEF Unpublish
<1>20. ASSUME NEW r \in Runners, Release(r) PROVE GateInv'
  BY <1>20 DEF Release
<1>21. ASSUME NEW r \in Runners, EngineReturns(r) PROVE GateInv'
  BY <1>21 DEF EngineReturns
<1>22. ASSUME NEW r \in Runners, Notified(r) PROVE GateInv'
  BY <1>22 DEF Notified
<1>23. ASSUME NEW s \in Stops, Decide(s) PROVE GateInv'
  BY <1>23 DEF Decide
<1>24. ASSUME NEW s \in Stops, LoadClaim(s) PROVE GateInv'
  BY <1>24 DEF LoadClaim
<1>25. ASSUME NEW s \in Stops, ReadAbort(s) PROVE GateInv'
  BY <1>25 DEF ReadAbort
<1>26. ASSUME NEW s \in Stops, SwapAbort(s) PROVE GateInv'
  BY <1>26 DEF SwapAbort
<1>27. ASSUME NEW s \in Stops, CallCancel(s) PROVE GateInv'
  BY <1>27 DEF CallCancel
<1>28. CASE ArmGate
  BY <1>28 DEF ArmGate
<1>29. CASE TakeNudge
  BY <1>29 DEF TakeNudge
<1>30. CASE Shutdown
  BY <1>30 DEF Shutdown
<1>31. CASE UNCHANGED vars
  BY <1>31 DEF vars
<1>32. QED
  BY <1>1, <1>2, <1>3, <1>4, <1>5, <1>6, <1>7, <1>8, <1>9, <1>10, <1>11,
     <1>12, <1>13, <1>14, <1>15, <1>16, <1>17, <1>18, <1>19, <1>20, <1>21,
     <1>22, <1>23, <1>24, <1>25, <1>26, <1>27, <1>28, <1>29, <1>30, <1>31
     DEF Next, Proceed, StopStep

\* The answer "done" is given on the way out.
LEMMA AnswerStep == ASSUME TypeOK, AnswerInv, [Next]_vars PROVE AnswerInv'
<1> USE DEF TypeOK, RunnersOK, AnswerInv, claimVars, doneVars, runVars, stopVars,
        Goto, Answer, Return, GotoStop
<1>1. ASSUME NEW r \in Runners, NEW why \in Triggers, Call(r, why) PROVE AnswerInv'
  BY <1>1 DEF Call
<1>2. ASSUME NEW r \in Runners, Claim(r) PROVE AnswerInv'
  BY <1>2 DEF Claim
<1>3. ASSUME NEW r \in Runners, Bounce(r) PROVE AnswerInv'
  BY <1>3 DEF Bounce
<1>4. ASSUME NEW r \in Runners, SwapGate(r) PROVE AnswerInv'
  BY <1>4 DEF SwapGate
<1>5. ASSUME NEW r \in Runners, CompareGate(r) PROVE AnswerInv'
  BY <1>5 DEF CompareGate
<1>6. ASSUME NEW r \in Runners, Bail(r) PROVE AnswerInv'
  BY <1>6 DEF Bail
<1>7. ASSUME NEW r \in Runners, Publish(r) PROVE AnswerInv'
  BY <1>7 DEF Publish
<1>8. ASSUME NEW r \in Runners, CheckAbort(r) PROVE AnswerInv'
  BY <1>8 DEF CheckAbort
<1>9. ASSUME NEW r \in Runners, OpenWire(r) PROVE AnswerInv'
  BY <1>9 DEF OpenWire
<1>10. ASSUME NEW r \in Runners, CloseWire(r) PROVE AnswerInv'
  BY <1>10 DEF CloseWire
<1>11. ASSUME NEW r \in Runners, ReadShutdown(r) PROVE AnswerInv'
  BY <1>11 DEF ReadShutdown
<1>12. ASSUME NEW r \in Runners, ReadAborted(r) PROVE AnswerInv'
  BY <1>12 DEF ReadAborted
<1>13. ASSUME NEW r \in Runners, RecordFailedUsage(r) PROVE AnswerInv'
  BY <1>13 DEF RecordFailedUsage
<1>14. ASSUME NEW r \in Runners, ReadCtx(r) PROVE AnswerInv'
  BY <1>14 DEF ReadCtx
<1>15. ASSUME NEW r \in Runners, Persist(r) PROVE AnswerInv'
  BY <1>15 DEF Persist
<1>16. ASSUME NEW r \in Runners, Attach(r) PROVE AnswerInv'
  BY <1>16 DEF Attach
<1>17. ASSUME NEW r \in Runners, Complete(r) PROVE AnswerInv'
  BY <1>17 DEF Complete
<1>18. ASSUME NEW r \in Runners, Nudge(r) PROVE AnswerInv'
  BY <1>18 DEF Nudge
<1>19. ASSUME NEW r \in Runners, Unpublish(r) PROVE AnswerInv'
  BY <1>19 DEF Unpublish
<1>20. ASSUME NEW r \in Runners, Release(r) PROVE AnswerInv'
  BY <1>20 DEF Release
<1>21. ASSUME NEW r \in Runners, EngineReturns(r) PROVE AnswerInv'
  BY <1>21 DEF EngineReturns
<1>22. ASSUME NEW r \in Runners, Notified(r) PROVE AnswerInv'
  BY <1>22 DEF Notified
<1>23. ASSUME NEW s \in Stops, Decide(s) PROVE AnswerInv'
  BY <1>23 DEF Decide
<1>24. ASSUME NEW s \in Stops, LoadClaim(s) PROVE AnswerInv'
  BY <1>24 DEF LoadClaim
<1>25. ASSUME NEW s \in Stops, ReadAbort(s) PROVE AnswerInv'
  BY <1>25 DEF ReadAbort
<1>26. ASSUME NEW s \in Stops, SwapAbort(s) PROVE AnswerInv'
  BY <1>26 DEF SwapAbort
<1>27. ASSUME NEW s \in Stops, CallCancel(s) PROVE AnswerInv'
  BY <1>27 DEF CallCancel
<1>28. CASE ArmGate
  BY <1>28 DEF ArmGate
<1>29. CASE TakeNudge
  BY <1>29 DEF TakeNudge
<1>30. CASE Shutdown
  BY <1>30 DEF Shutdown
<1>31. CASE UNCHANGED vars
  BY <1>31 DEF vars
<1>32. QED
  BY <1>1, <1>2, <1>3, <1>4, <1>5, <1>6, <1>7, <1>8, <1>9, <1>10, <1>11,
     <1>12, <1>13, <1>14, <1>15, <1>16, <1>17, <1>18, <1>19, <1>20, <1>21,
     <1>22, <1>23, <1>24, <1>25, <1>26, <1>27, <1>28, <1>29, <1>30, <1>31
     DEF Next, Proceed, StopStep

\* Every step keeps the invariant.
LEMMA Inductive == IInv /\ [Next]_vars => IInv'
  BY TypeStep, ClaimStep, WireStep, StopInvStep, GateStep, AnswerStep DEF IInv

\* The initial state satisfies it.
LEMMA InitInv == Init => IInv
<1> SUFFICES ASSUME Init PROVE IInv
  OBVIOUS
<1>1. TypeOK
  BY TypeInit
<1>2. ClaimInv
  BY SeedAssumption DEF Init, ClaimInv, NoRun, HoldPCs, PublishedPCs, WirePCs,
     AfterPCs
<1>3. WireOddIffTesting
  BY DEF Init, WireOddIffTesting, WirePCs
<1>4. StopInv
  BY DEF Init, StopInv, StopHonoured, OnTheWay
<1>5. GateInv
  BY DEF Init, GateInv, GateHolds, WirePCs
<1>6. AnswerInv
  BY DEF Init, AnswerInv
<1>7. QED
  BY <1>1, <1>2, <1>3, <1>4, <1>5, <1>6 DEF IInv

\* In every state the slot has the holder its words name, and who must see a stop
\* sees it.
THEOREM InvariantHolds == Spec => []IInv
  BY InitInv, Inductive, PTL DEF Spec

-----------------------------------------------------------------------------
(* What follows                                                            *)

\* Two runs never hold the slot together, however many goroutines call RunOnce.
THEOREM SlotIsSingle == Spec => []SingleFlight
  BY InvariantHolds, ClaimIsSingle, PTL DEF IInv

\* The wire counter's parity tells an observer the truth at every moment.
THEOREM WireParity == Spec => []WireOddIffTesting
  BY InvariantHolds, PTL DEF IInv

\* An accepted stop reaches its run before the engine works for it, unless a
\* younger run's stop is on record: no interleaving of any number of stops and
\* runs loses one otherwise.
THEOREM StopIsHonoured == Spec => []StopHonoured
  BY InvariantHolds, PTL DEF IInv, StopInv

\* The startup gate, compared under the claim, is free of races.
THEOREM GateIsRaceFree == Spec => []GateHolds
  BY InvariantHolds, PTL DEF IInv, GateInv

-----------------------------------------------------------------------------
(* Refinement                                                              *)

\* Every step of the scheduler is a step of the one-slot promise or a stutter.
LEMMA SlotStep == ASSUME IInv, [Next]_vars
                  PROVE  [Slot!Next]_(Slot!slotVars)
<1> DEFINE SlotNext == [Slot!Next]_(Slot!slotVars)
<1>0. SingleFlight
  BY ClaimIsSingle DEF IInv
<1> USE <1>0 DEF IInv, SingleFlight, TypeOK, WordsOK, RunnersOK, StopsOK,
        ClaimInv, AnswerInv, WireOddIffTesting, NoRun, HoldPCs, PublishedPCs,
        WirePCs, AfterPCs, HolderUsed, HolderCounted, Slot!Next, Slot!slotVars,
        Slot!Take, Slot!StartTest, Slot!FinishTest, Slot!Count, Slot!Free,
        claimVars, doneVars, runVars, stopVars, Goto, Answer, Return, GotoStop
<1>1. ASSUME NEW r \in Runners, NEW why \in Triggers, Call(r, why) PROVE SlotNext
  BY <1>1 DEF Call
<1>2. ASSUME NEW r \in Runners, Claim(r) PROVE SlotNext
  BY <1>2 DEF Claim
<1>3. ASSUME NEW r \in Runners, Bounce(r) PROVE SlotNext
  BY <1>3 DEF Bounce
<1>4. ASSUME NEW r \in Runners, SwapGate(r) PROVE SlotNext
  BY <1>4 DEF SwapGate
<1>5. ASSUME NEW r \in Runners, CompareGate(r) PROVE SlotNext
  BY <1>5 DEF CompareGate
<1>6. ASSUME NEW r \in Runners, Bail(r) PROVE SlotNext
  BY <1>6 DEF Bail
<1>7. ASSUME NEW r \in Runners, Publish(r) PROVE SlotNext
  BY <1>7 DEF Publish
<1>8. ASSUME NEW r \in Runners, CheckAbort(r) PROVE SlotNext
  BY <1>8 DEF CheckAbort
<1>9. ASSUME NEW r \in Runners, OpenWire(r) PROVE SlotNext
  BY <1>9 DEF OpenWire
<1>10. ASSUME NEW r \in Runners, CloseWire(r) PROVE SlotNext
  BY <1>10 DEF CloseWire
<1>11. ASSUME NEW r \in Runners, ReadShutdown(r) PROVE SlotNext
  BY <1>11 DEF ReadShutdown
<1>12. ASSUME NEW r \in Runners, ReadAborted(r) PROVE SlotNext
  BY <1>12 DEF ReadAborted
<1>13. ASSUME NEW r \in Runners, RecordFailedUsage(r) PROVE SlotNext
  BY <1>13 DEF RecordFailedUsage
<1>14. ASSUME NEW r \in Runners, ReadCtx(r) PROVE SlotNext
  BY <1>14 DEF ReadCtx
<1>15. ASSUME NEW r \in Runners, Persist(r) PROVE SlotNext
  BY <1>15 DEF Persist
<1>16. ASSUME NEW r \in Runners, Attach(r) PROVE SlotNext
  BY <1>16 DEF Attach
<1>17. ASSUME NEW r \in Runners, Complete(r) PROVE SlotNext
  BY <1>17 DEF Complete
<1>18. ASSUME NEW r \in Runners, Nudge(r) PROVE SlotNext
  BY <1>18 DEF Nudge
<1>19. ASSUME NEW r \in Runners, Unpublish(r) PROVE SlotNext
  BY <1>19 DEF Unpublish
<1>20. ASSUME NEW r \in Runners, Release(r) PROVE SlotNext
  BY <1>20 DEF Release
<1>21. ASSUME NEW r \in Runners, EngineReturns(r) PROVE SlotNext
  BY <1>21 DEF EngineReturns
<1>22. ASSUME NEW r \in Runners, Notified(r) PROVE SlotNext
  BY <1>22 DEF Notified
<1>23. ASSUME NEW s \in Stops, Decide(s) PROVE SlotNext
  BY <1>23 DEF Decide
<1>24. ASSUME NEW s \in Stops, LoadClaim(s) PROVE SlotNext
  BY <1>24 DEF LoadClaim
<1>25. ASSUME NEW s \in Stops, ReadAbort(s) PROVE SlotNext
  BY <1>25 DEF ReadAbort
<1>26. ASSUME NEW s \in Stops, SwapAbort(s) PROVE SlotNext
  BY <1>26 DEF SwapAbort
<1>27. ASSUME NEW s \in Stops, CallCancel(s) PROVE SlotNext
  BY <1>27 DEF CallCancel
<1>28. CASE ArmGate
  BY <1>28 DEF ArmGate
<1>29. CASE TakeNudge
  BY <1>29 DEF TakeNudge
<1>30. CASE Shutdown
  BY <1>30 DEF Shutdown
<1>31. CASE UNCHANGED vars
  BY <1>31 DEF vars
<1>32. QED
  BY <1>1, <1>2, <1>3, <1>4, <1>5, <1>6, <1>7, <1>8, <1>9, <1>10, <1>11,
     <1>12, <1>13, <1>14, <1>15, <1>16, <1>17, <1>18, <1>19, <1>20, <1>21,
     <1>22, <1>23, <1>24, <1>25, <1>26, <1>27, <1>28, <1>29, <1>30, <1>31
     DEF Next, Proceed, StopStep

\* The scheduler implements the promise the rest of the daemon builds on: one
\* slot, one stretch on the network per holder, counted before it is free.
THEOREM RefinesSlot == Spec => ImplementsSlot
<1>1. Init => Slot!Init
  BY DEF Init, Slot!Init, HolderUsed, HolderCounted, NoRun, AfterPCs
<1>2. QED
  BY <1>1, SlotStep, InvariantHolds, PTL DEF Spec, Slot!Spec, ImplementsSlot


-----------------------------------------------------------------------------
(* Whom a stop reaches                                                     *)

\* A stop that was let in names the run it was decided against, if it named
\* one, and the id on record is one such stop's.
AimPCs == {"read", "swap", "cancel", "stopped"}
Aims(s, id) == apc[s] \in AimPCs /\ target[s] = id /\ asked[s] \in {NoRun, id}
AimInv ==
    /\ \A s \in Stops : apc[s] \in AimPCs => Aims(s, target[s])
    /\ abortFor # NoRun => \E s \in Stops : Aims(s, abortFor)

\* No step of a run, of the latch or of the host touches what a stop aims at.
LEMMA OthersKeepAim ==
    ASSUME [Next]_vars, \A s \in Stops : ~StopStep(s)
    PROVE  UNCHANGED <<abortFor, apc, asked, target>>
<1> USE DEF claimVars, doneVars, runVars, stopVars, Goto, Answer, Return
<1>1. ASSUME NEW r \in Runners, NEW why \in Triggers, Call(r, why)
      PROVE  UNCHANGED <<abortFor, apc, asked, target>>
  BY <1>1 DEF Call
<1>2. ASSUME NEW r \in Runners, Proceed(r)
      PROVE  UNCHANGED <<abortFor, apc, asked, target>>
  BY <1>2 DEF Proceed, Claim, Bounce, SwapGate, CompareGate, Bail, Publish,
     CheckAbort, OpenWire, CloseWire, ReadShutdown, ReadAborted,
     RecordFailedUsage, ReadCtx, Persist, Attach, Complete, Nudge, Unpublish,
     Release
<1>3. ASSUME NEW r \in Runners, EngineReturns(r) \/ Notified(r)
      PROVE  UNCHANGED <<abortFor, apc, asked, target>>
  BY <1>3 DEF EngineReturns, Notified
<1>4. CASE ArmGate \/ TakeNudge \/ Shutdown \/ UNCHANGED vars
  BY <1>4 DEF ArmGate, TakeNudge, Shutdown, vars
<1>5. QED
  BY <1>1, <1>2, <1>3, <1>4 DEF Next

\* Every step keeps the aims of the stops that were let in.
LEMMA AimStep == ASSUME TypeOK, AimInv, [Next]_vars PROVE AimInv'
<1> USE DEF TypeOK, WordsOK, StopsOK, StopPCs, AimPCs, AimInv, Aims, NoRun,
        claimVars, doneVars, runVars, GotoStop
<1>1. CASE \A s \in Stops : ~StopStep(s)
  <2>1. UNCHANGED <<abortFor, apc, asked, target>>
    BY <1>1, OthersKeepAim
  <2>2. QED
    BY <2>1
<1>2. ASSUME NEW s \in Stops, Decide(s) PROVE AimInv'
  BY <1>2 DEF Decide
<1>3. ASSUME NEW s \in Stops, LoadClaim(s) PROVE AimInv'
  BY <1>3 DEF LoadClaim, Refused
<1>4. ASSUME NEW s \in Stops, ReadAbort(s) PROVE AimInv'
  BY <1>4 DEF ReadAbort
<1>5. ASSUME NEW s \in Stops, SwapAbort(s) PROVE AimInv'
  BY <1>5 DEF SwapAbort
<1>6. ASSUME NEW s \in Stops, CallCancel(s) PROVE AimInv'
  BY <1>6 DEF CallCancel
<1>7. QED
  BY <1>1, <1>2, <1>3, <1>4, <1>5, <1>6 DEF StopStep

\* A run is told to end by a stop that calls its cancel, or finds the stop
\* that was recorded before the cancel was there to call.
LEMMA CancelAims ==
    ASSUME TypeOK, ClaimInv, AimInv, [Next]_vars
    PROVE  \A id \in cancelled' \ cancelled : \E s \in Stops :
             target[s] = id /\ asked[s] \in {NoRun, id}
<1> SUFFICES ASSUME NEW id \in cancelled' \ cancelled
             PROVE  \E s \in Stops : target[s] = id /\ asked[s] \in {NoRun, id}
  OBVIOUS
<1> USE DEF claimVars, doneVars, runVars, stopVars, Goto, GotoStop, Answer,
        Return
<1>1. ASSUME NEW r \in Runners, CheckAbort(r)
      PROVE  \E s \in Stops : target[s] = id /\ asked[s] \in {NoRun, id}
  <2>1. id = myID[r] /\ abortFor = myID[r]
    BY <1>1 DEF CheckAbort
  <2>2. pc[r] # "idle"
    BY <1>1 DEF CheckAbort
  <2>3. abortFor # NoRun
    BY <2>1, <2>2 DEF ClaimInv
  <2>4. QED
    BY <2>1, <2>3 DEF AimInv, Aims
<1>2. ASSUME NEW s \in Stops, CallCancel(s)
      PROVE  \E q \in Stops : target[q] = id /\ asked[q] \in {NoRun, id}
  <2>1. id = target[s] /\ apc[s] = "cancel"
    BY <1>2 DEF CallCancel
  <2>2. QED
    BY <2>1 DEF AimInv, Aims, AimPCs
<1>3. ASSUME NEW r \in Runners, Proceed(r), ~CheckAbort(r)
      PROVE  cancelled' = cancelled
  BY <1>3 DEF Proceed, Claim, Bounce, SwapGate, CompareGate, Bail, Publish,
     OpenWire, CloseWire, ReadShutdown, ReadAborted, RecordFailedUsage,
     ReadCtx, Persist, Attach, Complete, Nudge, Unpublish, Release
<1>4. ASSUME NEW r \in Runners,
             (\E why \in Triggers : Call(r, why)) \/ EngineReturns(r) \/ Notified(r)
      PROVE  cancelled' = cancelled
  BY <1>4 DEF Call, EngineReturns, Notified
<1>5. ASSUME NEW s \in Stops, StopStep(s), ~CallCancel(s)
      PROVE  cancelled' = cancelled
  BY <1>5 DEF StopStep, Decide, LoadClaim, ReadAbort, SwapAbort
<1>6. CASE ArmGate \/ TakeNudge \/ Shutdown \/ UNCHANGED vars
  BY <1>6 DEF ArmGate, TakeNudge, Shutdown, vars
<1>7. QED
  BY <1>1, <1>2, <1>3, <1>4, <1>5, <1>6 DEF Next

\* No stop is let in at first.
LEMMA InitAim == Init => AimInv
  BY DEF Init, AimInv, AimPCs, NoRun

\* StopHitsItsRun: a stop that named a run never ends the one that started
\* while it was on its way, neither by the call of the published cancel nor by
\* the record the run looks up when it publishes.
THEOREM StopsReachTheirRun == Spec => StopHitsItsRun
<1>1. Spec => []AimInv
  <2>1. TypeOK /\ AimInv /\ [Next]_vars => AimInv'
    BY AimStep
  <2>2. QED
    BY <2>1, InitAim, TypeCorrect, PTL DEF Spec
<1>2. TypeOK /\ ClaimInv /\ AimInv /\ [Next]_vars
      => [\A id \in cancelled' \ cancelled : \E s \in Stops :
            target[s] = id /\ asked[s] \in {NoRun, id}]_vars
  BY CancelAims
<1>3. QED
  BY <1>1, <1>2, InvariantHolds, PTL DEF Spec, IInv, StopHitsItsRun
=============================================================================
