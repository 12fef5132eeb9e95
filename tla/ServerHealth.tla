---------------------------- MODULE ServerHealth ----------------------------
(***************************************************************************)
(* What the Ookla engine holds against one server.  Two judges speak: a    *)
(* GET of its latency file, made by the ranking of a run and by the        *)
(* picker of the dashboard, and the uploads of the runs themselves.  A     *)
(* verdict excludes the server for a while; a run's conviction is stored   *)
(* and makes the next exclusion longer.                                    *)
(*                                                                         *)
(* Time is in steps of the shortest exclusion.  The cache holds other      *)
(* servers too; only that it may drop this one's entry is kept of them.    *)
(***************************************************************************)
EXTENDS Naturals

CONSTANTS Strikes,            \* definite failures that retire a server (2)
          Ttl, Ttl2, Ttl3,    \* the exclusions, in rising order
          UnknownTtl,         \* how long a non-answer is kept
          Memory,             \* how long a served conviction still counts
          LastStep, MaxConvictions, MaxDeaths  \* bounds

ASSUME ServerHealthAssumption ==
    /\ {Strikes, Ttl, Ttl2, Ttl3, UnknownTtl, Memory} \subseteq Nat \ {0}
    /\ UnknownTtl <= Ttl /\ Ttl <= Ttl2 /\ Ttl2 <= Ttl3 /\ Ttl3 <= Memory

VARIABLES shNow,
          shVerdict,  \* fbMap's entry for the server
          shProbe,    \* fbProbing: the flight, and what its owner had read before the network
          shDisk,     \* the row of server_health
          shBudget,   \* (bound) convictions and restarts so far
          shEarned,   \* (history) convictions that count against the server
          shFailed,   \* (history) GETs that failed since one that did not was heard
          shLate      \* (history) the record went while a probe carried a copy of it

shVars == <<shNow, shVerdict, shProbe, shDisk, shBudget, shEarned, shFailed, shLate>>

NoVerdict == [state |-> "unknown", expires |-> 0, probeFails |-> 0, runFails |-> 0, forget |-> 0]
NoProbe == [on |-> FALSE, at |-> 0, probeFails |-> 0, runFails |-> 0, forget |-> 0]
NoHealthRow == [expires |-> 0, fails |-> 0]

ShInit ==
    /\ shNow = 1
    /\ shVerdict = NoVerdict /\ shProbe = NoProbe /\ shDisk = NoHealthRow
    /\ shBudget = [convictions |-> 0, deaths |-> 0]
    /\ shEarned = 0 /\ shFailed = 0 /\ shLate = FALSE

-----------------------------------------------------------------------------
(* Verdicts.                                                               *)

RetiredTtl(fails) == IF fails <= Strikes THEN Ttl ELSE IF fails = Strikes + 1 THEN Ttl2 ELSE Ttl3

Standing(v) == v.state = "retired" /\ shNow < v.expires

\* Run strikes the window has released are not evidence.
RunFailsInForce(v) == IF shNow < v.forget THEN v.runFails ELSE 0

\* storeFallbackVerdictLocked: only another exclusion replaces one that stands.
StoredVerdict_Any(old, v) == v
StoredVerdict(old, v) == IF Standing(old) /\ v.state # "retired" THEN old ELSE v

-----------------------------------------------------------------------------
(* fallbackHealth.                                                         *)

\* A caller that finds no verdict in force takes the flight and reads what is
\* held against the server; any other waits for the flight to land.
ProbeStarts ==
    /\ ~shProbe.on /\ ~(shNow < shVerdict.expires)
    /\ shProbe' = [on |-> TRUE, at |-> shNow, probeFails |-> shVerdict.probeFails,
                   runFails |-> RunFailsInForce(shVerdict),
                   forget |-> IF RunFailsInForce(shVerdict) > 0 THEN shVerdict.forget ELSE 0]
    /\ UNCHANGED <<shNow, shVerdict, shDisk, shBudget, shEarned, shFailed, shLate>>

\* One failed GET only suspends judgement; the second retires.
JudgedProbe(answer) ==
    LET fails == shProbe.probeFails + 1
    IN  IF answer = "ok" THEN [state |-> "ok", ttl |-> Ttl, probeFails |-> 0]
        ELSE IF answer = "unknown" THEN [state |-> "unknown", ttl |-> UnknownTtl, probeFails |-> shProbe.probeFails]
        ELSE IF fails < Strikes THEN [state |-> "unknown", ttl |-> UnknownTtl, probeFails |-> fails]
        ELSE [state |-> "retired", ttl |-> RetiredTtl(fails), probeFails |-> fails]

\* The owner looks again before it writes: a conviction that landed meanwhile
\* keeps its strikes and its exclusion.
Reconciled(judged) ==
    LET cur == shVerdict
        newer == RunFailsInForce(cur) > shProbe.runFails
        held == cur.state = "retired" /\ cur.expires > shProbe.at + judged.ttl
    IN  [state |-> IF held THEN "retired" ELSE judged.state,
         expires |-> IF held THEN cur.expires ELSE shProbe.at + judged.ttl,
         probeFails |-> judged.probeFails,
         runFails |-> IF newer THEN cur.runFails ELSE shProbe.runFails,
         forget |-> IF newer THEN cur.forget ELSE shProbe.forget]

ProbeLands ==
    /\ shProbe.on /\ shProbe' = NoProbe
    /\ \E answer \in {"ok", "retired", "unknown"} :
          /\ shVerdict' = StoredVerdict(shVerdict, Reconciled(JudgedProbe(answer)))
          /\ shFailed' = IF answer = "unknown" \/ (answer = "ok" /\ Standing(shVerdict)) THEN shFailed
                         ELSE IF answer = "ok" THEN 0
                         ELSE IF shFailed < Strikes THEN shFailed + 1 ELSE Strikes
    /\ shLate' = (shLate /\ shVerdict'.runFails > 0)
    /\ shEarned' = IF shVerdict'.runFails = 0 THEN 0 ELSE shEarned
    /\ UNCHANGED <<shNow, shDisk, shBudget>>

\* A caller that gave up says nothing of the server.
ProbeGivenUp ==
    /\ shProbe.on /\ shProbe' = NoProbe
    /\ shLate' = (shLate /\ shVerdict.runFails > 0)
    /\ shEarned' = IF shVerdict.runFails = 0 THEN 0 ELSE shEarned
    /\ UNCHANGED <<shNow, shVerdict, shDisk, shBudget, shFailed>>

-----------------------------------------------------------------------------
(* The runs.  A server that is excluded is measured where it is pinned.    *)

\* noteUploadRejection; the save of the row may fail.
RunConvicts ==
    /\ shBudget.convictions < MaxConvictions
    /\ shBudget' = [shBudget EXCEPT !.convictions = @ + 1]
    /\ LET before == RunFailsInForce(shVerdict)
           fails == IF before + 1 > Strikes THEN before + 1 ELSE Strikes
           expires == shNow + RetiredTtl(fails)
       IN  /\ shVerdict' = StoredVerdict(shVerdict,
                  [state |-> "retired", expires |-> expires, probeFails |-> shVerdict.probeFails,
                   runFails |-> fails, forget |-> expires + Memory])
           /\ shDisk' \in {shDisk, [expires |-> expires, fails |-> fails]}
    /\ shEarned' = shEarned + 1
    /\ UNCHANGED <<shNow, shProbe, shFailed, shLate>>

\* noteUploadAccepted: not while the exclusion stands.
RunAccepts ==
    /\ shVerdict.runFails > 0 /\ ~Standing(shVerdict)
    /\ shVerdict' = [shVerdict EXCEPT !.runFails = 0, !.forget = 0]
    /\ shDisk' \in {shDisk, NoHealthRow}
    /\ shEarned' = 0
    /\ shLate' = shProbe.on
    /\ UNCHANGED <<shNow, shProbe, shBudget, shFailed>>

-----------------------------------------------------------------------------
(* The rest of the world.                                                  *)

\* A GET is over well within a step.
StepPasses ==
    /\ shNow < LastStep /\ shNow' = shNow + 1
    /\ shProbe.on => shProbe.at = shNow
    /\ shLate' = (shLate \/ (shProbe.runFails > 0 /\ ~(shNow' < shProbe.forget)))
    /\ shEarned' = IF shVerdict.runFails > 0 /\ ~(shNow' < shVerdict.forget) THEN 0 ELSE shEarned
    /\ UNCHANGED <<shVerdict, shProbe, shDisk, shBudget, shFailed>>

\* The cache is full; what excludes nobody goes.
Dropped ==
    /\ shVerdict # NoVerdict /\ ~Standing(shVerdict)
    /\ shVerdict' = NoVerdict
    /\ shEarned' = 0 /\ shLate' = (shLate \/ shProbe.runFails > 0)
    /\ UNCHANGED <<shNow, shProbe, shDisk, shBudget, shFailed>>

\* LoadServerHealth: an exclusion in force is one again, a served one counts
\* for as long as the memory lasts, and older rows are swept.
LoadedVerdict ==
    IF shNow < shDisk.expires
    THEN [state |-> "retired", expires |-> shDisk.expires, probeFails |-> 0,
          runFails |-> shDisk.fails, forget |-> shDisk.expires + Memory]
    ELSE IF shDisk.fails > 0 /\ shNow < shDisk.expires + Memory
    THEN [state |-> "unknown", expires |-> shDisk.expires, probeFails |-> 0,
          runFails |-> shDisk.fails, forget |-> shDisk.expires + Memory]
    ELSE NoVerdict

HealthReloaded ==
    /\ shBudget.deaths < MaxDeaths
    /\ shBudget' = [shBudget EXCEPT !.deaths = @ + 1]
    /\ shVerdict' = LoadedVerdict /\ shProbe' = NoProbe
    /\ shDisk' = IF shNow < shDisk.expires + Memory THEN shDisk ELSE NoHealthRow
    /\ shEarned' = IF LoadedVerdict.runFails = 0 THEN 0 ELSE LoadedVerdict.runFails - Strikes + 1
    /\ shLate' = FALSE
    /\ UNCHANGED <<shNow, shFailed>>

ShNext ==
    \/ ProbeStarts \/ ProbeLands \/ ProbeGivenUp
    \/ RunConvicts \/ RunAccepts
    \/ StepPasses \/ Dropped \/ HealthReloaded

ShSpec == ShInit /\ [][ShNext]_shVars

-----------------------------------------------------------------------------
(* Properties.                                                             *)

ShTypeOK ==
    /\ shNow \in 1..LastStep
    /\ shVerdict.state \in {"ok", "retired", "unknown"}
    /\ shVerdict.probeFails \in Nat /\ shVerdict.runFails \in Nat

\* The n-th conviction a server earns within the memory of the one before it
\* excludes it for the n-th term, whatever the GETs in between answered, were
\* still on their way or found on the network, and across restarts; and only a
\* GET that failed twice excludes without a run.
Earned ==
    shNow' = shNow /\ ~shLate =>
        /\ shBudget'.convictions > shBudget.convictions =>
              shVerdict'.expires = shNow + RetiredTtl(Strikes + shEarned' - 1)
        /\ shBudget' = shBudget /\ ~Standing(shVerdict) /\ Standing(shVerdict') => shFailed' >= Strikes

\* Nothing but a newer conviction, or a restart that finds no row of it, ends an
\* exclusion before its term.
Served ==
    Standing(shVerdict) /\ shBudget' = shBudget =>
        shVerdict'.state = "retired" /\ shVerdict'.expires >= shVerdict.expires

\* A server is excluded on its record and for the term the record earns, and
\* what stands is served: two judges write one verdict, and neither loses nor
\* shortens what the other found while it was on the network.
ExclusionsEarned == [][Earned /\ Served]_shVars
=============================================================================
