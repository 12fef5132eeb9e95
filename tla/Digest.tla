------------------------------- MODULE Digest -------------------------------
(***************************************************************************)
(* The periodic digest (internal/digest: Manager.tick, lastSent,           *)
(* setLastSent).  A digest tells what happened since the one before.  What *)
(* was told last is a watermark in the settings table with a copy in       *)
(* memory; a window that could not be delivered is retried with its start. *)
(* Deliveries fail, or arrive with their answer lost; the table fails to   *)
(* be read or written; the daemon dies between the two; the host sleeps;   *)
(* the clock is set back; the operator changes cadence and webhook.        *)
(***************************************************************************)
EXTENDS Integers, FiniteSets, FiniteSetsExt

CONSTANTS CheckInterval, Periods,      \* checkInterval; period of each cadence
          DigestEnd, MaxSetBacks, MaxDigestDeaths   \* bounds

ASSUME DigestAssumption ==
    /\ {CheckInterval, DigestEnd} \subseteq Nat \ {0} /\ Periods \subseteq Nat \ {0}
    /\ {MaxSetBacks, MaxDigestDeaths} \subseteq Nat

VARIABLES dgNow,     \* the wall clock
          dgStored,  \* keyLastSent in the settings table, 0 while unset
          dgMem,     \* lastSentMem and pendingSince, 0 for the zero time
          dgLoop,    \* where the loop is, and when its ticker fires
          dgFreq,    \* period of the cadence, 0 when it is off or there is no webhook
          dgSpent,   \* bounds: deaths, clocks set back
          dgTold,    \* (history) the window that arrived last, or where the digests were armed
          dgLapsed,  \* (history) since then nobody was there to tell in time
          dgForgot   \* (history) what the daemon knows of dgTold was lost, or never reached it

dgVars == <<dgNow, dgStored, dgMem, dgLoop, dgFreq, dgSpent, dgTold, dgLapsed, dgForgot>>

NothingKnown == [last |-> 0, pending |-> 0]

DgInit ==
    /\ dgNow = 1 /\ dgStored = 0 /\ dgMem = NothingKnown
    /\ dgLoop = [at |-> "started", due |-> 1]
    /\ dgFreq \in Periods
    /\ dgSpent = [deaths |-> 0, backs |-> 0]
    /\ dgTold = [since |-> 0, until |-> 0] /\ dgLapsed = FALSE /\ dgForgot = FALSE

-----------------------------------------------------------------------------
(* tick                                                                    *)

Ticking == dgLoop.at = "started" \/ (dgLoop.at = "waiting" /\ dgNow >= dgLoop.due)
TickOver == dgLoop' = [at |-> "waiting", due |-> dgNow + CheckInterval]
Outside == UNCHANGED <<dgNow, dgFreq, dgSpent>>

\* Off, or nowhere to deliver: the retry is dropped, the watermark stays.
TickGated ==
    /\ Ticking /\ dgFreq = 0 /\ TickOver /\ Outside
    /\ dgMem' = [dgMem EXCEPT !.pending = 0]
    /\ dgLapsed' = TRUE
    /\ UNCHANGED <<dgStored, dgTold, dgForgot>>

\* A watermark ahead of the clock is taken for none, wherever it is.
Credible(t) == IF t > dgNow THEN 0 ELSE t
Memory == [last |-> Credible(dgMem.last), pending |-> Credible(dgMem.pending)]
ReadOK == Max({Credible(dgStored), Memory.last})

\* Nothing to go by: a watermark that cannot be read must not be overwritten.
TickUnread ==
    /\ Ticking /\ dgFreq # 0 /\ TickOver /\ Outside
    /\ Memory.last = 0 /\ dgMem' = Memory
    /\ dgLapsed' = TRUE
    /\ UNCHANGED <<dgStored, dgTold, dgForgot>>

\* lastSent, or the copy in memory when the table cannot be read.
LastSent == {ReadOK} \cup ({Memory.last} \ {0})
\* The clock was set back over a watermark, which will be believed again.
Misled(told, stored) == told > dgNow \/ stored > told
Told(since) == dgTold' = [since |-> since, until |-> dgNow] /\ dgLapsed' = FALSE

\* Never armed: the first digest is due a period from now.
TickArms ==
    /\ Ticking /\ dgFreq # 0 /\ TickOver /\ Outside
    /\ 0 \in LastSent
    /\ dgMem' = [Memory EXCEPT !.last = dgNow] /\ dgStored' \in {dgNow, dgStored}
    /\ Told(dgNow) /\ dgForgot' = Misled(dgNow, dgStored')

TickNotDue ==
    /\ Ticking /\ dgFreq # 0 /\ TickOver /\ Outside
    /\ \E last \in LastSent \ {0} : dgNow - last < dgFreq
    /\ dgMem' = Memory
    /\ UNCHANGED <<dgStored, dgTold, dgLapsed, dgForgot>>

\* A window tried before keeps its start; a fresh one reaches back one period
\* when the watermark is older than a late tick explains.
FreshStart(last) == IF dgNow - last > dgFreq + CheckInterval THEN dgNow - dgFreq ELSE last
WindowStart_Capped(last) == FreshStart(IF Memory.pending = 0 THEN last ELSE Memory.pending)
WindowStart(last) == IF Memory.pending = 0 THEN FreshStart(last) ELSE Memory.pending

\* Summarize and Send: delivered; failed; or delivered and reported as failed.
TickSends ==
    /\ Ticking /\ dgFreq # 0 /\ Outside
    /\ \E last \in LastSent \ {0} :
          /\ dgNow - last >= dgFreq
          /\ dgMem' = [Memory EXCEPT !.pending = WindowStart(last)]
          /\ \/ dgLoop' = [at |-> "delivered", due |-> dgNow + CheckInterval]
                /\ Told(WindowStart(last)) /\ UNCHANGED dgForgot
             \/ TickOver /\ UNCHANGED <<dgTold, dgLapsed, dgForgot>>
             \/ TickOver /\ Told(WindowStart(last)) /\ dgForgot' = TRUE
    /\ UNCHANGED dgStored

\* setLastSent may fail; the copy in memory is advanced all the same.
Recorded ==
    /\ dgLoop.at = "delivered"
    /\ dgStored' \in {dgTold.until, dgStored}
    /\ dgMem' = [last |-> dgTold.until, pending |-> 0]
    /\ dgLoop' = [dgLoop EXCEPT !.at = "waiting"]
    /\ dgForgot' = Misled(dgTold.until, dgStored')
    /\ UNCHANGED <<dgNow, dgFreq, dgSpent, dgTold, dgLapsed>>

-----------------------------------------------------------------------------
(* The daemon, the host and the operator.                                  *)

\* The copies die with the process, and with them a window's earlier failures.
DigestDies ==
    /\ dgLoop.at # "down" /\ dgSpent.deaths < MaxDigestDeaths
    /\ dgSpent' = [dgSpent EXCEPT !.deaths = @ + 1]
    /\ dgLoop' = [dgLoop EXCEPT !.at = "down"] /\ dgMem' = NothingKnown
    /\ dgForgot' = (dgForgot \/ dgLoop.at = "delivered" \/ dgMem.last \notin {0, dgStored})
    /\ dgLapsed' = (dgLapsed \/ dgMem.pending # 0)
    /\ UNCHANGED <<dgNow, dgStored, dgFreq, dgTold>>

DigestStarts ==
    /\ dgLoop.at = "down" /\ dgLoop' = [dgLoop EXCEPT !.at = "started"]
    /\ UNCHANGED <<dgNow, dgStored, dgMem, dgFreq, dgSpent, dgTold, dgLapsed, dgForgot>>

\* Past a tick that is due only while the daemon is down or the host asleep.
TimeGoes ==
    /\ dgNow < DigestEnd /\ dgNow' = dgNow + 1
    /\ dgLapsed' = (dgLapsed \/ dgNow >= dgLoop.due)
    /\ UNCHANGED <<dgStored, dgMem, dgLoop, dgFreq, dgSpent, dgTold, dgForgot>>

\* The ticker runs on the monotonic clock and does not notice.
DigestSetBack ==
    /\ dgSpent.backs < MaxSetBacks /\ dgSpent' = [dgSpent EXCEPT !.backs = @ + 1]
    /\ \E t \in 1..(dgNow - 1) :
          /\ dgNow' = t /\ dgLoop' = [dgLoop EXCEPT !.due = @ - (dgNow - t)]
          /\ dgForgot' = (dgForgot \/ dgTold.until > t)
    /\ UNCHANGED <<dgStored, dgMem, dgFreq, dgTold, dgLapsed>>

\* A shorter period, or one after none, may find the watermark too old.
CadenceSet ==
    /\ dgFreq' \in Periods \cup {0}
    /\ dgLapsed' = (dgLapsed \/ (dgFreq' # 0 /\ (dgFreq' < dgFreq \/ dgFreq = 0)))
    /\ UNCHANGED <<dgNow, dgStored, dgMem, dgLoop, dgSpent, dgTold, dgForgot>>

DgNext ==
    \/ TickGated \/ TickUnread \/ TickArms \/ TickNotDue \/ TickSends \/ Recorded
    \/ DigestDies \/ DigestStarts \/ TimeGoes \/ DigestSetBack \/ CadenceSet

DgSpec == DgInit /\ [][DgNext]_dgVars
-----------------------------------------------------------------------------
DgTypeOK ==
    /\ dgNow \in 1..DigestEnd /\ dgStored \in 0..DigestEnd /\ dgFreq \in Periods \cup {0}
    /\ dgMem \in [last : 0..DigestEnd, pending : 0..DigestEnd]
    /\ dgLoop.at \in {"down", "started", "waiting", "delivered"} /\ dgLoop.due \in Int
    /\ dgTold \in [since : 0..DigestEnd, until : 0..DigestEnd] /\ {dgLapsed, dgForgot} \subseteq BOOLEAN

\* The digests tile the time.  One begins where the one before it ended: never
\* earlier, so that nothing is told twice, unless the daemon could not know what
\* it had told; and never later, so that nothing is left out however often it
\* was refused, unless nobody was there to tell it in time.  Nor are digests
\* that were armed ever armed anew while their watermark can be known.
DigestsTile ==
    [][dgTold' # dgTold =>
          /\ dgForgot \/ dgTold'.since >= dgTold.until
          /\ dgForgot \/ dgLapsed \/ dgTold.until = 0 \/ dgTold'.since = dgTold.until]_dgVars
=============================================================================
