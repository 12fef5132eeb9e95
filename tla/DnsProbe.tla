------------------------------ MODULE DnsProbe ------------------------------
(***************************************************************************)
(* The resolver's reading (internal/monitor: the end of round, the pause   *)
(* edge of Run, Snapshot).  A round starts a lookup on a goroutine of its  *)
(* own, one at a time, which may outlast rounds, a pause of the monitor, a *)
(* switch of the DNS probe off and on, and the shutdown.  Each noticed     *)
(* interruption moves the generation, which is how a late answer learns    *)
(* that nobody asks for it any more.                                       *)
(***************************************************************************)
EXTENDS Naturals

CONSTANTS MaxRounds, MaxInterruptions   \* bounds

ASSUME DnsAssumption == {MaxRounds, MaxInterruptions} \subseteq Nat

VARIABLES dnSwitch,   \* the gates: probing(), and the DNS sub-toggle
          dnLoop,     \* where Run is, whether it holds a pause open, dnsWasEnabled
          dnGen,      \* dnsGen
          dnReading,  \* dnsSeen, dnsOK; (history) of: the round whose lookup it is
          dnProbe,    \* the lookup in flight (dnsBusy), its generation and what it found
          dnStop,     \* the run context is cancelled
          dnRounds,   \* rounds so far
          dnSaid,     \* (history) the last transition logged since the reading was dropped
          dnVoid,     \* (history) rounds whose lookup had not answered when its answer became void
          dnStored    \* (history) rounds whose lookup has a row

dnVars == <<dnSwitch, dnLoop, dnGen, dnReading, dnProbe, dnStop, dnRounds, dnSaid, dnVoid, dnStored>>

NoReading == [seen |-> FALSE, ok |-> FALSE, of |-> 0]
NoLookup == [at |-> "free", gen |-> 0, of |-> 0, ok |-> FALSE, cut |-> FALSE]

DnInit ==
    /\ dnSwitch \in [probing : {TRUE}, dns : BOOLEAN]
    /\ dnLoop = [at |-> "top", paused |-> FALSE, was |-> FALSE]
    /\ dnGen = 0 /\ dnReading = NoReading /\ dnProbe = NoLookup
    /\ dnStop = FALSE /\ dnRounds = 0
    /\ dnSaid = "nothing" /\ dnVoid = {} /\ dnStored = {}

\* The operator, the schedule or the quick-setup hold.
GateMoves ==
    /\ \/ dnSwitch' = [dnSwitch EXCEPT !.probing = ~@]
       \/ dnSwitch' = [dnSwitch EXCEPT !.dns = ~@]
    /\ UNCHANGED <<dnLoop, dnGen, dnReading, dnProbe, dnStop, dnRounds, dnSaid, dnVoid, dnStored>>

ShutDown ==
    /\ ~dnStop /\ dnStop' = TRUE
    /\ UNCHANGED <<dnSwitch, dnLoop, dnGen, dnReading, dnProbe, dnRounds, dnSaid, dnVoid, dnStored>>

\* The reading is dropped, and what is in flight is out of date.
Unpublished == {"lookup", "answered", "judged"}
ReadingDropped ==
    /\ dnReading' = NoReading /\ dnGen' = dnGen + 1
    /\ dnSaid' = "nothing"
    /\ dnVoid' = IF dnProbe.at \in Unpublished THEN dnVoid \cup {dnProbe.of} ELSE dnVoid
Kept == UNCHANGED <<dnGen, dnReading, dnSaid, dnVoid>>

-----------------------------------------------------------------------------
(* Run and round.                                                          *)

PauseNoticed ==
    /\ dnLoop.at = "top" /\ ~dnSwitch.probing /\ ~dnLoop.paused
    /\ dnGen < MaxInterruptions /\ ReadingDropped
    /\ dnLoop' = [dnLoop EXCEPT !.paused = TRUE]
    /\ UNCHANGED <<dnSwitch, dnProbe, dnStop, dnRounds, dnStored>>

ResumeNoticed ==
    /\ dnLoop.at = "top" /\ dnSwitch.probing /\ dnLoop.paused
    /\ dnLoop' = [dnLoop EXCEPT !.paused = FALSE]
    /\ Kept /\ UNCHANGED <<dnSwitch, dnProbe, dnStop, dnRounds, dnStored>>

\* A round is due and its probe goes out.
RoundBegins ==
    /\ dnLoop.at = "top" /\ dnSwitch.probing /\ ~dnLoop.paused
    /\ dnRounds < MaxRounds /\ dnRounds' = dnRounds + 1
    /\ dnLoop' = [dnLoop EXCEPT !.at = "probe"]
    /\ Kept /\ UNCHANGED <<dnSwitch, dnProbe, dnStop, dnStored>>

\* The probe is back: cancelled or skipped, the round ends; else its samples go first.
RoundProbed ==
    /\ dnLoop.at = "probe"
    /\ \/ dnLoop' = [dnLoop EXCEPT !.at = "top"]
       \/ ~dnStop /\ dnLoop' = [dnLoop EXCEPT !.at = "tail"]
    /\ Kept /\ UNCHANGED <<dnSwitch, dnProbe, dnStop, dnRounds, dnStored>>

\* dnsEnabled, the toggle-off edge, and the lookup unless one is running.
RoundLooksUp ==
    /\ dnLoop.at = "tail"
    /\ IF ~dnSwitch.dns /\ dnLoop.was THEN dnGen < MaxInterruptions /\ ReadingDropped ELSE Kept
    /\ dnProbe' = IF dnSwitch.dns /\ dnProbe.at = "free"
                  THEN [NoLookup EXCEPT !.at = "lookup", !.gen = dnGen, !.of = dnRounds] ELSE dnProbe
    /\ dnLoop' = [dnLoop EXCEPT !.at = "top", !.was = dnSwitch.dns]
    /\ UNCHANGED <<dnSwitch, dnStop, dnRounds, dnStored>>

\* Run returns once the lookup's goroutine is gone; then the store is closed.
RunReturns ==
    /\ dnStop /\ dnLoop.at = "top" /\ dnProbe.at = "free"
    /\ dnLoop' = [dnLoop EXCEPT !.at = "returned"]
    /\ Kept /\ UNCHANGED <<dnSwitch, dnProbe, dnStop, dnRounds, dnStored>>

-----------------------------------------------------------------------------
(* The goroutine of the lookup.                                            *)

Over == dnProbe' = NoLookup
Goes(at) == dnProbe' = [dnProbe EXCEPT !.at = at]
Mine == UNCHANGED <<dnSwitch, dnLoop, dnStop, dnRounds>>

\* resolveTime: an answer, a failure, or cut short by the shutdown.
Answers ==
    /\ dnProbe.at = "lookup"
    /\ \E ok, cut \in BOOLEAN :
          /\ cut => dnStop /\ ~ok
          /\ dnProbe' = [dnProbe EXCEPT !.at = "answered", !.ok = ok, !.cut = cut]
    /\ Kept /\ Mine /\ UNCHANGED dnStored

\* Out of date, it is not even counted; a failure at shutdown is no failure.
AnswerJudged ==
    /\ dnProbe.at = "answered"
    /\ IF dnGen # dnProbe.gen \/ (~dnProbe.ok /\ dnStop) THEN Over ELSE Goes("judged")
    /\ Kept /\ Mine /\ UNCHANGED dnStored

ReadingPublished ==
    /\ dnReading' = [seen |-> TRUE, ok |-> dnProbe.ok, of |-> dnProbe.of]
    /\ dnSaid' = IF ~dnProbe.ok /\ (~dnReading.seen \/ dnReading.ok) THEN "down"
                 ELSE IF dnProbe.ok /\ dnReading.seen /\ ~dnReading.ok THEN "recovered" ELSE dnSaid
    /\ Goes("publish") /\ UNCHANGED <<dnGen, dnVoid>>

\* The generation is compared again, under the lock that publishes.
Publishes_Unchecked == dnProbe.at = "judged" /\ ReadingPublished /\ Mine /\ UNCHANGED dnStored
Publishes ==
    /\ dnProbe.at = "judged"
    /\ IF dnGen # dnProbe.gen THEN Over /\ Kept ELSE ReadingPublished
    /\ Mine /\ UNCHANGED dnStored

\* InsertDNS, which may fail, and is left out at shutdown.
Stores ==
    /\ dnProbe.at = "publish" /\ Over
    /\ dnStored' \in {dnStored} \cup (IF dnStop THEN {} ELSE {dnStored \cup {dnProbe.of}})
    /\ Kept /\ Mine

DnNext ==
    \/ GateMoves \/ ShutDown \/ PauseNoticed \/ ResumeNoticed \/ RoundBegins \/ RoundProbed \/ RoundLooksUp \/ RunReturns
    \/ Answers \/ AnswerJudged \/ Publishes \/ Stores

DnSpec == DnInit /\ [][DnNext]_dnVars
-----------------------------------------------------------------------------
DnTypeOK ==
    /\ dnSwitch \in [probing : BOOLEAN, dns : BOOLEAN]
    /\ dnLoop \in [at : {"top", "probe", "tail", "returned"}, paused : BOOLEAN, was : BOOLEAN]
    /\ dnGen \in 0..MaxInterruptions /\ dnRounds \in 0..MaxRounds /\ dnStop \in BOOLEAN
    /\ dnReading \in [seen : BOOLEAN, ok : BOOLEAN, of : 0..MaxRounds]
    /\ dnProbe \in [at : Unpublished \cup {"free", "publish"}, gen : 0..MaxInterruptions, of : 0..MaxRounds,
                    ok : BOOLEAN, cut : BOOLEAN]
    /\ dnSaid \in {"nothing", "down", "recovered"} /\ dnVoid \cup dnStored \subseteq 1..MaxRounds

\* What the dashboard shows of the resolver, what the log says of it and what
\* the store keeps come from lookups nobody had called off: none that was still
\* looking when the monitor paused or the probe was switched off, however late
\* it answers, and none that the shutdown cut short.  And the log's last word
\* is the reading's.
ReadingsLive ==
    /\ dnStored \cap dnVoid = {}
    /\ dnReading.seen => dnReading.of \notin dnVoid
    /\ dnProbe.at = "publish" => ~dnProbe.cut
    /\ dnReading.seen => (dnSaid = "down" <=> ~dnReading.ok)
=============================================================================
