--------------------------- MODULE NetinfoRefresh ---------------------------
(***************************************************************************)
(* The connection details on show (internal/netinfo: refresh, RefreshNow,  *)
(* fetchGen, cachedExit).  The background loop, a finished speedtest, a    *)
(* reconnect and the operator's button refresh them at the same time, each *)
(* taking seconds, while the host moves to another network, loses IPv4 for *)
(* a while, or its lookups fail.  A refresh publishes what it fetched, and *)
(* the router its traffic leaves by, which it takes from a cache of its    *)
(* own or traces; a trace takes seconds too.  The order in which refreshes *)
(* started decides what may be published, not the order they end in.       *)
(***************************************************************************)
EXTENDS Integers, FiniteSets, FiniteSetsExt

CONSTANTS Refreshers,   \* callers of a refresh
          MaxRefreshes, MaxMoves,  \* bounds: refreshes, moves to another network
          MaxForced     \* bound: the operator asks while fewer traces were forced

ASSUME NetinfoAssumption == {MaxRefreshes, MaxMoves, MaxForced} \subseteq Nat

VARIABLES niNet,        \* the network the host is on; each move is to one it was not on
          niGen, niPublished, \* Manager.gen, Manager.published
          niInfo,       \* Manager.info: address, exit, carried; gen (history): its refresh
          niLastIPv4,   \* Manager.lastIPv4
          niCache,      \* Manager.exit; fresh: traceAt is within its window and the target has not changed
          niTraceGen, niTracing,
          niRefresh,    \* per caller, where its refresh is
          niMissed   \* (history) a move was past telling (see RouterIsHere)

niVars == <<niNet, niGen, niPublished, niInfo, niLastIPv4, niCache, niTraceGen,
            niTracing, niRefresh, niMissed>>
niTrace == <<niCache, niTraceGen, niTracing>>
niPanel == <<niGen, niPublished, niInfo, niLastIPv4>>

NoIPv4 == 0                      \* networks are numbered from 1, and are their address
NoExit == 0                      \* an exit is the network it was traced on
NoTracer == "nobody"
NotRefreshing == [at |-> "idle", gen |-> 0, known |-> NoIPv4, prev |-> NoIPv4, ip |-> NoIPv4,
         found |-> "none", startGen |-> 0, net |-> 0, exit |-> NoExit, retry |-> FALSE]

NiInit ==
    /\ niNet = 1
    /\ niGen = 0 /\ niPublished = 0
    /\ niInfo = [ip |-> NoIPv4, exit |-> NoExit, carried |-> FALSE, gen |-> 0]
    /\ niLastIPv4 = NoIPv4
    /\ niCache = [exit |-> NoExit, fresh |-> FALSE]
    /\ niTraceGen = 0 /\ niTracing = NoTracer
    /\ niRefresh = [w \in Refreshers |-> NotRefreshing]
    /\ niMissed = FALSE

-----------------------------------------------------------------------------
\* The address the current network was last known by, through a spell without IPv4.
KnownIPv4 == IF niInfo.ip # NoIPv4 THEN niInfo.ip ELSE niLastIPv4

Step(w, at) == niRefresh' = [niRefresh EXCEPT ![w].at = at]

\* nextGen, and the address and snapshot a fetch compares with.
RefreshStarts(w) ==
    /\ niRefresh[w].at \in {"idle", "forced"} /\ niGen < MaxRefreshes
    /\ niGen' = niGen + 1
    /\ niRefresh' = [niRefresh EXCEPT ![w] =
           [NotRefreshing EXCEPT !.at = "fetch", !.gen = niGen', !.known = KnownIPv4, !.prev = niInfo.ip,
                        !.retry = niRefresh[w].at = "forced" /\ niRefresh[w].retry]]
    /\ UNCHANGED <<niNet, niPublished, niInfo, niLastIPv4, niTrace, niMissed>>

\* RefreshNow: the operator's button makes the exit be traced again, and a
\* refresh that failed be repeated once.
ForceTrace == niCache' = [niCache EXCEPT !.fresh = FALSE] /\ niTraceGen' = niTraceGen + 1
RefreshAsked(w) ==
    /\ niRefresh[w].at = "idle" /\ niGen < MaxRefreshes /\ niTraceGen < MaxForced
    /\ ForceTrace
    /\ niRefresh' = [niRefresh EXCEPT ![w] = [NotRefreshing EXCEPT !.at = "forced", !.retry = TRUE]]
    /\ UNCHANGED <<niNet, niPanel, niTracing, niMissed>>

RefreshRetried(w) ==
    /\ niRefresh[w].at = "done"
    /\ IF niRefresh[w].retry /\ niInfo.carried /\ niGen < MaxRefreshes
       THEN ForceTrace /\ niRefresh' = [niRefresh EXCEPT ![w] = [NotRefreshing EXCEPT !.at = "forced"]]
       ELSE niRefresh' = [niRefresh EXCEPT ![w] = NotRefreshing] /\ UNCHANGED <<niCache, niTraceGen>>
    /\ UNCHANGED <<niNet, niPanel, niTracing, niMissed>>

\* The echo of the address answers, with an IPv4, with an IPv6 alone, or not.
Addressed(w) ==
    /\ niRefresh[w].at = "fetch"
    /\ \E found \in {"v4", "v6", "nothing"} :
          niRefresh' = [niRefresh EXCEPT ![w].at = "claim", ![w].found = found,
                                         ![w].ip = IF found = "v4" THEN niNet ELSE NoIPv4]
    /\ UNCHANGED <<niNet, niPanel, niTrace, niMissed>>

\* claimPublish, at the end of a fetch and again to publish.
MayClaim(w) == niPublished <= niRefresh[w].gen

\* With IPv6 alone the host is IPv6-only, or an IPv4 it had is carried on, as
\* it is when nothing answered (v6FlipAfter; the clock of it is left open).
FetchEnds(w) ==
    LET me == niRefresh[w]
    IN  /\ me.at = "claim"
        /\ niPublished' = Max({niPublished, me.gen})
        /\ \E flips \in IF me.found = "v6" THEN (IF me.prev = NoIPv4 THEN {TRUE} ELSE BOOLEAN) ELSE {FALSE} :
              niRefresh' = [niRefresh EXCEPT ![w] =
                  [me EXCEPT !.at = "publish", !.found = IF me.found = "v6" /\ ~flips THEN "nothing" ELSE me.found,
                             !.ip = IF me.found = "v4" THEN me.ip ELSE IF flips THEN NoIPv4 ELSE me.prev]]
        /\ niMissed' = (niMissed \/ \E v \in Refreshers : niRefresh[v].at = "bust")
        /\ UNCHANGED <<niNet, niGen, niInfo, niLastIPv4, niTrace>>

Moved(me) == me.known # NoIPv4 /\ me.ip # NoIPv4 /\ me.ip # me.known

\* A changed address is a changed network: the exit on record is not carried.
CarriesExit_ToBeBusted(me) == me.found # "v6"
CarriesExit(me) == me.found # "v6" /\ ~Moved(me)

Published(w) ==
    LET me == niRefresh[w]
    IN  /\ me.at = "publish"
        /\ IF MayClaim(w)
           THEN /\ niPublished' = me.gen
                /\ niInfo' = [ip |-> me.ip, carried |-> me.found = "nothing", gen |-> me.gen,
                              exit |-> IF CarriesExit(me) THEN niCache.exit ELSE NoExit]
                /\ niLastIPv4' = IF me.ip # NoIPv4 THEN me.ip ELSE niLastIPv4
           ELSE UNCHANGED <<niPublished, niInfo, niLastIPv4>>
        /\ niRefresh' = [niRefresh EXCEPT ![w].at =
               IF me.found # "v4" THEN "done" ELSE IF Moved(me) THEN "bust" ELSE "exit"]
        /\ niMissed' = (niMissed \/ (me.known = NoIPv4 /\ KnownIPv4 # NoIPv4))
        /\ UNCHANGED <<niNet, niGen, niTrace>>

\* Only the newest snapshot forgets the exit of the network it left.
Busted(w) ==
    /\ niRefresh[w].at = "bust" /\ Step(w, "exit")
    /\ IF niPublished = niRefresh[w].gen
       THEN /\ niCache' = [niCache EXCEPT !.exit = NoExit, !.fresh = FALSE]
            /\ niTraceGen' = niTraceGen + 1
       ELSE UNCHANGED <<niCache, niTraceGen>>
    /\ UNCHANGED <<niNet, niPanel, niTracing, niMissed>>

-----------------------------------------------------------------------------
(* cachedExit: served while fresh, else one trace at a time.               *)

ExitServed(w) ==
    /\ niRefresh[w].at = "exit"
    /\ niCache.fresh
    /\ niRefresh' = [niRefresh EXCEPT ![w].at = "patch", ![w].exit = niCache.exit]
    /\ UNCHANGED <<niNet, niPanel, niTrace, niMissed>>

\* A caller that waits for another's trace looks again when that is over; one
\* whose context ends takes what is cached.
WaitCut(w) ==
    /\ niRefresh[w].at = "exit" /\ niTracing # NoTracer
    /\ niRefresh' = [niRefresh EXCEPT ![w].at = "patch", ![w].exit = niCache.exit]
    /\ UNCHANGED <<niNet, niPanel, niTrace, niMissed>>

TraceStarts(w) ==
    /\ niRefresh[w].at = "exit" /\ niTracing = NoTracer
    /\ ~niCache.fresh
    /\ niTracing' = w
    /\ niRefresh' = [niRefresh EXCEPT ![w].at = "trace", ![w].startGen = niTraceGen, ![w].net = niNet]
    /\ niMissed' = (niMissed \/ KnownIPv4 = NoIPv4)
    /\ UNCHANGED <<niNet, niPanel, niCache, niTraceGen>>

\* A result older than a bust is dropped.  A failure keeps the exit on show,
\* unless that answers for a target that is no longer set (dropped).
TraceEnds(w) ==
    LET me == niRefresh[w]
    IN  /\ me.at = "trace" /\ niTracing' = NoTracer
        /\ \E end \in {"found", "failed", "dropped", "cancelled"}, on \in {me.net, niNet} :
              niCache' = IF niTraceGen # me.startGen THEN niCache
                         ELSE [exit |-> CASE end = "found" -> on [] end = "dropped" -> NoExit [] OTHER -> niCache.exit,
                               fresh |-> end # "cancelled" \/ niCache.fresh]
        /\ niRefresh' = [niRefresh EXCEPT ![w].at = "patch", ![w].exit = niCache'.exit]
        /\ UNCHANGED <<niNet, niPanel, niTraceGen, niMissed>>

ExitPatched(w) ==
    /\ niRefresh[w].at = "patch" /\ Step(w, "done")
    /\ niInfo' = IF niPublished = niRefresh[w].gen /\ niRefresh[w].exit # NoExit
                 THEN [niInfo EXCEPT !.exit = niRefresh[w].exit] ELSE niInfo
    /\ UNCHANGED <<niNet, niGen, niPublished, niLastIPv4, niTrace, niMissed>>

-----------------------------------------------------------------------------
(* The host, the operator and time.                                        *)

HostMoves ==
    /\ niNet <= MaxMoves /\ niNet' = niNet + 1
    /\ UNCHANGED <<niPanel, niTrace, niRefresh, niMissed>>

\* exitCacheFor, or exitFailRetry while no exit is on record, or another exit target.
CacheAges ==
    /\ niCache.fresh /\ niCache' = [niCache EXCEPT !.fresh = FALSE]
    /\ UNCHANGED <<niNet, niPanel, niTraceGen, niTracing, niRefresh, niMissed>>

NiNext ==
    \/ \E w \in Refreshers :
          \/ RefreshStarts(w) \/ RefreshAsked(w) \/ RefreshRetried(w)
          \/ Addressed(w) \/ FetchEnds(w) \/ Published(w) \/ Busted(w)
          \/ ExitServed(w) \/ WaitCut(w) \/ TraceStarts(w) \/ TraceEnds(w) \/ ExitPatched(w)
    \/ HostMoves \/ CacheAges

NiSpec == NiInit /\ [][NiNext]_niVars

-----------------------------------------------------------------------------
NiTypeOK ==
    /\ niNet \in 1..(MaxMoves + 1)
    /\ niGen \in 0..MaxRefreshes /\ niPublished \in 0..MaxRefreshes
    /\ niLastIPv4 \in 0..(MaxMoves + 1) /\ niInfo.ip \in 0..(MaxMoves + 1)
    /\ niTracing \in Refreshers \cup {NoTracer}
    /\ \A w \in Refreshers : niRefresh[w].gen \in 0..MaxRefreshes

\* The panel does not mix networks.  While the address on show is that of the
\* network the host is on, the exit on show is one that was traced on it, or none:
\* not the cached one of the network the host left, through other
\* refreshes that end late or in the wrong order, a spell without IPv4, failed
\* lookups and a trace begun before the move; and what is on show is never of
\* a refresh that started before the one shown before.  Excepted are the
\* histories in which the move could not be told: another fetch ended between a
\* refresh's publish and its bust, two statements apart, so that the bust was
\* skipped; or the refresh that saw the new address had begun, or the exit had been
\* traced by one that was overtaken, before any address was on record.
RouterIsHere ==
    /\ (niInfo.ip = niNet /\ niInfo.exit # NoExit /\ ~niMissed) => niInfo.exit = niNet
    /\ niInfo.gen <= niPublished
    /\ \A w \in Refreshers : niRefresh[w].at = "exit" /\ niRefresh[w].gen = niPublished => niInfo.gen = niPublished
=============================================================================
