-------------------------- MODULE OutageClosingProofs --------------------------
(***************************************************************************)
(* Theorems about the outage record of internal/store, for any clock, any  *)
(* up-after, any number of restarts and clocks set back.                   *)
(*                                                                         *)
(* The record is read here as two sets of seconds, those of its 'down's    *)
(* and those of its 'up's: a 'down' comes before an 'up' of its second or  *)
(* a later one, an 'up' only before what is later.                         *)
(***************************************************************************)
EXTENDS OutageClosing, Integers, WellFoundedInduction, TLAPS

Downs(events) == {t \in Second : [ts |-> t, type |-> "down"] \in events}
Ups(events) == {t \in Second : [ts |-> t, type |-> "up"] \in events}

-----------------------------------------------------------------------------
(* Seconds, and the first and the last of them                             *)

\* The horizon is past the clock's bound, and Second is what it says.
LEMMA Seconds ==
    /\ Horizon \in Nat /\ Second = {t \in Nat : 1 <= t /\ t <= Horizon}
    /\ LastSecond + 2 = Horizon /\ LastSecond \in Nat /\ Never = Horizon + 1
BY OutageClosingAssumption DEF Horizon, Second, Never

\* A set of numbers with a member has a least one.
LEMMA LeastExists ==
    ASSUME NEW S \in SUBSET Nat, S # {}
    PROVE  \E x \in S : \A y \in S : x <= y
<1>1. PICK x \in S : \A y \in S : ~(<<y, x>> \in OpToRel(<, Nat))
  BY NatLessThanWellFounded, WFMin
<1>2. \A y \in S : x <= y
  <2>1. OpToRel(<, Nat) = {ss \in Nat \X Nat : ss[1] < ss[2]}
    BY DEF OpToRel
  <2> SUFFICES ASSUME NEW y \in S, y < x PROVE FALSE
    OBVIOUS
  <2>2. <<y, x>> \in {ss \in Nat \X Nat : ss[1] < ss[2]}
    OBVIOUS
  <2> QED BY <1>1, <2>1, <2>2
<1> QED BY <1>2

\* Min of the community modules answers it.
LEMMA MinIsLeast ==
    ASSUME NEW S \in SUBSET Nat, S # {}
    PROVE  Min(S) \in S /\ \A y \in S : Min(S) <= y
BY LeastExists DEF Min

\* A bounded one has a greatest, and Max answers it.
LEMMA MaxIsGreatest ==
    ASSUME NEW n \in Nat, NEW S \in SUBSET (0..n), S # {}
    PROVE  Max(S) \in S /\ \A y \in S : y <= Max(S)
<1> DEFINE T == {n - x : x \in S}
<1>1. T \in SUBSET Nat /\ T # {}
  <2>1. \A x \in S : x \in 0..n
    OBVIOUS
  <2>2. \A x \in 0..n : n - x \in Nat
    OBVIOUS
  <2>3. PICK x \in S : TRUE
    OBVIOUS
  <2>4. n - x \in T
    OBVIOUS
  <2>5. \A y \in T : y \in Nat
    BY <2>1, <2>2
  <2> QED BY <2>4, <2>5
<1>2. PICK m \in T : \A y \in T : m <= y
  BY <1>1, LeastExists
<1>3. PICK x \in S : m = n - x
  OBVIOUS
<1>4. \A y \in S : y <= x
  <2> TAKE y \in S
  <2>1. n - y \in T
    OBVIOUS
  <2>2. n - x <= n - y
    BY <1>2, <1>3, <2>1
  <2>3. x \in 0..n /\ y \in 0..n
    OBVIOUS
  <2> HIDE DEF T
  <2> QED BY <2>2, <2>3
<1> QED BY <1>3, <1>4 DEF Max

-----------------------------------------------------------------------------
(* Events, and the order of them                                           *)

\* The seconds of a union, and of what is left of a set.
LEMMA SecondsOfSets ==
    ASSUME NEW A, NEW B
    PROVE  /\ Downs(A \cup B) = Downs(A) \cup Downs(B) /\ Ups(A \cup B) = Ups(A) \cup Ups(B)
           /\ Downs(A \ B) = Downs(A) \ Downs(B) /\ Ups(A \ B) = Ups(A) \ Ups(B)
           /\ Downs(A) \subseteq Second /\ Ups(A) \subseteq Second
           /\ Downs({}) = {} /\ Ups({}) = {}
BY DEF Downs, Ups

\* The seconds of one event.
LEMMA SecondsOfOne ==
    ASSUME NEW t \in Second
    PROVE  /\ Downs({[ts |-> t, type |-> "down"]}) = {t} /\ Ups({[ts |-> t, type |-> "down"]}) = {}
           /\ Ups({[ts |-> t, type |-> "up"]}) = {t} /\ Downs({[ts |-> t, type |-> "up"]}) = {}
<1>1. \A s : [ts |-> s, type |-> "down"] # [ts |-> t, type |-> "up"]
  <2> TAKE s
  <2> DEFINE a == [ts |-> s, type |-> "down"]   b == [ts |-> t, type |-> "up"]
  <2>1. a.type = "down" /\ b.type = "up"
    OBVIOUS
  <2> QED BY <2>1
<1>2. \A s : [ts |-> s, type |-> "up"] # [ts |-> t, type |-> "down"]
  <2> TAKE s
  <2> DEFINE a == [ts |-> s, type |-> "up"]   b == [ts |-> t, type |-> "down"]
  <2>1. a.type = "up" /\ b.type = "down"
    OBVIOUS
  <2> QED BY <2>1
<1>3. \A s : [ts |-> s, type |-> "up"] = [ts |-> t, type |-> "up"] => s = t
  <2> TAKE s
  <2>1. [ts |-> s, type |-> "up"].ts = s /\ [ts |-> t, type |-> "up"].ts = t
    OBVIOUS
  <2> QED BY <2>1
<1>4. \A s : [ts |-> s, type |-> "down"] = [ts |-> t, type |-> "down"] => s = t
  <2> TAKE s
  <2>1. [ts |-> s, type |-> "down"].ts = s /\ [ts |-> t, type |-> "down"].ts = t
    OBVIOUS
  <2> QED BY <2>1
<1> QED BY <1>1, <1>2, <1>3, <1>4 DEF Downs, Ups

\* One event more, and one less.
LEMMA OneMore ==
    ASSUME NEW A, NEW t \in Second
    PROVE  /\ Downs(A \cup {[ts |-> t, type |-> "down"]}) = Downs(A) \cup {t}
           /\ Ups(A \cup {[ts |-> t, type |-> "down"]}) = Ups(A)
           /\ Ups(A \cup {[ts |-> t, type |-> "up"]}) = Ups(A) \cup {t}
           /\ Downs(A \cup {[ts |-> t, type |-> "up"]}) = Downs(A)
<1> DEFINE d == {[ts |-> t, type |-> "down"]}
           u == {[ts |-> t, type |-> "up"]}
<1>1. Downs(d) = {t} /\ Ups(d) = {} /\ Ups(u) = {t} /\ Downs(u) = {}
  BY SecondsOfOne
<1> HIDE DEF d, u
<1>2. /\ Downs(A \cup d) = Downs(A) \cup Downs(d) /\ Ups(A \cup d) = Ups(A) \cup Ups(d)
      /\ Ups(A \cup u) = Ups(A) \cup Ups(u) /\ Downs(A \cup u) = Downs(A) \cup Downs(u)
  BY SecondsOfSets
<1>3. /\ Downs(A \cup d) = Downs(A) \cup {t} /\ Ups(A \cup d) = Ups(A)
      /\ Ups(A \cup u) = Ups(A) \cup {t} /\ Downs(A \cup u) = Downs(A)
  BY <1>1, <1>2
<1> QED BY <1>3 DEF d, u

\* One event less takes its second from its side only.
LEMMA OneLess ==
    ASSUME NEW A, NEW t \in Second
    PROVE  /\ Downs(A \ {[ts |-> t, type |-> "down"]}) = Downs(A) \ {t}
           /\ Ups(A \ {[ts |-> t, type |-> "down"]}) = Ups(A)
           /\ Ups(A \ {[ts |-> t, type |-> "up"]}) = Ups(A) \ {t}
           /\ Downs(A \ {[ts |-> t, type |-> "up"]}) = Downs(A)
<1> DEFINE d == {[ts |-> t, type |-> "down"]}
           u == {[ts |-> t, type |-> "up"]}
<1>1. Downs(d) = {t} /\ Ups(d) = {} /\ Ups(u) = {t} /\ Downs(u) = {}
  BY SecondsOfOne
<1> HIDE DEF d, u
<1>2. /\ Downs(A \ d) = Downs(A) \ Downs(d) /\ Ups(A \ d) = Ups(A) \ Ups(d)
      /\ Ups(A \ u) = Ups(A) \ Ups(u) /\ Downs(A \ u) = Downs(A) \ Downs(u)
  BY SecondsOfSets
<1>3. /\ Downs(A \ d) = Downs(A) \ {t} /\ Ups(A \ d) = Ups(A)
      /\ Ups(A \ u) = Ups(A) \ {t} /\ Downs(A \ u) = Downs(A)
  BY <1>1, <1>2
<1> QED BY <1>3 DEF d, u

\* An event is a 'down' or an 'up' of its second.
LEMMA EventIs ==
    ASSUME NEW e \in Event
    PROVE  /\ e.ts \in Second /\ e.type \in {"down", "up"} /\ e = [ts |-> e.ts, type |-> e.type]
           /\ \A A : e \in A <=> \/ e.type = "down" /\ e.ts \in Downs(A)
                                 \/ e.type = "up" /\ e.ts \in Ups(A)
<1>1. e.ts \in Second /\ e.type \in {"down", "up"} /\ e = [ts |-> e.ts, type |-> e.type]
  BY DEF Event
<1> QED BY <1>1 DEF Downs, Ups

\* A set of events with a member has one that comes before all others.
LEMMA FirstEvent ==
    ASSUME NEW S \in SUBSET Event, S # {}
    PROVE  \E e \in S : \A f \in S \ {e} : Before(e, f)
<1> DEFINE rank(e) == 2 * e.ts + (IF e.type = "up" THEN 1 ELSE 0)
           ranks == {rank(e) : e \in S}
<1>1. \A e \in S : e.ts \in Nat /\ e.type \in {"down", "up"} /\ e = [ts |-> e.ts, type |-> e.type]
  BY EventIs, Seconds
<1>2. \A e \in S : rank(e) \in Nat
  BY <1>1
<1>3. ranks \in SUBSET Nat /\ ranks # {}
  BY <1>2
<1>4. PICK r \in ranks : \A q \in ranks : r <= q
  BY <1>3, LeastExists
<1>5. PICK e \in S : r = rank(e)
  OBVIOUS
<1>6. ASSUME NEW f \in S \ {e} PROVE Before(e, f)
  <2>1. rank(e) <= rank(f)
    BY <1>4, <1>5
  <2>2. e.ts # f.ts \/ e.type # f.type
    BY <1>1
  <2> QED BY <1>1, <2>1, <2>2 DEF Before
<1> QED BY <1>6


-----------------------------------------------------------------------------
(* The inductive invariant                                                 *)

Outage == [down : Second, downLanded : BOOLEAN, up : 0..Horizon]
Gap == [down : Second, end : Nat, final : BOOLEAN, pairUp : 0..Horizon]
End == [ts : Second, down : Second, final : BOOLEAN, pairUp : 0..Horizon]
Positions == {"idle", "wait", "search", "judge", "delete", "sweep", "commit"}
Job == [pc : Positions, now : Nat, cutoff : Nat, gaps : SUBSET (Gap \cup Second),
        gap : SUBSET Gap, rec : 0..Horizon, synth : SUBSET End]
Monitor == [due : BOOLEAN, down : 0..Horizon, good : Nat, len : Nat, last : 0..Horizon,
            held : SUBSET Event, restarts : Nat]
List == [open : SUBSET Outage, closing : BOOLEAN, waiting : Int]

Shape ==
    /\ ocEvents \subseteq Event /\ ocSamples \in [Second -> {"none", "good", "bad"}]
    /\ ocClock \in [now : Nat, lived : Nat] /\ ocMon \in Monitor
    /\ ocLive \in List /\ ocJob \in [Callers -> Job]

\* The record with what the monitor still holds.
WholeDowns == Downs(ocEvents) \cup Downs(ocMon.held)
WholeUps == Ups(ocEvents) \cup Ups(ocMon.held)

\* The clock has been at this second, and its round, if it has one, is stored.
Past(t) == t <= ocClock.lived \/ t < ocClock.now \/ (t = ocClock.now /\ ~ocMon.due)
Ahead == ocClock.now + (IF ocClock.lived = 0 THEN 0 ELSE 1)

\* At or past the line: the monitor ends what it began there.
Ours(t) == \E o \in ocLive.open : o.down <= t

\* Nothing is dated past the second a clock was set back from, no second of a
\* 'down' shows a good line, and an 'up' is behind the monitor or the clock.
Timely ==
    /\ ocClock.lived <= ocClock.now + 1
    /\ ocMon.down # 0 => ocMon.down + ocMon.len <= Ahead
    /\ \A t \in WholeDowns \cup WholeUps : t <= Ahead
    /\ \A s \in Second : ocSamples[s] = "good" => Past(s) /\ s \notin WholeDowns
    /\ \A u \in WholeUps : u <= ocMon.last \/ Past(u)

\* Every 'up' has a 'down' of its own.
Paired ==
    \A u \in WholeUps : \E d \in WholeDowns :
        d <= u /\ \A v \in WholeUps : ~(d <= v /\ v < u)

\* The outage the monitor is in is the last of the record, and on its list.
Running ==
    ocMon.down # 0 =>
        /\ ocMon.down \in WholeDowns /\ ocMon.last = ocMon.down
        /\ \A u \in WholeUps : u < ocMon.down
        /\ \E o \in ocLive.open : o.down = ocMon.down /\ o.up = 0

\* What waits for a retry is on the list, as landed as it is; each 'up' past a
\* listed outage has a 'down' of the monitor's before it.
Listed ==
    /\ \A o \in ocLive.open : o.down <= ocMon.last
    /\ \A d \in Downs(ocMon.held) : \E o \in ocLive.open : o.down = d /\ ~o.downLanded
    /\ \A u \in Ups(ocMon.held) :
          /\ u \notin Ups(ocEvents)
          /\ \E o \in ocLive.open : o.up = 0 /\ o.down <= u
                /\ \A v \in Ups(ocMon.held) : ~(o.down <= v /\ v < u)
    /\ \A o \in ocLive.open, u \in WholeUps :
          o.down <= u => \E d \in WholeDowns : o.down <= d /\ d <= u

\* A gap to search: what has happened in it since is the monitor's.
GapOK(g) ==
    /\ g.down \in Downs(ocEvents)
    /\ \A t \in WholeDowns : g.down < t => Ours(t) \/ t >= g.end
    /\ \A t \in WholeUps : g.down <= t => Ours(t) \/ t >= g.end
    /\ \/ g.final /\ g.pairUp = 0
       \/ ~g.final /\ g.pairUp = 0 /\ g.end \in Downs(ocEvents)
       \/ /\ ~g.final /\ g.pairUp \in Ups(ocEvents) /\ g.pairUp >= g.end
          /\ \A t \in WholeUps : g.down <= t /\ t < g.pairUp => Ours(t)

\* An end to write: nothing but itself is in the outage it ends, and no 'up'
\* loses its outage to it but the one it moves.
EndOK(u) ==
    /\ u.down \in Downs(ocEvents) /\ u.ts \in Second /\ u.down < u.ts
    /\ Past(u.ts) /\ ~Ours(u.ts)
    /\ \A t \in WholeDowns : u.down < t => u.ts < t
    /\ \A t \in WholeUps : u.down <= t => u.ts <= t
    /\ \A w \in WholeUps : u.ts < w =>
          \/ \E d \in WholeDowns : u.ts < d /\ d <= w
          \/ w \in Ups(ocEvents) /\ (w = u.pairUp \/ (u.pairUp = 0 /\ u.final))

EndOf(g, rec) == [ts |-> rec, down |-> g.down, final |-> g.final, pairUp |-> g.pairUp]
OneEach(S) == \A g, h \in S : g.down = h.down => g = h

\* A close has no end to write before its reading, and holds the mutex from
\* then to its last write.
Waiting(c) == ocJob[c].pc = "wait" => ocJob[c].synth = {}
Closing(c) ==
    ocJob[c].pc \in {"search", "judge"} =>
        /\ ocMu = c /\ ocLive.closing
        /\ \A g \in ocJob[c].gaps : g \in Gap /\ GapOK(g)
        /\ \A u \in ocJob[c].synth : EndOK(u)
        /\ OneEach(ocJob[c].gaps) /\ OneEach(ocJob[c].synth)
        /\ \A g \in ocJob[c].gaps, u \in ocJob[c].synth : g.down # u.down
Judging(c) ==
    ocJob[c].pc = "judge" =>
        \E g \in Gap :
           /\ ocJob[c].gap = {g}
           /\ \A h \in ocJob[c].gaps \cup ocJob[c].synth : h.down # g.down
           /\ \/ ocJob[c].rec = 0
              \/ g.down < ocJob[c].rec /\ (Ours(ocJob[c].rec) \/ EndOK(EndOf(g, ocJob[c].rec)))
Deleting(c) ==
    ocJob[c].pc = "commit" =>
        /\ ocMu = c /\ ocJob[c].cutoff \in Ups(ocEvents)
        /\ \A d \in ocJob[c].gaps : d \in Second /\ d <= ocJob[c].cutoff
              /\ \A v \in WholeUps : v < ocJob[c].cutoff => v < d
Jobs == \A c \in Callers : Waiting(c) /\ Closing(c) /\ Judging(c) /\ Deleting(c)

Sound == Shape /\ Timely /\ Paired /\ Running /\ Listed /\ Jobs
OcInv == ~ocSpoiled => Sound

-----------------------------------------------------------------------------
(* The list of the monitor's outages                                       *)

\* Opening an outage keeps what waits and, during a close, everything.
LEMMA OpenedList ==
    ASSUME NEW live \in List, NEW at \in Second, NEW now
    PROVE  /\ Opened(live, at, now) \in List /\ Opened(live, at, now).closing = live.closing
           /\ \A o \in live.open : o.up = 0 \/ ~o.downLanded \/ live.closing => o \in Opened(live, at, now).open
           /\ \E o \in Opened(live, at, now).open : o.down = at
           /\ (\A o \in live.open : o.down # at) =>
                  [down |-> at, downLanded |-> FALSE, up |-> 0] \in Opened(live, at, now).open
           /\ \A o \in Opened(live, at, now).open : o \in live.open \/ o = [down |-> at, downLanded |-> FALSE, up |-> 0]
<1> DEFINE new == [down |-> at, downLanded |-> FALSE, up |-> 0]
           kept == IF live.closing \/ live.waiting > 0 THEN live.open ELSE Forget(live.open, now)
<1>1. new \in Outage /\ new.down = at
  BY Seconds DEF Outage
<1>2. kept \subseteq live.open /\ \A o \in live.open : o.up = 0 \/ ~o.downLanded \/ live.closing => o \in kept
  BY DEF Forget
<1>3. live.open \subseteq Outage /\ live.closing \in BOOLEAN /\ live.waiting \in Int
  BY DEF List
<1>4. CASE \E o \in live.open : o.down = at
  BY <1>4 DEF Opened
<1>5. CASE ~ \E o \in live.open : o.down = at
  <2>1. Opened(live, at, now) = [live EXCEPT !.open = kept \cup {new}]
    BY <1>5 DEF Opened
  <2> HIDE DEF kept, new
  <2>2. Opened(live, at, now).open = kept \cup {new} /\ Opened(live, at, now).closing = live.closing
        /\ Opened(live, at, now) \in List
    BY <2>1, <1>1, <1>2, <1>3 DEF List
  <2>3. new = [down |-> at, downLanded |-> FALSE, up |-> 0]
    BY DEF new
  <2> QED BY <2>2, <2>3, <1>1, <1>2
<1> QED BY <1>4, <1>5

\* The row of a 'down' lands: nothing else changes on the list.
LEMMA DownLands ==
    ASSUME NEW live \in List, NEW d \in Second
    PROVE  LET l == EventLanded(live, [ts |-> d, type |-> "down"]) IN
           /\ l \in List /\ l.closing = live.closing
           /\ \A o \in live.open : \E p \in l.open : p.down = o.down /\ p.up = o.up /\ (o.down # d => p = o)
           /\ \A p \in l.open : \E o \in live.open : p.down = o.down
<1> DEFINE e == [ts |-> d, type |-> "down"]
           lands(o) == IF o.down = e.ts THEN [o EXCEPT !.downLanded = TRUE] ELSE o
           l == [live EXCEPT !.open = {lands(o) : o \in @}]
<1>1. EventLanded(live, e) = l /\ e.ts = d
  BY DEF EventLanded
<1>2. live.open \subseteq Outage /\ live.closing \in BOOLEAN /\ live.waiting \in Int
  BY DEF List
<1>3. \A o \in Outage : lands(o) \in Outage /\ lands(o).down = o.down /\ lands(o).up = o.up
                        /\ (o.down # d => lands(o) = o)
  BY <1>1 DEF Outage
<1> HIDE DEF lands, e
<1>4. l.open = {lands(o) : o \in live.open} /\ l.closing = live.closing /\ l \in List
  BY <1>2, <1>3 DEF List
<1> HIDE DEF l
<1>5. \A o \in live.open : \E p \in l.open : p.down = o.down /\ p.up = o.up /\ (o.down # d => p = o)
  BY <1>2, <1>3, <1>4
<1>6. \A p \in l.open : \E o \in live.open : p.down = o.down
  BY <1>2, <1>3, <1>4
<1> QED BY <1>1, <1>4, <1>5, <1>6 DEF e

\* The row of an 'up' lands: it ends the last outage with no end before it.
LEMMA UpLands ==
    ASSUME NEW live \in List, NEW u \in Second
    PROVE  LET l == EventLanded(live, [ts |-> u, type |-> "up"]) IN
           /\ l \in List /\ l.closing = live.closing
           /\ \A o \in live.open : \E p \in l.open : p.down = o.down /\ p.downLanded = o.downLanded
                 /\ ((o.down > u \/ \E q \in live.open : q.up = 0 /\ q.down <= u /\ o.down < q.down) => p = o)
           /\ \A p \in l.open : \E o \in live.open : p.down = o.down
<1> DEFINE e == [ts |-> u, type |-> "up"]
           mine == {o \in live.open : o.up = 0 /\ o.down <= e.ts}
           last == Max({o.down : o \in mine} \cup {0})
           ends(o) == IF o \in mine /\ o.down = last THEN [o EXCEPT !.up = e.ts] ELSE o
           l == [live EXCEPT !.open = {ends(o) : o \in @}]
<1>1. EventLanded(live, e) = l /\ e.ts = u
  BY DEF EventLanded
<1>2. live.open \subseteq Outage /\ live.closing \in BOOLEAN /\ live.waiting \in Int
  BY DEF List
<1>3. \A q \in mine : q.down <= last
  <2> DEFINE S == {o.down : o \in mine} \cup {0}
  <2>1. \A q \in mine : q.down \in 0..Horizon
    BY <1>2, Seconds DEF Outage
  <2>2. S \in SUBSET (0..Horizon) /\ S # {}
    BY <2>1, Seconds
  <2>3. \A y \in S : y <= Max(S)
    BY <2>2, MaxIsGreatest, Seconds
  <2> QED BY <2>3
<1> HIDE DEF last
<1>4. \A o \in Outage : ends(o) \in Outage /\ ends(o).down = o.down /\ ends(o).downLanded = o.downLanded
                        /\ (~(o \in mine /\ o.down = last) => ends(o) = o)
  <2>1. u \in 0..Horizon
    BY Seconds
  <2> HIDE DEF mine
  <2> QED BY <2>1, <1>1 DEF Outage
<1>5. \A o \in live.open : (o.down > u \/ \E q \in live.open : q.up = 0 /\ q.down <= u /\ o.down < q.down)
                              => ~(o \in mine /\ o.down = last)
  <2> SUFFICES ASSUME NEW o \in live.open, o \in mine, o.down = last,
                      o.down > u \/ \E q \in live.open : q.up = 0 /\ q.down <= u /\ o.down < q.down
               PROVE  FALSE
    OBVIOUS
  <2>1. o.down \in Nat /\ u \in Nat /\ o.down <= u /\ \A q \in live.open : q.down \in Nat
    BY <1>1, <1>2, Seconds DEF Outage
  <2>2. PICK q \in live.open : q.up = 0 /\ q.down <= u /\ o.down < q.down
    BY <2>1
  <2>3. q \in mine
    BY <2>2, <1>1
  <2> QED BY <2>1, <2>2, <2>3, <1>3
<1> HIDE DEF ends, mine
<1>6. l.open = {ends(o) : o \in live.open} /\ l.closing = live.closing /\ l \in List
  BY <1>2, <1>4 DEF List
<1> HIDE DEF l
<1>7. \A p \in l.open : \E o \in live.open : p.down = o.down
  BY <1>2, <1>4, <1>6
<1>8. \A o \in live.open : \E p \in l.open : p.down = o.down /\ p.downLanded = o.downLanded
                 /\ ((o.down > u \/ \E q \in live.open : q.up = 0 /\ q.down <= u /\ o.down < q.down) => p = o)
  BY <1>2, <1>4, <1>5, <1>6
<1> QED BY <1>1, <1>6, <1>7, <1>8 DEF e

-----------------------------------------------------------------------------
(* What a step of the monitor leaves to the jobs                           *)

\* The record grows by what is the monitor's, and so does the list while a
\* close runs.
MonitorMoves ==
    /\ ocJob' = ocJob /\ ocMu' = ocMu /\ ocLive'.closing = ocLive.closing
    /\ Downs(ocEvents) \subseteq Downs(ocEvents') /\ Ups(ocEvents) \subseteq Ups(ocEvents')
    /\ WholeDowns \subseteq WholeDowns' /\ WholeUps \subseteq WholeUps'
    /\ \A d \in WholeDowns' \ WholeDowns : Ours(d)' /\ \A t \in Second : Past(t) => t < d
    /\ \A u \in WholeUps' \ WholeUps :
          \E d \in WholeDowns : d <= u /\ Ours(d) /\ \A v \in WholeUps : v < d
    /\ \A t \in Second : Past(t) => Past(t)'
    /\ ocLive.closing => \A t \in Second : /\ Ours(t) => Ours(t)'
                                           /\ Past(t) /\ ~Ours(t) => ~Ours(t)'

\* The seconds of the record are seconds, and what is past the line stays so
\* further on.
LEMMA WholeSeconds ==
    /\ WholeDowns \subseteq Second /\ WholeUps \subseteq Second
    /\ Downs(ocEvents) \subseteq Second /\ Ups(ocEvents) \subseteq Second
    /\ Downs(ocMon.held) \subseteq Second /\ Ups(ocMon.held) \subseteq Second
    /\ \A t \in Second : t \in Nat /\ 1 <= t /\ t <= Horizon
BY Seconds DEF WholeDowns, WholeUps, Downs, Ups

\* So it is in the next state.
LEMMA WholeSecondsNext ==
    /\ WholeDowns' \subseteq Second /\ WholeUps' \subseteq Second
    /\ Downs(ocEvents') \subseteq Second /\ Ups(ocEvents') \subseteq Second
    /\ Downs(ocMon'.held) \subseteq Second /\ Ups(ocMon'.held) \subseteq Second
    /\ \A t \in Second : t \in Nat /\ 1 <= t /\ t <= Horizon
BY Seconds DEF WholeDowns, WholeUps, Downs, Ups

\* What is past a second of the monitor's is the monitor's too.
LEMMA OursGoesOn ==
    ASSUME Shape, NEW s \in Nat, NEW t \in Nat, Ours(s), s <= t
    PROVE  Ours(t)
<1>1. \A o \in ocLive.open : o.down \in Nat
  BY Seconds DEF Shape, List, Outage
<1> QED BY <1>1 DEF Ours

\* So it is in the next state.
LEMMA OursGoesOnNext ==
    ASSUME Shape', NEW s \in Nat, NEW t \in Nat, Ours(s)', s <= t
    PROVE  Ours(t)'
<1>1. \A o \in ocLive'.open : o.down \in Nat
  BY Seconds DEF Shape, List, Outage
<1> QED BY <1>1 DEF Ours

\* A gap being searched stays one while the monitor writes: what it adds is its
\* own, or past the gap.
LEMMA GapKept ==
    ASSUME Shape, Shape', MonitorMoves, ocLive.closing, NEW g \in Gap, GapOK(g)
    PROVE  GapOK(g)'
<1> USE WholeSeconds
<1>0. g.down \in Nat /\ g.end \in Nat /\ g.pairUp \in Nat /\ g.final \in BOOLEAN
  BY Seconds DEF Gap
<1>1. \A u \in WholeUps' \ WholeUps : Ours(u)'
  <2> TAKE u \in WholeUps' \ WholeUps
  <2>1. PICK d \in WholeDowns : d <= u /\ Ours(d)
    BY DEF MonitorMoves
  <2>2. Ours(d)' /\ d \in Nat /\ u \in Nat
    BY <2>1, WholeSecondsNext DEF MonitorMoves
  <2> QED BY <2>1, <2>2, OursGoesOnNext
<1>2. \A t \in WholeDowns' \cup WholeUps' : t \in Nat /\ t \in Second
  BY WholeSecondsNext
<1>3. \A t \in WholeDowns' : g.down < t => Ours(t)' \/ t >= g.end
  BY <1>0, <1>2 DEF MonitorMoves, GapOK
<1>4. \A t \in WholeUps' : g.down <= t => Ours(t)' \/ t >= g.end
  BY <1>0, <1>1, <1>2 DEF MonitorMoves, GapOK
<1>5. \A t \in WholeUps : Ours(t) => Ours(t)'
  BY DEF MonitorMoves
<1>6. g.down \in Downs(ocEvents')
  BY DEF MonitorMoves, GapOK
<1>7. \/ g.final /\ g.pairUp = 0
      \/ ~g.final /\ g.pairUp = 0 /\ g.end \in Downs(ocEvents')
      \/ /\ ~g.final /\ g.pairUp \in Ups(ocEvents') /\ g.pairUp >= g.end
         /\ \A t \in WholeUps' : g.down <= t /\ t < g.pairUp => Ours(t)'
  <2>1. CASE g.final /\ g.pairUp = 0
    BY <2>1
  <2>2. CASE ~g.final /\ g.pairUp = 0 /\ g.end \in Downs(ocEvents)
    BY <2>2 DEF MonitorMoves
  <2>3. CASE /\ ~g.final /\ g.pairUp \in Ups(ocEvents) /\ g.pairUp >= g.end
             /\ \A t \in WholeUps : g.down <= t /\ t < g.pairUp => Ours(t)
    <3>1. g.pairUp \in Ups(ocEvents')
      BY <2>3 DEF MonitorMoves
    <3>2. \A t \in WholeUps' : g.down <= t /\ t < g.pairUp => Ours(t)'
      BY <2>3, <1>1, <1>5
    <3> QED BY <2>3, <3>1, <3>2
  <2> QED BY <2>1, <2>2, <2>3 DEF GapOK
<1> QED BY <1>3, <1>4, <1>6, <1>7 DEF GapOK

\* An end to be written stays good while the monitor writes.
LEMMA EndKept ==
    ASSUME Shape, Shape', MonitorMoves, ocLive.closing, NEW u, EndOK(u)
    PROVE  EndOK(u)'
<1> USE WholeSeconds
<1>0. u.ts \in Second /\ u.ts \in Nat /\ u.down \in Nat /\ Past(u.ts) /\ ~Ours(u.ts) /\ u.down < u.ts
  BY DEF EndOK
<1>1. \A w \in WholeUps' \ WholeUps : w \in Nat /\ \E d \in WholeDowns : u.ts < d /\ d <= w /\ d \in Nat
  <2> TAKE w \in WholeUps' \ WholeUps
  <2>1. PICK d \in WholeDowns : d <= w /\ Ours(d)
    BY DEF MonitorMoves
  <2>2. d \in Nat /\ w \in Nat
    BY WholeSecondsNext
  <2>3. ~(d <= u.ts)
    BY <2>1, <2>2, <1>0, OursGoesOn
  <2> QED BY <2>1, <2>2, <2>3, <1>0
<1>2. \A t \in WholeDowns' : t \in Nat /\ (u.down < t => u.ts < t)
  BY <1>0, WholeSecondsNext DEF MonitorMoves, EndOK
<1>3. \A t \in WholeUps' : u.down <= t => u.ts <= t
  <2> TAKE t \in WholeUps'
  <2>1. CASE t \in WholeUps
    BY <2>1 DEF EndOK
  <2>2. CASE t \notin WholeUps
    BY <2>2, <1>0, <1>1
  <2> QED BY <2>1, <2>2
<1>4. \A w \in WholeUps' : u.ts < w =>
          \/ \E d \in WholeDowns' : u.ts < d /\ d <= w
          \/ w \in Ups(ocEvents') /\ (w = u.pairUp \/ (u.pairUp = 0 /\ u.final))
  <2> SUFFICES ASSUME NEW w \in WholeUps', u.ts < w
               PROVE  \/ \E d \in WholeDowns' : u.ts < d /\ d <= w
                      \/ w \in Ups(ocEvents') /\ (w = u.pairUp \/ (u.pairUp = 0 /\ u.final))
    OBVIOUS
  <2>1. WholeDowns \subseteq WholeDowns' /\ Ups(ocEvents) \subseteq Ups(ocEvents')
    BY DEF MonitorMoves
  <2>2. CASE w \in WholeUps
    BY <2>1, <2>2 DEF EndOK
  <2>3. CASE w \notin WholeUps
    BY <2>1, <2>3, <1>1
  <2> QED BY <2>2, <2>3
<1>5. u.down \in Downs(ocEvents')
  BY DEF EndOK, MonitorMoves
<1>6. Past(u.ts)' /\ ~Ours(u.ts)'
  BY <1>0 DEF MonitorMoves
<1> QED BY <1>0, <1>2, <1>3, <1>4, <1>5, <1>6 DEF EndOK

\* A step that only the monitor or the clock takes leaves every job as good.
LEMMA JobsKept ==
    ASSUME Shape, Shape', MonitorMoves, Jobs
    PROVE  Jobs'
<1> SUFFICES ASSUME NEW c \in Callers PROVE Waiting(c)' /\ Closing(c)' /\ Judging(c)' /\ Deleting(c)'
  BY DEF Jobs
<1>0. Waiting(c) /\ Closing(c) /\ Judging(c) /\ Deleting(c) /\ ocJob' = ocJob /\ ocMu' = ocMu
  BY DEF Jobs, MonitorMoves
<1>1. Closing(c)'
  <2> SUFFICES ASSUME ocJob[c].pc \in {"search", "judge"} PROVE Closing(c)'
    BY <1>0 DEF Closing
  <2>1. ocLive.closing /\ ocLive'.closing
    BY <1>0 DEF Closing, MonitorMoves
  <2>2. \A g \in ocJob[c].gaps : g \in Gap /\ GapOK(g)'
    BY <1>0, <2>1, GapKept DEF Closing
  <2>3. \A u \in ocJob[c].synth : EndOK(u)'
    BY <1>0, <2>1, EndKept DEF Closing
  <2> QED BY <1>0, <2>1, <2>2, <2>3 DEF Closing
<1>2. Judging(c)'
  <2> SUFFICES ASSUME ocJob[c].pc = "judge" PROVE Judging(c)'
    BY <1>0 DEF Judging
  <2>1. ocLive.closing
    BY <1>0 DEF Closing
  <2> DEFINE rec == ocJob[c].rec
  <2>2. PICK g \in Gap :
           /\ ocJob[c].gap = {g}
           /\ \A h \in ocJob[c].gaps \cup ocJob[c].synth : h.down # g.down
           /\ rec = 0 \/ (g.down < rec /\ (Ours(rec) \/ EndOK(EndOf(g, rec))))
    BY <1>0 DEF Judging
  <2>3. rec = 0 \/ (g.down < rec /\ (Ours(rec)' \/ EndOK(EndOf(g, rec))'))
    <3>1. rec \in 0..Horizon
      BY DEF Shape, Job
    <3>2. rec = 0 \/ rec \in Second
      BY <3>1, Seconds
    <3>3. Ours(rec) /\ rec \in Second => Ours(rec)'
      BY <2>1 DEF MonitorMoves
    <3>4. EndOK(EndOf(g, rec)) => EndOK(EndOf(g, rec))'
      <4> SUFFICES ASSUME EndOK(EndOf(g, rec)) PROVE EndOK(EndOf(g, rec))'
        OBVIOUS
      <4> DEFINE u == EndOf(g, rec)
      <4>1. EndOK(u)
        OBVIOUS
      <4> HIDE DEF u
      <4>2. \A x : EndOK(x) => EndOK(x)'
        BY <2>1, EndKept
      <4>3. u' = u
        BY <1>0 DEF u, EndOf
      <4>4. EndOK(u)'
        BY <4>1, <4>2, <4>3 DEF EndOK
      <4> QED BY <4>4 DEF u
    <3> QED BY <2>2, <3>2, <3>3, <3>4
  <2> QED BY <1>0, <2>2, <2>3 DEF Judging, rec
<1>3. Deleting(c)'
  <2> SUFFICES ASSUME ocJob[c].pc = "commit" PROVE Deleting(c)'
    BY <1>0 DEF Deleting
  <2> DEFINE x == ocJob[c].cutoff
  <2>1. x \in Ups(ocEvents) /\ x \in Ups(ocEvents') /\ x \in WholeUps /\ x \in Nat
    BY <1>0, WholeSeconds DEF Deleting, MonitorMoves, WholeUps
  <2>2. \A v \in WholeUps' : v < x => v \in WholeUps
    <3> SUFFICES ASSUME NEW v \in WholeUps', v < x, v \notin WholeUps PROVE FALSE
      OBVIOUS
    <3>1. PICK d \in WholeDowns : d <= v /\ x < d
      BY <2>1 DEF MonitorMoves
    <3> QED BY <3>1, <2>1, WholeSeconds, WholeSecondsNext
  <2> QED BY <1>0, <2>1, <2>2 DEF Deleting
<1>4. Waiting(c)'
  BY <1>0 DEF Waiting
<1> QED BY <1>1, <1>2, <1>3, <1>4

-----------------------------------------------------------------------------
(* The steps of the monitor                                                *)

\* What a stored round shows.
LEMMA RoundShows ==
    ASSUME Shape, NEW good \in BOOLEAN
    PROVE  /\ RoundAt(good) \in [Second -> {"none", "good", "bad"}]
           /\ \A s \in Second : RoundAt(good)[s] = "good" =>
                 (s = ocClock.now /\ good) \/ (s # ocClock.now /\ ocSamples[s] = "good")
BY DEF Shape, RoundAt

\* What InsertEvent answers, the list and the record.
Inserted(w, e, ok, live, now, events) ==
    LET listed == IF e.type = "down" THEN Opened(live, e.ts, now) ELSE live
    IN  w = IF ok THEN <<EventLanded(listed, e), events \cup {e}>> ELSE <<listed, events>>

\* A 'down' of the monitor goes on the list.
LEMMA DownInserted ==
    ASSUME NEW live \in List, NEW events, NEW now, NEW ok \in BOOLEAN, NEW e \in Event, e.type = "down",
           NEW w, Inserted(w, e, ok, live, now, events), \A o \in live.open : o.down # e.ts
    PROVE  /\ w[1] \in List /\ w[1].closing = live.closing
           /\ \A o \in live.open : o.up = 0 \/ ~o.downLanded \/ live.closing => o \in w[1].open
           /\ \E p \in w[1].open : p.down = e.ts /\ p.up = 0 /\ (~ok => ~p.downLanded)
           /\ \A p \in w[1].open : p.down = e.ts \/ \E o \in live.open : o.down = p.down
<1>0. PICK t \in Second : e = [ts |-> t, type |-> "down"] /\ e.ts = t
  BY EventIs
<1> DEFINE new == [down |-> t, downLanded |-> FALSE, up |-> 0]
           listed == Opened(live, t, now)
           landed == EventLanded(listed, e)
<1>1. w = IF ok THEN <<landed, events \cup {e}>> ELSE <<listed, events>>
  BY <1>0 DEF Inserted
<1>2. /\ listed \in List /\ listed.closing = live.closing /\ new \in listed.open
      /\ \A o \in live.open : o.up = 0 \/ ~o.downLanded \/ live.closing => o \in listed.open
      /\ \A o \in listed.open : o \in live.open \/ o = new
  BY <1>0, OpenedList
<1>3. new.down = t /\ ~new.downLanded /\ new.up = 0
  OBVIOUS
<1> HIDE DEF new, listed
<1>4. /\ landed \in List /\ landed.closing = listed.closing
      /\ \A o \in listed.open : \E p \in landed.open : p.down = o.down /\ p.up = o.up /\ (o.down # t => p = o)
      /\ \A p \in landed.open : \E o \in listed.open : p.down = o.down
  BY <1>0, <1>2, DownLands
<1> HIDE DEF landed
<1>5. CASE ok
  <2>0. w = <<landed, events \cup {e}>>
    BY <1>1, <1>5, Zenon
  <2>1. w[1] = landed /\ w[2] = events \cup {e}
    BY <2>0
  <2>2. \A o \in live.open : o.up = 0 \/ ~o.downLanded \/ live.closing => o \in landed.open
    BY <1>0, <1>2, <1>4
  <2>3. \E p \in landed.open : p.down = t /\ p.up = 0
    BY <1>2, <1>3, <1>4
  <2>4. \A p \in landed.open : p.down = t \/ \E o \in live.open : o.down = p.down
    BY <1>2, <1>3, <1>4
  <2> QED BY <1>0, <1>2, <1>4, <1>5, <2>1, <2>2, <2>3, <2>4
<1>6. CASE ~ok
  <2>1. w[1] = listed /\ w[2] = events
    BY <1>1, <1>6
  <2>2. \A p \in listed.open : p.down = t \/ \E o \in live.open : o.down = p.down
    BY <1>2, <1>3
  <2> QED BY <1>0, <1>2, <1>3, <1>6, <2>1, <2>2
<1> QED BY <1>5, <1>6

\* The list after an 'up': an outage after it, or before another that has no
\* end either, is untouched.
AfterUp(old, new, t) ==
    /\ new \in List /\ new.closing = old.closing
    /\ \A o \in old.open : \E p \in new.open : p.down = o.down /\ p.downLanded = o.downLanded
    /\ \A o, q \in old.open : q.up = 0 /\ q.down <= t /\ o.down < q.down => o \in new.open
    /\ \A o \in old.open : o.down > t => o \in new.open
    /\ \A p \in new.open : \E o \in old.open : p.down = o.down

\* An 'up' of the monitor: the list keeps its outages.
LEMMA UpInserted ==
    ASSUME NEW live \in List, NEW events, NEW now, NEW ok \in BOOLEAN, NEW e \in Event, e.type = "up",
           NEW w, Inserted(w, e, ok, live, now, events)
    PROVE  AfterUp(live, w[1], e.ts)
<1>0. PICK t \in Second : e = [ts |-> t, type |-> "up"] /\ e.ts = t
  BY EventIs
<1> DEFINE landed == EventLanded(live, e)
<1>1. w = IF ok THEN <<landed, events \cup {e}>> ELSE <<live, events>>
  BY <1>0 DEF Inserted
<1>2. /\ landed \in List /\ landed.closing = live.closing
      /\ \A o \in live.open : \E p \in landed.open : p.down = o.down /\ p.downLanded = o.downLanded
            /\ ((o.down > t \/ \E q \in live.open : q.up = 0 /\ q.down <= t /\ o.down < q.down) => p = o)
      /\ \A p \in landed.open : \E o \in live.open : p.down = o.down
  BY <1>0, UpLands
<1> HIDE DEF landed
<1>3. CASE ok
  <2>0. w = <<landed, events \cup {e}>>
    BY <1>1, <1>3, Zenon
  <2>1. w[1] = landed
    BY <2>0
  <2> QED BY <1>0, <1>2, <1>3, <2>1 DEF AfterUp
<1>4. CASE ~ok
  <2>1. w[1] = live
    BY <1>1, <1>4
  <2> QED BY <1>4, <2>1 DEF AfterUp
<1> QED BY <1>3, <1>4

\* What a step gives the rest of the proof.
MonitorKeeps == Shape' /\ Timely' /\ Paired' /\ Running' /\ Listed' /\ MonitorMoves

\* A round that fails opens an outage of this very second, or stores nothing
\* but its samples.
LEMMA BadRoundKeeps ==
    ASSUME Sound, BadRound, ~ocSpoiled'
    PROVE  MonitorKeeps
<1> USE WholeSeconds, WholeSecondsNext
<1>0. Shape /\ Timely /\ Paired /\ Running /\ Listed
  BY DEF Sound
<1>1. /\ ocClock.now \in Nat /\ ocClock.lived \in Nat /\ ocClock' = ocClock /\ ocMon.due
      /\ ocMon.down \in Nat /\ ocMon.last \in Nat /\ ocMon.len \in Nat
      /\ ocJob' = ocJob /\ ocMu' = ocMu
  BY <1>0, Seconds DEF Shape, BadRound, Monitor
<1>2. /\ ocSamples' \in [Second -> {"none", "good", "bad"}]
      /\ \A s \in Second : ocSamples'[s] = "good" => s # ocClock.now /\ ocSamples[s] = "good"
  BY <1>0, RoundShows DEF BadRound
<1>3. CASE ocMon.down # 0
  <2>1. ocMon' = [ocMon EXCEPT !.due = FALSE, !.good = 0] /\ ocEvents' = ocEvents /\ ocLive' = ocLive
    BY <1>3 DEF BadRound
  <2>2. /\ ocMon'.due = FALSE /\ ocMon'.down = ocMon.down /\ ocMon'.len = ocMon.len
        /\ ocMon'.last = ocMon.last /\ ocMon'.held = ocMon.held
    BY <2>1, <1>0 DEF Shape, Monitor
  <2>3. ocMon' \in Monitor
    BY <2>1, <1>0 DEF Shape, Monitor
  <2>4. WholeDowns' = WholeDowns /\ WholeUps' = WholeUps
    BY <2>1, <2>2 DEF WholeDowns, WholeUps
  <2>5. \A t \in Second : (Past(t) => Past(t)') /\ (Ours(t)' <=> Ours(t))
    BY <1>1, <2>1, <2>2 DEF Past, Ours
  <2>6. Shape'
    BY <1>0, <1>1, <1>2, <2>1, <2>3 DEF Shape
  <2>7. Timely'
    <3>1. Ahead' = Ahead
      BY <1>1 DEF Ahead
    <3> QED BY <1>0, <1>1, <1>2, <2>2, <2>4, <2>5, <3>1 DEF Timely
  <2>8. Paired' /\ Running' /\ Listed'
    BY <1>0, <2>1, <2>2, <2>4 DEF Paired, Running, Listed
  <2>9. MonitorMoves
    BY <1>1, <2>1, <2>4, <2>5 DEF MonitorMoves
  <2> QED BY <2>6, <2>7, <2>8, <2>9 DEF MonitorKeeps
<1>4. CASE ocMon.down = 0
  <2>1. PICK ok \in BOOLEAN, t \in Second, e \in Event :
           /\ e = [ts |-> t, type |-> "down"] /\ e.ts = t
           /\ t = Max({ocClock.now, ocMon.last + 1})
           /\ ocSpoiled' = (ocSpoiled \/ t > ocClock.now \/ ocClock.now <= ocClock.lived)
           /\ ocLive' = InsertEvent(e, ok, ocLive, ocEvents)[1]
           /\ ocEvents' = InsertEvent(e, ok, ocLive, ocEvents)[2]
           /\ ocMon' = [ocMon EXCEPT !.due = FALSE, !.down = t, !.good = 0, !.len = 0, !.last = t,
                                     !.held = IF ok THEN @ ELSE @ \cup {e}]
    <3> DEFINE m == Max({ocClock.now, ocMon.last + 1})
               f == [ts |-> m, type |-> "down"]
    <3>1. PICK ok \in BOOLEAN :
           /\ f.ts \in Second
           /\ ocSpoiled' = (ocSpoiled \/ f.ts > ocClock.now \/ ocClock.now <= ocClock.lived)
           /\ ocLive' = InsertEvent(f, ok, ocLive, ocEvents)[1]
           /\ ocEvents' = InsertEvent(f, ok, ocLive, ocEvents)[2]
           /\ ocMon' = [ocMon EXCEPT !.due = FALSE, !.down = f.ts, !.good = 0, !.len = 0, !.last = f.ts,
                                     !.held = IF ok THEN @ ELSE @ \cup {f}]
      BY <1>4 DEF BadRound
    <3>2. f.ts = m /\ f = [ts |-> m, type |-> "down"]
      OBVIOUS
    <3>3. f \in Event
      BY <3>1, <3>2 DEF Event
    <3> HIDE DEF f
    <3>4. m \in Second /\ m = Max({ocClock.now, ocMon.last + 1})
      BY <3>1, <3>2
    <3> HIDE DEF m
    <3> QED BY <3>1, <3>2, <3>3, <3>4
  <2>2. t >= ocClock.now /\ t >= ocMon.last + 1
    <3> DEFINE n == ocClock.now + ocMon.last + 1
               S == {ocClock.now, ocMon.last + 1}
    <3>1. n \in Nat /\ S \in SUBSET (0..n) /\ S # {}
      BY <1>1
    <3> HIDE DEF n
    <3>2. \A y \in S : y <= Max(S)
      BY <3>1, MaxIsGreatest
    <3> QED BY <3>2, <1>1, <2>1
  <2>3. t = ocClock.now /\ t \in Second /\ t \in Nat /\ ocClock.lived < t /\ ocMon.last < t
    <3>1. ~(t > ocClock.now) /\ ~(ocClock.now <= ocClock.lived)
      BY <2>1, Zenon
    <3>2. t \in Second /\ t \in Nat
      OBVIOUS
    <3> QED BY <1>1, <2>2, <3>1, <3>2
  <2>5. /\ ocMon'.due = FALSE /\ ocMon'.down = t /\ ocMon'.len = 0 /\ ocMon'.last = t
        /\ ocMon'.held = IF ok THEN ocMon.held ELSE ocMon.held \cup {e}
    BY <2>1, <1>0 DEF Shape, Monitor
  <2>7. ocMon' \in Monitor
    <3>1. t \in 0..Horizon
      BY <2>3, Seconds
    <3> QED BY <2>1, <3>1, <1>0 DEF Shape, Monitor
  <2>8. \A o \in ocLive.open : o.down \in Nat /\ o.down < t
    BY <1>0, <1>1, <2>3, Seconds DEF Shape, List, Outage, Listed
  <2>9. /\ ocLive' \in List /\ ocLive'.closing = ocLive.closing
        /\ (ok => ocEvents' = ocEvents \cup {e}) /\ (~ok => ocEvents' = ocEvents)
        /\ \A o \in ocLive.open : o.up = 0 \/ ~o.downLanded \/ ocLive.closing => o \in ocLive'.open
        /\ \E p \in ocLive'.open : p.down = t /\ p.up = 0 /\ (~ok => ~p.downLanded)
        /\ \A p \in ocLive'.open : p.down = t \/ \E o \in ocLive.open : o.down = p.down
    <3>1. ocLive \in List /\ \A o \in ocLive.open : o.down # t
      BY <1>0, <2>8, <2>3 DEF Shape
    <3>0. e.ts = t /\ e.type = "down"
      BY <2>1
    <3>2. PICK w : w = InsertEvent(e, ok, ocLive, ocEvents)
      OBVIOUS
    <3>5. Inserted(w, e, ok, ocLive, ocClock.now, ocEvents)
      BY <3>2 DEF InsertEvent, Inserted
    <3>3. /\ w[1] \in List /\ w[1].closing = ocLive.closing
          /\ \A o \in ocLive.open : o.up = 0 \/ ~o.downLanded \/ ocLive.closing => o \in w[1].open
          /\ \E p \in w[1].open : p.down = e.ts /\ p.up = 0 /\ (~ok => ~p.downLanded)
          /\ \A p \in w[1].open : p.down = e.ts \/ \E o \in ocLive.open : o.down = p.down
      <4>1. e.type = "down" /\ \A o \in ocLive.open : o.down # e.ts
        BY <3>0, <3>1
      <4> QED BY <4>1, <3>1, <3>5, DownInserted
    <3>6. (ok => w[2] = ocEvents \cup {e}) /\ (~ok => w[2] = ocEvents)
      BY <3>5 DEF Inserted
    <3>4. ocLive' = w[1] /\ ocEvents' = w[2]
      BY <2>1, <3>2
    <3> QED BY <3>0, <3>3, <3>4, <3>6
  <2>10. /\ Downs(ocEvents') = IF ok THEN Downs(ocEvents) \cup {t} ELSE Downs(ocEvents)
         /\ Ups(ocEvents') = Ups(ocEvents) /\ Ups(ocMon'.held) = Ups(ocMon.held)
         /\ Downs(ocMon'.held) = IF ok THEN Downs(ocMon.held) ELSE Downs(ocMon.held) \cup {t}
    <3>1. \A A : /\ Downs(A \cup {[ts |-> t, type |-> "down"]}) = Downs(A) \cup {t}
                  /\ Ups(A \cup {[ts |-> t, type |-> "down"]}) = Ups(A)
      BY OneMore
    <3>2. \A A : Downs(A \cup {e}) = Downs(A) \cup {t} /\ Ups(A \cup {e}) = Ups(A)
      BY <2>1, <3>1
    <3>3. CASE ok
      BY <2>5, <2>9, <3>2, <3>3
    <3>4. CASE ~ok
      BY <2>5, <2>9, <3>2, <3>4
    <3> QED BY <3>3, <3>4
  <2>11. WholeDowns' = WholeDowns \cup {t} /\ WholeUps' = WholeUps
    BY <2>10 DEF WholeDowns, WholeUps
  <2>12. \A s \in Second : Past(s) => s < t /\ Past(s)'
    BY <1>1, <2>3, <2>5 DEF Past
  <2>13. \A u \in WholeUps : u < t
    <3>1. \A u \in WholeUps : u <= ocMon.last \/ Past(u)
      BY <1>0 DEF Timely
    <3> QED BY <1>1, <2>3, <2>12, <3>1
  <2>14. Shape'
    BY <1>0, <1>1, <1>2, <2>7, <2>9 DEF Shape
  <2>15. Timely'
    <3>1. Ahead' = Ahead /\ t <= Ahead /\ Ahead \in Nat
      BY <1>1, <2>3 DEF Ahead
    <3>2. \A s \in Second : ocSamples'[s] = "good" => Past(s)' /\ s \notin WholeDowns'
      BY <1>0, <1>2, <2>3, <2>11, <2>12 DEF Timely
    <3>3. \A u \in WholeUps' : u <= ocMon'.last
      BY <2>5, <2>11, <2>13
    <3>4. \A s \in WholeDowns' \cup WholeUps' : s <= Ahead'
      BY <1>0, <2>11, <3>1 DEF Timely
    <3>5. ocMon'.down + ocMon'.len <= Ahead'
      BY <2>3, <2>5, <3>1
    <3>6. ocClock'.lived <= ocClock'.now + 1
      BY <1>0, <1>1 DEF Timely
    <3> QED BY <3>2, <3>3, <3>4, <3>5, <3>6 DEF Timely
  <2>16. Paired'
    BY <1>0, <2>11 DEF Paired
  <2>17. Running'
    BY <2>5, <2>9, <2>11, <2>13 DEF Running
  <2>18. Listed'
    <3>1. \A o \in ocLive'.open : o.down <= ocMon'.last
      BY <2>3, <2>5, <2>8, <2>9
    <3>2. \A d \in Downs(ocMon'.held) : \E o \in ocLive'.open : o.down = d /\ ~o.downLanded
      <4> TAKE d \in Downs(ocMon'.held)
      <4>1. CASE d \in Downs(ocMon.held)
        BY <4>1, <1>0, <2>9 DEF Listed
      <4>2. CASE d \notin Downs(ocMon.held)
        BY <4>2, <2>9, <2>10
      <4> QED BY <4>1, <4>2
    <3>3. \A u \in Ups(ocMon'.held) :
             /\ u \notin Ups(ocEvents')
             /\ \E o \in ocLive'.open : o.up = 0 /\ o.down <= u
                   /\ \A v \in Ups(ocMon'.held) : ~(o.down <= v /\ v < u)
      BY <1>0, <2>9, <2>10 DEF Listed
    <3>4. \A o \in ocLive'.open, u \in WholeUps' :
             o.down <= u => \E d \in WholeDowns' : o.down <= d /\ d <= u
      <4> SUFFICES ASSUME NEW o \in ocLive'.open, NEW u \in WholeUps, o.down <= u
                   PROVE  \E d \in WholeDowns' : o.down <= d /\ d <= u
        BY <2>11
      <4>1. o.down # t
        BY <2>3, <2>13
      <4>2. PICK p \in ocLive.open : p.down = o.down
        BY <4>1, <2>9
      <4> QED BY <1>0, <2>11, <4>2 DEF Listed
    <3> QED BY <3>1, <3>2, <3>3, <3>4 DEF Listed
  <2>19. MonitorMoves
    <3>1. Ours(t)'
      BY <2>3, <2>9 DEF Ours
    <3>2. ocLive.closing => \A s \in Second : Ours(s) => Ours(s)'
      BY <2>9 DEF Ours
    <3>3. \A s \in Second : Past(s) /\ ~Ours(s) => ~Ours(s)'
      <4> SUFFICES ASSUME NEW s \in Second, Past(s), NEW p \in ocLive'.open, p.down <= s
                   PROVE  Ours(s)
        BY DEF Ours
      <4>1. p.down # t
        BY <2>3, <2>12
      <4> QED BY <4>1, <2>9 DEF Ours
    <3>4. \A d \in WholeDowns' \ WholeDowns : Ours(d)' /\ \A s \in Second : Past(s) => s < d
      <4>1. \A d \in WholeDowns' \ WholeDowns : d = t
        BY <2>11
      <4> QED BY <4>1, <2>12, <3>1
    <3>5. Downs(ocEvents) \subseteq Downs(ocEvents') /\ Ups(ocEvents) \subseteq Ups(ocEvents')
      BY <2>10
    <3> QED BY <1>1, <2>9, <2>11, <2>12, <3>2, <3>3, <3>4, <3>5 DEF MonitorMoves
  <2> QED BY <2>14, <2>15, <2>16, <2>17, <2>18, <2>19 DEF MonitorKeeps
<1> QED BY <1>3, <1>4

\* A round that passes ends the outage the monitor is in, or stores nothing but
\* its samples.
LEMMA GoodRoundKeeps ==
    ASSUME Sound, GoodRound, ~ocSpoiled'
    PROVE  MonitorKeeps
<1> USE WholeSeconds, WholeSecondsNext
<1>0. Shape /\ Timely /\ Paired /\ Running /\ Listed
  BY DEF Sound
<1>1. /\ ocClock.now \in Nat /\ ocClock.lived \in Nat /\ ocClock' = ocClock /\ ocMon.due
      /\ ocMon.down \in Nat /\ ocMon.last \in Nat /\ ocMon.len \in Nat
      /\ ocJob' = ocJob /\ ocMu' = ocMu
  <2>1. ocClock' = ocClock /\ ocMon.due /\ ocJob' = ocJob /\ ocMu' = ocMu
    BY DEF GoodRound
  <2>2. /\ ocClock.now \in Nat /\ ocClock.lived \in Nat
        /\ ocMon.down \in Nat /\ ocMon.last \in Nat /\ ocMon.len \in Nat
    BY <1>0, Seconds DEF Shape, Monitor
  <2> QED BY <2>1, <2>2
<1>2. /\ ocSamples' \in [Second -> {"none", "good", "bad"}]
      /\ \A s \in Second : ocSamples'[s] = "good" => s = ocClock.now \/ ocSamples[s] = "good"
  BY <1>0, RoundShows DEF GoodRound
<1>3. ocClock.now \notin WholeDowns
  <2>1. ~ \E d \in ocEvents \cup ocMon.held : d.type = "down" /\ d.ts = ocClock.now
    <3>1. ocSpoiled' = (ocSpoiled \/ \E d \in ocEvents \cup ocMon.held : d.type = "down" /\ d.ts = ocClock.now)
      BY DEF GoodRound
    <3> QED BY <3>1, Zenon
  <2>2. SUFFICES ASSUME ocClock.now \in WholeDowns PROVE FALSE
    OBVIOUS
  <2>3. [ts |-> ocClock.now, type |-> "down"] \in ocEvents \cup ocMon.held
    BY <2>2 DEF WholeDowns, Downs
  <2> QED BY <2>1, <2>3
<1>4. \A s \in Second : ocMon'.due = FALSE => (Past(s) => Past(s)') /\ (s = ocClock.now => Past(s)')
  BY <1>1 DEF Past
<1>5. Ahead' = Ahead /\ Ahead \in Nat /\ ocClock.now <= Ahead
  BY <1>1 DEF Ahead
<1>6. CASE ocMon.down = 0 \/ ocMon.good + 1 < UpAfter
  <2>1. /\ ocMon' = [ocMon EXCEPT !.due = FALSE, !.good = IF ocMon.down = 0 THEN 0 ELSE @ + 1]
        /\ ocEvents' = ocEvents /\ ocLive' = ocLive
    BY <1>6 DEF GoodRound
  <2>2. /\ ocMon'.due = FALSE /\ ocMon'.down = ocMon.down /\ ocMon'.len = ocMon.len
        /\ ocMon'.last = ocMon.last /\ ocMon'.held = ocMon.held
    BY <2>1, <1>0 DEF Shape, Monitor
  <2>3. ocMon' \in Monitor
    <3> DEFINE n == IF ocMon.down = 0 THEN 0 ELSE ocMon.good + 1
    <3>1. n \in Nat /\ ocMon \in Monitor
      BY <1>0 DEF Shape, Monitor
    <3>2. ocMon' = [ocMon EXCEPT !.due = FALSE, !.good = n]
      BY <2>1
    <3> HIDE DEF n
    <3> QED BY <3>1, <3>2 DEF Monitor
  <2>4. WholeDowns' = WholeDowns /\ WholeUps' = WholeUps
    BY <2>1, <2>2 DEF WholeDowns, WholeUps
  <2>5. \A t \in Second : Ours(t)' <=> Ours(t)
    BY <2>1 DEF Ours
  <2>6. Shape'
    BY <1>0, <1>1, <1>2, <2>1, <2>3 DEF Shape
  <2>7. Timely'
    <3>1. \A s \in Second : ocSamples'[s] = "good" => Past(s)' /\ s \notin WholeDowns'
      BY <1>0, <1>2, <1>3, <1>4, <2>2, <2>4 DEF Timely
    <3>2. \A u \in WholeUps' : u <= ocMon'.last \/ Past(u)'
      BY <1>0, <1>4, <2>2, <2>4 DEF Timely
    <3> QED BY <1>0, <1>1, <1>5, <2>2, <2>4, <3>1, <3>2 DEF Timely
  <2>8. Paired' /\ Running' /\ Listed'
    BY <1>0, <2>1, <2>2, <2>4 DEF Paired, Running, Listed
  <2>9. MonitorMoves
    BY <1>1, <1>4, <2>1, <2>2, <2>4, <2>5 DEF MonitorMoves
  <2> QED BY <2>6, <2>7, <2>8, <2>9 DEF MonitorKeeps
<1>7. CASE ~(ocMon.down = 0 \/ ocMon.good + 1 < UpAfter)
  <2>1. PICK ok \in BOOLEAN, t \in Second, e \in Event :
           /\ e = [ts |-> t, type |-> "up"] /\ e.ts = t /\ e.type = "up"
           /\ t = Max({ocClock.now, ocMon.down + ocMon.len})
           /\ ocLive' = InsertEvent(e, ok, ocLive, ocEvents)[1]
           /\ ocEvents' = InsertEvent(e, ok, ocLive, ocEvents)[2]
           /\ ocMon' = [ocMon EXCEPT !.due = FALSE, !.down = 0, !.good = 0, !.len = 0, !.last = t,
                                     !.held = IF ok THEN @ ELSE @ \cup {e}]
    <3> DEFINE m == Max({ocClock.now, ocMon.down + ocMon.len})
               f == [ts |-> m, type |-> "up"]
    <3>1. PICK ok \in BOOLEAN :
           /\ f.ts \in Second
           /\ ocLive' = InsertEvent(f, ok, ocLive, ocEvents)[1]
           /\ ocEvents' = InsertEvent(f, ok, ocLive, ocEvents)[2]
           /\ ocMon' = [ocMon EXCEPT !.due = FALSE, !.down = 0, !.good = 0, !.len = 0, !.last = f.ts,
                                     !.held = IF ok THEN @ ELSE @ \cup {f}]
      BY <1>7 DEF GoodRound
    <3>2. f.ts = m /\ f = [ts |-> m, type |-> "up"] /\ f.type = "up"
      OBVIOUS
    <3>3. f \in Event
      BY <3>1, <3>2 DEF Event
    <3> HIDE DEF f
    <3>4. m \in Second /\ m = Max({ocClock.now, ocMon.down + ocMon.len})
      BY <3>1, <3>2
    <3> HIDE DEF m
    <3> QED BY <3>1, <3>2, <3>3, <3>4
  <2>2. t >= ocClock.now /\ t >= ocMon.down + ocMon.len /\ (t = ocClock.now \/ t = ocMon.down + ocMon.len)
    <3> DEFINE n == ocClock.now + ocMon.down + ocMon.len
               S == {ocClock.now, ocMon.down + ocMon.len}
    <3>1. n \in Nat /\ S \in SUBSET (0..n) /\ S # {}
      BY <1>1
    <3> HIDE DEF n
    <3>2. Max(S) \in S /\ \A y \in S : y <= Max(S)
      BY <3>1, MaxIsGreatest
    <3> QED BY <3>2, <1>1, <2>1
  <2>3. t \in Nat /\ ocMon.down <= t /\ t <= Ahead /\ ocMon.down # 0
    <3>1. ocMon.down + ocMon.len <= Ahead
      BY <1>0, <1>7 DEF Timely
    <3>2. t \in Nat
      OBVIOUS
    <3> QED BY <1>1, <1>5, <1>7, <2>2, <3>1, <3>2
  <2>4. /\ ocMon.down \in WholeDowns /\ ocMon.last = ocMon.down /\ \A u \in WholeUps : u < ocMon.down
        /\ \E o \in ocLive.open : o.down = ocMon.down /\ o.up = 0
    BY <1>0, <2>3 DEF Running
  <2>5. /\ ocMon'.due = FALSE /\ ocMon'.down = 0 /\ ocMon'.len = 0 /\ ocMon'.last = t
        /\ ocMon'.held = IF ok THEN ocMon.held ELSE ocMon.held \cup {e}
    BY <2>1, <1>0 DEF Shape, Monitor
  <2>6. ocMon' \in Monitor
    <3>1. t \in 0..Horizon /\ 0 \in 0..Horizon
      BY <2>3, Seconds
    <3> QED BY <2>1, <3>1, <1>0 DEF Shape, Monitor
  <2>7. \A o \in ocLive.open : o.down \in Nat /\ o.down <= ocMon.down
    BY <1>0, <2>4, Seconds DEF Shape, List, Outage, Listed
  <2>8. PICK w : w = InsertEvent(e, ok, ocLive, ocEvents)
    OBVIOUS
  <2>9. Inserted(w, e, ok, ocLive, ocClock.now, ocEvents) /\ ocLive' = w[1] /\ ocEvents' = w[2]
    BY <2>1, <2>8 DEF InsertEvent, Inserted
  <2>10. /\ ocLive' \in List /\ ocLive'.closing = ocLive.closing
         /\ \A o \in ocLive.open : \E p \in ocLive'.open : p.down = o.down /\ p.downLanded = o.downLanded
         /\ \A o, q \in ocLive.open : q.up = 0 /\ q.down <= t /\ o.down < q.down => o \in ocLive'.open
         /\ \A p \in ocLive'.open : \E o \in ocLive.open : p.down = o.down
    <3>1. ocLive \in List /\ e.type = "up" /\ e.ts = t
      BY <1>0, <2>1 DEF Shape
    <3>2. Inserted(w, e, ok, ocLive, ocClock.now, ocEvents) /\ ocLive' = w[1]
      BY <2>9
    <3>3. AfterUp(ocLive, w[1], e.ts)
      BY <3>1, <3>2, UpInserted
    <3> QED BY <3>1, <3>2, <3>3 DEF AfterUp
  <2>11. (ok => ocEvents' = ocEvents \cup {e} /\ ocMon'.held = ocMon.held)
         /\ (~ok => ocEvents' = ocEvents /\ ocMon'.held = ocMon.held \cup {e} /\ ocLive' = ocLive)
    <3>1. (ok => w[2] = ocEvents \cup {e}) /\ (~ok => w[2] = ocEvents /\ w[1] = ocLive)
      BY <2>1, <2>9 DEF Inserted
    <3> QED BY <3>1, <2>5, <2>9
  <2>12. \A A : Ups(A \cup {e}) = Ups(A) \cup {t} /\ Downs(A \cup {e}) = Downs(A)
    <3>1. \A A : /\ Ups(A \cup {[ts |-> t, type |-> "up"]}) = Ups(A) \cup {t}
                 /\ Downs(A \cup {[ts |-> t, type |-> "up"]}) = Downs(A)
      BY OneMore
    <3> QED BY <2>1, <3>1
  <2>13. /\ Downs(ocEvents') = Downs(ocEvents) /\ Downs(ocMon'.held) = Downs(ocMon.held)
         /\ ok => Ups(ocEvents') = Ups(ocEvents) \cup {t} /\ Ups(ocMon'.held) = Ups(ocMon.held)
         /\ ~ok => Ups(ocEvents') = Ups(ocEvents) /\ Ups(ocMon'.held) = Ups(ocMon.held) \cup {t}
    <3>1. CASE ok
      BY <2>11, <2>12, <3>1
    <3>2. CASE ~ok
      BY <2>11, <2>12, <3>2
    <3> QED BY <3>1, <3>2
  <2>14. WholeDowns' = WholeDowns /\ WholeUps' = WholeUps \cup {t}
    BY <2>13 DEF WholeDowns, WholeUps
  <2>15. \A u \in WholeUps : u \in Nat /\ u < t
    BY <1>1, <2>3, <2>4
  <2>16. Shape'
    BY <1>0, <1>1, <1>2, <2>6, <2>10, <2>11 DEF Shape
  <2>17. Timely'
    <3>1. \A s \in Second : ocSamples'[s] = "good" => Past(s)' /\ s \notin WholeDowns'
      BY <1>0, <1>2, <1>3, <1>4, <2>5, <2>14 DEF Timely
    <3>2. \A u \in WholeUps' : u <= ocMon'.last
      BY <2>3, <2>5, <2>14, <2>15
    <3>3. \A s \in WholeDowns' \cup WholeUps' : s <= Ahead'
      BY <1>0, <1>5, <2>3, <2>14 DEF Timely
    <3>4. ocMon'.down = 0 /\ ocClock'.lived <= ocClock'.now + 1
      BY <1>0, <1>1, <2>5 DEF Timely
    <3> QED BY <3>1, <3>2, <3>3, <3>4 DEF Timely
  <2>18. Paired'
    <3> SUFFICES ASSUME NEW u \in WholeUps'
                 PROVE  \E d \in WholeDowns' : d <= u /\ \A v \in WholeUps' : ~(d <= v /\ v < u)
      BY DEF Paired
    <3>1. CASE u = t
      <4>1. \A v \in WholeUps' : ~(ocMon.down <= v /\ v < t)
        BY <1>1, <2>3, <2>4, <2>14, <2>15
      <4> QED BY <3>1, <4>1, <2>3, <2>4, <2>14
    <3>2. CASE u # t
      <4>1. PICK d \in WholeDowns : d <= u /\ \A v \in WholeUps : ~(d <= v /\ v < u)
        BY <1>0, <2>14, <3>2 DEF Paired
      <4>2. ~(t < u)
        BY <2>3, <2>14, <2>15, <3>2
      <4> QED BY <4>1, <4>2, <2>14
    <3> QED BY <3>1, <3>2
  <2>19. Running'
    BY <2>5 DEF Running
  <2>20. Listed'
    <3>0. PICK q \in ocLive.open : q.down = ocMon.down /\ q.up = 0
      BY <2>4
    <3>1. \A o \in ocLive'.open : o.down <= ocMon'.last
      BY <1>1, <2>3, <2>5, <2>7, <2>10
    <3>2. \A d \in Downs(ocMon'.held) : \E o \in ocLive'.open : o.down = d /\ ~o.downLanded
      <4> TAKE d \in Downs(ocMon'.held)
      <4>1. PICK o \in ocLive.open : o.down = d /\ ~o.downLanded
        BY <1>0, <2>13 DEF Listed
      <4> QED BY <4>1, <2>10
    <3>3. \A u \in Ups(ocMon'.held) :
             /\ u \notin Ups(ocEvents')
             /\ \E o \in ocLive'.open : o.up = 0 /\ o.down <= u
                   /\ \A v \in Ups(ocMon'.held) : ~(o.down <= v /\ v < u)
      <4> TAKE u \in Ups(ocMon'.held)
      <4>1. CASE u \in Ups(ocMon.held)
        <5>1. u < t /\ u \in Nat /\ u < ocMon.down
          BY <4>1, <2>4, <2>15 DEF WholeUps
        <5>2. /\ u \notin Ups(ocEvents)
              /\ \E o \in ocLive.open : o.up = 0 /\ o.down <= u
                    /\ \A v \in Ups(ocMon.held) : ~(o.down <= v /\ v < u)
          BY <4>1, <1>0 DEF Listed
        <5>3. PICK o \in ocLive.open : o.up = 0 /\ o.down <= u
                    /\ \A v \in Ups(ocMon.held) : ~(o.down <= v /\ v < u)
          BY <5>2
        <5>4. q.up = 0 /\ q.down <= t /\ o.down < q.down
          BY <3>0, <5>1, <5>3, <2>3, <2>7, <1>1
        <5>5. o \in ocLive'.open
          BY <5>4, <2>10
        <5>6. \A v \in Ups(ocMon'.held) : v \in Ups(ocMon.held) \/ v = t
          BY <2>13
        <5>7. u \notin Ups(ocEvents')
          BY <5>1, <5>2, <2>3, <2>13
        <5> QED BY <5>1, <5>3, <5>5, <5>6, <5>7, <2>3
      <4>2. CASE u \notin Ups(ocMon.held)
        <5>1. u = t /\ ~ok
          BY <4>2, <2>13
        <5>2. q \in ocLive'.open /\ q.down <= u
          BY <5>1, <3>0, <2>3, <2>11
        <5>3. u \notin Ups(ocEvents')
          BY <5>1, <2>3, <2>13, <2>15 DEF WholeUps
        <5>4. \A v \in Ups(ocMon'.held) : ~(q.down <= v /\ v < u)
          <6> SUFFICES ASSUME NEW v \in Ups(ocMon'.held), q.down <= v, v < u PROVE FALSE
            OBVIOUS
          <6>1. v \in WholeUps
            BY <5>1, <2>3, <2>13 DEF WholeUps
          <6> QED BY <6>1, <3>0, <2>4, <1>1
        <5> QED BY <5>2, <5>3, <5>4, <3>0
      <4> QED BY <4>1, <4>2
    <3>4. \A o \in ocLive'.open, u \in WholeUps' :
             o.down <= u => \E d \in WholeDowns' : o.down <= d /\ d <= u
      <4> SUFFICES ASSUME NEW p \in ocLive'.open, NEW u \in WholeUps', p.down <= u
                   PROVE  \E d \in WholeDowns' : p.down <= d /\ d <= u
        OBVIOUS
      <4>1. PICK o \in ocLive.open : p.down = o.down
        BY <2>10
      <4>2. CASE u \in WholeUps
        BY <4>1, <4>2, <1>0, <2>14 DEF Listed
      <4>3. CASE u \notin WholeUps
        BY <4>1, <4>3, <2>3, <2>4, <2>7, <2>14
      <4> QED BY <4>2, <4>3
    <3> QED BY <3>1, <3>2, <3>3, <3>4 DEF Listed
  <2>21. MonitorMoves
    <3>1. \A s \in Second : Ours(s)' <=> Ours(s)
      BY <2>10 DEF Ours
    <3>2. Ours(ocMon.down)
      BY <1>1, <2>4 DEF Ours
    <3>3. \A u \in WholeUps' \ WholeUps :
             \E d \in WholeDowns : d <= u /\ Ours(d) /\ \A v \in WholeUps : v < d
      BY <2>3, <2>4, <2>14, <3>2
    <3>4. Downs(ocEvents) \subseteq Downs(ocEvents') /\ Ups(ocEvents) \subseteq Ups(ocEvents')
      BY <2>13
    <3> QED BY <1>1, <1>4, <2>5, <2>10, <2>14, <3>1, <3>3, <3>4 DEF MonitorMoves
  <2> QED BY <2>16, <2>17, <2>18, <2>19, <2>20, <2>21 DEF MonitorKeeps
<1> QED BY <1>6, <1>7

\* The list after a 'down' that was on it: nothing but the landing changes.
AfterDown(old, new, t) ==
    /\ new \in List /\ new.closing = old.closing
    /\ \A o \in old.open : \E p \in new.open : p.down = o.down /\ p.up = o.up /\ (o.down # t => p = o)
    /\ \A p \in new.open : \E o \in old.open : p.down = o.down

\* A held 'down' is on the list already.
LEMMA DownRetried ==
    ASSUME NEW live \in List, NEW events, NEW now, NEW e \in Event, e.type = "down",
           NEW w, Inserted(w, e, TRUE, live, now, events), \E o \in live.open : o.down = e.ts
    PROVE  AfterDown(live, w[1], e.ts)
<1>0. PICK t \in Second : e = [ts |-> t, type |-> "down"] /\ e.ts = t
  BY EventIs
<1> DEFINE landed == EventLanded(live, e)
<1>1. Opened(live, t, now) = live
  BY <1>0 DEF Opened
<1>2. w[1] = landed
  BY <1>0, <1>1 DEF Inserted
<1>3. /\ landed \in List /\ landed.closing = live.closing
      /\ \A o \in live.open : \E p \in landed.open : p.down = o.down /\ p.up = o.up /\ (o.down # t => p = o)
      /\ \A p \in landed.open : \E o \in live.open : p.down = o.down
  BY <1>0, DownLands
<1> HIDE DEF landed
<1> QED BY <1>0, <1>2, <1>3 DEF AfterDown

\* The oldest event of the retry buffer moves to the record, and is landed on
\* the list.
LEMMA RetryKeeps ==
    ASSUME Sound, Retry, ~ocSpoiled'
    PROVE  MonitorKeeps
<1> USE WholeSeconds, WholeSecondsNext
<1>0. Shape /\ Timely /\ Paired /\ Running /\ Listed
  BY DEF Sound
<1>1. /\ ocClock' = ocClock /\ ocJob' = ocJob /\ ocMu' = ocMu /\ ocSamples' = ocSamples
      /\ ocMon.down \in Nat /\ ocMon.last \in Nat /\ ocMon.held \subseteq Event
  BY <1>0, Seconds DEF Shape, Retry, Monitor
<1>20. PICK e \in ocMon.held : \E w :
         /\ \A f \in ocMon.held \ {e} : Before(e, f)
         /\ w = InsertEvent(e, TRUE, ocLive, ocEvents)
         /\ ocLive' = w[1] /\ ocEvents' = w[2]
         /\ ocMon' = [ocMon EXCEPT !.held = @ \ {e}]
  <2> DEFINE f == CHOOSE f \in ocMon.held : \A g \in ocMon.held \ {f} : Before(f, g)
             v == InsertEvent(f, TRUE, ocLive, ocEvents)
  <2>1. ocMon.held # {} /\ ocLive' = v[1] /\ ocEvents' = v[2] /\ ocMon' = [ocMon EXCEPT !.held = @ \ {f}]
    BY DEF Retry
  <2>2. \E g \in ocMon.held : \A h \in ocMon.held \ {g} : Before(g, h)
    BY <1>1, <2>1, FirstEvent
  <2>3. f \in ocMon.held /\ \A g \in ocMon.held \ {f} : Before(f, g)
    BY <2>2
  <2> HIDE DEF f
  <2>4. PICK w : w = v
    OBVIOUS
  <2> QED BY <2>1, <2>3, <2>4
<1>2. PICK w :
         /\ \A f \in ocMon.held \ {e} : Before(e, f)
         /\ w = InsertEvent(e, TRUE, ocLive, ocEvents)
         /\ ocLive' = w[1] /\ ocEvents' = w[2]
         /\ ocMon' = [ocMon EXCEPT !.held = @ \ {e}]
  BY <1>20
<1>3. e \in Event /\ Inserted(w, e, TRUE, ocLive, ocClock.now, ocEvents)
  BY <1>1, <1>2 DEF InsertEvent, Inserted
<1>4. PICK t \in Second : e.ts = t /\ e = [ts |-> t, type |-> e.type] /\ e.type \in {"down", "up"}
  BY <1>3, EventIs
<1>5. /\ ocMon'.due = ocMon.due /\ ocMon'.down = ocMon.down /\ ocMon'.len = ocMon.len
      /\ ocMon'.last = ocMon.last /\ ocMon'.held = ocMon.held \ {e} /\ ocMon' \in Monitor
  BY <1>0, <1>2 DEF Shape, Monitor
<1>6. ocEvents' = ocEvents \cup {e}
  <2>1. w[2] = ocEvents \cup {e}
    BY <1>3 DEF Inserted
  <2> QED BY <2>1, <1>2
<1>7. /\ e.type = "down" => /\ t \in Downs(ocMon.held)
                            /\ Downs(ocEvents') = Downs(ocEvents) \cup {t} /\ Ups(ocEvents') = Ups(ocEvents)
                            /\ Downs(ocMon'.held) = Downs(ocMon.held) \ {t} /\ Ups(ocMon'.held) = Ups(ocMon.held)
      /\ e.type = "up" => /\ t \in Ups(ocMon.held)
                          /\ Ups(ocEvents') = Ups(ocEvents) \cup {t} /\ Downs(ocEvents') = Downs(ocEvents)
                          /\ Ups(ocMon'.held) = Ups(ocMon.held) \ {t} /\ Downs(ocMon'.held) = Downs(ocMon.held)
  <2>1. CASE e.type = "down"
    <3>1. e = [ts |-> t, type |-> "down"]
      BY <1>4, <2>1
    <3>2. /\ \A A : /\ Downs(A \cup {[ts |-> t, type |-> "down"]}) = Downs(A) \cup {t}
                    /\ Ups(A \cup {[ts |-> t, type |-> "down"]}) = Ups(A)
          /\ \A A : /\ Downs(A \ {[ts |-> t, type |-> "down"]}) = Downs(A) \ {t}
                    /\ Ups(A \ {[ts |-> t, type |-> "down"]}) = Ups(A)
      BY OneMore, OneLess
    <3>3. t \in Downs(ocMon.held)
      BY <3>1 DEF Downs
    <3> QED BY <1>5, <1>6, <2>1, <3>1, <3>2, <3>3
  <2>2. CASE e.type = "up"
    <3>1. e = [ts |-> t, type |-> "up"]
      BY <1>4, <2>2
    <3>2. /\ \A A : /\ Downs(A \cup {[ts |-> t, type |-> "up"]}) = Downs(A)
                    /\ Ups(A \cup {[ts |-> t, type |-> "up"]}) = Ups(A) \cup {t}
          /\ \A A : /\ Downs(A \ {[ts |-> t, type |-> "up"]}) = Downs(A)
                    /\ Ups(A \ {[ts |-> t, type |-> "up"]}) = Ups(A) \ {t}
      BY OneMore, OneLess
    <3>3. t \in Ups(ocMon.held)
      BY <3>1 DEF Ups
    <3> QED BY <1>5, <1>6, <2>2, <3>1, <3>2, <3>3
  <2> QED BY <1>4, <2>1, <2>2
<1>8. WholeDowns' = WholeDowns /\ WholeUps' = WholeUps
  BY <1>4, <1>7 DEF WholeDowns, WholeUps
<1>9. e.type = "down" => AfterDown(ocLive, ocLive', t)
  <2> SUFFICES ASSUME e.type = "down" PROVE AfterDown(ocLive, ocLive', t)
    OBVIOUS
  <2>1. \E o \in ocLive.open : o.down = e.ts
    BY <1>0, <1>4, <1>7 DEF Listed
  <2>2. ocLive \in List
    BY <1>0 DEF Shape
  <2>3. AfterDown(ocLive, w[1], e.ts)
    BY <1>3, <2>1, <2>2, DownRetried
  <2> QED BY <1>2, <1>4, <2>3
<1>10. e.type = "up" => AfterUp(ocLive, ocLive', t)
  <2> SUFFICES ASSUME e.type = "up" PROVE AfterUp(ocLive, ocLive', t)
    OBVIOUS
  <2>1. ocLive \in List
    BY <1>0 DEF Shape
  <2>2. AfterUp(ocLive, w[1], e.ts)
    BY <1>3, <2>1, UpInserted
  <2> QED BY <1>2, <1>4, <2>2
<1>11. /\ ocLive' \in List /\ ocLive'.closing = ocLive.closing
       /\ \A o \in ocLive.open : \E p \in ocLive'.open : p.down = o.down
       /\ \A p \in ocLive'.open : \E o \in ocLive.open : p.down = o.down
  <2>1. CASE e.type = "down"
    BY <1>9, <2>1 DEF AfterDown
  <2>2. CASE e.type = "up"
    BY <1>10, <2>2 DEF AfterUp
  <2> QED BY <1>4, <2>1, <2>2
<1>12. \A o \in ocLive.open : o.down \in Nat
  BY <1>0, Seconds DEF Shape, List, Outage
<1>13. Shape'
  BY <1>0, <1>1, <1>5, <1>6, <1>3, <1>11 DEF Shape
<1>14. /\ Ahead' = Ahead /\ \A s \in Second : (Past(s)' <=> Past(s)) /\ (Ours(s)' <=> Ours(s))
  <2>1. Ahead' = Ahead /\ \A s \in Second : Past(s)' <=> Past(s)
    BY <1>1, <1>5 DEF Ahead, Past
  <2>2. \A s \in Second : Ours(s)' <=> Ours(s)
    BY <1>11 DEF Ours
  <2> QED BY <2>1, <2>2
<1>15. Timely' /\ Paired'
  BY <1>0, <1>1, <1>5, <1>8, <1>14 DEF Timely, Paired
<1>16. Running'
  <2> SUFFICES ASSUME ocMon.down # 0 PROVE \E p \in ocLive'.open : p.down = ocMon.down /\ p.up = 0
    BY <1>0, <1>5, <1>8 DEF Running
  <2>1. PICK o \in ocLive.open : o.down = ocMon.down /\ o.up = 0
    BY <1>0 DEF Running
  <2>2. CASE e.type = "down"
    BY <1>9, <2>1, <2>2 DEF AfterDown
  <2>3. CASE e.type = "up"
    <3>1. t \in WholeUps
      BY <1>7, <2>3 DEF WholeUps
    <3>2. o.down > t
      BY <3>1, <2>1, <1>0, <1>1 DEF Running
    <3> QED BY <1>10, <2>1, <2>3, <3>2 DEF AfterUp
  <2> QED BY <1>4, <2>2, <2>3
<1>17. Listed'
  <2>1. \A o \in ocLive'.open : o.down <= ocMon'.last
    BY <1>0, <1>5, <1>11 DEF Listed
  <2>2. \A d \in Downs(ocMon'.held) : \E o \in ocLive'.open : o.down = d /\ ~o.downLanded
    <3> TAKE d \in Downs(ocMon'.held)
    <3>1. d \in Downs(ocMon.held) /\ (e.type = "down" => d # t)
      BY <1>4, <1>7
    <3>2. PICK o \in ocLive.open : o.down = d /\ ~o.downLanded
      BY <1>0, <3>1 DEF Listed
    <3>3. CASE e.type = "down"
      BY <1>9, <3>1, <3>2, <3>3 DEF AfterDown
    <3>4. CASE e.type = "up"
      BY <1>10, <3>2, <3>4 DEF AfterUp
    <3> QED BY <1>4, <3>3, <3>4
  <2>3. \A u \in Ups(ocMon'.held) :
           /\ u \notin Ups(ocEvents')
           /\ \E o \in ocLive'.open : o.up = 0 /\ o.down <= u
                 /\ \A v \in Ups(ocMon'.held) : ~(o.down <= v /\ v < u)
    <3> TAKE u \in Ups(ocMon'.held)
    <3>1. u \in Ups(ocMon.held) /\ (e.type = "up" => u # t) /\ \A v \in Ups(ocMon'.held) : v \in Ups(ocMon.held)
      BY <1>4, <1>7
    <3>2. /\ u \notin Ups(ocEvents)
          /\ \E o \in ocLive.open : o.up = 0 /\ o.down <= u
                /\ \A v \in Ups(ocMon.held) : ~(o.down <= v /\ v < u)
      BY <1>0, <3>1 DEF Listed
    <3>3. u \notin Ups(ocEvents')
      BY <1>4, <1>7, <3>1, <3>2
    <3>4. PICK o \in ocLive.open : o.up = 0 /\ o.down <= u
                /\ \A v \in Ups(ocMon.held) : ~(o.down <= v /\ v < u)
      BY <3>2
    <3>5. CASE e.type = "down"
      <4>1. PICK p \in ocLive'.open : p.down = o.down /\ p.up = o.up
        BY <1>9, <3>5 DEF AfterDown
      <4> QED BY <3>1, <3>3, <3>4, <4>1
    <3>6. CASE e.type = "up"
      <4>1. t < u
        <5> DEFINE f == [ts |-> u, type |-> "up"]
        <5>1. f \in ocMon.held /\ f.ts = u /\ f.type = "up"
          BY <3>1 DEF Ups
        <5>2. f # e
          BY <1>4, <3>1, <3>6, <5>1
        <5> HIDE DEF f
        <5>3. Before(e, f)
          BY <1>2, <5>1, <5>2
        <5> QED BY <5>1, <5>3, <1>4, <3>6 DEF Before
      <4>2. o.down > t
        BY <4>1, <3>4, <3>6, <1>7, <1>12
      <4>3. o \in ocLive'.open
        BY <1>10, <3>6, <4>2 DEF AfterUp
      <4> QED BY <3>1, <3>3, <3>4, <4>3
    <3> QED BY <1>4, <3>5, <3>6
  <2>4. \A o \in ocLive'.open, u \in WholeUps' :
           o.down <= u => \E d \in WholeDowns' : o.down <= d /\ d <= u
    <3> SUFFICES ASSUME NEW p \in ocLive'.open, NEW u \in WholeUps, p.down <= u
                 PROVE  \E d \in WholeDowns : p.down <= d /\ d <= u
      BY <1>8
    <3>1. PICK o \in ocLive.open : p.down = o.down
      BY <1>11
    <3> QED BY <3>1, <1>0 DEF Listed
  <2> QED BY <2>1, <2>2, <2>3, <2>4 DEF Listed
<1>18. MonitorMoves
  <2>1. Downs(ocEvents) \subseteq Downs(ocEvents') /\ Ups(ocEvents) \subseteq Ups(ocEvents')
    BY <1>4, <1>7
  <2> QED BY <1>1, <1>8, <1>11, <1>14, <2>1 DEF MonitorMoves
<1> QED BY <1>13, <1>15, <1>16, <1>17, <1>18 DEF MonitorKeeps

\* A step of the clock, either way, moves no event.
LEMMA ClockKeeps ==
    ASSUME Sound, Tick \/ SetBack
    PROVE  MonitorKeeps
<1> USE WholeSeconds
<1>0. Shape /\ Timely /\ Paired /\ Running /\ Listed
  BY DEF Sound
<1>1. /\ ocClock.now \in Nat /\ ocClock.lived \in Nat /\ ocMon.len \in Nat /\ ocMon.down \in Nat
      /\ ocMon.last \in Nat /\ ocClock \in [now : Nat, lived : Nat] /\ ocMon \in Monitor
  BY <1>0, Seconds DEF Shape, Monitor
<1>2. /\ ocEvents' = ocEvents /\ ocSamples' = ocSamples /\ ocLive' = ocLive /\ ocMu' = ocMu /\ ocJob' = ocJob
  BY DEF Tick, SetBack
<1>3. /\ ocClock' \in [now : Nat, lived : Nat] /\ ocMon' \in Monitor
      /\ ocMon'.down = ocMon.down /\ ocMon'.last = ocMon.last /\ ocMon'.held = ocMon.held
      /\ ocClock'.lived <= ocClock'.now + 1 /\ Ahead <= Ahead' /\ Ahead \in Nat /\ Ahead' \in Nat
      /\ ocMon'.down # 0 => ocMon'.down + ocMon'.len <= Ahead'
      /\ \A s \in Second : Past(s) => Past(s)'
  <2>1. CASE Tick
    <3> DEFINE n == IF ocMon.down = 0 THEN 0 ELSE ocMon.len + 1
    <3>1. ocClock' = [ocClock EXCEPT !.now = @ + 1] /\ ocMon' = [ocMon EXCEPT !.due = TRUE, !.len = n]
      BY <2>1 DEF Tick
    <3>2. n \in Nat /\ (ocMon.down # 0 => n = ocMon.len + 1)
      BY <1>1
    <3> HIDE DEF n
    <3>3. /\ ocMon' \in Monitor /\ ocMon'.down = ocMon.down /\ ocMon'.last = ocMon.last
          /\ ocMon'.held = ocMon.held /\ ocMon'.len = n
      BY <1>1, <3>1, <3>2 DEF Monitor
    <3>4. ocClock' \in [now : Nat, lived : Nat] /\ ocClock'.now = ocClock.now + 1 /\ ocClock'.lived = ocClock.lived
      BY <1>1, <3>1
    <3>5. Ahead' = Ahead + 1 /\ Ahead \in Nat
      BY <1>1, <3>4 DEF Ahead
    <3>6. ocMon'.down # 0 => ocMon'.down + ocMon'.len <= Ahead'
      BY <1>0, <1>1, <3>2, <3>3, <3>5 DEF Timely
    <3>7. \A s \in Second : Past(s) => Past(s)'
      BY <1>1, <3>4 DEF Past
    <3> QED BY <1>0, <1>1, <3>3, <3>4, <3>5, <3>6, <3>7 DEF Timely
  <2>2. CASE SetBack
    <3>1. /\ ocClock.lived = 0 /\ ocClock.now > 2 /\ ocClock' = [now |-> ocClock.now - 1, lived |-> ocClock.now]
          /\ ocMon' = ocMon
      BY <2>2 DEF SetBack
    <3>2. /\ ocClock' \in [now : Nat, lived : Nat] /\ ocClock'.now = ocClock.now - 1
          /\ ocClock'.lived = ocClock.now /\ ocClock.now # 0
      BY <1>1, <3>1
    <3>3. Ahead' = Ahead /\ Ahead \in Nat
      BY <1>1, <3>1, <3>2 DEF Ahead
    <3>4. \A s \in Second : Past(s) => Past(s)'
      BY <1>1, <3>1, <3>2 DEF Past
    <3> QED BY <1>0, <1>1, <3>1, <3>2, <3>3, <3>4 DEF Timely
  <2> QED BY <2>1, <2>2
<1>4. WholeDowns' = WholeDowns /\ WholeUps' = WholeUps /\ \A s \in Second : Ours(s)' <=> Ours(s)
  BY <1>2, <1>3 DEF WholeDowns, WholeUps, Ours
<1>5. Shape'
  BY <1>0, <1>2, <1>3 DEF Shape
<1>6. Timely'
  <2>1. \A s \in WholeDowns' \cup WholeUps' : s <= Ahead'
    BY <1>0, <1>3, <1>4 DEF Timely
  <2>2. \A s \in Second : ocSamples'[s] = "good" => Past(s)' /\ s \notin WholeDowns'
    BY <1>0, <1>2, <1>3, <1>4 DEF Timely
  <2>3. \A u \in WholeUps' : u <= ocMon'.last \/ Past(u)'
    BY <1>0, <1>3, <1>4 DEF Timely
  <2> QED BY <1>3, <2>1, <2>2, <2>3 DEF Timely
<1>7. Paired' /\ Running' /\ Listed'
  BY <1>0, <1>2, <1>3, <1>4 DEF Paired, Running, Listed
<1>8. MonitorMoves
  BY <1>2, <1>3, <1>4 DEF MonitorMoves
<1> QED BY <1>5, <1>6, <1>7, <1>8 DEF MonitorKeeps

\* A restart loses what is held; unless the 'down' of a stored 'up' is among
\* it, the record stands as it is on disk.
LEMMA RestartKeeps ==
    ASSUME Sound, DaemonRestart, ~ocSpoiled'
    PROVE  Sound'
<1> USE WholeSeconds, WholeSecondsNext
<1>0. Shape /\ Timely /\ Paired /\ Running /\ Listed
  BY DEF Sound
<1> DEFINE last == Max({e.ts : e \in ocEvents} \cup {0})
<1>1. /\ ocMon' = [FreshMonitor(ocMon.restarts + 1) EXCEPT !.last = last]
      /\ ocLive' = NoOutages /\ ocMu' = "free" /\ ocJob' = NoJobs
      /\ ocEvents' = ocEvents /\ ocSamples' = ocSamples /\ ocClock' = ocClock
  BY DEF DaemonRestart
<1>2. ~ \E d \in ocMon.held : d.type = "down" /\ \E u \in ocEvents : u.type = "up" /\ u.ts >= d.ts
  <2>1. ocSpoiled' = (ocSpoiled \/ \E d \in ocMon.held : d.type = "down" /\ \E u \in ocEvents : u.type = "up" /\ u.ts >= d.ts)
    BY DEF DaemonRestart
  <2> QED BY <2>1, Zenon
<1>3. last \in 0..Horizon /\ \A e \in ocEvents : e.ts <= last
  <2> DEFINE S == {e.ts : e \in ocEvents} \cup {0}
  <2>1. \A e \in ocEvents : e.ts \in Second
    BY <1>0, EventIs DEF Shape
  <2>2. S \in SUBSET (0..Horizon) /\ S # {} /\ Horizon \in Nat
    BY <2>1, Seconds
  <2>3. Max(S) \in S /\ \A y \in S : y <= Max(S)
    BY <2>2, MaxIsGreatest
  <2> QED BY <2>2, <2>3
<1> HIDE DEF last
<1>4. /\ ocMon' \in Monitor /\ ocMon'.due = FALSE /\ ocMon'.down = 0 /\ ocMon'.len = 0
      /\ ocMon'.last = last /\ ocMon'.held = {}
  <2>1. ocMon.restarts \in Nat
    BY <1>0 DEF Shape, Monitor
  <2>2. ocMon' = [due |-> FALSE, down |-> 0, good |-> 0, len |-> 0, last |-> last,
                  held |-> {}, restarts |-> ocMon.restarts + 1]
    BY <1>1 DEF FreshMonitor
  <2>3. 0 \in 0..Horizon
    BY Seconds
  <2> QED BY <1>3, <2>1, <2>2, <2>3 DEF Monitor
<1>5. ocLive' \in List /\ ocLive'.open = {}
  BY <1>1 DEF NoOutages, List
<1>6. ocJob' \in [Callers -> Job] /\ \A c \in Callers : ocJob'[c].pc = "idle"
  <2>1. NoJob \in Job /\ NoJob.pc = "idle"
    BY Seconds DEF NoJob, Job, Positions
  <2> QED BY <1>1, <2>1 DEF NoJobs, Callers
<1>7. WholeDowns' = Downs(ocEvents) /\ WholeUps' = Ups(ocEvents)
  <2>1. Downs(ocMon'.held) = {} /\ Ups(ocMon'.held) = {}
    BY <1>4, SecondsOfSets
  <2> QED BY <1>1, <2>1 DEF WholeDowns, WholeUps
<1>8. /\ Downs(ocEvents) \subseteq WholeDowns /\ Ups(ocEvents) \subseteq WholeUps
      /\ \A t \in Second : Past(t) => Past(t)'
      /\ Ahead' = Ahead
  BY <1>1, <1>4 DEF WholeDowns, WholeUps, Past, Ahead
<1>9. \A u \in Ups(ocEvents) : u <= last
  <2> TAKE u \in Ups(ocEvents)
  <2>1. [ts |-> u, type |-> "up"] \in ocEvents
    BY DEF Ups
  <2>2. [ts |-> u, type |-> "up"].ts <= last
    BY <2>1, <1>3
  <2> QED BY <2>2
<1>10. \A u \in Ups(ocEvents), d \in Downs(ocMon.held) : ~(d <= u)
  <2> SUFFICES ASSUME NEW u \in Ups(ocEvents), NEW d \in Downs(ocMon.held), d <= u PROVE FALSE
    OBVIOUS
  <2> DEFINE e == [ts |-> d, type |-> "down"]   f == [ts |-> u, type |-> "up"]
  <2>1. e \in ocMon.held /\ f \in ocEvents
    BY DEF Downs, Ups
  <2>2. e.type = "down" /\ e.ts = d /\ f.type = "up" /\ f.ts = u
    OBVIOUS
  <2> HIDE DEF e, f
  <2> QED BY <1>2, <2>1, <2>2
<1>11. Shape'
  BY <1>0, <1>1, <1>4, <1>5, <1>6 DEF Shape
<1>12. Timely'
  <2>1. \A s \in Second : ocSamples'[s] = "good" => Past(s)' /\ s \notin WholeDowns'
    BY <1>0, <1>1, <1>7, <1>8 DEF Timely
  <2>2. \A s \in WholeDowns' \cup WholeUps' : s <= Ahead'
    BY <1>0, <1>7, <1>8 DEF Timely
  <2> QED BY <1>0, <1>1, <1>4, <1>7, <1>8, <1>9, <2>1, <2>2 DEF Timely
<1>13. Paired'
  <2> SUFFICES ASSUME NEW u \in Ups(ocEvents)
               PROVE  \E d \in Downs(ocEvents) : d <= u /\ \A v \in Ups(ocEvents) : ~(d <= v /\ v < u)
    BY <1>7 DEF Paired
  <2>1. PICK d \in WholeDowns : d <= u /\ \A v \in WholeUps : ~(d <= v /\ v < u)
    BY <1>0, <1>8 DEF Paired
  <2>2. d \in Downs(ocEvents)
    BY <1>10, <2>1 DEF WholeDowns
  <2> QED BY <1>8, <2>1, <2>2
<1>14. Running' /\ Listed'
  <2>1. Downs(ocMon'.held) = {} /\ Ups(ocMon'.held) = {}
    BY <1>4, SecondsOfSets
  <2> QED BY <1>4, <1>5, <2>1 DEF Running, Listed
<1>15. Jobs'
  BY <1>6 DEF Jobs, Waiting, Closing, Judging, Deleting
<1> QED BY <1>11, <1>12, <1>13, <1>14, <1>15 DEF Sound

-----------------------------------------------------------------------------
(* What a step of a job leaves as it is                                    *)

\* A step that leaves the record alone, and shows no second good, leaves it
\* whole.
LEMMA RecordStands ==
    ASSUME ocEvents' = ocEvents, ocClock' = ocClock, ocMon' = ocMon,
           \A s \in Second : ocSamples'[s] = "good" => ocSamples[s] = "good"
    PROVE  /\ WholeDowns' = WholeDowns /\ WholeUps' = WholeUps /\ Ahead' = Ahead
           /\ \A t : Past(t)' <=> Past(t)
           /\ Timely => Timely'
           /\ Paired => Paired'
<1>1. WholeDowns' = WholeDowns /\ WholeUps' = WholeUps /\ Ahead' = Ahead
  BY DEF WholeDowns, WholeUps, Ahead
<1>2. \A t : Past(t)' <=> Past(t)
  BY DEF Past
<1>3. Timely => Timely'
  BY <1>1, <1>2 DEF Timely
<1> QED BY <1>1, <1>2, <1>3 DEF Paired

\* So it leaves what is the monitor's, when the list keeps its outages.
LEMMA ListStands ==
    ASSUME ocEvents' = ocEvents, ocClock' = ocClock, ocMon' = ocMon,
           \A s \in Second : ocSamples'[s] = "good" => ocSamples[s] = "good",
           ocLive'.open = ocLive.open
    PROVE  /\ \A t : Ours(t)' <=> Ours(t)
           /\ \A g : GapOK(g)' <=> GapOK(g)
           /\ \A u : EndOK(u)' <=> EndOK(u)
           /\ Running => Running'
           /\ Listed => Listed'
<1>1. WholeDowns' = WholeDowns /\ WholeUps' = WholeUps /\ \A t : Past(t)' <=> Past(t)
  BY RecordStands
<1>2. \A t : Ours(t)' <=> Ours(t)
  BY DEF Ours
<1>3. \A g : GapOK(g)' <=> GapOK(g)
  BY <1>1, <1>2 DEF GapOK
<1>4. \A u : EndOK(u)' <=> EndOK(u)
  BY <1>1, <1>2 DEF EndOK
<1>5. Running => Running'
  BY <1>1 DEF Running
<1>6. Listed => Listed'
  BY <1>1 DEF Listed
<1> QED BY <1>2, <1>3, <1>4, <1>5, <1>6

\* A step of one job is of no other.
LEMMA JobChanges ==
    ASSUME Shape, NEW c \in Callers, NEW j \in Job, Changes(c, j)
    PROVE  /\ ocJob' \in [Callers -> Job] /\ ocJob'[c] = j
           /\ \A x \in Callers \ {c} : ocJob'[x] = ocJob[x]
BY DEF Shape, Changes

\* While one caller holds the mutex, or none, the others are at no step of
\* theirs that needs it.
LEMMA OthersWait ==
    ASSUME Shape, Jobs, NEW c \in Callers, NEW j \in Job, Changes(c, j), ocMu \in {"free", c}
    PROVE  \A x \in Callers \ {c} : Waiting(x)' /\ Closing(x)' /\ Judging(x)' /\ Deleting(x)'
<1> TAKE x \in Callers \ {c}
<1>1. ocJob'[x] = ocJob[x] /\ ocMu # x
  BY JobChanges DEF Callers
<1>2. Waiting(x) /\ ocJob[x].pc \notin {"search", "judge", "commit"}
  BY <1>1 DEF Jobs, Closing, Deleting
<1> QED BY <1>1, <1>2 DEF Waiting, Closing, Judging, Deleting

\* They may stand at any step where the record, the list and the mutex do.
LEMMA OthersStand ==
    ASSUME Shape, Jobs, NEW c \in Callers, NEW j \in Job, Changes(c, j), ocMu' = ocMu,
           ocEvents' = ocEvents, ocClock' = ocClock, ocMon' = ocMon,
           \A s \in Second : ocSamples'[s] = "good" => ocSamples[s] = "good",
           ocLive'.open = ocLive.open, ocLive'.closing = ocLive.closing
    PROVE  \A x \in Callers \ {c} : Waiting(x)' /\ Closing(x)' /\ Judging(x)' /\ Deleting(x)'
<1> TAKE x \in Callers \ {c}
<1>1. ocJob'[x] = ocJob[x]
  BY JobChanges
<1>2. Waiting(x) /\ Closing(x) /\ Judging(x) /\ Deleting(x)
  BY DEF Jobs
<1>3. \A t : Ours(t)' <=> Ours(t)
  BY ListStands
<1>4. \A g : GapOK(g)' <=> GapOK(g)
  BY ListStands
<1>5. \A u : EndOK(u)' <=> EndOK(u)
  BY ListStands
<1>6. WholeUps' = WholeUps
  BY RecordStands
<1>7. Waiting(x)' /\ Closing(x)'
  BY <1>1, <1>2, <1>4, <1>5 DEF Waiting, Closing
<1>8. Judging(x)'
  <2> SUFFICES ASSUME ocJob[x].pc = "judge" PROVE Judging(x)'
    BY <1>1 DEF Judging
  <2>1. PICK g \in Gap :
           /\ ocJob[x].gap = {g}
           /\ \A h \in ocJob[x].gaps \cup ocJob[x].synth : h.down # g.down
           /\ \/ ocJob[x].rec = 0
              \/ g.down < ocJob[x].rec /\ (Ours(ocJob[x].rec) \/ EndOK(EndOf(g, ocJob[x].rec)))
    BY <1>2 DEF Judging
  <2> DEFINE rec == ocJob[x].rec
  <2>2. PICK r : r = rec
    OBVIOUS
  <2>3. r = 0 \/ (g.down < r /\ (Ours(r)' \/ EndOK(EndOf(g, r))'))
    <3>1. PICK u : u = EndOf(g, r)
      OBVIOUS
    <3>2. EndOK(u) => EndOK(u)'
      BY <1>5
    <3>3. EndOK(u) <=> EndOK(EndOf(g, r))
      BY <3>1
    <3>4. EndOK(u)' <=> EndOK(EndOf(g, r))'
      BY <3>1 DEF EndOK, EndOf
    <3> QED BY <1>3, <2>1, <2>2, <3>2, <3>3, <3>4
  <2>4. ocJob'[x].rec = r
    BY <1>1, <2>2
  <2> QED BY <1>1, <2>1, <2>3, <2>4 DEF Judging
<1>9. Deleting(x)'
  BY <1>1, <1>2, <1>6 DEF Deleting
<1> QED BY <1>7, <1>8, <1>9

-----------------------------------------------------------------------------
(* The steps of a close                                                    *)

\* A caller that asks for a close writes only its own job, and is counted.
LEMMA AsksKeeps ==
    ASSUME Sound, NEW c \in Callers, CloseAsks(c)
    PROVE  Sound'
<1>0. Shape /\ Timely /\ Paired /\ Running /\ Listed /\ Jobs
  BY DEF Sound
<1>1. PICK cutoff \in IF c = "pruner" THEN 2..ocClock.now ELSE {ocClock.now + 1} :
          Changes(c, [NoJob EXCEPT !.pc = "wait", !.now = ocClock.now, !.cutoff = cutoff])
  BY DEF CloseAsks
<1> DEFINE j == [NoJob EXCEPT !.pc = "wait", !.now = ocClock.now, !.cutoff = cutoff]
<1>2. j \in Job /\ j.pc = "wait" /\ j.synth = {}
  <2>1. ocClock.now \in Nat /\ cutoff \in Nat
    BY <1>0 DEF Shape
  <2>2. 0 \in 0..Horizon
    BY Seconds
  <2> QED BY <2>1, <2>2 DEF NoJob, Job, Positions
<1>3. Changes(c, j)
  BY <1>1
<1> HIDE DEF j
<1>4. /\ ocEvents' = ocEvents /\ ocSamples' = ocSamples /\ ocClock' = ocClock /\ ocMon' = ocMon /\ ocMu' = ocMu
      /\ ocLive' = [ocLive EXCEPT !.waiting = @ + 1]
  BY DEF CloseAsks
<1>5. ocLive' \in List /\ ocLive'.open = ocLive.open /\ ocLive'.closing = ocLive.closing
  BY <1>0, <1>4 DEF Shape, List
<1>6. ocJob' \in [Callers -> Job] /\ ocJob'[c] = j
  BY <1>0, <1>2, <1>3, JobChanges
<1>7. Shape'
  BY <1>0, <1>4, <1>5, <1>6 DEF Shape
<1>8. Timely' /\ Paired'
  BY <1>0, <1>4, RecordStands
<1>9. Running' /\ Listed'
  BY <1>0, <1>4, <1>5, ListStands
<1>10. Waiting(c)' /\ Closing(c)' /\ Judging(c)' /\ Deleting(c)'
  BY <1>2, <1>6 DEF Waiting, Closing, Judging, Deleting
<1>11. \A x \in Callers \ {c} : Waiting(x)' /\ Closing(x)' /\ Judging(x)' /\ Deleting(x)'
  BY <1>0, <1>2, <1>3, <1>4, <1>5, OthersStand
<1> QED BY <1>7, <1>8, <1>9, <1>10, <1>11 DEF Sound, Jobs

\* A step of a close that writes only its own job, in the positions before the
\* delete, keeps everything else.
LEMMA JobOnly ==
    ASSUME Sound, NEW c \in Callers, NEW j \in Job, Changes(c, j), ocMu' = ocMu,
           ocEvents' = ocEvents, ocClock' = ocClock, ocMon' = ocMon,
           ocSamples' \in [Second -> {"none", "good", "bad"}],
           \A s \in Second : ocSamples'[s] = "good" => ocSamples[s] = "good",
           ocLive' \in List, ocLive'.open = ocLive.open, ocLive'.closing = ocLive.closing,
           Waiting(c)' /\ Closing(c)' /\ Judging(c)' /\ Deleting(c)'
    PROVE  Sound'
<1>0. Shape /\ Timely /\ Paired /\ Running /\ Listed /\ Jobs
  BY DEF Sound
<1>1. ocJob' \in [Callers -> Job] /\ ocJob'[c] = j
  BY <1>0, JobChanges
<1>2. Shape'
  BY <1>0, <1>1 DEF Shape
<1>3. Timely' /\ Paired'
  BY <1>0, RecordStands
<1>4. Running' /\ Listed'
  BY <1>0, ListStands
<1>5. \A x \in Callers \ {c} : Waiting(x)' /\ Closing(x)' /\ Judging(x)' /\ Deleting(x)'
  BY <1>0, OthersStand
<1> QED BY <1>2, <1>3, <1>4, <1>5 DEF Sound, Jobs

\* The samples a job takes are nobody's proof any more.
LEMMA SamplesGoKeeps ==
    ASSUME Sound, NEW c \in Callers, SamplesGo(c)
    PROVE  Sound'
<1>0. Shape
  BY DEF Sound
<1>1. /\ ocEvents' = ocEvents /\ ocClock' = ocClock /\ ocMon' = ocMon /\ ocMu' = ocMu /\ ocLive' = ocLive
      /\ ocSamples' = [s \in Second |-> IF c = "web" \/ s < ocJob[c].cutoff THEN "none" ELSE ocSamples[s]]
      /\ Changes(c, IF c = "pruner" THEN [NoJob EXCEPT !.pc = "sweep", !.now = ocJob[c].now] ELSE NoJob)
  BY DEF SamplesGo
<1> DEFINE j == IF c = "pruner" THEN [NoJob EXCEPT !.pc = "sweep", !.now = ocJob[c].now] ELSE NoJob
<1>2. j \in Job /\ j.pc \in {"sweep", "idle"}
  <2>1. ocJob[c].now \in Nat
    BY <1>0 DEF Shape, Job
  <2>2. 0 \in 0..Horizon
    BY Seconds
  <2> QED BY <2>1, <2>2 DEF NoJob, Job, Positions
<1>3. Changes(c, j)
  BY <1>1
<1> HIDE DEF j
<1>4. /\ ocSamples' \in [Second -> {"none", "good", "bad"}]
      /\ \A s \in Second : ocSamples'[s] = "good" => ocSamples[s] = "good"
  BY <1>0, <1>1 DEF Shape
<1>5. ocJob'[c] = j
  BY <1>0, <1>2, <1>3, JobChanges
<1>6. Waiting(c)' /\ Closing(c)' /\ Judging(c)' /\ Deleting(c)'
  BY <1>2, <1>5 DEF Waiting, Closing, Judging, Deleting
<1>7. ocLive' \in List
  BY <1>0, <1>1 DEF Shape
<1> QED BY <1>1, <1>2, <1>3, <1>4, <1>6, <1>7, JobOnly

\* A close lets go of the list and of the mutex together.
LEMMA EndsKeeps ==
    ASSUME Sound, NEW c \in Callers, CloseEnds(c)
    PROVE  Sound'
<1>0. Shape /\ Timely /\ Paired /\ Running /\ Listed /\ Jobs
  BY DEF Sound
<1>1. /\ ocEvents' = ocEvents /\ ocClock' = ocClock /\ ocMon' = ocMon /\ ocSamples' = ocSamples
      /\ ocMu' = "free" /\ ocLive' = [ocLive EXCEPT !.closing = FALSE] /\ ocJob[c].pc = "search"
      /\ Changes(c, IF Complete(ocJob[c]) THEN [ocJob[c] EXCEPT !.pc = "delete"] ELSE NoJob)
  BY DEF CloseEnds
<1> DEFINE j == IF Complete(ocJob[c]) THEN [ocJob[c] EXCEPT !.pc = "delete"] ELSE NoJob
<1>2. j \in Job /\ j.pc \in {"delete", "idle"}
  <2>1. ocJob[c] \in Job
    BY <1>0 DEF Shape
  <2>2. 0 \in 0..Horizon
    BY Seconds
  <2> QED BY <2>1, <2>2 DEF NoJob, Job, Positions
<1>3. Changes(c, j)
  BY <1>1
<1> HIDE DEF j
<1>4. ocLive' \in List /\ ocLive'.open = ocLive.open
  BY <1>0, <1>1 DEF Shape, List
<1>5. ocJob' \in [Callers -> Job] /\ ocJob'[c] = j
  BY <1>0, <1>2, <1>3, JobChanges
<1>6. Shape'
  BY <1>0, <1>1, <1>4, <1>5 DEF Shape
<1>7. Timely' /\ Paired'
  BY <1>0, <1>1, RecordStands
<1>8. Running' /\ Listed'
  BY <1>0, <1>1, <1>4, ListStands
<1>9. Waiting(c)' /\ Closing(c)' /\ Judging(c)' /\ Deleting(c)'
  BY <1>2, <1>5 DEF Waiting, Closing, Judging, Deleting
<1>10. ocMu = c
  BY <1>0, <1>1 DEF Jobs, Closing
<1>11. \A x \in Callers \ {c} : Waiting(x)' /\ Closing(x)' /\ Judging(x)' /\ Deleting(x)'
  BY <1>0, <1>2, <1>3, <1>10, OthersWait
<1> QED BY <1>6, <1>7, <1>8, <1>9, <1>11 DEF Sound, Jobs

\* The line is the first second of the monitor's.
LEMMA LineIs ==
    ASSUME Shape
    PROVE  /\ Line \in Nat /\ Line <= Never
           /\ \A t \in Nat : t <= Horizon => (Ours(t) <=> Line <= t)
<1> DEFINE S == {o.down : o \in ocLive.open} \cup {Never}
<1>1. \A o \in ocLive.open : o.down \in Nat /\ o.down <= Horizon
  BY Seconds DEF Shape, List, Outage
<1>2. S \in SUBSET Nat /\ Never \in S /\ Never = Horizon + 1 /\ Horizon \in Nat
  BY <1>1, Seconds
<1>3. Line = Min(S)
  BY DEF Line
<1>4. Line \in S /\ \A y \in S : Line <= y
  BY <1>2, <1>3, MinIsLeast
<1>5. ASSUME NEW t \in Nat, t <= Horizon PROVE Ours(t) <=> Line <= t
  <2>1. ASSUME Ours(t) PROVE Line <= t
    <3>1. PICK o \in ocLive.open : o.down <= t
      BY <2>1 DEF Ours
    <3>2. Line <= o.down
      BY <1>4
    <3> QED BY <1>1, <1>2, <1>4, <3>1, <3>2
  <2>2. ASSUME Line <= t PROVE Ours(t)
    <3>1. Line # Never
      BY <1>2, <1>5, <2>2
    <3>2. PICK o \in ocLive.open : Line = o.down
      BY <1>4, <3>1
    <3> QED BY <2>2, <3>2 DEF Ours
  <2> QED BY <2>1, <2>2
<1> QED BY <1>2, <1>4, <1>5

\* What a search finds is a good second of its window.
LEMMA RecoveryIs ==
    ASSUME Shape, NEW after \in Nat, NEW before \in Nat
    PROVE  \/ Recovery(after, before) = 0
           \/ /\ Recovery(after, before) \in Second /\ after < Recovery(after, before)
              /\ Recovery(after, before) <= before /\ ocSamples[Recovery(after, before)] = "good"
<1> DEFINE good == {s \in Second : s > after /\ s <= before /\ ocSamples[s] = "good"}
<1>1. Recovery(after, before) = IF good = {} THEN 0 ELSE Min(good)
  BY DEF Recovery
<1>2. good \in SUBSET Nat
  BY Seconds
<1>3. good # {} => Min(good) \in good
  BY <1>2, MinIsLeast
<1>4. good # {} => Recovery(after, before) \in good
  BY <1>1, <1>3
<1>5. \A s \in good : s \in Second /\ after < s /\ s <= before /\ ocSamples[s] = "good"
  BY <1>2, Seconds
<1> QED BY <1>1, <1>4, <1>5

\* A gap stays a gap, and keeps its 'down', when the line cuts it.
LEMMA BoundedIs ==
    ASSUME NEW g \in Gap, NEW line \in Nat
    PROVE  /\ Bounded(g, line) \in Gap /\ Bounded(g, line).down = g.down
           /\ g.end <= line => Bounded(g, line) = g
           /\ g.end > line => Bounded(g, line).end = line
<1>1. /\ g.down \in Second /\ g.end \in Nat /\ g.pairUp \in 0..Horizon
      /\ g = [down |-> g.down, end |-> g.end, final |-> g.final, pairUp |-> g.pairUp]
  BY DEF Gap
<1>2. CASE g.end > line
  <2> DEFINE p == IF g.pairUp > line THEN 0 ELSE g.pairUp
  <2>1. Bounded(g, line) = [g EXCEPT !.end = line, !.final = FALSE, !.pairUp = p]
    BY <1>2 DEF Bounded
  <2>2. p \in 0..Horizon
    BY <1>1, Seconds
  <2> HIDE DEF p
  <2>3. Bounded(g, line) = [down |-> g.down, end |-> line, final |-> FALSE, pairUp |-> p]
    BY <1>1, <2>1
  <2> QED BY <1>1, <1>2, <2>2, <2>3 DEF Gap
<1>3. CASE ~(g.end > line)
  <2>1. Bounded(g, line) = g
    BY <1>3 DEF Bounded
  <2> QED BY <1>1, <1>3, <2>1
<1> QED BY <1>2, <1>3

\* A good second found in a gap, before the line, ends the outage: of the
\* 'up's past it each has a 'down' past it, but the one the gap may move.
LEMMA FoundIsEnd ==
    ASSUME Shape, Timely, Paired, Listed, NEW g \in Gap, GapOK(g), NEW rec \in Second,
           g.down < rec, rec <= Bounded(g, Line).end, rec < Line, ocSamples[rec] = "good"
    PROVE  EndOK(EndOf(Bounded(g, Line), rec))
<1> USE WholeSeconds
<1> DEFINE b == Bounded(g, Line)
<1>0. /\ g.down \in Nat /\ g.down \in Second /\ g.end \in Nat /\ g.pairUp \in Nat /\ g.final \in BOOLEAN
      /\ rec \in Nat /\ Line \in Nat
  BY LineIs, Seconds DEF Gap
<1>1. \A t \in Second : Ours(t) <=> Line <= t
  BY LineIs
<1>2. rec <= g.end /\ (b = g \/ (g.end > Line))
  <2>1. CASE g.end <= Line
    BY <2>1, <1>0, BoundedIs
  <2>2. CASE g.end > Line
    BY <2>2, <1>0, BoundedIs
  <2> QED BY <2>1, <2>2, <1>0
<1>3. ~Ours(rec) /\ Past(rec) /\ rec \notin WholeDowns
  BY <1>0, <1>1 DEF Timely
<1>4. \A t \in WholeDowns : g.down < t => rec < t
  <2> SUFFICES ASSUME NEW t \in WholeDowns, g.down < t PROVE rec < t
    OBVIOUS
  <2>1. Ours(t) \/ t >= g.end
    BY DEF GapOK
  <2>2. t # rec /\ t \in Second /\ t \in Nat
    BY <1>3
  <2>3. CASE Ours(t)
    BY <2>2, <2>3, <1>0, <1>1
  <2>4. CASE t >= g.end
    BY <2>2, <2>4, <1>0, <1>2
  <2> QED BY <2>1, <2>3, <2>4
<1>5. \A t \in WholeUps : g.down <= t => rec <= t
  <2> SUFFICES ASSUME NEW t \in WholeUps, g.down <= t PROVE rec <= t
    OBVIOUS
  <2>1. Ours(t) \/ t >= g.end
    BY DEF GapOK
  <2>2. t \in Second /\ t \in Nat
    OBVIOUS
  <2>3. CASE Ours(t)
    BY <2>2, <2>3, <1>0, <1>1
  <2>4. CASE t >= g.end
    BY <2>2, <2>4, <1>0, <1>2
  <2> QED BY <2>1, <2>3, <2>4
<1>6. ASSUME NEW w \in WholeUps, rec < w
      PROVE  \/ \E d \in WholeDowns : rec < d /\ d <= w
             \/ w \in Ups(ocEvents) /\ (w = b.pairUp \/ (b.pairUp = 0 /\ b.final))
  <2>0. w \in Second /\ w \in Nat
    OBVIOUS
  <2>1. CASE Ours(w)
    <3>1. PICK o \in ocLive.open : o.down <= w
      BY <2>1 DEF Ours
    <3>2. PICK d \in WholeDowns : o.down <= d /\ d <= w
      BY <3>1 DEF Listed
    <3>3. o.down \in Second /\ o.down \in Nat /\ Ours(o.down)
      BY Seconds DEF Shape, List, Outage, Ours
    <3>4. rec < d /\ d <= w
      BY <3>2, <3>3, <1>0, <1>1
    <3> QED BY <3>4
  <2>2. CASE ~Ours(w)
    <3>1. w < Line
      BY <2>0, <2>2, <1>0, <1>1
    <3>2. w \in Ups(ocEvents)
      <4> SUFFICES ASSUME w \in Ups(ocMon.held) PROVE Ours(w)
        BY <2>2 DEF WholeUps
      <4> QED BY DEF Listed, Ours
    <3>3. g.down <= w
      BY <2>0, <1>0, <1>6
    <3>4. w >= g.end
      BY <2>2, <3>3 DEF GapOK
    <3>5. b = g
      BY <3>1, <3>4, <2>0, <1>0, <1>2
    <3>6. CASE g.final /\ g.pairUp = 0
      BY <3>2, <3>5, <3>6
    <3>7. CASE ~g.final /\ g.pairUp = 0 /\ g.end \in Downs(ocEvents)
      <4>1. g.end \in WholeDowns
        BY <3>7 DEF WholeDowns
      <4>2. rec < g.end
        BY <4>1, <1>0, <1>2, <1>3
      <4> QED BY <3>4, <4>1, <4>2
    <3>8. CASE /\ ~g.final /\ g.pairUp \in Ups(ocEvents) /\ g.pairUp >= g.end
               /\ \A t \in WholeUps : g.down <= t /\ t < g.pairUp => Ours(t)
      <4>1. CASE w = g.pairUp
        BY <3>2, <3>5, <4>1
      <4>2. CASE w # g.pairUp
        <5>1. g.pairUp < w /\ g.pairUp \in WholeUps
          BY <3>8, <3>3, <4>2, <2>0, <2>2, <1>0 DEF WholeUps
        <5>2. PICK d \in WholeDowns : d <= w /\ \A v \in WholeUps : ~(d <= v /\ v < w)
          BY DEF Paired
        <5>3. rec < d
          <6>1. ~(d <= g.pairUp)
            BY <5>1, <5>2
          <6> QED BY <6>1, <3>8, <1>0, <1>2
        <5> QED BY <5>2, <5>3
      <4> QED BY <4>1, <4>2
    <3> QED BY <3>6, <3>7, <3>8 DEF GapOK
  <2> QED BY <2>1, <2>2
<1> HIDE DEF b
<1>7. PICK u : u = EndOf(b, rec)
  OBVIOUS
<1>8. u.ts = rec /\ u.down = g.down /\ u.final = b.final /\ u.pairUp = b.pairUp
  <2>1. b.down = g.down
    BY <1>0, BoundedIs DEF b
  <2> QED BY <1>7, <2>1 DEF EndOf
<1>9. g.down \in Downs(ocEvents)
  BY DEF GapOK
<1>10. EndOK(u)
  BY <1>3, <1>4, <1>5, <1>6, <1>8, <1>9 DEF EndOK
<1> QED BY <1>7, <1>10 DEF b

\* A set of things that have a 'down' has an earliest one.
LEMMA EarliestExists ==
    ASSUME NEW S, S # {}, \A h \in S : h.down \in Nat
    PROVE  \E h \in S : \A k \in S : h.down <= k.down
<1> DEFINE T == {h.down : h \in S}
<1>1. T \in SUBSET Nat /\ T # {}
  OBVIOUS
<1>2. PICK x \in T : \A y \in T : x <= y
  BY <1>1, LeastExists
<1>3. PICK h \in S : x = h.down
  OBVIOUS
<1> QED BY <1>2, <1>3

\* The search for one gap's end: past the line there is none to find.
LEMMA SearchesKeeps ==
    ASSUME Sound, NEW c \in Callers, CloseSearches(c)
    PROVE  Sound'
<1>0. Shape /\ Timely /\ Paired /\ Running /\ Listed /\ Jobs
  BY DEF Sound
<1>1. /\ ocEvents' = ocEvents /\ ocClock' = ocClock /\ ocMon' = ocMon /\ ocSamples' = ocSamples
      /\ ocMu' = ocMu /\ ocLive' = ocLive /\ ocJob[c].pc = "search" /\ ocJob[c].gaps # {}
  BY DEF CloseSearches
<1>2. PICK job : job = ocJob[c]
  OBVIOUS
<1>3. job \in Job /\ job.pc = "search"
  BY <1>0, <1>1, <1>2 DEF Shape
<1>4. /\ \A g \in job.gaps : g \in Gap /\ GapOK(g) /\ g.down \in Nat
      /\ \A u \in job.synth : EndOK(u)
      /\ OneEach(job.gaps) /\ OneEach(job.synth)
      /\ \A g \in job.gaps, u \in job.synth : g.down # u.down
      /\ ocMu = c /\ ocLive.closing
  BY <1>0, <1>1, <1>2, Seconds DEF Jobs, Closing, Gap
<1>5. PICK g : g = CHOOSE h \in job.gaps : \A k \in job.gaps : h.down <= k.down
  OBVIOUS
<1>6. g \in job.gaps
  <2>1. \E h \in job.gaps : \A k \in job.gaps : h.down <= k.down
    BY <1>1, <1>2, <1>4, EarliestExists
  <2> QED BY <1>5, <2>1
<1>7. PICK b : b = Bounded(g, Line)
  OBVIOUS
<1>8. PICK rec : rec = Recovery(b.down, b.end)
  OBVIOUS
<1>9. Changes(c, IF g.down >= Line THEN [job EXCEPT !.gaps = job.gaps \ {g}]
                 ELSE [job EXCEPT !.pc = "judge", !.gaps = job.gaps \ {g}, !.gap = {b}, !.rec = rec])
  BY <1>2, <1>5, <1>7, <1>8 DEF CloseSearches
<1>10. /\ b \in Gap /\ b.down = g.down /\ Line \in Nat
       /\ b.down \in Nat /\ b.end \in Nat /\ (b.end <= Line)
  <2>1. Line \in Nat
    BY <1>0, LineIs
  <2>2. g.end \in Nat /\ g \in Gap
    BY <1>4, <1>6 DEF Gap
  <2>3. b \in Gap /\ b.down = g.down
    BY <1>7, <2>1, <2>2, BoundedIs
  <2>4. b.end <= Line
    <3>1. CASE g.end <= Line
      BY <1>7, <2>1, <2>2, <3>1, BoundedIs
    <3>2. CASE g.end > Line
      BY <1>7, <2>1, <2>2, <3>2, BoundedIs
    <3> QED BY <2>1, <2>2, <3>1, <3>2
  <2> QED BY <2>1, <2>3, <2>4, Seconds DEF Gap
<1>11. rec = 0 \/ (rec \in Second /\ b.down < rec /\ rec <= b.end /\ ocSamples[rec] = "good")
  BY <1>0, <1>8, <1>10, RecoveryIs
<1>12. rec \in 0..Horizon
  BY <1>11, Seconds
<1>13. CASE g.down >= Line
  <2> DEFINE j == [job EXCEPT !.gaps = job.gaps \ {g}]
  <2>1. Changes(c, j)
    BY <1>9, <1>13
  <2>2. /\ j \in Job /\ j.pc = "search" /\ j.gaps = job.gaps \ {g} /\ j.synth = job.synth
    BY <1>3 DEF Job
  <2> HIDE DEF j
  <2>3. ocJob'[c] = j
    BY <1>0, <2>1, <2>2, JobChanges
  <2>4. \A h : GapOK(h)' <=> GapOK(h)
    BY <1>1, ListStands
  <2>5. \A u : EndOK(u)' <=> EndOK(u)
    BY <1>1, ListStands
  <2>6. \A h \in j.gaps : h \in Gap /\ GapOK(h)'
    BY <1>4, <2>2, <2>4
  <2>7. \A u \in j.synth : EndOK(u)'
    BY <1>4, <2>2, <2>5
  <2>8. Closing(c)'
    BY <1>1, <1>4, <2>2, <2>3, <2>6, <2>7 DEF Closing, OneEach
  <2>9. Waiting(c)' /\ Judging(c)' /\ Deleting(c)'
    BY <2>2, <2>3 DEF Waiting, Judging, Deleting
  <2>10. ocLive' \in List /\ ocSamples' \in [Second -> {"none", "good", "bad"}]
    BY <1>0, <1>1 DEF Shape
  <2> QED BY <1>1, <2>1, <2>2, <2>8, <2>9, <2>10, JobOnly
<1>14. CASE ~(g.down >= Line)
  <2> DEFINE j == [job EXCEPT !.pc = "judge", !.gaps = job.gaps \ {g}, !.gap = {b}, !.rec = rec]
  <2>1. Changes(c, j)
    BY <1>9, <1>14
  <2>2. /\ j \in Job /\ j.pc = "judge" /\ j.gaps = job.gaps \ {g} /\ j.synth = job.synth
        /\ j.gap = {b} /\ j.rec = rec
    BY <1>3, <1>10, <1>12 DEF Job, Positions
  <2> HIDE DEF j
  <2>3. ocJob'[c] = j
    BY <1>0, <2>1, <2>2, JobChanges
  <2>4. \A h : GapOK(h)' <=> GapOK(h)
    BY <1>1, ListStands
  <2>5. \A u : EndOK(u)' <=> EndOK(u)
    BY <1>1, ListStands
  <2>5a. \A t : Ours(t)' <=> Ours(t)
    BY <1>1, ListStands
  <2>6. \A h \in j.gaps : h \in Gap /\ GapOK(h)'
    BY <1>4, <2>2, <2>4
  <2>7. \A u \in j.synth : EndOK(u)'
    BY <1>4, <2>2, <2>5
  <2>8. Closing(c)'
    BY <1>1, <1>4, <2>2, <2>3, <2>6, <2>7 DEF Closing, OneEach
  <2>9. \A h \in j.gaps \cup j.synth : h.down # b.down
    BY <1>4, <1>6, <1>10, <2>2 DEF OneEach
  <2>10. PICK u : u = EndOf(b, rec)
    OBVIOUS
  <2>11. rec = 0 \/ (b.down < rec /\ (Ours(rec) \/ EndOK(u)))
    <3> SUFFICES ASSUME rec # 0, ~Ours(rec) PROVE b.down < rec /\ EndOK(u)
      BY <1>11
    <3>1. rec \in Second /\ b.down < rec /\ rec <= b.end /\ ocSamples[rec] = "good" /\ rec \in Nat /\ rec <= Horizon
      BY <1>11, Seconds
    <3>2. rec < Line
      BY <1>0, <1>10, <3>1, LineIs
    <3>3. EndOK(EndOf(Bounded(g, Line), rec))
      <4>1. g \in Gap /\ GapOK(g) /\ g.down < rec /\ rec <= Bounded(g, Line).end
        BY <1>4, <1>6, <1>7, <1>10, <3>1
      <4> QED BY <1>0, <3>1, <3>2, <4>1, FoundIsEnd
    <3> QED BY <1>7, <2>10, <3>1, <3>3
  <2>12. rec = 0 \/ (b.down < rec /\ (Ours(rec)' \/ EndOK(EndOf(b, rec))'))
    <3>1. EndOK(u)' <=> EndOK(EndOf(b, rec))'
      BY <2>10 DEF EndOK, EndOf
    <3> QED BY <2>5, <2>5a, <2>11, <3>1
  <2>13. Judging(c)'
    BY <1>10, <2>2, <2>3, <2>9, <2>12 DEF Judging
  <2>14. Waiting(c)' /\ Deleting(c)'
    BY <2>2, <2>3 DEF Waiting, Deleting
  <2>15. ocLive' \in List /\ ocSamples' \in [Second -> {"none", "good", "bad"}]
    BY <1>0, <1>1 DEF Shape
  <2> QED BY <1>1, <2>1, <2>2, <2>8, <2>13, <2>14, <2>15, JobOnly
<1> QED BY <1>13, <1>14

\* The judgement takes no end at or past the line as it stands then.
LEMMA JudgesKeeps ==
    ASSUME Sound, NEW c \in Callers, CloseJudges(c)
    PROVE  Sound'
<1>0. Shape /\ Timely /\ Paired /\ Running /\ Listed /\ Jobs
  BY DEF Sound
<1>1. /\ ocEvents' = ocEvents /\ ocClock' = ocClock /\ ocMon' = ocMon /\ ocSamples' = ocSamples
      /\ ocMu' = ocMu /\ ocLive' = ocLive /\ ocJob[c].pc = "judge"
  BY DEF CloseJudges
<1>2. PICK job : job = ocJob[c]
  OBVIOUS
<1>3. job \in Job /\ job.pc = "judge" /\ job.rec \in 0..Horizon
  BY <1>0, <1>1, <1>2 DEF Shape, Job
<1>4. /\ \A g \in job.gaps : g \in Gap /\ GapOK(g)
      /\ \A u \in job.synth : EndOK(u)
      /\ OneEach(job.gaps) /\ OneEach(job.synth)
      /\ \A g \in job.gaps, u \in job.synth : g.down # u.down
      /\ ocMu = c /\ ocLive.closing
  BY <1>0, <1>1, <1>2 DEF Jobs, Closing
<1>5. PICK g \in Gap :
         /\ job.gap = {g}
         /\ \A h \in job.gaps \cup job.synth : h.down # g.down
         /\ job.rec = 0 \/ (g.down < job.rec /\ (Ours(job.rec) \/ EndOK(EndOf(g, job.rec))))
  BY <1>0, <1>1, <1>2 DEF Jobs, Judging
<1>6. PICK u : u = [ts |-> job.rec, down |-> g.down, final |-> g.final, pairUp |-> g.pairUp]
  OBVIOUS
<1>7. PICK due \in BOOLEAN : due <=> Due(job, g)
  OBVIOUS
<1>8. (CHOOSE h \in job.gap : TRUE) = g
  BY <1>5
<1>9. Changes(c, [job EXCEPT !.pc = "search", !.gap = {}, !.rec = 0,
                             !.synth = IF due THEN job.synth \cup {u} ELSE job.synth])
  BY <1>2, <1>6, <1>7, <1>8 DEF CloseJudges
<1>10. g.down \in Second /\ g.down \in Nat /\ g.final \in BOOLEAN /\ g.pairUp \in 0..Horizon
  BY <1>5, Seconds DEF Gap
<1>11. due => u \in End /\ EndOK(u) /\ u.down = g.down
  <2> SUFFICES ASSUME due PROVE u \in End /\ EndOK(u)
    BY <1>6
  <2>1. job.rec > g.down /\ job.rec < Line
    BY <1>7 DEF Due
  <2>2. job.rec # 0 /\ job.rec \in Nat /\ job.rec <= Horizon /\ Line \in Nat /\ job.rec \in Second
    BY <1>0, <1>3, <1>10, <2>1, LineIs, Seconds
  <2>3. ~Ours(job.rec)
    BY <1>0, <2>1, <2>2, LineIs
  <2>4. EndOK(EndOf(g, job.rec)) /\ EndOf(g, job.rec) = u
    BY <1>5, <1>6, <2>2, <2>3 DEF EndOf
  <2>5. u \in End
    BY <1>6, <1>10, <2>2 DEF End
  <2> QED BY <2>4, <2>5
<1> DEFINE s == IF due THEN job.synth \cup {u} ELSE job.synth
           j == [job EXCEPT !.pc = "search", !.gap = {}, !.rec = 0, !.synth = s]
<1>12. s \in SUBSET End /\ OneEach(s) /\ (\A v \in s : EndOK(v)) /\ (\A h \in job.gaps, v \in s : h.down # v.down)
  <2>1. job.synth \in SUBSET End
    BY <1>3 DEF Job
  <2>2. CASE due
    BY <2>1, <2>2, <1>4, <1>5, <1>11 DEF OneEach
  <2>3. CASE ~due
    BY <2>1, <2>3, <1>4
  <2> QED BY <2>2, <2>3
<1> HIDE DEF s
<1>13. Changes(c, j)
  BY <1>9 DEF s
<1>14. /\ j \in Job /\ j.pc = "search" /\ j.gaps = job.gaps /\ j.synth = s
  <2>1. 0 \in 0..Horizon
    BY Seconds
  <2> QED BY <1>3, <1>12, <2>1 DEF Job, Positions
<1> HIDE DEF j
<1>15. ocJob'[c] = j
  BY <1>0, <1>13, <1>14, JobChanges
<1>16. \A h : GapOK(h)' <=> GapOK(h)
  BY <1>1, ListStands
<1>17. \A v : EndOK(v)' <=> EndOK(v)
  BY <1>1, ListStands
<1>18. Closing(c)'
  <2>1. \A h \in j.gaps : h \in Gap /\ GapOK(h)'
    BY <1>4, <1>14, <1>16
  <2>2. \A v \in j.synth : EndOK(v)'
    BY <1>12, <1>14, <1>17
  <2> QED BY <1>1, <1>4, <1>12, <1>14, <1>15, <2>1, <2>2 DEF Closing
<1>19. Waiting(c)' /\ Judging(c)' /\ Deleting(c)'
  BY <1>14, <1>15 DEF Waiting, Judging, Deleting
<1>20. ocLive' \in List /\ ocSamples' \in [Second -> {"none", "good", "bad"}]
  BY <1>0, <1>1 DEF Shape
<1> QED BY <1>1, <1>13, <1>14, <1>18, <1>19, <1>20, JobOnly

\* The 'up' a written end moves is one on disk, and no other 'up' past the end
\* is left to the outage it ends.
LEMMA MovedIs ==
    ASSUME Shape, NEW u, EndOK(u), NEW gone,
           gone = {[ts |-> t, type |-> "up"] : t \in MovedFrom(u)} \cap ocEvents
    PROVE  /\ gone \subseteq ocEvents /\ Downs(gone) = {} /\ Ups(gone) \subseteq Ups(ocEvents)
           /\ \A w \in WholeUps : u.ts < w /\ w \notin Ups(gone) =>
                 \/ \E d \in WholeDowns : u.ts < d /\ d <= w
                 \/ \E x \in WholeUps : u.ts <= x /\ x < w
<1> USE WholeSeconds
<1>1. gone \subseteq ocEvents /\ Ups(gone) \subseteq Ups(ocEvents)
  BY DEF Ups
<1>2. \A e \in gone : e.type = "up"
  OBVIOUS
<1>3. Downs(gone) = {}
  <2> SUFFICES ASSUME NEW t \in Downs(gone) PROVE FALSE
    BY DEF Downs
  <2>1. [ts |-> t, type |-> "down"] \in gone
    BY DEF Downs
  <2>2. [ts |-> t, type |-> "down"].type = "up"
    BY <1>2, <2>1
  <2> QED BY <2>2
<1>4. u.ts \in Nat /\ u.down \in Nat /\ u.down < u.ts /\ u.down \in Downs(ocEvents)
  BY DEF EndOK
<1>5. ASSUME NEW t \in MovedFrom(u), t \in Ups(ocEvents) PROVE t \in Ups(gone)
  <2>1. [ts |-> t, type |-> "up"] \in ocEvents /\ t \in Second
    BY <1>5 DEF Ups
  <2>2. [ts |-> t, type |-> "up"] \in gone
    BY <2>1
  <2> QED BY <2>1, <2>2 DEF Ups
<1>6. ASSUME NEW w \in WholeUps, u.ts < w, w \notin Ups(gone)
      PROVE  \/ \E d \in WholeDowns : u.ts < d /\ d <= w
             \/ \E x \in WholeUps : u.ts <= x /\ x < w
  <2>0. w \in Nat /\ w \in Second
    OBVIOUS
  <2>1. \/ \E d \in WholeDowns : u.ts < d /\ d <= w
        \/ w \in Ups(ocEvents) /\ (w = u.pairUp \/ (u.pairUp = 0 /\ u.final))
    BY <1>6 DEF EndOK
  <2>2. CASE w \in Ups(ocEvents) /\ w = u.pairUp
    <3>1. u.pairUp # 0
      BY <2>0, <2>2
    <3>2. MovedFrom(u) = {u.pairUp}
      BY <3>1 DEF MovedFrom
    <3> QED BY <2>2, <3>2, <1>5, <1>6
  <2>3. CASE w \in Ups(ocEvents) /\ u.pairUp = 0 /\ u.final
    <3> DEFINE S == {f \in ocEvents : f.ts > u.down}
               e == [ts |-> w, type |-> "up"]
               next == {f \in ocEvents : f.ts > u.down /\ \A g \in ocEvents : g.ts > u.down => ~Before(g, f)}
    <3>1. e \in ocEvents /\ e.ts = w /\ e.type = "up" /\ w > u.down
      BY <2>0, <2>3, <1>4, <1>6 DEF Ups
    <3>2. S \in SUBSET Event /\ S # {} /\ e \in S
      BY <3>1 DEF Shape
    <3>3. PICK n \in S : \A f \in S \ {n} : Before(n, f)
      BY <3>2, FirstEvent
    <3>4. n \in ocEvents /\ n \in Event /\ n.ts > u.down /\ n.ts \in Second /\ n.ts \in Nat /\ n.type \in {"down", "up"}
          /\ n = [ts |-> n.ts, type |-> n.type]
      BY <3>2, EventIs
    <3>5. n \in next
      <4> SUFFICES ASSUME NEW g \in ocEvents, g.ts > u.down PROVE ~Before(g, n)
        BY <3>4
      <4>1. g \in S /\ g.ts \in Nat /\ g.type \in {"down", "up"}
        BY EventIs DEF Shape
      <4>2. CASE g = n
        BY <3>4, <4>2 DEF Before
      <4>3. CASE g # n
        <5>1. Before(n, g)
          BY <3>3, <4>1, <4>3
        <5> QED BY <3>4, <4>1, <5>1 DEF Before
      <4> QED BY <4>2, <4>3
    <3>6. CASE n.type = "down"
      <4>1. n.ts \in WholeDowns
        BY <3>4, <3>6 DEF WholeDowns, Downs
      <4>2. u.ts < n.ts
        BY <3>4, <4>1 DEF EndOK
      <4>3. n.ts <= w
        <5>1. n # e
          BY <3>1, <3>6
        <5>2. Before(n, e)
          BY <3>2, <3>3, <5>1
        <5> QED BY <2>0, <3>1, <3>4, <5>2 DEF Before
      <4> QED BY <4>1, <4>2, <4>3
    <3>7. CASE n.type = "up"
      <4>1. n.ts \in Ups(ocEvents) /\ n.ts \in WholeUps
        BY <3>4, <3>7 DEF WholeUps, Ups
      <4>2. n.ts \in MovedFrom(u)
        <5>1. MovedFrom(u) = {f.ts : f \in {m \in next : m.type = "up"}}
          BY <2>3 DEF MovedFrom
        <5> QED BY <3>5, <3>7, <5>1
      <4>3. n.ts \in Ups(gone)
        BY <4>1, <4>2, <1>5
      <4>4. n # e
        BY <3>1, <4>3, <1>6
      <4>5. Before(n, e)
        BY <3>2, <3>3, <4>4
      <4>6. n.ts < w
        BY <2>0, <3>1, <3>4, <3>7, <4>5 DEF Before
      <4>7. u.ts <= n.ts
        BY <3>4, <4>1, <1>4 DEF EndOK
      <4> QED BY <4>1, <4>6, <4>7
    <3> QED BY <3>4, <3>6, <3>7
  <2> QED BY <2>1, <2>2, <2>3
<1> QED BY <1>1, <1>3, <1>6

\* The write of an end: in the outage it ends there is nothing else, every 'up'
\* past it keeps an outage of its own, and the other ends stay as good.
LEMMA WritesKeeps ==
    ASSUME Sound, NEW c \in Callers, CloseWrites(c)
    PROVE  Sound'
<1> USE WholeSeconds
<1>0. Shape /\ Timely /\ Paired /\ Running /\ Listed /\ Jobs
  BY DEF Sound
<1>1. /\ ocSamples' = ocSamples /\ ocClock' = ocClock /\ ocMon' = ocMon /\ ocMu' = ocMu /\ ocLive' = ocLive
      /\ ocJob[c].pc = "search" /\ ocJob[c].gaps = {} /\ ocJob[c].synth # {}
  BY DEF CloseWrites
<1>2. PICK job : job = ocJob[c]
  OBVIOUS
<1>3. job \in Job /\ job.pc = "search" /\ job.gaps = {} /\ job.synth # {} /\ job.synth \subseteq End
  BY <1>0, <1>1, <1>2 DEF Shape, Job
<1>4. (\A v \in job.synth : EndOK(v) /\ v.down \in Nat) /\ OneEach(job.synth) /\ ocMu = c /\ ocLive.closing
  <2>1. (\A v \in job.synth : EndOK(v)) /\ OneEach(job.synth) /\ ocMu = c /\ ocLive.closing
    BY <1>0, <1>1, <1>2 DEF Jobs, Closing
  <2>2. \A v \in job.synth : v.down \in Nat
    BY <1>3, Seconds DEF End
  <2> QED BY <2>1, <2>2
<1>5. PICK u : u = CHOOSE h \in job.synth : \A k \in job.synth : h.down <= k.down
  OBVIOUS
<1>6. u \in job.synth /\ \A k \in job.synth : u.down <= k.down
  <2>1. \E h \in job.synth : \A k \in job.synth : h.down <= k.down
    BY <1>3, <1>4, EarliestExists
  <2> QED BY <1>5, <2>1
<1>7. EndOK(u)
  BY <1>4, <1>6
<1>8. PICK gone : gone = {[ts |-> t, type |-> "up"] : t \in MovedFrom(u)} \cap ocEvents
  OBVIOUS
<1>9. PICK lost \in BOOLEAN : lost <=> (u.pairUp # 0 /\ gone = {})
  OBVIOUS
<1>10. /\ ocEvents' = IF lost THEN ocEvents ELSE (ocEvents \ gone) \cup {[ts |-> u.ts, type |-> "up"]}
       /\ Changes(c, [job EXCEPT !.synth = job.synth \ {u}])
  BY <1>2, <1>5, <1>8, <1>9 DEF CloseWrites
<1> DEFINE j == [job EXCEPT !.synth = job.synth \ {u}]
<1>11. j \in Job /\ j.pc = "search" /\ j.gaps = {} /\ j.synth = job.synth \ {u}
  BY <1>3 DEF Job
<1>12. Changes(c, j)
  BY <1>10
<1> HIDE DEF j
<1>13. ocJob' \in [Callers -> Job] /\ ocJob'[c] = j
  BY <1>0, <1>11, <1>12, JobChanges
<1>14. CASE lost
  <2>1. ocEvents' = ocEvents
    BY <1>10, <1>14
  <2>2. \A v : EndOK(v)' <=> EndOK(v)
    BY <1>1, <2>1, ListStands
  <2>3. \A v \in j.synth : EndOK(v)'
    BY <1>4, <1>11, <2>2
  <2>4. Closing(c)'
    BY <1>1, <1>4, <1>11, <1>13, <2>3 DEF Closing, OneEach
  <2>5. Waiting(c)' /\ Judging(c)' /\ Deleting(c)'
    BY <1>11, <1>13 DEF Waiting, Judging, Deleting
  <2>6. ocLive' \in List /\ ocSamples' \in [Second -> {"none", "good", "bad"}]
    BY <1>0, <1>1 DEF Shape
  <2> QED BY <1>1, <1>11, <1>12, <2>1, <2>4, <2>5, <2>6, JobOnly
<1>15. CASE ~lost
  <2> PICK t : t = u.ts
    OBVIOUS
  <2>1. /\ t \in Second /\ t \in Nat /\ u.down \in Nat /\ u.down < t /\ u.down \in Downs(ocEvents)
        /\ Past(t) /\ ~Ours(t) /\ u.down \in WholeDowns
    BY <1>7 DEF EndOK, WholeDowns
  <2>2. /\ gone \subseteq ocEvents /\ Downs(gone) = {} /\ Ups(gone) \subseteq Ups(ocEvents)
        /\ \A w \in WholeUps : t < w /\ w \notin Ups(gone) =>
              \/ \E d \in WholeDowns : t < d /\ d <= w
              \/ \E x \in WholeUps : t <= x /\ x < w
    BY <1>0, <1>7, <1>8, MovedIs
  <2>3. ocEvents' = (ocEvents \ gone) \cup {[ts |-> t, type |-> "up"]}
    BY <1>10, <1>15
  <2>4. Downs(ocEvents') = Downs(ocEvents) /\ Ups(ocEvents') = (Ups(ocEvents) \ Ups(gone)) \cup {t}
    <3> PICK A : A = ocEvents \ gone
      OBVIOUS
    <3>1. Downs(A) = Downs(ocEvents) /\ Ups(A) = Ups(ocEvents) \ Ups(gone)
      <4>1. Downs(ocEvents \ gone) = Downs(ocEvents) \ Downs(gone) /\ Ups(ocEvents \ gone) = Ups(ocEvents) \ Ups(gone)
        BY SecondsOfSets
      <4> QED BY <2>2, <4>1
    <3>2. Downs(A \cup {[ts |-> t, type |-> "up"]}) = Downs(A) /\ Ups(A \cup {[ts |-> t, type |-> "up"]}) = Ups(A) \cup {t}
      BY <2>1, OneMore
    <3> QED BY <2>3, <3>1, <3>2
  <2>5. WholeDowns' = WholeDowns
    BY <1>1, <2>4 DEF WholeDowns
  <2>6. \A w \in WholeUps' : w = t \/ (w \in WholeUps /\ w \notin Ups(gone))
    BY <1>0, <1>1, <2>2, <2>4 DEF WholeUps, Listed
  <2>7. /\ \A s : Past(s)' <=> Past(s)
        /\ \A s : Ours(s)' <=> Ours(s)
        /\ Ahead' = Ahead
    BY <1>1 DEF Past, Ours, Ahead
  <2>8. \A d \in WholeDowns : d \in Nat /\ (u.down < d => t < d)
    BY <1>7 DEF EndOK
  <2>9. \A v \in WholeUps : v \in Nat /\ (u.down <= v => t <= v)
    BY <1>7 DEF EndOK
  <2>10. Shape'
    <3>1. [ts |-> t, type |-> "up"] \in Event
      BY <2>1 DEF Event
    <3>2. ocEvents' \subseteq Event
      BY <1>0, <2>3, <3>1 DEF Shape
    <3> QED BY <1>0, <1>1, <1>13, <3>2 DEF Shape
  <2>11. Timely'
    <3>1. t <= Ahead
      <4>1. ocClock.now \in Nat /\ ocClock.lived \in Nat /\ ocClock.lived <= ocClock.now + 1
        BY <1>0 DEF Shape, Timely
      <4> QED BY <2>1, <4>1 DEF Past, Ahead
    <3>2. \A s \in WholeDowns' \cup WholeUps' : s <= Ahead'
      BY <1>0, <2>5, <2>6, <2>7, <3>1 DEF Timely
    <3>3. \A s \in Second : ocSamples'[s] = "good" => Past(s)' /\ s \notin WholeDowns'
      BY <1>0, <1>1, <2>5, <2>7 DEF Timely
    <3>4. \A s \in WholeUps' : s <= ocMon'.last \/ Past(s)'
      BY <1>0, <1>1, <2>1, <2>6, <2>7 DEF Timely
    <3> QED BY <1>0, <1>1, <2>7, <3>2, <3>3, <3>4 DEF Timely
  <2>12. Paired'
    <3> SUFFICES ASSUME NEW w \in WholeUps'
                 PROVE  \E d \in WholeDowns : d <= w /\ \A v \in WholeUps' : ~(d <= v /\ v < w)
      BY <2>5 DEF Paired
    <3>1. CASE w = t
      <4>1. \A v \in WholeUps' : ~(u.down <= v /\ v < t)
        BY <2>1, <2>6, <2>9
      <4> QED BY <2>1, <3>1, <4>1
    <3>2. CASE w # t
      <4>1. w \in WholeUps /\ w \notin Ups(gone) /\ w \in Nat
        BY <2>6, <3>2
      <4>2. PICK d \in WholeDowns : d <= w /\ \A v \in WholeUps : ~(d <= v /\ v < w)
        BY <1>0, <4>1 DEF Paired
      <4>3. CASE d <= t /\ t < w
        <5>1. PICK e \in WholeDowns : t < e /\ e <= w
          BY <2>1, <2>2, <2>9, <4>1, <4>2, <4>3
        <5>2. \A v \in WholeUps' : ~(e <= v /\ v < w)
          BY <2>1, <2>6, <2>9, <4>2, <4>3, <5>1
        <5> QED BY <5>1, <5>2
      <4>4. CASE ~(d <= t /\ t < w)
        BY <2>6, <4>2, <4>4
      <4> QED BY <4>3, <4>4
    <3> QED BY <3>1, <3>2
  <2>13. Running'
    <3> SUFFICES ASSUME ocMon.down # 0 PROVE Running'
      BY <1>1 DEF Running
    <3>1. /\ ocMon.down \in WholeDowns /\ ocMon.last = ocMon.down
          /\ \A v \in WholeUps : v < ocMon.down
          /\ \E o \in ocLive.open : o.down = ocMon.down /\ o.up = 0
      BY <1>0 DEF Running
    <3>2. t < ocMon.down
      BY <2>1, <3>1 DEF Ours
    <3>3. \A v \in WholeUps' : v < ocMon.down
      BY <2>6, <3>1, <3>2
    <3> QED BY <1>1, <2>5, <3>1, <3>3 DEF Running
  <2>14. Listed'
    <3>1. \A o \in ocLive.open : o.down \in Nat
      BY <1>0, Seconds DEF Shape, List, Outage
    <3>2. \A o \in ocLive.open : ~(o.down <= t)
      BY <2>1 DEF Ours
    <3>3. \A o \in ocLive'.open, v \in WholeUps' : o.down <= v => \E d \in WholeDowns' : o.down <= d /\ d <= v
      BY <1>0, <1>1, <2>5, <2>6, <3>2 DEF Listed
    <3>4. \A v \in Ups(ocMon'.held) :
             /\ v \notin Ups(ocEvents')
             /\ \E o \in ocLive'.open : o.up = 0 /\ o.down <= v
                   /\ \A x \in Ups(ocMon'.held) : ~(o.down <= x /\ x < v)
      <4> SUFFICES ASSUME NEW v \in Ups(ocMon.held)
                   PROVE  /\ v \notin Ups(ocEvents')
                          /\ \E o \in ocLive.open : o.up = 0 /\ o.down <= v
                                /\ \A x \in Ups(ocMon.held) : ~(o.down <= x /\ x < v)
        BY <1>1
      <4>1. /\ v \notin Ups(ocEvents)
            /\ \E o \in ocLive.open : o.up = 0 /\ o.down <= v
                  /\ \A x \in Ups(ocMon.held) : ~(o.down <= x /\ x < v)
        BY <1>0 DEF Listed
      <4>2. v # t
        BY <3>2, <4>1
      <4> QED BY <2>4, <4>1, <4>2
    <3>5. (\A o \in ocLive'.open : o.down <= ocMon'.last)
          /\ \A d \in Downs(ocMon'.held) : \E o \in ocLive'.open : o.down = d /\ ~o.downLanded
      BY <1>0, <1>1 DEF Listed
    <3> QED BY <3>3, <3>4, <3>5 DEF Listed
  <2>15. \A v \in j.synth : EndOK(v)'
    <3> SUFFICES ASSUME NEW v \in job.synth, v # u PROVE EndOK(v)'
      BY <1>11
    <3>1. /\ v.down \in Downs(ocEvents) /\ v.ts \in Second /\ v.down < v.ts
          /\ Past(v.ts) /\ ~Ours(v.ts) /\ v.down \in WholeDowns
          /\ \A s \in WholeDowns : v.down < s => v.ts < s
          /\ \A s \in WholeUps : v.down <= s => v.ts <= s
          /\ \A w \in WholeUps : v.ts < w =>
                \/ \E d \in WholeDowns : v.ts < d /\ d <= w
                \/ w \in Ups(ocEvents) /\ (w = v.pairUp \/ (v.pairUp = 0 /\ v.final))
      BY <1>4 DEF EndOK, WholeDowns
    <3>2. u.down < v.down /\ t < v.down /\ v.down \in Nat /\ v.ts \in Nat
      <4>1. u.down # v.down
        BY <1>4, <1>6 DEF OneEach
      <4> QED BY <1>4, <1>6, <2>1, <2>8, <3>1, <4>1
    <3>3. \A s \in WholeUps' : v.down <= s => v.ts <= s
      BY <2>1, <2>6, <3>1, <3>2
    <3>4. \A w \in WholeUps' : v.ts < w =>
             \/ \E d \in WholeDowns' : v.ts < d /\ d <= w
             \/ w \in Ups(ocEvents') /\ (w = v.pairUp \/ (v.pairUp = 0 /\ v.final))
      <4> SUFFICES ASSUME NEW w \in WholeUps', v.ts < w
                   PROVE  \/ \E d \in WholeDowns : v.ts < d /\ d <= w
                          \/ w \in Ups(ocEvents') /\ (w = v.pairUp \/ (v.pairUp = 0 /\ v.final))
        BY <2>5
      <4>1. w # t
        BY <2>1, <3>1, <3>2
      <4>2. w \in WholeUps /\ w \notin Ups(gone)
        BY <2>6, <4>1
      <4>3. w \in Ups(ocEvents) => w \in Ups(ocEvents')
        BY <2>4, <4>2
      <4> QED BY <3>1, <4>2, <4>3
    <3>5. Past(v.ts)' /\ ~Ours(v.ts)'
      BY <1>1, <3>1 DEF Past, Ours
    <3>6. \A s \in WholeDowns' : v.down < s => v.ts < s
      BY <2>5, <3>1
    <3>7. v.down \in Downs(ocEvents')
      BY <2>4, <3>1
    <3> QED BY <3>1, <3>3, <3>4, <3>5, <3>6, <3>7 DEF EndOK
  <2>16. Closing(c)'
    BY <1>1, <1>4, <1>11, <1>13, <2>15 DEF Closing, OneEach
  <2>17. Waiting(c)' /\ Judging(c)' /\ Deleting(c)'
    BY <1>11, <1>13 DEF Waiting, Judging, Deleting
  <2>18. \A x \in Callers \ {c} : Waiting(x)' /\ Closing(x)' /\ Judging(x)' /\ Deleting(x)'
    BY <1>0, <1>4, <1>11, <1>12, OthersWait
  <2> QED BY <2>10, <2>11, <2>12, <2>13, <2>14, <2>16, <2>17, <2>18 DEF Sound, Jobs
<1> QED BY <1>14, <1>15

\* What comes first of what follows an event.
LEMMA Next1Is ==
    ASSUME NEW events \in SUBSET Event, NEW e \in Event, Following(events, e) # {}
    PROVE  /\ Next1(events, e) \in Following(events, e)
           /\ \A g \in Following(events, e) \ {Next1(events, e)} : Before(Next1(events, e), g)
<1>1. Following(events, e) \in SUBSET Event
  BY DEF Following
<1>2. \E f \in Following(events, e) : \A g \in Following(events, e) \ {f} : Before(f, g)
  BY <1>1, FirstEvent
<1> QED BY <1>2 DEF Next1

\* The gaps of a reading: what the record has in one is past its end, and what
\* the monitor still holds is the monitor's.
LEMMA GapsAre ==
    ASSUME Shape, NEW now \in Nat, ocEvents' = ocEvents, ocMon' = ocMon,
           \A t \in Downs(ocMon.held) \cup Ups(ocMon.held) : Ours(t)'
    PROVE  /\ \A g \in Gaps(now) : g \in Gap /\ GapOK(g)'
           /\ OneEach(Gaps(now))
<1> USE WholeSeconds
<1> DEFINE seen == {e \in ocEvents : e.ts <= now + FutureSlack}
           At(d) ==
            IF Following(seen, d) = {}
            THEN [down |-> d.ts, end |-> now, final |-> TRUE, pairUp |-> 0]
            ELSE LET n == Next1(seen, d) IN
                 IF n.type = "down"
                 THEN [down |-> d.ts, end |-> n.ts, final |-> FALSE, pairUp |-> 0]
                 ELSE [down |-> d.ts, end |-> now, final |-> FALSE, pairUp |-> n.ts]
           Dangles(d) ==
            \/ Following(seen, d) = {}
            \/ LET n == Next1(seen, d) IN n.type = "down" \/ n.ts > now + Skew
<1>1. Gaps(now) = {At(d) : d \in {e \in seen : e.type = "down" /\ Dangles(e)}}
  BY DEF Gaps
<1>2. seen \in SUBSET Event /\ seen \subseteq ocEvents /\ FutureSlack \in Nat /\ Skew \in Nat
  BY OutageClosingAssumption DEF Shape
<1>3. \A d \in seen : d.ts \in Second /\ d.ts \in Nat /\ d.type \in {"down", "up"} /\ d = [ts |-> d.ts, type |-> d.type]
  BY <1>2, EventIs
<1>4. \A d : At(d).down = d.ts
  OBVIOUS
<1>5. OneEach(Gaps(now))
  <2> SUFFICES ASSUME NEW g \in Gaps(now), NEW h \in Gaps(now), g.down = h.down PROVE g = h
    BY DEF OneEach
  <2>1. PICK d \in seen : g = At(d) /\ d.type = "down"
    BY <1>1
  <2>2. PICK e \in seen : h = At(e) /\ e.type = "down"
    BY <1>1
  <2>3. d.ts = e.ts
    BY <1>4, <2>1, <2>2
  <2>4. d = e
    BY <1>3, <2>1, <2>2, <2>3
  <2> QED BY <2>1, <2>2, <2>4
<1>6. WholeDowns' = WholeDowns /\ WholeUps' = WholeUps
  BY DEF WholeDowns, WholeUps
<1>7. ASSUME NEW g \in Gaps(now) PROVE g \in Gap /\ GapOK(g)'
  <2>1. PICK d \in seen : g = At(d) /\ d.type = "down" /\ Dangles(d)
    BY <1>1
  <2>2. d \in Event /\ d.ts \in Second /\ d.ts \in Nat /\ d.ts \in Downs(ocEvents)
    <3>1. d = [ts |-> d.ts, type |-> "down"]
      BY <1>3, <2>1
    <3> QED BY <1>2, <1>3, <3>1 DEF Downs
  <2> DEFINE F == Following(seen, d)
             n == Next1(seen, d)
  <2>3. \A t \in Downs(ocEvents) : d.ts < t /\ t <= now + FutureSlack =>
            \E f \in F : f.ts = t /\ f.type = "down"
    <3> SUFFICES ASSUME NEW t \in Downs(ocEvents), d.ts < t, t <= now + FutureSlack
                 PROVE  \E f \in F : f.ts = t /\ f.type = "down"
      OBVIOUS
    <3> DEFINE f == [ts |-> t, type |-> "down"]
    <3>1. f \in ocEvents /\ f.ts = t /\ f.type = "down"
      BY DEF Downs
    <3> HIDE DEF f
    <3>2. f \in seen /\ Before(d, f)
      BY <3>1 DEF Before
    <3> QED BY <3>1, <3>2 DEF Following
  <2>4. \A t \in Ups(ocEvents) : d.ts <= t /\ t <= now + FutureSlack =>
            \E f \in F : f.ts = t /\ f.type = "up"
    <3> SUFFICES ASSUME NEW t \in Ups(ocEvents), d.ts <= t, t <= now + FutureSlack
                 PROVE  \E f \in F : f.ts = t /\ f.type = "up"
      OBVIOUS
    <3> DEFINE f == [ts |-> t, type |-> "up"]
    <3>1. f \in ocEvents /\ f.ts = t /\ f.type = "up"
      BY DEF Ups
    <3> HIDE DEF f
    <3>2. f \in seen /\ Before(d, f)
      BY <3>1, <2>1, <2>2 DEF Before
    <3> QED BY <3>1, <3>2 DEF Following
  <2>5. F # {} => /\ n \in seen /\ n.ts \in Second /\ n.ts \in Nat /\ n.type \in {"down", "up"}
                  /\ n = [ts |-> n.ts, type |-> n.type] /\ Before(d, n)
                  /\ \A f \in F : n.ts <= f.ts
    <3> SUFFICES ASSUME F # {}
                 PROVE  n \in F /\ \A f \in F : n.ts <= f.ts
      BY <1>3 DEF Following
    <3>1. n \in F /\ \A f \in F \ {n} : Before(n, f)
      BY <1>2, <2>2, Next1Is
    <3>2. \A f \in F : f \in seen
      BY DEF Following
    <3> HIDE DEF F, n
    <3>3. ASSUME NEW f \in F PROVE n.ts <= f.ts
      <4>1. n.ts \in Nat /\ f.ts \in Nat
        BY <1>3, <3>1, <3>2
      <4>2. CASE f = n
        BY <4>1, <4>2
      <4>3. CASE f # n
        <5>1. Before(n, f)
          BY <3>1, <4>3
        <5> QED BY <4>1, <5>1 DEF Before
      <4> QED BY <4>2, <4>3
    <3> QED BY <3>1, <3>3
  <2>6. \A t \in Downs(ocMon.held) \cup Ups(ocMon.held) : Ours(t)'
    OBVIOUS
  <2>7. now \in Nat /\ 0 \in 0..Horizon /\ \A t \in Second : t \in 0..Horizon
    BY Seconds
  <2>8. ASSUME NEW end \in Nat, NEW pairUp \in 0..Horizon, NEW final \in BOOLEAN,
               g = [down |-> d.ts, end |-> end, final |-> final, pairUp |-> pairUp],
               end <= now + FutureSlack,
               \A f \in F : end <= f.ts,
               \/ final /\ pairUp = 0
               \/ ~final /\ pairUp = 0 /\ end \in Downs(ocEvents)
               \/ /\ ~final /\ pairUp \in Ups(ocEvents) /\ pairUp >= end /\ pairUp <= now + FutureSlack
                  /\ \A f \in F : pairUp <= f.ts
        PROVE  g \in Gap /\ GapOK(g)'
    <3> HIDE DEF F
    <3>1. g \in Gap /\ g.down = d.ts /\ g.end = end /\ g.final = final /\ g.pairUp = pairUp
      BY <2>2, <2>8 DEF Gap
    <3>2. \A t \in WholeDowns : g.down < t => Ours(t)' \/ t >= g.end
      <4> SUFFICES ASSUME NEW t \in WholeDowns, d.ts < t, t \in Downs(ocEvents) PROVE t >= end
        BY <2>6, <3>1 DEF WholeDowns
      <4>1. t \in Nat
        OBVIOUS
      <4>2. CASE t <= now + FutureSlack
        BY <2>3, <2>8, <4>2
      <4>3. CASE ~(t <= now + FutureSlack)
        BY <1>2, <2>8, <4>1, <4>3
      <4> QED BY <4>2, <4>3
    <3>3. \A t \in WholeUps : g.down <= t => Ours(t)' \/ t >= g.end
      <4> SUFFICES ASSUME NEW t \in WholeUps, d.ts <= t, t \in Ups(ocEvents) PROVE t >= end
        BY <2>6, <3>1 DEF WholeUps
      <4>1. t \in Nat
        OBVIOUS
      <4>2. CASE t <= now + FutureSlack
        BY <2>4, <2>8, <4>2
      <4>3. CASE ~(t <= now + FutureSlack)
        BY <1>2, <2>8, <4>1, <4>3
      <4> QED BY <4>2, <4>3
    <3>4. \/ g.final /\ g.pairUp = 0
          \/ ~g.final /\ g.pairUp = 0 /\ g.end \in Downs(ocEvents)
          \/ /\ ~g.final /\ g.pairUp \in Ups(ocEvents) /\ g.pairUp >= g.end
             /\ \A t \in WholeUps : g.down <= t /\ t < g.pairUp => Ours(t)'
      <4>1. CASE final /\ pairUp = 0
        BY <3>1, <4>1
      <4>2. CASE ~final /\ pairUp = 0 /\ end \in Downs(ocEvents)
        BY <3>1, <4>2
      <4>3. CASE /\ ~final /\ pairUp \in Ups(ocEvents) /\ pairUp >= end /\ pairUp <= now + FutureSlack
                 /\ \A f \in F : pairUp <= f.ts
        <5>1. ASSUME NEW t \in WholeUps, d.ts <= t, t < pairUp PROVE Ours(t)'
          <6> SUFFICES ASSUME t \in Ups(ocEvents) PROVE FALSE
            BY <2>6 DEF WholeUps
          <6>1. t \in Nat /\ pairUp \in Nat
            BY <2>8, Seconds
          <6>2. t <= now + FutureSlack
            BY <1>2, <4>3, <5>1, <6>1
          <6>3. PICK f \in F : f.ts = t
            BY <2>4, <5>1, <6>2
          <6> QED BY <4>3, <5>1, <6>1, <6>3
        <5> QED BY <3>1, <4>3, <5>1
      <4> QED BY <2>8, <4>1, <4>2, <4>3
    <3> QED BY <1>6, <2>2, <3>1, <3>2, <3>3, <3>4 DEF GapOK
  <2>9. CASE F = {}
    <3>1. g = [down |-> d.ts, end |-> now, final |-> TRUE, pairUp |-> 0]
      BY <2>1, <2>9
    <3>2. now <= now + FutureSlack
      BY <1>2
    <3> QED BY <2>7, <2>8, <2>9, <3>1, <3>2
  <2>10. CASE F # {} /\ n.type = "down"
    <3>1. g = [down |-> d.ts, end |-> n.ts, final |-> FALSE, pairUp |-> 0]
      BY <2>1, <2>10
    <3>2. n.ts \in Nat /\ n.ts <= now + FutureSlack /\ n.ts \in Downs(ocEvents) /\ \A f \in F : n.ts <= f.ts
      <4>1. [ts |-> n.ts, type |-> "down"] \in ocEvents
        BY <1>2, <2>5, <2>10
      <4> QED BY <2>5, <2>10, <4>1 DEF Downs
    <3> HIDE DEF F, n
    <3> QED BY <2>7, <2>8, <3>1, <3>2
  <2>11. CASE F # {} /\ n.type # "down"
    <3>1. g = [down |-> d.ts, end |-> now, final |-> FALSE, pairUp |-> n.ts]
      BY <2>1, <2>11
    <3>2. n.ts > now + Skew
      BY <2>1, <2>11
    <3>3. n.ts \in Nat /\ n.ts \in Second /\ n.ts <= now + FutureSlack /\ n.ts \in Ups(ocEvents) /\ \A f \in F : n.ts <= f.ts
      <4>1. [ts |-> n.ts, type |-> "up"] \in ocEvents
        BY <1>2, <2>5, <2>11
      <4> QED BY <2>5, <2>11, <4>1 DEF Ups
    <3>4. now <= n.ts /\ now <= now + FutureSlack
      BY <1>2, <3>2, <3>3
    <3>5. \A f \in F : f.ts \in Nat /\ now <= f.ts
      <4>1. \A f \in F : f.ts \in Nat
        BY <1>3 DEF Following
      <4> QED BY <3>3, <3>4, <4>1
    <3> HIDE DEF F, n
    <3> QED BY <2>7, <2>8, <3>1, <3>3, <3>4, <3>5
  <2> QED BY <2>9, <2>10, <2>11
<1> QED BY <1>5, <1>7

\* A close begins: what it forgets has ended on disk, so the list still has
\* what the monitor holds and is in.
LEMMA BeginsKeeps ==
    ASSUME Sound, NEW c \in Callers, CloseBegins(c)
    PROVE  Sound'
<1> USE WholeSeconds
<1>0. Shape /\ Timely /\ Paired /\ Running /\ Listed /\ Jobs
  BY DEF Sound
<1>1. /\ ocEvents' = ocEvents /\ ocClock' = ocClock /\ ocMon' = ocMon /\ ocSamples' = ocSamples
      /\ ocMu = "free" /\ ocMu' = c /\ ocJob[c].pc = "wait"
      /\ ocLive' = [open |-> Forget(ocLive.open, ocJob[c].now + Skew), closing |-> TRUE,
                    waiting |-> ocLive.waiting - 1]
      /\ Changes(c, [ocJob[c] EXCEPT !.pc = "search", !.gaps = Gaps(ocJob[c].now)])
  BY DEF CloseBegins, TakesMu
<1>2. PICK job : job = ocJob[c]
  OBVIOUS
<1>3. job \in Job /\ job.pc = "wait" /\ job.synth = {} /\ job.now \in Nat
  <2>1. job \in Job /\ job.pc = "wait"
    BY <1>0, <1>1, <1>2 DEF Shape
  <2>2. job.synth = {}
    BY <1>0, <1>1, <1>2 DEF Jobs, Waiting
  <2> QED BY <2>1, <2>2 DEF Job
<1>4. PICK reached : reached = job.now + Skew
  OBVIOUS
<1>5. /\ ocLive'.open = Forget(ocLive.open, reached) /\ ocLive'.closing = TRUE
      /\ ocLive'.open \subseteq ocLive.open /\ ocLive' \in List
      /\ \A o \in ocLive.open : ~o.downLanded \/ o.up = 0 => o \in ocLive'.open
  <2>1. ocLive'.open = Forget(ocLive.open, reached) /\ ocLive'.closing = TRUE /\ ocLive'.waiting = ocLive.waiting - 1
        /\ ocLive' = [open |-> Forget(ocLive.open, reached), closing |-> TRUE, waiting |-> ocLive.waiting - 1]
    BY <1>1, <1>2, <1>4
  <2>2. /\ Forget(ocLive.open, reached) \subseteq ocLive.open
        /\ \A o \in ocLive.open : ~o.downLanded \/ o.up = 0 => o \in Forget(ocLive.open, reached)
    BY DEF Forget
  <2>3. ocLive.open \subseteq Outage /\ ocLive.waiting \in Int
    BY <1>0 DEF Shape, List
  <2> QED BY <2>1, <2>2, <2>3 DEF List
<1>6. WholeDowns' = WholeDowns /\ WholeUps' = WholeUps /\ Timely' /\ Paired'
  BY <1>0, <1>1, RecordStands
<1>7. \A t \in Downs(ocMon.held) \cup Ups(ocMon.held) : Ours(t)'
  <2>1. ASSUME NEW t \in Downs(ocMon.held) PROVE Ours(t)'
    <3>1. PICK o \in ocLive.open : o.down = t /\ ~o.downLanded
      BY <1>0 DEF Listed
    <3>2. o \in ocLive'.open /\ o.down <= t
      BY <1>5, <3>1
    <3> QED BY <3>2 DEF Ours
  <2>2. ASSUME NEW t \in Ups(ocMon.held) PROVE Ours(t)'
    <3>1. PICK o \in ocLive.open : o.up = 0 /\ o.down <= t
      BY <1>0 DEF Listed
    <3>2. o \in ocLive'.open
      BY <1>5, <3>1
    <3> QED BY <3>1, <3>2 DEF Ours
  <2> QED BY <2>1, <2>2
<1>8. PICK gaps : gaps = Gaps(job.now)
  OBVIOUS
<1>9. (\A g \in gaps : g \in Gap /\ GapOK(g)') /\ OneEach(gaps)
  BY <1>0, <1>1, <1>3, <1>7, <1>8, GapsAre
<1> DEFINE j == [job EXCEPT !.pc = "search", !.gaps = gaps]
<1>10. Changes(c, j)
  BY <1>1, <1>2, <1>8
<1>11. j \in Job /\ j.pc = "search" /\ j.gaps = gaps /\ j.synth = {}
  BY <1>3, <1>9 DEF Job, Positions
<1> HIDE DEF j
<1>12. ocJob' \in [Callers -> Job] /\ ocJob'[c] = j
  BY <1>0, <1>10, <1>11, JobChanges
<1>13. Shape'
  BY <1>0, <1>1, <1>5, <1>12 DEF Shape
<1>14. Running'
  BY <1>0, <1>1, <1>5, <1>6 DEF Running
<1>15. Listed'
  <2>1. \A o \in ocLive'.open : o.down <= ocMon'.last
    BY <1>0, <1>1, <1>5 DEF Listed
  <2>2. \A d \in Downs(ocMon'.held) : \E o \in ocLive'.open : o.down = d /\ ~o.downLanded
    BY <1>0, <1>1, <1>5 DEF Listed
  <2>3. \A v \in Ups(ocMon'.held) :
           /\ v \notin Ups(ocEvents')
           /\ \E o \in ocLive'.open : o.up = 0 /\ o.down <= v
                 /\ \A x \in Ups(ocMon'.held) : ~(o.down <= x /\ x < v)
    BY <1>0, <1>1, <1>5 DEF Listed
  <2>4. \A o \in ocLive'.open, v \in WholeUps' : o.down <= v => \E d \in WholeDowns' : o.down <= d /\ d <= v
    BY <1>0, <1>5, <1>6 DEF Listed
  <2> QED BY <2>1, <2>2, <2>3, <2>4 DEF Listed
<1>16. Closing(c)'
  BY <1>1, <1>5, <1>9, <1>11, <1>12 DEF Closing, OneEach
<1>17. Waiting(c)' /\ Judging(c)' /\ Deleting(c)'
  BY <1>11, <1>12 DEF Waiting, Judging, Deleting
<1>18. \A x \in Callers \ {c} : Waiting(x)' /\ Closing(x)' /\ Judging(x)' /\ Deleting(x)'
  BY <1>0, <1>1, <1>10, <1>11, OthersWait
<1> QED BY <1>6, <1>13, <1>14, <1>15, <1>16, <1>17, <1>18 DEF Sound, Jobs

-----------------------------------------------------------------------------
(* The other writers of the record                                         *)

\* A sweep takes a 'down' only with the 'up' after it, so what ends past the
\* cutoff keeps its outage.
LEMMA SweepKeeps ==
    ASSUME Sound, SweepEvents, ~ocSpoiled'
    PROVE  Sound'
<1> USE WholeSeconds
<1>0. Shape /\ Timely /\ Paired /\ Running /\ Listed /\ Jobs
  BY DEF Sound
<1>1. /\ ocClock' = ocClock /\ ocMon' = ocMon /\ ocSamples' = ocSamples /\ ocMu = "free" /\ ocMu' = ocMu
      /\ ocLive' = ocLive /\ Changes("pruner", NoJob)
      /\ ocSpoiled' = (ocSpoiled \/ \E e \in ocMon.held, f \in ocEvents \ ocEvents' : Before(e, f))
  BY DEF SweepEvents
<1>2. ~ \E e \in ocMon.held, f \in ocEvents \ ocEvents' : Before(e, f)
  BY <1>1, Zenon
<1>3. PICK job : job = ocJob["pruner"]
  OBVIOUS
<1>4. PICK cutoff \in 1..job.now :
         ocEvents' = {e \in ocEvents \ Swept(cutoff) : e.ts <= Max({job.now, ocClock.now}) + FutureSlack}
  BY <1>3 DEF SweepEvents
<1>5. job.now \in Nat /\ cutoff \in Nat /\ ocClock.now \in Nat /\ ocClock.lived \in Nat /\ FutureSlack \in Nat \ {0}
  <2>1. job \in Job
    BY <1>0, <1>3 DEF Shape, Callers
  <2>2. job.now \in Nat
    BY <2>1 DEF Job
  <2> QED BY <1>0, <1>4, <2>2, OutageClosingAssumption DEF Shape
<1>6. \A t \in WholeDowns \cup WholeUps : t <= Max({job.now, ocClock.now}) + FutureSlack
  <2> DEFINE S == {job.now, ocClock.now}
             n == job.now + ocClock.now
  <2>1. S \in SUBSET (0..n) /\ S # {} /\ n \in Nat
    BY <1>5
  <2>2. Max(S) \in S /\ \A y \in S : y <= Max(S)
    BY <2>1, MaxIsGreatest
  <2>3. Max(S) \in Nat /\ ocClock.now <= Max(S)
    BY <1>5, <2>2
  <2>4. Ahead \in Nat /\ Ahead <= ocClock.now + 1
    BY <1>5 DEF Ahead
  <2>5. \A t \in WholeDowns \cup WholeUps : t \in Nat /\ t <= Ahead
    BY <1>0 DEF Timely
  <2> QED BY <1>5, <2>3, <2>4, <2>5
<1>7. \A e \in ocEvents : e \notin ocEvents' <=> e \in Swept(cutoff)
  <2> TAKE e \in ocEvents
  <2>1. e.ts \in WholeDowns \cup WholeUps
    <3>1. e \in Event
      BY <1>0 DEF Shape
    <3>2. e.ts \in Downs(ocEvents) \/ e.ts \in Ups(ocEvents)
      BY <3>1, EventIs
    <3> QED BY <3>2 DEF WholeDowns, WholeUps
  <2>2. e.ts <= Max({job.now, ocClock.now}) + FutureSlack
    BY <1>6, <2>1
  <2> QED BY <1>4, <2>2
<1>8. ocEvents' \subseteq ocEvents /\ Downs(ocEvents') \subseteq Downs(ocEvents) /\ Ups(ocEvents') \subseteq Ups(ocEvents)
  <2>1. ocEvents' \subseteq ocEvents
    BY <1>4
  <2> QED BY <2>1 DEF Downs, Ups
<1>9. \A u \in Ups(ocEvents) : u < cutoff => u \notin Ups(ocEvents')
  <2> SUFFICES ASSUME NEW u \in Ups(ocEvents), u < cutoff PROVE u \notin Ups(ocEvents')
    OBVIOUS
  <2> DEFINE e == [ts |-> u, type |-> "up"]
  <2>1. e \in ocEvents /\ e.ts = u /\ e.type = "up"
    BY DEF Ups
  <2>2. e \in Swept(cutoff)
    BY <2>1 DEF Swept
  <2>3. e \notin ocEvents'
    BY <1>7, <2>1, <2>2
  <2> QED BY <2>3 DEF Ups
<1>10. \A d \in Downs(ocEvents) : d \notin Downs(ocEvents') => \E x \in Ups(ocEvents) : d < x /\ x < cutoff
  <2> SUFFICES ASSUME NEW d \in Downs(ocEvents), d \notin Downs(ocEvents')
               PROVE  \E x \in Ups(ocEvents) : d < x /\ x < cutoff
    OBVIOUS
  <2> DEFINE e == [ts |-> d, type |-> "down"]
  <2>1. e \in ocEvents /\ e.ts = d /\ e.type = "down" /\ d \in Second
    BY DEF Downs
  <2>2. e \notin ocEvents'
    BY <2>1 DEF Downs
  <2> HIDE DEF e
  <2>3. e \in Swept(cutoff)
    BY <1>7, <2>1, <2>2
  <2>4. PICK u \in ocEvents : u.type = "up" /\ u.ts > d /\ u.ts < cutoff
    BY <2>1, <2>3 DEF Swept
  <2>5. u \in Event
    BY <1>0 DEF Shape
  <2>6. u.ts \in Ups(ocEvents) /\ u.ts \in Nat
    BY <2>4, <2>5, EventIs
  <2>7. d < u.ts
    BY <2>1, <2>4, <2>6
  <2> QED BY <2>4, <2>6, <2>7
<1>11. \A h \in Ups(ocMon.held), x \in Ups(ocEvents) : x \notin Ups(ocEvents') => ~(h <= x)
  <2> SUFFICES ASSUME NEW h \in Ups(ocMon.held), NEW x \in Ups(ocEvents), x \notin Ups(ocEvents'), h <= x PROVE FALSE
    OBVIOUS
  <2>1. h # x /\ h \in Nat /\ x \in Nat
    BY <1>0 DEF Listed
  <2> DEFINE e == [ts |-> h, type |-> "up"]   f == [ts |-> x, type |-> "up"]
  <2>2. e \in ocMon.held /\ f \in ocEvents /\ f \notin ocEvents' /\ e.ts = h /\ f.ts = x
    BY DEF Ups
  <2> HIDE DEF e, f
  <2>3. Before(e, f)
    BY <2>1, <2>2 DEF Before
  <2> QED BY <1>2, <2>2, <2>3
<1>12. /\ WholeDowns' \subseteq WholeDowns /\ WholeUps' \subseteq WholeUps
       /\ WholeDowns' = Downs(ocEvents') \cup Downs(ocMon.held)
       /\ WholeUps' = Ups(ocEvents') \cup Ups(ocMon.held)
  BY <1>1, <1>8 DEF WholeDowns, WholeUps
\* What an 'up' that stays has before it, with no 'up' between, stays too.
<1>13. ASSUME NEW w \in WholeUps', NEW d \in WholeDowns, d <= w, \A v \in WholeUps : ~(d <= v /\ v < w)
       PROVE  d \in WholeDowns'
  <2> SUFFICES ASSUME d \in Downs(ocEvents), d \notin Downs(ocEvents') PROVE FALSE
    BY <1>12 DEF WholeDowns
  <2>1. PICK x \in Ups(ocEvents) : d < x /\ x < cutoff
    BY <1>10
  <2>2. x \in WholeUps /\ x \in Nat /\ d \in Nat /\ w \in Nat
    BY <1>12 DEF WholeUps
  <2>3. w <= x
    BY <1>13, <2>1, <2>2
  <2>4. x \notin Ups(ocEvents')
    BY <1>9, <2>1
  <2>5. CASE w \in Ups(ocEvents')
    <3>1. w < cutoff
      BY <1>5, <2>1, <2>2, <2>3
    <3> QED BY <1>8, <1>9, <2>5, <3>1
  <2>6. CASE w \in Ups(ocMon.held)
    BY <1>11, <2>3, <2>4, <2>6
  <2> QED BY <1>12, <2>5, <2>6
<1>14. /\ \A s : Past(s)' <=> Past(s)
       /\ Ahead' = Ahead
  BY <1>1 DEF Past, Ahead
<1>15. NoJob \in Job /\ NoJob.pc = "idle" /\ "pruner" \in Callers
  BY Seconds DEF NoJob, Job, Positions, Callers
<1>16. ocJob' \in [Callers -> Job] /\ ocJob'["pruner"] = NoJob
  BY <1>0, <1>1, <1>15, JobChanges
<1>17. Shape'
  BY <1>0, <1>1, <1>8, <1>16 DEF Shape
<1>18. Timely'
  <2>1. \A s \in Second : ocSamples'[s] = "good" => Past(s)' /\ s \notin WholeDowns'
    BY <1>0, <1>1, <1>12, <1>14 DEF Timely
  <2> QED BY <1>0, <1>1, <1>12, <1>14, <2>1 DEF Timely
<1>19. Paired'
  <2> SUFFICES ASSUME NEW w \in WholeUps'
               PROVE  \E d \in WholeDowns' : d <= w /\ \A v \in WholeUps' : ~(d <= v /\ v < w)
    BY DEF Paired
  <2>1. PICK d \in WholeDowns : d <= w /\ \A v \in WholeUps : ~(d <= v /\ v < w)
    BY <1>0, <1>12 DEF Paired
  <2>2. d \in WholeDowns'
    BY <1>13, <2>1
  <2> QED BY <1>12, <2>1, <2>2
<1>20. Running'
  <2> SUFFICES ASSUME ocMon.down # 0 PROVE Running'
    BY <1>1 DEF Running
  <2>1. /\ ocMon.down \in WholeDowns /\ ocMon.last = ocMon.down
        /\ \A v \in WholeUps : v < ocMon.down
        /\ \E o \in ocLive.open : o.down = ocMon.down /\ o.up = 0
    BY <1>0 DEF Running
  <2>2. ocMon.down \in WholeDowns'
    <3> SUFFICES ASSUME ocMon.down \in Downs(ocEvents), ocMon.down \notin Downs(ocEvents') PROVE FALSE
      BY <1>12, <2>1 DEF WholeDowns
    <3>1. PICK x \in Ups(ocEvents) : ocMon.down < x
      BY <1>10
    <3>2. x \in WholeUps /\ x \in Nat /\ ocMon.down \in Nat
      BY <2>1 DEF WholeUps
    <3> QED BY <2>1, <3>1, <3>2
  <2> QED BY <1>1, <1>12, <2>1, <2>2 DEF Running
<1>21. Listed'
  <2>1. (\A o \in ocLive'.open : o.down <= ocMon'.last)
        /\ \A d \in Downs(ocMon'.held) : \E o \in ocLive'.open : o.down = d /\ ~o.downLanded
    BY <1>0, <1>1 DEF Listed
  <2>2. \A v \in Ups(ocMon'.held) :
           /\ v \notin Ups(ocEvents')
           /\ \E o \in ocLive'.open : o.up = 0 /\ o.down <= v
                 /\ \A x \in Ups(ocMon'.held) : ~(o.down <= x /\ x < v)
    BY <1>0, <1>1, <1>8 DEF Listed
  <2>3. ASSUME NEW o \in ocLive.open, NEW w \in WholeUps', o.down <= w
        PROVE  \E d \in WholeDowns' : o.down <= d /\ d <= w
    <3>1. o.down \in Nat
      BY <1>0, Seconds DEF Shape, List, Outage
    <3>2. PICK d \in WholeDowns : o.down <= d /\ d <= w
      BY <1>0, <1>12, <2>3 DEF Listed
    <3>3. PICK e \in WholeDowns : e <= w /\ \A v \in WholeUps : ~(e <= v /\ v < w)
      BY <1>0, <1>12 DEF Paired
    <3>4. d \in Nat /\ e \in Nat /\ w \in Nat /\ \A v \in WholeUps : v \in Nat
      BY <1>12
    <3>5. CASE o.down <= e
      <4>1. e \in WholeDowns'
        BY <1>13, <3>3
      <4> QED BY <3>3, <3>5, <4>1
    <3>6. CASE ~(o.down <= e)
      <4>1. \A v \in WholeUps : ~(d <= v /\ v < w)
        BY <3>1, <3>2, <3>3, <3>4, <3>6
      <4>2. d \in WholeDowns'
        BY <1>13, <3>2, <4>1
      <4> QED BY <3>2, <4>2
    <3> QED BY <3>5, <3>6
  <2>4. \A o \in ocLive'.open, v \in WholeUps' : o.down <= v => \E d \in WholeDowns' : o.down <= d /\ d <= v
    BY <1>1, <2>3
  <2> QED BY <2>1, <2>2, <2>4 DEF Listed
<1>22. Waiting("pruner")' /\ Closing("pruner")' /\ Judging("pruner")' /\ Deleting("pruner")'
  BY <1>15, <1>16 DEF Waiting, Closing, Judging, Deleting
<1>23. \A x \in Callers \ {"pruner"} : Waiting(x)' /\ Closing(x)' /\ Judging(x)' /\ Deleting(x)'
  BY <1>0, <1>1, <1>15, OthersWait
<1> QED BY <1>17, <1>18, <1>19, <1>20, <1>21, <1>22, <1>23 DEF Sound, Jobs

\* The 'down's that belong to an 'up' come after every earlier 'up'.
LEMMA BelongingIs ==
    ASSUME Shape, NEW ts \in Second
    PROVE  \A d \in Belonging(ts) : d \in Second /\ d <= ts /\ \A v \in Ups(ocEvents) : v < ts => v < d
<1> USE WholeSeconds
<1> DEFINE S == {e.ts : e \in {f \in ocEvents : f.type = "up" /\ f.ts < ts}} \cup {0}
           downs == {e.ts : e \in {f \in ocEvents : f.type = "down" /\ f.ts <= ts /\ f.ts > Max(S)}}
<1>1. \A e \in ocEvents : e.ts \in Second
  BY EventIs DEF Shape
<1>2. S \in SUBSET (0..Horizon) /\ S # {} /\ Horizon \in Nat
  BY <1>1, Seconds
<1>3. Max(S) \in S /\ \A y \in S : y <= Max(S)
  BY <1>2, MaxIsGreatest
<1>4. Max(S) \in Nat
  BY <1>2, <1>3
<1>5. Belonging(ts) \subseteq downs
  BY DEF Belonging
<1>6. \A v \in Ups(ocEvents) : v < ts => v \in S
  <2> SUFFICES ASSUME NEW v \in Ups(ocEvents), v < ts PROVE v \in S
    OBVIOUS
  <2> DEFINE e == [ts |-> v, type |-> "up"]
  <2>1. e \in ocEvents /\ e.ts = v /\ e.type = "up"
    BY DEF Ups
  <2> HIDE DEF e
  <2>2. e \in {f \in ocEvents : f.type = "up" /\ f.ts < ts}
    BY <2>1
  <2> QED BY <2>1, <2>2
<1>7. \A d \in downs : d \in Second /\ d <= ts /\ Max(S) < d
  <2> SUFFICES ASSUME NEW d \in downs PROVE d \in Second /\ d <= ts /\ Max(S) < d
    OBVIOUS
  <2>1. PICK f \in ocEvents : d = f.ts /\ f.ts <= ts /\ f.ts > Max(S)
    OBVIOUS
  <2>2. d \in Second /\ d \in Nat
    BY <1>1, <2>1
  <2> HIDE DEF S
  <2> QED BY <1>4, <2>1, <2>2
<1> HIDE DEF S, downs
<1>8. ASSUME NEW d \in downs, NEW v \in Ups(ocEvents), v < ts PROVE v < d
  <2>1. v <= Max(S) /\ Max(S) < d /\ d \in Nat /\ v \in Nat
    BY <1>3, <1>6, <1>7, <1>8
  <2> QED BY <1>4, <2>1
<1> QED BY <1>5, <1>7, <1>8

\* The delete of one outage reads what belongs to its 'up' under the mutex.
LEMMA DeleteReadsKeeps ==
    ASSUME Sound, DeleteOutageReads, ~ocSpoiled'
    PROVE  Sound'
<1> USE WholeSeconds
<1>0. Shape /\ Timely /\ Paired /\ Running /\ Listed /\ Jobs
  BY DEF Sound
<1>1. /\ ocEvents' = ocEvents /\ ocClock' = ocClock /\ ocMon' = ocMon /\ ocSamples' = ocSamples
      /\ ocLive' = ocLive /\ ocMu = "free" /\ ocMu' = "web"
      /\ ocSpoiled' = (ocSpoiled \/ ocMon.held # {})
  BY DEF DeleteOutageReads, TakesMu
<1>2. ocMon.held = {}
  BY <1>1, Zenon
<1>3. PICK e \in ocEvents : e.type = "up"
         /\ Changes("web", [NoJob EXCEPT !.pc = "commit", !.cutoff = e.ts, !.gaps = Belonging(e.ts)])
  BY DEF DeleteOutageReads
<1>4. e.ts \in Ups(ocEvents) /\ e.ts \in Second /\ e.ts \in Nat
  <2>1. e \in Event
    BY <1>0 DEF Shape
  <2>2. e.ts \in Ups(ocEvents)
    BY <1>3, <2>1, EventIs
  <2> QED BY <2>2
<1>5. PICK downs : downs = Belonging(e.ts)
  OBVIOUS
<1>6. \A d \in downs : d \in Second /\ d <= e.ts /\ \A v \in Ups(ocEvents) : v < e.ts => v < d
  BY <1>0, <1>4, <1>5, BelongingIs
<1> DEFINE j == [NoJob EXCEPT !.pc = "commit", !.cutoff = e.ts, !.gaps = downs]
<1>7. Changes("web", j)
  BY <1>3, <1>5
<1>8. j \in Job /\ j.pc = "commit" /\ j.cutoff = e.ts /\ j.gaps = downs
  <2>1. 0 \in 0..Horizon /\ downs \subseteq Second
    BY <1>6, Seconds
  <2> QED BY <1>4, <2>1 DEF NoJob, Job, Positions
<1> HIDE DEF j
<1>9. "web" \in Callers
  BY DEF Callers
<1>10. ocJob' \in [Callers -> Job] /\ ocJob'["web"] = j
  BY <1>0, <1>7, <1>8, <1>9, JobChanges
<1>11. Shape'
  BY <1>0, <1>1, <1>10 DEF Shape
<1>12. Timely' /\ Paired' /\ WholeUps' = WholeUps
  BY <1>0, <1>1, RecordStands
<1>13. Running' /\ Listed'
  BY <1>0, <1>1, ListStands
<1>14. WholeUps = Ups(ocEvents)
  <2>1. Ups(ocMon.held) = {}
    BY <1>2, SecondsOfSets
  <2> QED BY <2>1 DEF WholeUps
<1>15. Deleting("web")'
  BY <1>1, <1>4, <1>6, <1>8, <1>10, <1>12, <1>14 DEF Deleting
<1>16. Waiting("web")' /\ Closing("web")' /\ Judging("web")'
  BY <1>8, <1>10 DEF Waiting, Closing, Judging
<1>17. \A x \in Callers \ {"web"} : Waiting(x)' /\ Closing(x)' /\ Judging(x)' /\ Deleting(x)'
  BY <1>0, <1>1, <1>7, <1>8, <1>9, OthersWait
<1> QED BY <1>11, <1>12, <1>13, <1>15, <1>16, <1>17 DEF Sound, Jobs

\* It deletes an 'up' with all that belongs to it: every other 'up' has a
\* 'down' past it or before what belongs to it.
LEMMA DeleteCommitsKeeps ==
    ASSUME Sound, DeleteOutageCommits, ~ocSpoiled'
    PROVE  Sound'
<1> USE WholeSeconds
<1>0. Shape /\ Timely /\ Paired /\ Running /\ Listed /\ Jobs
  BY DEF Sound
<1>1. /\ ocClock' = ocClock /\ ocMon' = ocMon /\ ocSamples' = ocSamples
      /\ ocLive' = ocLive /\ ocMu' = "free" /\ ocJob["web"].pc = "commit" /\ Changes("web", NoJob)
      /\ ocSpoiled' = (ocSpoiled \/ ocMon.held # {})
  BY DEF DeleteOutageCommits
<1>2. ocMon.held = {}
  BY <1>1, Zenon
<1>3. "web" \in Callers
  BY DEF Callers
<1>4. PICK x : x = ocJob["web"].cutoff
  OBVIOUS
<1>5. PICK downs : downs = ocJob["web"].gaps
  OBVIOUS
<1>6. /\ ocMu = "web" /\ x \in Ups(ocEvents)
      /\ \A d \in downs : d \in Second /\ d <= x /\ \A v \in WholeUps : v < x => v < d
  <2>1. Deleting("web")
    BY <1>0, <1>3 DEF Jobs
  <2> QED BY <1>1, <1>4, <1>5, <2>1 DEF Deleting
<1>7. ocEvents' = ocEvents \ ({[ts |-> x, type |-> "up"]} \cup {[ts |-> d, type |-> "down"] : d \in downs})
  <2>1. [ts |-> x, type |-> "up"] \in ocEvents
    BY <1>6 DEF Ups
  <2> QED BY <1>4, <1>5, <2>1 DEF DeleteOutageCommits
<1>8. Downs(ocMon.held) = {} /\ Ups(ocMon.held) = {}
  BY <1>2, SecondsOfSets
<1>9. /\ WholeDowns = Downs(ocEvents) /\ WholeUps = Ups(ocEvents)
      /\ WholeDowns' = Downs(ocEvents') /\ WholeUps' = Ups(ocEvents')
  BY <1>1, <1>8 DEF WholeDowns, WholeUps
<1>10. ocEvents' \subseteq ocEvents /\ WholeDowns' \subseteq WholeDowns /\ WholeUps' \subseteq WholeUps
  <2>1. ocEvents' \subseteq ocEvents
    BY <1>7
  <2> QED BY <1>9, <2>1 DEF Downs, Ups
<1>11. \A u \in WholeUps' : u # x
  <2> SUFFICES x \notin Ups(ocEvents')
    BY <1>9
  <2> QED BY <1>7 DEF Ups
<1>12. \A d \in WholeDowns : d \notin downs => d \in WholeDowns'
  <2> SUFFICES ASSUME NEW d \in Downs(ocEvents), d \notin downs PROVE d \in Downs(ocEvents')
    BY <1>9
  <2> DEFINE e == [ts |-> d, type |-> "down"]
  <2>1. e \in ocEvents /\ d \in Second /\ e.ts = d /\ e.type = "down"
    BY DEF Downs
  <2>2. e # [ts |-> x, type |-> "up"]
    <3>1. [ts |-> x, type |-> "up"].type = "up"
      OBVIOUS
    <3> QED BY <2>1, <3>1
  <2>3. e \notin {[ts |-> y, type |-> "down"] : y \in downs}
    <3> SUFFICES ASSUME NEW y \in downs, e = [ts |-> y, type |-> "down"] PROVE FALSE
      OBVIOUS
    <3>1. [ts |-> y, type |-> "down"].ts = y
      OBVIOUS
    <3> QED BY <2>1, <3>1
  <2> QED BY <1>7, <2>1, <2>2, <2>3 DEF Downs
\* A 'down' past every earlier 'up' of an 'up' that stays stays with it.
<1>13. ASSUME NEW w \in WholeUps', NEW d \in WholeDowns, d <= w, \A v \in WholeUps : ~(d <= v /\ v < w)
       PROVE  d \in WholeDowns'
  <2> SUFFICES ASSUME d \in downs PROVE FALSE
    BY <1>12
  <2>1. w \in WholeUps /\ w # x /\ w \in Nat /\ x \in Nat /\ d \in Nat /\ x \in WholeUps
    BY <1>6, <1>9, <1>10, <1>11
  <2>2. d <= x /\ (w < x => w < d)
    BY <1>6, <2>1
  <2>3. ~(x < w)
    BY <1>13, <2>1, <2>2
  <2> QED BY <1>13, <2>1, <2>2, <2>3
<1>14. /\ \A s : Past(s)' <=> Past(s)
       /\ Ahead' = Ahead
  BY <1>1 DEF Past, Ahead
<1>15. NoJob \in Job /\ NoJob.pc = "idle"
  BY Seconds DEF NoJob, Job, Positions
<1>16. ocJob' \in [Callers -> Job] /\ ocJob'["web"] = NoJob
  BY <1>0, <1>1, <1>3, <1>15, JobChanges
<1>17. Shape'
  BY <1>0, <1>1, <1>10, <1>16 DEF Shape
<1>18. Timely'
  <2>1. \A s \in Second : ocSamples'[s] = "good" => Past(s)' /\ s \notin WholeDowns'
    BY <1>0, <1>1, <1>10, <1>14 DEF Timely
  <2> QED BY <1>0, <1>1, <1>10, <1>14, <2>1 DEF Timely
<1>19. Paired'
  <2> SUFFICES ASSUME NEW w \in WholeUps'
               PROVE  \E d \in WholeDowns' : d <= w /\ \A v \in WholeUps' : ~(d <= v /\ v < w)
    BY DEF Paired
  <2>1. PICK d \in WholeDowns : d <= w /\ \A v \in WholeUps : ~(d <= v /\ v < w)
    BY <1>0, <1>10 DEF Paired
  <2>2. d \in WholeDowns'
    BY <1>13, <2>1
  <2> QED BY <1>10, <2>1, <2>2
<1>20. Running'
  <2> SUFFICES ASSUME ocMon.down # 0 PROVE Running'
    BY <1>1 DEF Running
  <2>1. /\ ocMon.down \in WholeDowns /\ ocMon.last = ocMon.down
        /\ \A v \in WholeUps : v < ocMon.down
        /\ \E o \in ocLive.open : o.down = ocMon.down /\ o.up = 0
    BY <1>0 DEF Running
  <2>2. ocMon.down \in WholeDowns'
    <3> SUFFICES ASSUME ocMon.down \in downs PROVE FALSE
      BY <1>12, <2>1
    <3>1. ocMon.down <= x /\ x < ocMon.down /\ x \in Nat /\ ocMon.down \in Nat
      BY <1>6, <1>9, <2>1
    <3> QED BY <3>1
  <2> QED BY <1>1, <1>10, <2>1, <2>2 DEF Running
<1>21. Listed'
  <2>1. (\A o \in ocLive'.open : o.down <= ocMon'.last)
        /\ \A d \in Downs(ocMon'.held) : \E o \in ocLive'.open : o.down = d /\ ~o.downLanded
    BY <1>0, <1>1 DEF Listed
  <2>2. Ups(ocMon'.held) = {}
    BY <1>1, <1>8
  <2>3. ASSUME NEW o \in ocLive.open, NEW w \in WholeUps', o.down <= w
        PROVE  \E d \in WholeDowns' : o.down <= d /\ d <= w
    <3>1. o.down \in Nat
      BY <1>0, Seconds DEF Shape, List, Outage
    <3>2. PICK d \in WholeDowns : o.down <= d /\ d <= w
      BY <1>0, <1>10, <2>3 DEF Listed
    <3>3. PICK e \in WholeDowns : e <= w /\ \A v \in WholeUps : ~(e <= v /\ v < w)
      BY <1>0, <1>10 DEF Paired
    <3>4. d \in Nat /\ e \in Nat /\ w \in Nat /\ \A v \in WholeUps : v \in Nat
      BY <1>10
    <3>5. CASE o.down <= e
      <4>1. e \in WholeDowns'
        BY <1>13, <3>3
      <4> QED BY <3>3, <3>5, <4>1
    <3>6. CASE ~(o.down <= e)
      <4>1. \A v \in WholeUps : ~(d <= v /\ v < w)
        BY <3>1, <3>2, <3>3, <3>4, <3>6
      <4>2. d \in WholeDowns'
        BY <1>13, <3>2, <4>1
      <4> QED BY <3>2, <4>2
    <3> QED BY <3>5, <3>6
  <2>4. \A o \in ocLive'.open, v \in WholeUps' : o.down <= v => \E d \in WholeDowns' : o.down <= d /\ d <= v
    BY <1>1, <2>3
  <2> QED BY <2>1, <2>2, <2>4 DEF Listed
<1>22. Waiting("web")' /\ Closing("web")' /\ Judging("web")' /\ Deleting("web")'
  BY <1>15, <1>16 DEF Waiting, Closing, Judging, Deleting
<1>23. \A y \in Callers \ {"web"} : Waiting(y)' /\ Closing(y)' /\ Judging(y)' /\ Deleting(y)'
  BY <1>0, <1>1, <1>3, <1>6, <1>15, OthersWait
<1> QED BY <1>17, <1>18, <1>19, <1>20, <1>21, <1>22, <1>23 DEF Sound, Jobs

\* The downtime Delete now leaves nothing, on disk or in the monitor's hands.
LEMMA ClearKeeps ==
    ASSUME Sound, ClearDowntime, ~ocSpoiled'
    PROVE  Sound'
<1>0. Shape /\ Timely /\ Paired /\ Running /\ Listed /\ Jobs
  BY DEF Sound
<1>1. /\ ocEvents' = {} /\ ocClock' = ocClock /\ ocMon' = ocMon /\ ocSamples' = ocSamples
      /\ ocLive' = ocLive /\ ocMu = "free" /\ ocMu' = ocMu /\ ocJob' = ocJob
      /\ ocSpoiled' = (ocSpoiled \/ ocMon.down # 0 \/ ocMon.held # {})
  BY DEF ClearDowntime
<1>2. ocMon.down = 0 /\ ocMon.held = {}
  BY <1>1, Zenon
<1>3. /\ WholeDowns' = {} /\ WholeUps' = {}
      /\ Downs(ocMon'.held) = {} /\ Ups(ocMon'.held) = {}
  <2>1. Downs({}) = {} /\ Ups({}) = {}
    BY SecondsOfSets
  <2> QED BY <1>1, <1>2, <2>1 DEF WholeDowns, WholeUps
<1>4. Shape'
  BY <1>0, <1>1 DEF Shape
<1>5. \A s : Past(s)' <=> Past(s)
  BY <1>1 DEF Past
<1>6. Ahead' = Ahead
  BY <1>1 DEF Ahead
<1>7. Timely'
  BY <1>0, <1>1, <1>3, <1>5, <1>6 DEF Timely
<1>8. Paired' /\ Running' /\ Listed'
  BY <1>0, <1>1, <1>2, <1>3 DEF Paired, Running, Listed
<1>9. \A c \in Callers : Waiting(c)' /\ Closing(c)' /\ Judging(c)' /\ Deleting(c)'
  <2> TAKE c \in Callers
  <2>1. ocJob[c].pc \notin {"search", "judge", "commit"} /\ Waiting(c)
    BY <1>0, <1>1 DEF Jobs, Closing, Deleting, Callers
  <2> QED BY <1>1, <2>1 DEF Waiting, Closing, Judging, Deleting
<1> QED BY <1>4, <1>7, <1>8, <1>9 DEF Sound, Jobs

-----------------------------------------------------------------------------
(* The theorems                                                            *)

\* A first start finds at most one 'down', and nobody at work.
LEMMA InitSound ==
    ASSUME OcInit
    PROVE  Sound
<1>1. /\ ocEvents \in {{}, {[ts |-> 1, type |-> "down"]}} /\ ocSamples = [s \in Second |-> "none"]
      /\ ocClock = [now |-> 2, lived |-> 0] /\ ocMon = FreshMonitor(0) /\ ocLive = NoOutages /\ ocJob = NoJobs
  BY DEF OcInit
<1>2. 1 \in Second /\ Horizon \in Nat
  BY Seconds
<1>3. /\ ocMon.due = FALSE /\ ocMon.down = 0 /\ ocMon.held = {} /\ ocMon.last = 0 /\ ocMon \in Monitor
  BY <1>1, <1>2 DEF FreshMonitor, Monitor
<1>4. ocLive \in List /\ ocLive.open = {}
  BY <1>1 DEF NoOutages, List
<1>5. ocJob \in [Callers -> Job] /\ \A c \in Callers : ocJob[c].pc = "idle"
  <2>1. NoJob \in Job /\ NoJob.pc = "idle"
    BY Seconds DEF NoJob, Job, Positions
  <2> QED BY <1>1, <2>1 DEF NoJobs, Callers
<1>6. ocEvents \subseteq Event /\ Ups(ocEvents) = {} /\ Downs(ocEvents) \subseteq {1}
  <2>1. Downs({}) = {} /\ Ups({}) = {}
    BY SecondsOfSets
  <2>2. Downs({[ts |-> 1, type |-> "down"]}) = {1} /\ Ups({[ts |-> 1, type |-> "down"]}) = {}
    BY <1>2, SecondsOfOne
  <2>3. [ts |-> 1, type |-> "down"] \in Event
    BY <1>2 DEF Event
  <2> QED BY <1>1, <2>1, <2>2, <2>3
<1>7. WholeUps = {} /\ WholeDowns \subseteq {1} /\ Downs(ocMon.held) = {} /\ Ups(ocMon.held) = {}
  <2>1. Downs({}) = {} /\ Ups({}) = {}
    BY SecondsOfSets
  <2> QED BY <1>3, <1>6, <2>1 DEF WholeDowns, WholeUps
<1>8. Shape
  <2>1. ocSamples \in [Second -> {"none", "good", "bad"}] /\ ocClock \in [now : Nat, lived : Nat]
    BY <1>1
  <2> QED BY <1>3, <1>4, <1>5, <1>6, <2>1 DEF Shape
<1>9. Timely
  <2>1. Ahead = 2 /\ ocClock.lived <= ocClock.now + 1
    BY <1>1 DEF Ahead
  <2>2. \A s \in Second : ocSamples[s] # "good"
    BY <1>1
  <2> QED BY <1>3, <1>7, <2>1, <2>2 DEF Timely
<1>10. Paired /\ Running /\ Listed
  BY <1>3, <1>4, <1>7 DEF Paired, Running, Listed
<1>11. Jobs
  BY <1>5 DEF Jobs, Waiting, Closing, Judging, Deleting
<1> QED BY <1>8, <1>9, <1>10, <1>11 DEF Sound

\* What is spoiled stays so.
LEMMA StaysSpoiled ==
    ASSUME [OcNext]_ocVars, ocSpoiled
    PROVE  ocSpoiled'
<1>1. CASE BadRound \/ GoodRound
  BY <1>1 DEF BadRound, GoodRound
<1>2. CASE Retry \/ DaemonRestart \/ Tick \/ SetBack
  BY <1>2 DEF Retry, DaemonRestart, Tick, SetBack
<1>3. CASE \E c \in Callers : \/ CloseAsks(c) \/ CloseBegins(c) \/ CloseSearches(c)
                              \/ CloseJudges(c) \/ CloseWrites(c) \/ CloseEnds(c) \/ SamplesGo(c)
  BY <1>3 DEF CloseAsks, CloseBegins, CloseSearches, CloseJudges, CloseWrites, CloseEnds, SamplesGo
<1>4. CASE SweepEvents \/ DeleteOutageReads \/ DeleteOutageCommits \/ ClearDowntime
  BY <1>4 DEF SweepEvents, DeleteOutageReads, DeleteOutageCommits, ClearDowntime
<1>5. CASE UNCHANGED ocVars
  BY <1>5 DEF ocVars
<1> QED BY <1>1, <1>2, <1>3, <1>4, <1>5 DEF OcNext

\* A step of the monitor or of the clock is one that every job stands.
LEMMA MonitorSound ==
    ASSUME Sound, MonitorKeeps
    PROVE  Sound'
<1>1. Shape /\ Jobs /\ Shape' /\ MonitorMoves
  BY DEF Sound, MonitorKeeps
<1>2. Jobs'
  BY <1>1, JobsKept
<1> QED BY <1>2 DEF Sound, MonitorKeeps

\* The inductive step: one case for each action.
LEMMA StepKeeps ==
    ASSUME OcInv, [OcNext]_ocVars
    PROVE  OcInv'
<1> SUFFICES ASSUME ~ocSpoiled' PROVE Sound'
  BY DEF OcInv
<1>1. ~ocSpoiled
  BY StaysSpoiled
<1>2. Sound
  BY <1>1 DEF OcInv
<1>3. CASE BadRound
  BY <1>2, <1>3, BadRoundKeeps, MonitorSound
<1>4. CASE GoodRound
  BY <1>2, <1>4, GoodRoundKeeps, MonitorSound
<1>5. CASE Retry
  BY <1>2, <1>5, RetryKeeps, MonitorSound
<1>6. CASE Tick \/ SetBack
  BY <1>2, <1>6, ClockKeeps, MonitorSound
<1>7. CASE DaemonRestart
  BY <1>2, <1>7, RestartKeeps
<1>8. ASSUME NEW c \in Callers, CloseAsks(c) PROVE Sound'
  BY <1>2, <1>8, AsksKeeps
<1>9. ASSUME NEW c \in Callers, CloseBegins(c) PROVE Sound'
  BY <1>2, <1>9, BeginsKeeps
<1>10. ASSUME NEW c \in Callers, CloseSearches(c) PROVE Sound'
  BY <1>2, <1>10, SearchesKeeps
<1>11. ASSUME NEW c \in Callers, CloseJudges(c) PROVE Sound'
  BY <1>2, <1>11, JudgesKeeps
<1>12. ASSUME NEW c \in Callers, CloseWrites(c) PROVE Sound'
  BY <1>2, <1>12, WritesKeeps
<1>13. ASSUME NEW c \in Callers, CloseEnds(c) PROVE Sound'
  BY <1>2, <1>13, EndsKeeps
<1>14. ASSUME NEW c \in Callers, SamplesGo(c) PROVE Sound'
  BY <1>2, <1>14, SamplesGoKeeps
<1>15. CASE SweepEvents
  BY <1>2, <1>15, SweepKeeps
<1>16. CASE DeleteOutageReads
  BY <1>2, <1>16, DeleteReadsKeeps
<1>17. CASE DeleteOutageCommits
  BY <1>2, <1>17, DeleteCommitsKeeps
<1>18. CASE ClearDowntime
  BY <1>2, <1>18, ClearKeeps
<1>19. CASE UNCHANGED ocVars
  <2>1. /\ ocEvents' = ocEvents /\ ocSamples' = ocSamples /\ ocClock' = ocClock /\ ocMon' = ocMon
        /\ ocLive' = ocLive /\ ocMu' = ocMu /\ ocJob' = ocJob
    BY <1>19 DEF ocVars
  <2>2. Shape /\ Timely /\ Paired /\ Running /\ Listed /\ Jobs
    BY <1>2 DEF Sound
  <2>3. Shape'
    BY <2>1, <2>2 DEF Shape
  <2>4. MonitorMoves
    BY <2>1 DEF MonitorMoves, WholeDowns, WholeUps, Past, Ours
  <2>5. Jobs'
    BY <2>2, <2>3, <2>4, JobsKept
  <2>6. Timely' /\ Paired'
    BY <2>1, <2>2, RecordStands
  <2>7. Running' /\ Listed'
    BY <2>1, <2>2, ListStands
  <2> QED BY <2>3, <2>5, <2>6, <2>7 DEF Sound
<1> QED BY <1>3, <1>4, <1>5, <1>6, <1>7, <1>8, <1>9, <1>10, <1>11, <1>12, <1>13, <1>14,
           <1>15, <1>16, <1>17, <1>18, <1>19 DEF OcNext

\* The record read as seconds has an outage for each end, so the record read as
\* events has.
LEMMA PairedIsOneEnd ==
    ASSUME OcInv
    PROVE  OneEndEach
<1> USE WholeSeconds
<1> SUFFICES ASSUME ~ocSpoiled, NEW u \in Whole, u.type = "up"
             PROVE  \E d \in Whole : d.type = "down" /\ Before(d, u)
                        /\ \A v \in Whole : v.type = "up" /\ v # u => ~(Before(d, v) /\ Before(v, u))
  BY DEF OneEndEach
<1>1. Shape /\ Paired
  BY DEF OcInv, Sound
<1>2. ocMon \in Monitor /\ Whole \subseteq Event
  BY <1>1 DEF Shape, Monitor, Whole
<1>3. Downs(Whole) = WholeDowns /\ Ups(Whole) = WholeUps
  BY SecondsOfSets DEF Whole, WholeDowns, WholeUps
<1>4. \A e \in Whole : /\ e.ts \in Second /\ e.ts \in Nat /\ e = [ts |-> e.ts, type |-> e.type]
                       /\ e.type = "up" => e.ts \in WholeUps
  <2> TAKE e \in Whole
  <2>1. e \in Event
    BY <1>2
  <2>2. e.type = "up" => e.ts \in Ups(Whole)
    BY <2>1, EventIs
  <2> QED BY <1>3, <2>1, <2>2, EventIs
<1>5. PICK t \in WholeDowns : t <= u.ts /\ \A v \in WholeUps : ~(t <= v /\ v < u.ts)
  BY <1>1, <1>4 DEF Paired
<1> DEFINE d == [ts |-> t, type |-> "down"]
<1>6. d \in Whole /\ d.ts = t /\ d.type = "down" /\ t \in Nat
  BY <1>3, <1>5 DEF Downs
<1> HIDE DEF d
<1>7. Before(d, u)
  BY <1>4, <1>5, <1>6 DEF Before
<1>8. ASSUME NEW v \in Whole, v.type = "up", v # u, Before(d, v), Before(v, u) PROVE FALSE
  <2>1. v.ts \in WholeUps /\ v.ts \in Nat /\ u.ts \in Nat
    BY <1>4, <1>8
  <2>2. t <= v.ts /\ v.ts < u.ts
    BY <1>6, <1>8, <2>1 DEF Before
  <2> QED BY <1>5, <2>1, <2>2
<1> QED BY <1>6, <1>7, <1>8

\* In every state of the specification, unless the record was spoiled, the
\* record, the list, the monitor and the close agree as OcInv says.
THEOREM OcInvHolds == OcSpec => []OcInv
<1>1. OcInit => OcInv
  BY InitSound DEF OcInv
<1>2. OcInv /\ [OcNext]_ocVars => OcInv'
  BY StepKeeps
<1> QED BY <1>1, <1>2, PTL DEF OcSpec

\* Every 'up' of the record, what the monitor holds included, ends an outage of
\* its own, whatever the close, the sweep and the deletes do meanwhile.
THEOREM EndsHaveOutages == OcSpec => []OneEndEach
<1>1. OcInv => OneEndEach
  BY PairedIsOneEnd
<1> QED BY <1>1, OcInvHolds, PTL
=============================================================================
