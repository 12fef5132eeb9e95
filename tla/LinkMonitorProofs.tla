--------------------------- MODULE LinkMonitorProofs ---------------------------
(***************************************************************************)
(* Theorems about LinkMonitor for any families, settings, cap on the hold  *)
(* and buffer: the link goes down on evidence and stays up only without    *)
(* it, transitions are kept in order, and a brownout is dispatched again   *)
(* only when its dispatch was reported bounced.  The three do not depend   *)
(* on one another: each has an inductive invariant of its own.             *)
(***************************************************************************)
EXTENDS LinkMonitor, FiniteSetTheorems, SequenceTheorems, TLAPS

-----------------------------------------------------------------------------
(* The machines and the failing runs they count                            *)

States == [online : BOOLEAN, ok : Nat, bad : Nat, held : Nat, start : Nat, due : Nat, since : Nat]
Rounds == [ts : Nat \ {0}, da : Nat \ {0}, test : BOOLEAN]

\* The counters of m are those of the failing run: the rounds that are not held
\* are its evidence, and it is dated from its first.
Tracks(m, run) ==
    /\ m \in States /\ run \in SUBSET Rounds /\ IsFiniteSet(run)
    /\ m.bad = 0 <=> run = {}
    /\ m.bad = m.held + Cardinality(Evidence(run))
    /\ run # {} => \E e \in run : e.ts = m.start /\ \A f \in run : e.ts <= f.ts

\* A machine that is up has too little evidence to go down.
Upright(m, run) == m.online /\ run # {} => Cardinality(Evidence(run)) < Latest(run).da

\* The round that is out is later than those remembered, and what it can read
\* of the wire counter says whether a test overlapped it.
RoundOut ==
    /\ now \in Nat /\ wire \in Nat /\ seq0 \in Nat \union {NoSeq} /\ overlap \in BOOLEAN
    /\ seq0 # NoSeq => seq0 <= wire /\ now # 0 /\ (overlap <=> During)
    /\ \A x \in Machines : \A e \in past[x] : e.ts <= now /\ (seq0 # NoSeq => e.ts < now)

MachinesInv ==
    /\ mach \in [Machines -> States] /\ past \in [Machines -> SUBSET Rounds]
    /\ \A x \in Machines : Tracks(mach[x], past[x]) /\ Upright(mach[x], past[x])
    /\ RoundOut

-----------------------------------------------------------------------------
(* A failing run                                                           *)

\* The first round of a run begins where none begins earlier.
LEMMA FirstIs ==
    ASSUME NEW run \in SUBSET Rounds, NEW e \in run, \A f \in run : e.ts <= f.ts
    PROVE  First(run).ts = e.ts
<1>1. First(run) \in run /\ \A f \in run : First(run).ts <= f.ts
  BY DEF First
<1>2. First(run).ts \in Nat /\ e.ts \in Nat
  BY <1>1 DEF Rounds
<1>3. First(run).ts <= e.ts /\ e.ts <= First(run).ts
  BY <1>1
<1>4. QED BY <1>2, <1>3

\* A round later than all others is the latest once it is remembered.
LEMMA LatestIs ==
    ASSUME NEW run \in SUBSET Rounds, NEW e \in Rounds, \A f \in run : f.ts < e.ts
    PROVE  Latest(run \union {e}) = e
<1>1. e.ts \in Nat /\ \A f \in run : f.ts \in Nat
  BY DEF Rounds
<1>2. \A f \in run \union {e} : e.ts >= f.ts
  BY <1>1
<1>3. Latest(run \union {e}) \in run \union {e} /\ \A f \in run \union {e} : Latest(run \union {e}).ts >= f.ts
  BY <1>2 DEF Latest
<1>4. Latest(run \union {e}) \notin run
  BY <1>1, <1>3
<1>5. QED BY <1>3, <1>4

\* A new round is evidence unless a test overlapped it and the run is young;
\* what the earlier rounds are worth does not change.
LEMMA EvidenceGrows ==
    ASSUME NEW run \in SUBSET Rounds, NEW e \in Rounds, \A f \in run : f.ts < e.ts,
           NEW start \in Nat, run = {} => start = e.ts,
           run # {} => \E f \in run : f.ts = start /\ \A g \in run : f.ts <= g.ts
    PROVE  /\ \E f \in run \union {e} : f.ts = start /\ \A g \in run \union {e} : f.ts <= g.ts
           /\ Evidence(run \union {e}) = Evidence(run) \union (IF e.test /\ e.ts - start < HoldMax THEN {} ELSE {e})
<1>1. e.ts \in Nat /\ \A f \in run : f.ts \in Nat
  BY DEF Rounds
<1>2. \E f \in run \union {e} : f.ts = start /\ \A g \in run \union {e} : f.ts <= g.ts
  <2>1. CASE run = {}
    BY <1>1, <2>1
  <2>2. CASE run # {}
    <3>1. PICK f \in run : f.ts = start /\ \A g \in run : f.ts <= g.ts
      BY <2>2
    <3>2. f.ts <= e.ts
      BY <1>1, <3>1
    <3>3. QED BY <3>1, <3>2
  <2>3. QED BY <2>1, <2>2
<1>3. run \union {e} \in SUBSET Rounds
  OBVIOUS
<1>4. First(run \union {e}).ts = start
  BY <1>2, <1>3, FirstIs
<1>5. run # {} => First(run).ts = start
  BY FirstIs
<1>6. e \in Evidence(run \union {e}) <=> ~(e.test /\ e.ts - start < HoldMax)
  <2>1. HoldMax \in Nat
    BY BoundsAssumption
  <2>2. e \in Evidence(run \union {e}) <=> (e.test => e.ts - start >= HoldMax)
    BY <1>4 DEF Evidence
  <2>3. QED BY <1>1, <2>1, <2>2
<1>7. \A f \in run : f \in Evidence(run \union {e}) <=> f \in Evidence(run)
  BY <1>4, <1>5 DEF Evidence
<1>8. Evidence(run \union {e}) \subseteq run \union {e} /\ Evidence(run) \subseteq run
  BY DEF Evidence
<1>9. QED BY <1>2, <1>6, <1>7, <1>8

\* failRun.fail keeps the counts.
LEMMA FailTracks ==
    ASSUME NEW m, NEW run, Tracks(m, run), NEW da \in DownAfters, NEW test \in BOOLEAN,
           now \in Nat \ {0}, \A f \in run : f.ts < now
    PROVE  LET e == [ts |-> now, da |-> da, test |-> test]
           IN /\ Tracks(Fail(m, da, test), run \union {e})
              /\ Latest(run \union {e}).da = da
              /\ Fail(m, da, test).online = m.online /\ Fail(m, da, test).ok = 0
<1> DEFINE e == [ts |-> now, da |-> da, test |-> test]
           n == Fail(m, da, test)
           start == IF m.bad + 1 = 1 THEN now ELSE m.start
<1>1. /\ m \in States /\ run \in SUBSET Rounds /\ IsFiniteSet(run) /\ (m.bad = 0 <=> run = {})
      /\ m.bad = m.held + Cardinality(Evidence(run))
      /\ run # {} => \E f \in run : f.ts = m.start /\ \A g \in run : f.ts <= g.ts
  BY DEF Tracks
<1>2. m.bad \in Nat /\ m.held \in Nat /\ m.start \in Nat /\ m.online \in BOOLEAN /\ m.due \in Nat /\ m.since \in Nat
  BY <1>1 DEF States
<1>3. da \in Nat \ {0} /\ HoldMax \in Nat
  BY SettingsAssumption, BoundsAssumption
<1>4. e \in Rounds /\ e.ts = now /\ e.test = test /\ e.da = da
  BY <1>3 DEF Rounds
<1>5. /\ n = [online |-> m.online, ok |-> 0, bad |-> m.bad + 1,
              held |-> IF test /\ now - start < HoldMax THEN m.held + 1 ELSE m.held, start |-> start,
              due |-> IF m.due = NoTime /\ m.bad + 1 >= da THEN now ELSE m.due, since |-> m.since]
  <2>1. n = [m EXCEPT !.ok = 0, !.bad = m.bad + 1, !.start = start,
                      !.held = IF test /\ now - start < HoldMax THEN m.held + 1 ELSE m.held,
                      !.due = IF m.due = NoTime /\ m.bad + 1 >= da THEN now ELSE m.due]
    BY DEF Fail
  <2> HIDE DEF n, start
  <2>2. QED BY <1>1, <2>1 DEF States
<1>6. start \in Nat /\ n \in States
  <2>1. start \in Nat
    BY <1>2
  <2>2. QED BY <1>2, <1>5, <2>1 DEF States
<1>7. /\ n.online = m.online /\ n.ok = 0 /\ n.bad = m.bad + 1 /\ n.start = start
      /\ n.held = IF test /\ now - start < HoldMax THEN m.held + 1 ELSE m.held
  BY <1>5
<1>8. (run = {} => start = e.ts) /\ (run # {} => start = m.start)
  BY <1>1, <1>2, <1>4
<1> HIDE DEF start, n, e
<1>9. /\ \E f \in run \union {e} : f.ts = start /\ \A g \in run \union {e} : f.ts <= g.ts
      /\ Evidence(run \union {e}) = Evidence(run) \union (IF e.test /\ e.ts - start < HoldMax THEN {} ELSE {e})
  BY <1>1, <1>4, <1>6, <1>8, EvidenceGrows
<1>10. /\ IsFiniteSet(run \union {e}) /\ IsFiniteSet(Evidence(run)) /\ e \notin Evidence(run)
       /\ Cardinality(Evidence(run)) \in Nat
  <2>1. Evidence(run) \subseteq run /\ e \notin run
    BY <1>1, <1>4 DEF Evidence, Rounds
  <2>2. QED BY <1>1, <2>1, FS_AddElement, FS_Subset, FS_CardinalityType
<1>11. n.bad = n.held + Cardinality(Evidence(run \union {e}))
  <2>1. CASE test /\ now - start < HoldMax
    <3>1. Evidence(run \union {e}) = Evidence(run)
      BY <1>4, <1>9, <2>1
    <3>2. QED BY <1>1, <1>2, <1>7, <1>10, <2>1, <3>1
  <2>2. CASE ~(test /\ now - start < HoldMax)
    <3>1. Evidence(run \union {e}) = Evidence(run) \union {e}
      BY <1>4, <1>9, <2>2
    <3>2. Cardinality(Evidence(run) \union {e}) = Cardinality(Evidence(run)) + 1
      BY <1>10, FS_AddElement
    <3>3. Cardinality(Evidence(run \union {e})) = Cardinality(Evidence(run)) + 1
      BY <3>1, <3>2
    <3>4. n.held = m.held
      BY <1>7, <2>2
    <3>5. QED BY <1>1, <1>2, <1>7, <1>10, <3>3, <3>4
  <2>3. QED BY <2>1, <2>2
<1>12. Tracks(n, run \union {e})
  <2>1. run \union {e} \in SUBSET Rounds /\ run \union {e} # {} /\ n.bad # 0
    BY <1>1, <1>2, <1>4, <1>7
  <2>2. QED BY <1>6, <1>7, <1>9, <1>10, <1>11, <2>1 DEF Tracks
<1>13. Latest(run \union {e}).da = da
  BY <1>1, <1>4, LatestIs
<1>14. QED BY <1>7, <1>12, <1>13 DEF n, e

\* A machine whose run is over, or was never begun.
LEMMA NoRun ==
    ASSUME NEW m \in States, m.bad = 0, m.held = 0
    PROVE  Tracks(m, {}) /\ Upright(m, {})
<1>1. Evidence({}) = {} /\ Cardinality({}) = 0 /\ IsFiniteSet({})
  BY FS_EmptySet DEF Evidence
<1>2. QED BY <1>1 DEF Tracks, Upright

\* A passed round, like a cleared machine, holds no failing streak.
LEMMA ClearedIs ==
    ASSUME NEW m \in States
    PROVE  /\ Cleared(m) \in States /\ Cleared(m).bad = 0 /\ Cleared(m).held = 0 /\ Cleared(m).online = m.online
           /\ Pass(m) \in States /\ Pass(m).bad = 0 /\ Pass(m).held = 0 /\ Pass(m).online = m.online
<1>1. Cleared(m) = [online |-> m.online, ok |-> 0, bad |-> 0, held |-> 0, start |-> 0, due |-> 0, since |-> m.since]
  <2>1. Cleared(m) = [m EXCEPT !.ok = 0, !.bad = 0, !.held = 0, !.start = 0, !.due = 0]
    BY DEF Cleared, NoTime
  <2>2. QED BY <2>1 DEF States
<1>2. Pass(m) = [Cleared(m) EXCEPT !.ok = m.ok + 1]
  BY DEF Pass
<1>3. Pass(m) = [online |-> m.online, ok |-> m.ok + 1, bad |-> 0, held |-> 0, start |-> 0, due |-> 0, since |-> m.since]
  BY <1>1, <1>2
<1>4. QED BY <1>1, <1>3 DEF States

\* The flip moves only the state and its date, up on a run of passes and down
\* on what no test excuses.
LEMMA FlipIs ==
    ASSUME NEW m \in States, NEW da, NEW ua, now \in Nat
    PROVE  LET n == Flip(m, da, ua)
           IN /\ n \in States /\ n.bad = m.bad /\ n.held = m.held /\ n.start = m.start
              /\ m.online /\ ~n.online => m.bad - m.held >= da
              /\ n.online => (m.online /\ ~(m.bad - m.held >= da)) \/ m.ok >= ua
<1> DEFINE n == Flip(m, da, ua)
<1>1. CASE ~m.online /\ m.ok >= ua
  <2>1. n = [m EXCEPT !.online = TRUE, !.since = now]
    BY <1>1 DEF Flip
  <2> HIDE DEF n
  <2>2. n \in States /\ n.bad = m.bad /\ n.held = m.held /\ n.start = m.start /\ n.online
    BY <2>1 DEF States
  <2>3. QED BY <1>1, <2>2 DEF n
<1>2. CASE m.online /\ m.bad - m.held >= da
  <2>1. n = [m EXCEPT !.online = FALSE, !.since = IF m.due = NoTime THEN now ELSE m.due]
    BY <1>2 DEF Flip
  <2> HIDE DEF n
  <2>2. n \in States /\ n.bad = m.bad /\ n.held = m.held /\ n.start = m.start /\ ~n.online
    BY <2>1 DEF States
  <2>3. QED BY <1>2, <2>2 DEF n
<1>3. CASE ~(~m.online /\ m.ok >= ua) /\ ~(m.online /\ m.bad - m.held >= da)
  <2>1. n = m
    BY <1>3 DEF Flip
  <2>2. QED BY <1>3, <2>1
<1>4. QED BY <1>1, <1>2, <1>3

\* One machine in a round: its counts are kept, it is down if there is evidence
\* for it, and it goes down on nothing else.
LEMMA JudgedTracks ==
    ASSUME NEW m, NEW run, Tracks(m, run), Upright(m, run), NEW good \in BOOLEAN,
           NEW da \in DownAfters, NEW ua \in UpAfters, overlap \in BOOLEAN, overlap <=> During,
           now \in Nat \ {0}, \A f \in run : f.ts < now
    PROVE  LET n   == Judged(m, good, da, ua)
               new == IF good THEN {} ELSE run \union {[ts |-> now, da |-> da, test |-> overlap]}
           IN /\ Tracks(n, new) /\ Upright(n, new)
              /\ m.online /\ ~n.online => Cardinality(Evidence(new)) >= Latest(new).da
<1>1. m \in States /\ m.online \in BOOLEAN
  BY DEF Tracks, States
<1>2. da \in Nat /\ da > 0 /\ ua \in Nat /\ ua > 0
  BY SettingsAssumption
<1>3. CASE good
  <2> DEFINE n == Flip(Pass(m), da, ua)
  <2>1. /\ Pass(m) \in States /\ Pass(m).bad = 0 /\ Pass(m).held = 0 /\ Pass(m).online = m.online
    BY <1>1, ClearedIs
  <2>2. n \in States /\ n.bad = 0 /\ n.held = 0 /\ ~(m.online /\ ~n.online)
    <3>1. n \in States /\ n.bad = 0 /\ n.held = 0 /\ (Pass(m).online /\ ~n.online => Pass(m).bad - Pass(m).held >= da)
      BY <2>1, FlipIs
    <3>2. ~(0 - 0 >= da)
      BY <1>2
    <3>3. QED BY <2>1, <3>1, <3>2
  <2>3. Tracks(n, {}) /\ Upright(n, {})
    BY <2>2, NoRun
  <2>4. QED BY <1>3, <2>2, <2>3 DEF Judged
<1>4. CASE ~good
  <2> DEFINE new == run \union {[ts |-> now, da |-> da, test |-> overlap]}
             w == Fail(m, da, overlap)
             n == Flip(w, da, ua)
  <2>1. Tracks(w, new) /\ Latest(new).da = da /\ w.online = m.online /\ w.ok = 0
    BY FailTracks
  <2>2. Judged(m, good, da, ua) = n
    <3>1. Fail(m, da, During) = w
      BY DEF Fail
    <3>2. QED BY <1>4, <3>1 DEF Judged
  <2> HIDE DEF new, w
  <2>3. w \in States /\ w.bad \in Nat /\ w.held \in Nat /\ w.bad = w.held + Cardinality(Evidence(new))
    BY <2>1 DEF Tracks, States
  <2>4. /\ n \in States /\ n.bad = w.bad /\ n.held = w.held /\ n.start = w.start
        /\ m.online /\ ~n.online => w.bad - w.held >= da
        /\ n.online => ~(w.bad - w.held >= da) \/ 0 >= ua
    BY <2>1, <2>3, FlipIs
  <2> HIDE DEF n
  <2>5. Tracks(n, new)
    BY <2>1, <2>4 DEF Tracks
  <2>6. Cardinality(Evidence(new)) \in Nat
    <3>1. IsFiniteSet(new) /\ Evidence(new) \subseteq new
      BY <2>1 DEF Tracks, Evidence
    <3>2. QED BY <3>1, FS_Subset, FS_CardinalityType
  <2>7. w.bad - w.held = Cardinality(Evidence(new))
    BY <2>3, <2>6
  <2>8. Upright(n, new)
    BY <1>2, <2>1, <2>4, <2>6, <2>7 DEF Upright
  <2>9. m.online /\ ~n.online => Cardinality(Evidence(new)) >= Latest(new).da
    BY <2>1, <2>4, <2>7
  <2>10. QED BY <1>4, <2>2, <2>5, <2>8, <2>9 DEF new
<1>5. QED BY <1>3, <1>4

-----------------------------------------------------------------------------
(* Outages                                                                 *)

\* A monitor that starts has seen no round.
LEMMA MachinesInvInit == ASSUME Init PROVE MachinesInv
<1>1. Fresh \in States /\ Fresh.bad = 0 /\ Fresh.held = 0
  BY DEF Fresh, States, NoTime
<1>2. Tracks(Fresh, {}) /\ Upright(Fresh, {})
  BY <1>1, NoRun
<1>3. /\ mach = [x \in Machines |-> Fresh] /\ past = [x \in Machines |-> {}]
      /\ now = 0 /\ wire = 0 /\ seq0 = NoSeq /\ overlap = FALSE
  BY DEF Init
<1>4. QED BY <1>1, <1>2, <1>3 DEF MachinesInv, RoundOut

\* Every machine's run is over.
LEMMA AllClear ==
    ASSUME MachinesInv, mach' = [x \in Machines |-> Cleared(mach[x])] \/ mach' = [x \in Machines |-> Fresh],
           past' = [x \in Machines |-> {}], now' = now, seq0' = NoSeq, wire' \in Nat, overlap' \in BOOLEAN
    PROVE  MachinesInv' /\ (\A x \in Machines : ~WentDown(x))
<1>1. Fresh \in States /\ Fresh.bad = 0 /\ Fresh.held = 0 /\ Fresh.online
  BY DEF Fresh, States, NoTime
<1>2. ASSUME NEW x \in Machines
      PROVE  mach'[x] \in States /\ mach'[x].bad = 0 /\ mach'[x].held = 0 /\ (mach[x].online => mach'[x].online)
  <2>1. mach[x] \in States
    BY DEF MachinesInv
  <2>2. QED BY <1>1, <2>1, ClearedIs
<1>3. \A x \in Machines : past'[x] = {}
  OBVIOUS
<1>4. mach' \in [Machines -> States] /\ past' \in [Machines -> SUBSET Rounds]
  BY <1>2
<1>5. \A x \in Machines : Tracks(mach'[x], past'[x]) /\ Upright(mach'[x], past'[x])
  BY <1>2, <1>3, NoRun
<1>6. RoundOut'
  BY <1>3 DEF RoundOut, MachinesInv
<1>7. QED BY <1>2, <1>4, <1>5, <1>6 DEF MachinesInv, WentDown

\* A judged round moves the machines and the history alike, and takes a machine
\* down only on as many failing rounds as down-after asks for.
LEMMA RoundTracks ==
    ASSUME MachinesInv, NEW probed \in SUBSET Families, NEW passed \in SUBSET probed,
           NEW da \in [Machines -> DownAfters], NEW ua \in UpAfters,
           seq0 # NoSeq, Advance(probed, passed, da, ua), Remember(probed, passed, da),
           now' = now, wire' = wire, seq0' = NoSeq, overlap' = FALSE
    PROVE  /\ MachinesInv'
           /\ \A x \in Machines : WentDown(x) => Cardinality(Evidence(past'[x])) >= Latest(past'[x]).da
<1>1. /\ now \in Nat \ {0} /\ overlap \in BOOLEAN /\ (overlap <=> During)
      /\ \A x \in Machines : \A e \in past[x] : e.ts < now
  BY DEF MachinesInv, RoundOut
<1>2. ASSUME NEW x \in Machines
      PROVE  /\ Tracks(mach'[x], past'[x]) /\ Upright(mach'[x], past'[x])
             /\ WentDown(x) => Cardinality(Evidence(past'[x])) >= Latest(past'[x]).da
             /\ \A e \in past'[x] : e.ts <= now
  <2> DEFINE bad == (x = Link /\ passed = {}) \/ (x \in probed \ passed)
             e == [ts |-> now, da |-> da[x], test |-> overlap]
             good == (x = Link /\ passed # {}) \/ (x # Link /\ x \in passed)
  <2>1. Tracks(mach[x], past[x]) /\ Upright(mach[x], past[x]) /\ mach[x] \in States /\ da[x] \in DownAfters
    BY DEF MachinesInv
  <2>2. past'[x] = IF bad THEN past[x] \union {e} ELSE {}
    BY DEF Remember
  <2>3. mach'[x] = IF x = Link \/ x \in probed THEN Judged(mach[x], good, da[x], ua) ELSE Cleared(mach[x])
    BY DEF Advance
  <2>4. Link \notin probed
    BY MachinesAssumption
  <2>5. CASE x = Link \/ x \in probed
    <3>1. past'[x] = IF good THEN {} ELSE past[x] \union {e}
      BY <2>2, <2>4, <2>5
    <3>2. mach'[x] = Judged(mach[x], good, da[x], ua)
      BY <2>3, <2>5
    <3>3. good \in BOOLEAN
      OBVIOUS
    <3>4. \A f \in past[x] : f.ts < now
      BY <1>1
    <3> HIDE DEF good
    <3>5. /\ Tracks(mach'[x], past'[x]) /\ Upright(mach'[x], past'[x])
          /\ mach[x].online /\ ~mach'[x].online => Cardinality(Evidence(past'[x])) >= Latest(past'[x]).da
      <4> DEFINE n == Judged(mach[x], good, da[x], ua)
                 new == IF good THEN {} ELSE past[x] \union {[ts |-> now, da |-> da[x], test |-> overlap]}
      <4>1. /\ Tracks(n, new) /\ Upright(n, new)
            /\ mach[x].online /\ ~n.online => Cardinality(Evidence(new)) >= Latest(new).da
        BY <1>1, <2>1, <3>3, <3>4, JudgedTracks
      <4>2. mach'[x] = n /\ past'[x] = new
        BY <3>1, <3>2
      <4> HIDE DEF n, new
      <4>3. QED BY <4>1, <4>2
    <3>6. \A f \in past'[x] : f.ts <= now
      BY <1>1, <3>1, <2>1, <3>4 DEF Tracks, Rounds
    <3>7. QED BY <3>5, <3>6 DEF WentDown
  <2>6. CASE ~(x = Link \/ x \in probed)
    <3>1. past'[x] = {} /\ mach'[x] = Cleared(mach[x])
      BY <2>2, <2>3, <2>6
    <3>2. mach'[x] \in States /\ mach'[x].bad = 0 /\ mach'[x].held = 0 /\ mach'[x].online = mach[x].online
      BY <2>1, <3>1, ClearedIs
    <3>3. QED BY <3>1, <3>2, NoRun DEF WentDown
  <2>7. QED BY <2>5, <2>6
<1>3. mach' \in [Machines -> States] /\ past' \in [Machines -> SUBSET Rounds]
  <2>1. \A x \in Machines : mach'[x] \in States /\ past'[x] \in SUBSET Rounds
    BY <1>2 DEF Tracks
  <2>2. (mach' = [x \in Machines |-> mach'[x]]) /\ past' = [x \in Machines |-> past'[x]]
    BY DEF Advance, Remember
  <2>3. QED BY <2>1, <2>2
<1>4. RoundOut'
  <2>1. wire \in Nat
    BY DEF MachinesInv, RoundOut
  <2>2. QED BY <1>1, <1>2, <2>1 DEF RoundOut
<1>5. QED BY <1>2, <1>3, <1>4 DEF MachinesInv

\* What a step does to the machines is what its round or its gap does.
LEMMA MachinesStep ==
    ASSUME MachinesInv, [Next]_vars
    PROVE  /\ MachinesInv'
           /\ \A x \in Machines : WentDown(x) => Cardinality(Evidence(past'[x])) >= Latest(past'[x]).da
<1>1. /\ now \in Nat /\ wire \in Nat /\ seq0 \in Nat \union {NoSeq} /\ overlap \in BOOLEAN
      /\ RoundOut
  BY DEF MachinesInv, RoundOut
<1>2. ASSUME UNCHANGED <<now, wire, seq0, mach, overlap, past>>
      PROVE  MachinesInv' /\ \A x \in Machines : ~WentDown(x)
  BY <1>2 DEF MachinesInv, RoundOut, During, WentDown, Tracks, Upright
<1>3. CASE Idle BY <1>2, <1>3 DEF Idle
<1>4. CASE BeginRound
  <2>1. /\ now' \in Nat /\ now < now' /\ seq0' = wire /\ overlap' = (wire % 2 = 1) /\ UNCHANGED <<wire, mach, past>>
    BY <1>1, <1>4, BoundsAssumption DEF BeginRound
  <2>2. overlap' \in BOOLEAN /\ (overlap' <=> During')
    <3>1. overlap' \in BOOLEAN
      BY <2>1, Zenon
    <3>2. During' <=> wire % 2 = 1
      BY <2>1 DEF During
    <3>3. QED BY <2>1, <3>1, <3>2
  <2>3. \A x \in Machines : \A e \in past'[x] : e.ts <= now' /\ e.ts < now'
    <3>1. \A x \in Machines : \A e \in past[x] : e.ts <= now /\ e.ts \in Nat
      BY <1>1 DEF RoundOut, MachinesInv, Rounds
    <3>2. QED BY <1>1, <2>1, <3>1
  <2>4. RoundOut'
    <3>1. now' \in Nat /\ wire' \in Nat /\ seq0' \in Nat \union {NoSeq} /\ overlap' \in BOOLEAN
      BY <1>1, <2>1, <2>2
    <3>2. seq0' <= wire' /\ now' # 0
      BY <1>1, <2>1
    <3>3. QED BY <2>2, <2>3, <3>1, <3>2 DEF RoundOut
  <2>5. QED BY <2>1, <2>4 DEF MachinesInv, WentDown, Tracks, Upright
<1>5. CASE WireEdge
  <2>1. /\ wire' = wire + 1 /\ overlap' = (seq0 # NoSeq) /\ UNCHANGED <<now, seq0, mach, past>>
    BY <1>5 DEF WireEdge
  <2>2. overlap' \in BOOLEAN
    BY <2>1, Zenon
  <2>3. seq0 # NoSeq => seq0' <= wire' /\ During'
    BY <1>1, <2>1 DEF RoundOut, During
  <2>4. RoundOut'
    <3>1. now' \in Nat /\ wire' \in Nat /\ seq0' \in Nat \union {NoSeq}
      BY <1>1, <2>1
    <3>2. seq0' # NoSeq => seq0' <= wire' /\ now' # 0 /\ (overlap' <=> During')
      BY <1>1, <2>1, <2>3 DEF RoundOut
    <3>3. \A x \in Machines : \A e \in past'[x] : e.ts <= now' /\ (seq0' # NoSeq => e.ts < now')
      BY <1>1, <2>1 DEF RoundOut
    <3>4. QED BY <2>2, <3>1, <3>2, <3>3 DEF RoundOut
  <2>5. QED BY <2>1, <2>4 DEF MachinesInv, WentDown, Tracks, Upright
<1>6. CASE VoidRound
  <2>1. seq0' = NoSeq /\ wire' \in Nat /\ overlap' \in BOOLEAN
    BY <1>1, <1>6 DEF VoidRound
  <2>2. QED BY <1>6, <2>1, AllClear DEF VoidRound, ResetStreaks
<1>7. CASE Gap
  <2>1. seq0' = NoSeq /\ wire' \in Nat /\ overlap' \in BOOLEAN
    BY <1>1, <1>7 DEF Gap
  <2>2. QED BY <1>7, <2>1, AllClear DEF Gap, ResetStreaks
<1>8. CASE Restart
  <2>1. seq0' = NoSeq /\ wire' \in Nat /\ overlap' \in BOOLEAN
    BY <1>8 DEF Restart
  <2>2. QED BY <1>8, <2>1, AllClear DEF Restart
<1>9. ASSUME NEW probed \in SUBSET Families \ {{}}, NEW da \in [Machines -> DownAfters], NEW ua \in UpAfters,
             NEW latency \in Latencies, NEW passed \in SUBSET probed, EndRound(probed, passed, da, ua, latency)
      PROVE  /\ MachinesInv'
             /\ \A x \in Machines : WentDown(x) => Cardinality(Evidence(past'[x])) >= Latest(past'[x]).da
  <2>1. /\ seq0 # NoSeq /\ Advance(probed, passed, da, ua) /\ Remember(probed, passed, da)
        /\ now' = now /\ wire' = wire /\ seq0' = NoSeq /\ overlap' = FALSE
    BY <1>9 DEF EndRound
  <2>2. probed \in SUBSET Families
    OBVIOUS
  <2>3. QED BY <2>1, <2>2, RoundTracks
<1>10. ASSUME NEW d \in DispatchIds, DispatchRuns(d) \/ LoadRetry(d) \/ CasRetry(d)
       PROVE  MachinesInv' /\ \A x \in Machines : ~WentDown(x)
  BY <1>2, <1>10 DEF DispatchRuns, LoadRetry, CasRetry
<1>11. CASE UNCHANGED vars
  BY <1>2, <1>11 DEF vars
<1>12. QED BY <1>3, <1>4, <1>5, <1>6, <1>7, <1>8, <1>9, <1>10, <1>11 DEF Next

\* In every state the machines' counters are those of the rounds behind them.
THEOREM MachinesInvHolds == Spec => []MachinesInv
<1>1. Init => MachinesInv
  BY MachinesInvInit
<1>2. MachinesInv /\ [Next]_vars => MachinesInv'
  BY MachinesStep
<1>3. QED BY <1>1, <1>2, PTL DEF Spec

\* A link or a family that is still up has less than down-after rounds of
\* evidence: failRun and advance do not let an outage hide behind the tests.
THEOREM OutagesAreConfirmed == Spec => []OutageNotMissed
<1>1. MachinesInv => OutageNotMissed
  BY DEF MachinesInv, OutageNotMissed, Upright
<1>2. QED BY <1>1, MachinesInvHolds, PTL

\* A link or a family goes down only on down-after failed rounds of one run that
\* no speedtest of ours excuses.
THEOREM OutagesAreReal == Spec => DownOnEvidence
<1>1. MachinesInv /\ [Next]_vars =>
        [\A x \in Machines : WentDown(x) => Cardinality(Evidence(past'[x])) >= Latest(past'[x]).da]_vars
  BY MachinesStep
<1>2. QED BY <1>1, MachinesInvHolds, PTL DEF Spec, DownOnEvidence

-----------------------------------------------------------------------------
(* Transition events                                                       *)

EventsInv ==
    /\ flips \in Nat /\ pending \in Seq(Nat)
    /\ EventsKept

\* The events that wait, by their place.
LEMMA WaitingIs ==
    ASSUME pending \in Seq(Nat)
    PROVE  /\ Len(pending) \in Nat /\ \A i \in 1 .. Len(pending) : pending[i] \in Nat
           /\ Waiting = {pending[i] : i \in 1 .. Len(pending)}
  BY DEF Waiting

\* flushPendingEvents: those in front go to the store, the others move up.
LEMMA FlushKeeps == ASSUME EventsInv, Flush PROVE EventsInv'
<1>1. PICK k \in 0 .. Len(pending) :
         /\ disk' = disk \union {pending[i] : i \in 1 .. k}
         /\ pending' = SubSeq(pending, k + 1, Len(pending))
  BY DEF Flush
<1>2. flips' = flips /\ lost' = lost /\ flips \in Nat /\ pending \in Seq(Nat) /\ EventsKept /\ Len(pending) \in Nat
  BY WaitingIs DEF Flush, EventsInv
<1> DEFINE n == Len(pending)
           Front == {pending[i] : i \in 1 .. k}
<1>3. /\ pending' \in Seq(Nat) /\ Len(pending') = n - k /\ \A i \in 1 .. n - k : pending'[i] = pending[k + i]
  <2>1. pending' \in Seq(Nat)
    BY <1>1, <1>2
  <2>2. Len(pending') = n - k
    BY <1>1, <1>2
  <2>3. \A i \in 1 .. n - k : pending'[i] = pending[k + i]
    BY <1>1, <1>2
  <2>4. QED BY <2>1, <2>2, <2>3
<1>4. Waiting = Front \union Waiting'
  <2>1. Waiting' = {pending[k + i] : i \in 1 .. n - k}
    BY <1>3 DEF Waiting
  <2>2. \A j \in 1 .. n : j \in 1 .. k \/ (j - k \in 1 .. n - k /\ j = k + (j - k))
    BY <1>2
  <2>3. ASSUME NEW e \in Waiting PROVE e \in Front \union Waiting'
    <3>1. PICK j \in 1 .. n : e = pending[j]
      BY <2>3 DEF Waiting
    <3>2. QED BY <2>1, <2>2, <3>1
  <2>4. \A j \in 1 .. k : j \in 1 .. n
    BY <1>2
  <2>5. \A i \in 1 .. n - k : k + i \in 1 .. n
    BY <1>2
  <2>6. QED BY <2>1, <2>3, <2>4, <2>5 DEF Waiting
<1>5. Front \intersect Waiting' = {}
  <2>1. ASSUME NEW i \in 1 .. k, NEW j \in 1 .. n - k PROVE pending[i] < pending[k + j]
    <3>1. k + j \in 1 .. n /\ i \in 1 .. (k + j) - 1
      BY <1>2
    <3>2. QED BY <1>2, <3>1 DEF EventsKept
  <2>2. \A i \in 1 .. k : pending[i] \in Nat
    BY <1>2, WaitingIs
  <2>3. \A i \in 1 .. k, j \in 1 .. n - k : pending[i] # pending[k + j]
    <3>1. ASSUME NEW i \in 1 .. k, NEW j \in 1 .. n - k PROVE pending[i] # pending[k + j]
      <4>1. k + j \in 1 .. n
        BY <1>2
      <4>2. pending[i] \in Nat /\ pending[k + j] \in Nat /\ pending[i] < pending[k + j]
        BY <1>2, <2>1, <2>2, <4>1, WaitingIs
      <4>3. QED BY <4>2
    <3>2. QED BY <3>1
  <2>4. Waiting' = {pending[k + i] : i \in 1 .. n - k}
    BY <1>3 DEF Waiting
  <2>5. QED BY <2>3, <2>4
<1>6. Waiting \intersect lost = {}
  <2>1. ASSUME NEW e \in lost, NEW i \in 1 .. n PROVE e # pending[i]
    <3>1. e < pending[i] /\ pending[i] \in Nat /\ e \in Nat
      BY <1>2, WaitingIs DEF EventsKept
    <3>2. QED BY <3>1
  <2>2. QED BY <2>1 DEF Waiting
<1>7. 1 .. flips' = disk' \union Waiting' \union lost' /\ disk' \intersect (Waiting' \union lost') = {}
  BY <1>1, <1>2, <1>4, <1>5, <1>6 DEF EventsKept
<1>8. ASSUME NEW i \in 1 .. Len(pending')
      PROVE  (\A j \in 1 .. i - 1 : pending'[j] < pending'[i]) /\ \A e \in lost' : e < pending'[i]
  <2>1. i \in 1 .. n - k /\ k + i \in 1 .. n /\ pending'[i] = pending[k + i]
    BY <1>2, <1>3
  <2>2. ASSUME NEW j \in 1 .. i - 1 PROVE pending'[j] < pending'[i]
    <3>1. j \in 1 .. n - k /\ k + j \in 1 .. (k + i) - 1
      BY <1>2, <2>1
    <3>2. pending'[j] = pending[k + j]
      BY <1>3, <3>1
    <3>3. pending[k + j] < pending[k + i]
      BY <1>2, <2>1, <3>1 DEF EventsKept
    <3>4. QED BY <2>1, <3>2, <3>3
  <2>3. QED BY <1>2, <2>1, <2>2 DEF EventsKept
<1>9. QED BY <1>2, <1>3, <1>7, <1>8 DEF EventsInv, EventsKept

\* bufferPendingEvent: a transition the store refused goes to the end, and past
\* the cap the oldest is lost.
LEMMA BufferKeeps == ASSUME EventsInv, flips' = flips + 1, Buffer(flips + 1) PROVE EventsInv'
<1> DEFINE n == Len(pending)
           e == flips + 1
<1>1. flips \in Nat /\ pending \in Seq(Nat) /\ EventsKept /\ n \in Nat /\ \A i \in 1 .. n : pending[i] \in Nat
  BY WaitingIs DEF EventsInv
<1>2. (Waiting \union disk \union lost) \subseteq 1 .. flips /\ e \notin 1 .. flips /\ 1 .. e = (1 .. flips) \union {e}
  BY <1>1 DEF EventsKept
<1>3. \A i \in 1 .. n : pending[i] < e
  <2>1. ASSUME NEW i \in 1 .. n PROVE pending[i] < e
    <3>1. pending[i] \in 1 .. flips
      BY <1>2 DEF Waiting
    <3>2. QED BY <1>1, <3>1
  <2>2. QED BY <2>1
<1>4. \A f \in lost : f < e
  BY <1>1, <1>2
<1>5. CASE Len(pending) >= MaxPending
  <2>1. /\ pending' = Append(Tail(pending), e) /\ lost' = lost \union {Head(pending)} /\ disk' = disk
        /\ n # 0 /\ pending # <<>>
    BY <1>1, <1>5, BoundsAssumption DEF Buffer
  <2>2. Head(pending) = pending[1] /\ 1 \in 1 .. n
    BY <1>1, <2>1
  <2>3. /\ pending' \in Seq(Nat) /\ Len(pending') = n /\ pending'[n] = e
        /\ \A i \in 1 .. n - 1 : pending'[i] = pending[i + 1]
    <3>1. Tail(pending) \in Seq(Nat) /\ Len(Tail(pending)) = n - 1
      BY <1>1, <2>1
    <3>2. \A i \in 1 .. n - 1 : Tail(pending)[i] = pending[i + 1]
      BY <1>1, <2>1
    <3>3. QED BY <1>1, <2>1, <3>1, <3>2
  <2>4. Waiting' \union {pending[1]} = Waiting \union {e} /\ pending[1] \notin Waiting'
    <3>1. \A j \in 1 .. n : j = 1 \/ (j - 1 \in 1 .. n - 1 /\ j = (j - 1) + 1)
      BY <1>1
    <3>2. ASSUME NEW f \in Waiting PROVE f = pending[1] \/ f \in Waiting'
      <4>1. PICK j \in 1 .. n : f = pending[j]
        BY DEF Waiting
      <4>2. j # 1 => f = pending'[j - 1] /\ j - 1 \in 1 .. n
        BY <1>1, <2>3, <3>1, <4>1
      <4>3. QED BY <2>3, <4>1, <4>2 DEF Waiting
    <3>3. ASSUME NEW i \in 1 .. n PROVE pending'[i] # pending[1] /\ (pending'[i] = e \/ pending'[i] \in Waiting)
      <4>1. CASE i = n
        <5>1. pending[1] < e /\ pending[1] \in Nat
          BY <1>1, <1>3, <2>2
        <5>2. QED BY <1>1, <2>3, <4>1, <5>1
      <4>2. CASE i # n
        <5>1. i \in 1 .. n - 1 /\ i + 1 \in 1 .. n /\ 1 \in 1 .. (i + 1) - 1
          BY <1>1, <4>2
        <5>2. pending'[i] = pending[i + 1] /\ pending[1] < pending[i + 1]
          BY <1>1, <2>3, <5>1 DEF EventsKept
        <5>3. pending[i + 1] \in Waiting
          BY <5>1 DEF Waiting
        <5>4. pending[1] \in Nat /\ pending[i + 1] \in Nat
          BY <1>1, <2>2, <5>1
        <5>5. QED BY <5>2, <5>3, <5>4
      <4>3. QED BY <4>1, <4>2
    <3>4. e \in Waiting' /\ pending[1] \in Waiting
      <4>1. n \in 1 .. n
        BY <1>1, <2>1
      <4>2. QED BY <2>2, <2>3, <4>1 DEF Waiting
    <3>5. Waiting' = {pending'[i] : i \in 1 .. n}
      BY <2>3 DEF Waiting
    <3>6. QED BY <3>2, <3>3, <3>4, <3>5
  <2>5. 1 .. flips' = disk' \union Waiting' \union lost' /\ disk' \intersect (Waiting' \union lost') = {}
    <3>1. pending[1] \in Waiting /\ lost' = lost \union {pending[1]}
      BY <2>1, <2>2 DEF Waiting
    <3>2. 1 .. flips = disk \union Waiting \union lost /\ disk \intersect (Waiting \union lost) = {}
      BY <1>1 DEF EventsKept
    <3>3. QED BY <1>2, <2>1, <2>4, <3>1, <3>2
  <2>6. ASSUME NEW i \in 1 .. Len(pending')
        PROVE  (\A j \in 1 .. i - 1 : pending'[j] < pending'[i]) /\ \A f \in lost' : f < pending'[i]
    <3>1. CASE i = n
      <4>1. ASSUME NEW j \in 1 .. i - 1 PROVE pending'[j] < pending'[i]
        <5>1. j \in 1 .. n - 1 /\ j + 1 \in 1 .. n
          BY <1>1, <3>1
        <5>2. pending'[j] = pending[j + 1] /\ pending[j + 1] < e
          BY <1>3, <2>3, <5>1
        <5>3. QED BY <2>3, <3>1, <5>2
      <4>2. \A f \in lost' : f < e
        BY <1>3, <1>4, <2>1, <2>2
      <4>3. QED BY <2>3, <3>1, <4>1, <4>2
    <3>2. CASE i # n
      <4>1. i \in 1 .. n - 1 /\ i + 1 \in 1 .. n /\ 1 \in 1 .. (i + 1) - 1 /\ i \in Nat
        BY <1>1, <2>3, <3>2
      <4>2. pending'[i] = pending[i + 1]
        BY <2>3, <4>1
      <4>3. ASSUME NEW j \in 1 .. i - 1 PROVE pending'[j] < pending'[i]
        <5>1. j \in 1 .. n - 1 /\ j + 1 \in 1 .. (i + 1) - 1
          BY <1>1, <4>1
        <5>2. pending'[j] = pending[j + 1]
          BY <2>3, <5>1
        <5>3. pending[j + 1] < pending[i + 1]
          BY <1>1, <4>1, <5>1 DEF EventsKept
        <5>4. QED BY <4>2, <5>2, <5>3
      <4>4. (\A f \in lost : f < pending[i + 1]) /\ pending[1] < pending[i + 1]
        BY <1>1, <4>1 DEF EventsKept
      <4>5. QED BY <2>1, <2>2, <4>2, <4>3, <4>4
    <3>3. QED BY <3>1, <3>2
  <2>7. flips' \in Nat
    BY <1>1
  <2>8. QED BY <2>3, <2>5, <2>6, <2>7 DEF EventsInv, EventsKept
<1>6. CASE ~(Len(pending) >= MaxPending)
  <2>1. pending' = Append(pending, e) /\ lost' = lost /\ disk' = disk
    BY <1>6 DEF Buffer
  <2>2. pending' \in Seq(Nat) /\ Len(pending') = n + 1 /\ pending'[n + 1] = e /\ \A i \in 1 .. n : pending'[i] = pending[i]
    BY <1>1, <2>1
  <2>3. Waiting' = Waiting \union {e}
    <3>1. 1 .. n + 1 = (1 .. n) \union {n + 1}
      BY <1>1
    <3>2. Waiting' = {pending'[i] : i \in (1 .. n) \union {n + 1}}
      BY <2>2, <3>1 DEF Waiting
    <3>3. QED BY <2>2, <3>2 DEF Waiting
  <2>4. 1 .. flips' = disk' \union Waiting' \union lost' /\ disk' \intersect (Waiting' \union lost') = {}
    BY <1>1, <1>2, <2>1, <2>3 DEF EventsKept
  <2>5. ASSUME NEW i \in 1 .. Len(pending')
        PROVE  (\A j \in 1 .. i - 1 : pending'[j] < pending'[i]) /\ \A f \in lost' : f < pending'[i]
    <3>1. CASE i = n + 1
      <4>1. \A j \in 1 .. i - 1 : j \in 1 .. n
        BY <1>1, <3>1
      <4>2. QED BY <1>3, <1>4, <2>1, <2>2, <3>1, <4>1
    <3>2. CASE i # n + 1
      <4>1. i \in 1 .. n /\ \A j \in 1 .. i - 1 : j \in 1 .. n
        BY <1>1, <2>2, <3>2
      <4>2. QED BY <1>1, <2>1, <2>2, <4>1 DEF EventsKept
    <3>3. QED BY <3>1, <3>2
  <2>6. flips' \in Nat
    BY <1>1
  <2>7. QED BY <2>2, <2>4, <2>5, <2>6 DEF EventsInv, EventsKept
<1>7. QED BY <1>5, <1>6

\* A transition recorded is the next of its machine.
LEMMA FlipKeeps == ASSUME EventsInv, RecordFlip PROVE EventsInv'
<1>1. flips \in Nat /\ pending \in Seq(Nat) /\ EventsKept
  BY DEF EventsInv
<1>2. CASE UNCHANGED eventVars
  BY <1>1, <1>2 DEF eventVars, EventsInv, EventsKept, Waiting
<1>3. CASE flips' = flips + 1 /\ disk' = disk \union {flips + 1} /\ UNCHANGED <<pending, lost>>
  <2>1. Waiting' = Waiting
    BY <1>3 DEF Waiting
  <2>2. 1 .. flips' = (1 .. flips) \union {flips + 1} /\ flips + 1 \notin 1 .. flips /\ flips' \in Nat
    BY <1>1, <1>3
  <2>3. 1 .. flips' = disk' \union Waiting' \union lost' /\ disk' \intersect (Waiting' \union lost') = {}
    BY <1>1, <1>3, <2>1, <2>2 DEF EventsKept
  <2>4. QED BY <1>1, <1>3, <2>2, <2>3 DEF EventsInv, EventsKept
<1>4. CASE flips' = flips + 1 /\ Buffer(flips + 1)
  BY <1>4, BufferKeeps
<1>5. QED BY <1>2, <1>3, <1>4 DEF RecordFlip

\* Every step keeps the order of the transitions and what the buffer holds of it.
LEMMA EventsStep == ASSUME EventsInv, [Next]_vars PROVE EventsInv'
<1>1. CASE UNCHANGED eventVars
  BY <1>1 DEF eventVars, EventsInv, EventsKept, Waiting
<1>2. CASE Idle \/ BeginRound \/ Gap
  BY <1>2, FlushKeeps DEF Idle, BeginRound, Gap
<1>3. CASE VoidRound \/ WireEdge
  BY <1>1, <1>3 DEF VoidRound, WireEdge
<1>4. CASE Restart
  <2>1. /\ pending' = <<>> /\ disk' = disk /\ flips' = flips
        /\ lost' = lost \union {pending[i] : i \in 1 .. Len(pending)}
    BY <1>4 DEF Restart
  <2>2. pending' \in Seq(Nat) /\ Len(pending') = 0 /\ 1 .. Len(pending') = {}
    BY <2>1
  <2>3. Waiting' = {} /\ lost' = lost \union Waiting
    BY <2>1, <2>2 DEF Waiting
  <2>4. 1 .. flips' = disk' \union Waiting' \union lost' /\ disk' \intersect (Waiting' \union lost') = {}
    BY <2>1, <2>3 DEF EventsInv, EventsKept
  <2>5. QED BY <2>1, <2>2, <2>4 DEF EventsInv, EventsKept
<1>5. ASSUME NEW probed \in SUBSET Families \ {{}}, NEW da \in [Machines -> DownAfters], NEW ua \in UpAfters,
             NEW latency \in Latencies, NEW passed \in SUBSET probed, EndRound(probed, passed, da, ua, latency)
      PROVE  EventsInv'
  BY <1>5, FlipKeeps DEF EndRound
<1>6. ASSUME NEW d \in DispatchIds, DispatchRuns(d) \/ LoadRetry(d) \/ CasRetry(d)
      PROVE  EventsInv'
  BY <1>1, <1>6 DEF DispatchRuns, LoadRetry, CasRetry
<1>7. CASE UNCHANGED vars
  BY <1>1, <1>7 DEF vars
<1>8. QED BY <1>2, <1>3, <1>4, <1>5, <1>6, <1>7 DEF Next

\* Every transition is stored, waiting in order or lost, and only one of them,
\* through refused writes, a buffer that overflows and restarts
\* (bufferPendingEvent, flushPendingEvents).
THEOREM TransitionsAreKept == Spec => []EventsKept
<1>1. Init => EventsInv
  <2> SUFFICES ASSUME Init PROVE EventsInv
    OBVIOUS
  <2>1. pending = <<>> /\ pending \in Seq(Nat) /\ disk = {} /\ lost = {} /\ flips = 0 /\ 1 .. Len(pending) = {} /\ 1 .. flips = {}
    BY DEF Init
  <2>2. QED BY <2>1 DEF EventsInv, EventsKept, Waiting
<1>2. EventsInv /\ [Next]_vars => EventsInv'
  BY EventsStep
<1>3. EventsInv => EventsKept
  BY DEF EventsInv
<1>4. QED BY <1>1, <1>2, <1>3, PTL DEF Spec

-----------------------------------------------------------------------------
(* The degraded episode                                                    *)

\* A dispatch has an id of its own, and the slot names one that bounced.
EpisodeInv ==
    /\ degSeq \in Nat /\ degSent \in BOOLEAN
    /\ degID = IF degSent THEN degSeq ELSE NoID
    /\ degSent => degSeq > 0
    /\ report \in [DispatchIds -> {"none", "out", "ran", "load", "cas", "done"}]
    /\ \A d \in DispatchIds : report[d] # "none" => d <= degSeq
    /\ retry # NoID => retry \in DispatchIds /\ retry <= degSeq /\ report[retry] = "done"

\* The end of an episode leaves none, and nothing to retry.
LEMMA EpisodeEnds == ASSUME EpisodeInv, EndEpisode PROVE EpisodeInv' /\ degID' = NoID
  BY DEF EpisodeInv, EndEpisode

\* A dispatch is made at the start of an episode, or when the last one bounced.
LEMMA BrownoutKeeps ==
    ASSUME EpisodeInv, Brownout
    PROVE  EpisodeInv' /\ (degID # NoID /\ degID' \notin {NoID, degID} => report[degID] = "done")
<1>1. CASE UNCHANGED <<degSent, degID, degSeq, retry, report>>
  BY <1>1 DEF EpisodeInv
<1>2. CASE /\ ~degSent \/ Rearmed
           /\ retry' = (IF Rearmed THEN NoID ELSE retry)
           /\ degSent' = TRUE /\ degSeq' = degSeq + 1 /\ degID' = degSeq + 1
           /\ \E where \in {"out", "none"} : report' = [report EXCEPT ![degSeq + 1] = where]
  <2>1. PICK where \in {"out", "none"} : report' = [report EXCEPT ![degSeq + 1] = where]
    BY <1>2
  <2>2. /\ report' \in [DispatchIds -> {"none", "out", "ran", "load", "cas", "done"}]
        /\ \A d \in DispatchIds : d # degSeq + 1 => report'[d] = report[d]
    BY <2>1 DEF EpisodeInv
  <2>3. \A d \in DispatchIds : report'[d] # "none" => d <= degSeq'
    <3>1. \A d \in DispatchIds : d \in Nat
      BY DEF DispatchIds
    <3>2. degSeq \in Nat /\ degSeq' = degSeq + 1
      BY <1>2 DEF EpisodeInv
    <3>3. QED BY <2>2, <3>1, <3>2 DEF EpisodeInv
  <2>4. retry' # NoID => retry' \in DispatchIds /\ retry' <= degSeq' /\ report'[retry'] = "done"
    <3>1. retry' # NoID => retry' = retry
      BY <1>2
    <3>2. ASSUME retry # NoID PROVE retry \in DispatchIds /\ retry <= degSeq + 1 /\ retry # degSeq + 1 /\ report[retry] = "done"
      BY <3>2 DEF EpisodeInv, DispatchIds
    <3>3. QED BY <1>2, <2>2, <3>1, <3>2
  <2>5. degSeq' \in Nat /\ degSeq' > 0
    BY <1>2 DEF EpisodeInv
  <2>6. EpisodeInv'
    BY <1>2, <2>2, <2>3, <2>4, <2>5 DEF EpisodeInv
  <2>7. degID # NoID => report[degID] = "done"
    BY <1>2 DEF EpisodeInv, Rearmed
  <2>8. QED BY <2>6, <2>7
<1>3. QED BY <1>1, <1>2 DEF Brownout

\* Every step keeps the episodes, and a new one follows only on one reported.
LEMMA EpisodeStep ==
    ASSUME EpisodeInv, [Next]_vars
    PROVE  EpisodeInv' /\ (degID # NoID /\ degID' \notin {NoID, degID} => report[degID] = "done")
<1>1. CASE UNCHANGED degVars
  BY <1>1 DEF degVars, EpisodeInv
<1>2. CASE Idle \/ BeginRound \/ WireEdge
  BY <1>1, <1>2 DEF Idle, BeginRound, WireEdge
<1>3. CASE VoidRound \/ Gap
  BY <1>3, EpisodeEnds DEF VoidRound, Gap, ResetStreaks
<1>4. CASE Restart
  BY <1>4 DEF Restart, EpisodeInv
<1>5. ASSUME NEW probed \in SUBSET Families \ {{}}, NEW da \in [Machines -> DownAfters], NEW ua \in UpAfters,
             NEW latency \in Latencies, NEW passed \in SUBSET probed, EndRound(probed, passed, da, ua, latency)
      PROVE  EpisodeInv' /\ (degID # NoID /\ degID' \notin {NoID, degID} => report[degID] = "done")
  <2>1. EndEpisode \/ UNCHANGED degVars \/ Brownout
    BY <1>5 DEF EndRound, CheckDegraded
  <2>2. QED BY <1>1, <2>1, EpisodeEnds, BrownoutKeeps
<1>6. ASSUME NEW d \in DispatchIds, DispatchRuns(d) \/ LoadRetry(d) \/ CasRetry(d)
      PROVE  EpisodeInv' /\ degID' = degID
  <2>1. /\ degSeq' = degSeq /\ degSent' = degSent /\ degID' = degID
        /\ report[d] \in {"out", "load", "cas"}
        /\ \E to \in {"ran", "load", "cas", "done"} : report' = [report EXCEPT ![d] = to]
        /\ retry' = retry \/ (retry' = d /\ report' = [report EXCEPT ![d] = "done"])
    BY <1>6 DEF DispatchRuns, LoadRetry, CasRetry, Report
  <2>2. PICK to \in {"ran", "load", "cas", "done"} : report' = [report EXCEPT ![d] = to]
    BY <2>1
  <2>3. /\ report' \in [DispatchIds -> {"none", "out", "ran", "load", "cas", "done"}]
        /\ report'[d] = to /\ \A c \in DispatchIds : c # d => report'[c] = report[c]
    BY <2>2 DEF EpisodeInv
  <2>4. d <= degSeq /\ d # NoID
    BY <2>1 DEF EpisodeInv, DispatchIds, NoID
  <2>5. retry' # NoID => retry' \in DispatchIds /\ retry' <= degSeq /\ report'[retry'] = "done"
    <3>1. CASE retry' = retry
      BY <2>1, <2>3, <3>1 DEF EpisodeInv
    <3>2. CASE retry' = d /\ report' = [report EXCEPT ![d] = "done"]
      BY <2>4, <3>2 DEF EpisodeInv
    <3>3. QED BY <2>1, <3>1, <3>2
  <2>6. QED BY <2>1, <2>3, <2>4, <2>5 DEF EpisodeInv
<1>7. CASE UNCHANGED vars
  BY <1>1, <1>7 DEF vars
<1>8. QED BY <1>2, <1>3, <1>4, <1>5, <1>6, <1>7 DEF Next

\* Within an episode a dispatch follows another only when that one was reported
\* bounced (degradedDispatch, RetryDegraded, checkDegraded).
THEOREM DispatchesAreOwed == Spec => RedispatchedOnlyIfBounced
<1>1. Init => EpisodeInv
  <2> SUFFICES ASSUME Init PROVE EpisodeInv
    OBVIOUS
  <2>1. /\ degSent = FALSE /\ degID = NoID /\ degSeq = 0 /\ retry = NoID
        /\ report = [d \in DispatchIds |-> "none"]
    BY DEF Init
  <2>2. report \in [DispatchIds -> {"none", "out", "ran", "load", "cas", "done"}]
    BY <2>1
  <2>3. \A d \in DispatchIds : report[d] = "none"
    BY <2>1
  <2>4. QED BY <2>1, <2>2, <2>3 DEF EpisodeInv
<1>2. EpisodeInv /\ [Next]_vars => EpisodeInv'
  BY EpisodeStep
<1>3. EpisodeInv /\ [Next]_vars => [degID # NoID /\ degID' \notin {NoID, degID} => report[degID] = "done"]_vars
  BY EpisodeStep
<1>4. QED BY <1>1, <1>2, <1>3, PTL DEF Spec, RedispatchedOnlyIfBounced
=============================================================================
