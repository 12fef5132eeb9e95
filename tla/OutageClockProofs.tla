------------------------- MODULE OutageClockProofs -------------------------
(***************************************************************************)
(* A stored outage holds the length it claims, for every behaviour of the  *)
(* module OutageClock and every value of its constants.                    *)
(*                                                                         *)
(* PairHoldsLength speaks of an outage that is closed.  The argument is    *)
(* about the one that is open: OcInv says that at every check of the loop  *)
(* its two accumulators, and the fold the open pause will make, hold at    *)
(* least the seconds of its rows, written or waiting; and that, while the  *)
(* wall clock is never set back, what is added to the pair is no more than *)
(* the host slept and a rounding for each pause and each suspend.  Every   *)
(* operation on the book (pendingGap, flushGap, the retry queue, the two   *)
(* deductions) has its lemmas first, then the steps of the loop; the order *)
(* of the stored events follows.                                           *)
(*                                                                         *)
(* WatchedTimeKept is about the same book seen from the other side: not    *)
(* how many seconds the rows have but which ticks they stand for.  The     *)
(* spans that are out of the length of the open outage, written, waiting   *)
(* or given up, stand for ticks of their own (Within), and these are what  *)
(* the accumulator and the fold take off, but for what a slice rounds and  *)
(* the sleep in slices taken back (Tallies).                               *)
(***************************************************************************)
EXTENDS OutageClock, SumTheorems, FiniteSetTheorems, WellFoundedInduction, TLAPS

-----------------------------------------------------------------------------
(* Types                                                                   *)

Times == [m : Int, w : Int]
Spans == [start : Times, secs : Int, deduct : Int, frozen : Int, pause : BOOLEAN, gen : Nat, own : Nat,
          from : Int, till : Int]
Books == [pausedGap : Int, frozenGap : Int, downPausedAt : Times, gen : Nat, held : Seq(Spans),
          rows : SUBSET Spans, began : Int, pauses : Nat, slices : Nat, slept : Nat,
          kept : SUBSET Spans, gone : SUBSET Spans]
Outages == [start : Int, end : Int, observed : Int, from : Int, to : Int, wall : Int, num : Nat, cuts : Nat]

OcShape ==
    /\ mono \in Nat /\ wall \in Nat /\ back \in BOOLEAN
    /\ lpc \in {"down", "top", "wait", "probe"} /\ due \in Int /\ waited \in Nat /\ lastRound \in Int
    /\ {check, ts, fail, pauseAt} \subseteq Times
    /\ online \in BOOLEAN /\ since \in Int /\ lastEv \in Int /\ newest \in Int
    /\ seen \in SUBSET Int
    /\ flips \in Nat /\ closed \in Outages
    /\ book \in Books /\ IsFiniteSet(book.rows)

-----------------------------------------------------------------------------
(* What spans hold                                                         *)

Secs   == [p \in Spans |-> p.secs]
Frozen == [p \in Spans |-> p.frozen]
\* A suspend with a row may add a second less one tick for nothing.
Rest   == [p \in Spans |-> Bigger(p.frozen - (TPS - 1), 0)]

\* The seconds of the spans of outage n that wait in h from an index on.
SecsOf(h) == [i \in 1 .. Len(h) |-> h[i].secs]
Waiting(n, h, first) == {i \in first .. Len(h) : h[i].own = n}
WaitingSecs(n, h, first) == Total(SecsOf(h), Waiting(n, h, first))
SecsFor(n, p) == IF p.own = n THEN p.secs ELSE 0

InQueue(h) == {h[i] : i \in 1 .. Len(h)}
HeldIn(b)  == InQueue(b.held)
SpansIn(b) == b.rows \union HeldIn(b)

\* The seconds of the rows outage n has, and of those it will have.
Owed(n, b) == Total(Secs, OfOutage(n, b.rows)) + WaitingSecs(n, b.held, 1)

\* A span of the open outage.
SpanFits(p) ==
    /\ p.secs >= 0 /\ p.deduct >= 0 /\ p.frozen >= 0
    /\ IF p.pause THEN p.deduct = 0 /\ p.frozen = 0 ELSE p.deduct + p.frozen = p.secs * TPS

-----------------------------------------------------------------------------
(* Numbers                                                                 *)

\* Whole seconds are rounded down.
LEMMA SecIs ==
    ASSUME NEW t \in Int
    PROVE  Sec(t) \in Int /\ TPS * Sec(t) <= t /\ t < TPS * Sec(t) + TPS
BY ClockAssumption DEF Sec

\* And up.
LEMMA CeilIs ==
    ASSUME NEW t \in Int
    PROVE  CeilSec(t) \in Int /\ TPS * CeilSec(t) >= t /\ TPS * CeilSec(t) < t + TPS
BY ClockAssumption DEF CeilSec

\* Multiples of a second can be compared by their seconds.
LEMMA SecondsApart ==
    ASSUME NEW a \in Int, NEW b \in Int, TPS * a < TPS * b + TPS
    PROVE  a <= b
<1> SUFFICES ASSUME a > b PROVE FALSE
  OBVIOUS
<1>1. a - b - 1 \in Nat /\ TPS \in Nat
  BY ClockAssumption
<1>2. TPS * (a - b - 1) \in Nat
  BY <1>1
<1>3. TPS * (a - b - 1) = TPS * a - TPS * b - TPS
  BY <1>1
<1>4. TPS * a \in Int /\ TPS * b \in Int
  BY <1>1
<1>5. QED BY <1>1, <1>2, <1>3, <1>4

\* A later time has no fewer seconds.
LEMMA SecGrows ==
    ASSUME NEW t \in Int, NEW u \in Int, t <= u
    PROVE  Sec(t) <= Sec(u)
<1>1. /\ Sec(t) \in Int /\ TPS * Sec(t) <= t /\ Sec(u) \in Int /\ u < TPS * Sec(u) + TPS
      /\ TPS \in Nat
  BY SecIs, ClockAssumption
<1>2. TPS * Sec(t) < TPS * Sec(u) + TPS
  BY <1>1
<1>3. QED BY <1>1, <1>2, SecondsApart

\* Time that passed takes its whole seconds with it.
LEMMA SecAdds ==
    ASSUME NEW t \in Int, NEW d \in Int
    PROVE  Sec(t) + Sec(d) <= Sec(t + d)
<1>1. /\ Sec(t) \in Int /\ TPS * Sec(t) <= t /\ Sec(d) \in Int /\ TPS * Sec(d) <= d
      /\ Sec(t + d) \in Int /\ t + d < TPS * Sec(t + d) + TPS /\ TPS \in Nat
  BY SecIs, ClockAssumption
<1>2. TPS * (Sec(t) + Sec(d)) = TPS * Sec(t) + TPS * Sec(d)
  BY <1>1
<1>3. TPS * (Sec(t) + Sec(d)) < TPS * Sec(t + d) + TPS
  BY <1>1, <1>2
<1>4. QED BY <1>1, <1>3, SecondsApart

\* A number of seconds is that many.
LEMMA SecOfSeconds ==
    ASSUME NEW n \in Int
    PROVE  Sec(n * TPS) = n
<1>1. /\ TPS \in Nat \ {0} /\ n * TPS \in Int /\ n * TPS = TPS * n
  BY ClockAssumption
<1>2. Sec(n * TPS) \in Int /\ TPS * Sec(n * TPS) <= n * TPS /\ n * TPS < TPS * Sec(n * TPS) + TPS
  BY <1>1, SecIs
<1>3. Sec(n * TPS) <= n
  <2>1. TPS * Sec(n * TPS) < TPS * n + TPS
    BY <1>1, <1>2
  <2>2. QED BY <1>2, <2>1, SecondsApart
<1>4. n <= Sec(n * TPS)
  BY <1>1, <1>2, SecondsApart
<1>5. QED BY <1>2, <1>3, <1>4

\* The larger of two.
LEMMA BiggerIs ==
    ASSUME NEW a \in Int, NEW b \in Int
    PROVE  Bigger(a, b) \in Int /\ Bigger(a, b) >= a /\ Bigger(a, b) >= b /\ (Bigger(a, b) = a \/ Bigger(a, b) = b)
BY DEF Bigger

\* What holds first and carries on holds throughout.
LEMMA Counting ==
    ASSUME NEW N \in Nat, NEW S, 0 \in S, \A k \in 0 .. N - 1 : k \in S => k + 1 \in S
    PROVE  0 .. N \subseteq S
<1> DEFINE Missing == (0 .. N) \ S
<1> SUFFICES ASSUME Missing # {} PROVE FALSE
  OBVIOUS
<1>1. Missing \subseteq Nat
  OBVIOUS
<1>2. PICK x \in Missing : \A y \in Missing : ~(<<y, x>> \in OpToRel(<, Nat))
  BY <1>1, NatLessThanWellFounded, WFMin
<1>3. x \in 0 .. N /\ x # 0 /\ x - 1 \in 0 .. N - 1
  OBVIOUS
<1>4. x - 1 \notin S
  <2>1. (x - 1) + 1 = x
    BY <1>3
  <2>2. QED BY <1>3, <2>1
<1>5. x - 1 \in Missing /\ x - 1 \in Nat /\ x - 1 < x
  BY <1>3, <1>4
<1>6. OpToRel(<, Nat) = {ss \in Nat \X Nat : ss[1] < ss[2]}
  BY DEF OpToRel
<1>7. PICK y \in Missing : y \in Nat /\ x \in Nat /\ y < x
  BY <1>3, <1>5
<1>8. <<y, x>> \in {ss \in Nat \X Nat : ss[1] < ss[2]}
  BY <1>7
<1>9. QED BY <1>2, <1>6, <1>7, <1>8

-----------------------------------------------------------------------------
(* Sums over what waits                                                    *)

\* The own spans of a queue hold no negative time.
QueueFits(n, h) == \A i \in 1 .. Len(h) : h[i].own = n => h[i].secs >= 0

\* Sums over a queue are natural numbers.
LEMMA WaitingNat ==
    ASSUME NEW n, NEW h \in Seq(Spans), QueueFits(n, h), NEW first \in Nat \ {0}
    PROVE  /\ IsFiniteSet(Waiting(n, h, first)) /\ WaitingSecs(n, h, first) \in Nat
           /\ \A i \in Waiting(n, h, first) : SecsOf(h)[i] \in Nat
<1>1. Waiting(n, h, first) \subseteq first .. Len(h) /\ Len(h) \in Nat
  BY DEF Waiting
<1>2. IsFiniteSet(first .. Len(h))
  BY <1>1, FS_Interval
<1>3. IsFiniteSet(Waiting(n, h, first))
  BY <1>1, <1>2, FS_Subset
<1>4. \A i \in Waiting(n, h, first) : SecsOf(h)[i] \in Nat
  <2>1. ASSUME NEW i \in Waiting(n, h, first) PROVE SecsOf(h)[i] \in Nat
    <3>1. i \in 1 .. Len(h) /\ h[i].own = n
      BY <1>1 DEF Waiting
    <3>2. h[i] \in Spans /\ h[i].secs >= 0
      BY <3>1 DEF QueueFits
    <3>3. h[i].secs \in Int
      BY <3>2 DEF Spans
    <3>4. QED BY <3>1, <3>2, <3>3 DEF SecsOf
  <2>2. QED BY <2>1
<1>5. QED BY <1>3, <1>4, TotalNat DEF WaitingSecs

\* From one index to the next.
LEMMA WaitingNext ==
    ASSUME NEW n, NEW h \in Seq(Spans), QueueFits(n, h), NEW i \in 1 .. Len(h)
    PROVE  WaitingSecs(n, h, i) = SecsFor(n, h[i]) + WaitingSecs(n, h, i + 1)
<1>1. Len(h) \in Nat /\ i \in Nat \ {0} /\ i + 1 \in Nat \ {0}
  OBVIOUS
<1>2. /\ IsFiniteSet(Waiting(n, h, i + 1)) /\ WaitingSecs(n, h, i + 1) \in Nat
      /\ \A j \in Waiting(n, h, i + 1) : SecsOf(h)[j] \in Nat
  BY <1>1, WaitingNat
<1>3. CASE h[i].own = n
  <2>1. Waiting(n, h, i) = Waiting(n, h, i + 1) \union {i}
    BY <1>1, <1>3 DEF Waiting
  <2>2. i \notin Waiting(n, h, i + 1)
    BY <1>1 DEF Waiting
  <2>3. h[i].secs \in Nat /\ SecsOf(h)[i] = h[i].secs
    <3>1. h[i] \in Spans /\ h[i].secs >= 0
      BY <1>3 DEF QueueFits
    <3>2. QED BY <3>1 DEF Spans, SecsOf
  <2>4. Total(SecsOf(h), Waiting(n, h, i + 1) \union {i}) = Total(SecsOf(h), Waiting(n, h, i + 1)) + SecsOf(h)[i]
    BY <1>2, <2>2, <2>3, TotalAdd
  <2>5. QED BY <1>2, <1>3, <2>1, <2>3, <2>4 DEF WaitingSecs, SecsFor
<1>4. CASE h[i].own # n
  <2>1. Waiting(n, h, i) = Waiting(n, h, i + 1)
    BY <1>1, <1>4 DEF Waiting
  <2>2. QED BY <1>2, <1>4, <2>1 DEF WaitingSecs, SecsFor
<1>5. QED BY <1>3, <1>4

\* Past the end nothing waits.
LEMMA WaitingEnds ==
    ASSUME NEW n, NEW h \in Seq(Spans), NEW first \in Nat, first > Len(h)
    PROVE  WaitingSecs(n, h, first) = 0
<1>1. Waiting(n, h, first) = {}
  BY DEF Waiting
<1>2. QED BY <1>1, TotalNone DEF WaitingSecs

\* What a span at the end of the queue adds.
LEMMA WaitingAppend ==
    ASSUME NEW n, NEW h \in Seq(Spans), QueueFits(n, h), NEW p \in Spans, p.own = n => p.secs >= 0
    PROVE  /\ QueueFits(n, Append(h, p))
           /\ WaitingSecs(n, Append(h, p), 1) = WaitingSecs(n, h, 1) + SecsFor(n, p)
<1> DEFINE g == Append(h, p)  l == Len(h)
<1>1. /\ g \in Seq(Spans) /\ Len(g) = l + 1 /\ l \in Nat /\ g[l + 1] = p
      /\ \A i \in 1 .. l : g[i] = h[i]
  OBVIOUS
<1> HIDE DEF g, l
<1>2. QueueFits(n, g)
  <2>1. \A i \in 1 .. l : h[i].own = n => h[i].secs >= 0
    BY DEF QueueFits, l
  <2>2. \A i \in 1 .. l + 1 : i \in 1 .. l \/ i = l + 1
    BY <1>1
  <2>3. QED BY <1>1, <2>1, <2>2 DEF QueueFits
<1>3. /\ IsFiniteSet(Waiting(n, h, 1)) /\ WaitingSecs(n, h, 1) \in Nat
      /\ \A j \in Waiting(n, h, 1) : SecsOf(h)[j] \in Nat
  BY WaitingNat
<1>4. \A j \in Waiting(n, h, 1) : SecsOf(g)[j] = SecsOf(h)[j] /\ j \in 1 .. l
  BY <1>1 DEF Waiting, SecsOf, l
<1>5. Total(SecsOf(g), Waiting(n, h, 1)) = Total(SecsOf(h), Waiting(n, h, 1))
  BY <1>4, TotalSame
<1>6. CASE p.own = n
  <2>1. Waiting(n, g, 1) = Waiting(n, h, 1) \union {l + 1}
    BY <1>1, <1>6 DEF Waiting, l
  <2>2. l + 1 \notin Waiting(n, h, 1)
    BY <1>1, <1>4
  <2>3. p.secs \in Nat /\ SecsOf(g)[l + 1] = p.secs
    <3>1. p.secs \in Int
      BY DEF Spans
    <3>2. QED BY <1>1, <1>6, <3>1 DEF SecsOf
  <2>4. Total(SecsOf(g), Waiting(n, h, 1) \union {l + 1}) = Total(SecsOf(g), Waiting(n, h, 1)) + SecsOf(g)[l + 1]
    <3>1. \A j \in Waiting(n, h, 1) \union {l + 1} : SecsOf(g)[j] \in Nat
      BY <1>3, <1>4, <2>3
    <3> DEFINE last == l + 1
    <3>2. last \notin Waiting(n, h, 1) /\ \A j \in Waiting(n, h, 1) \union {last} : SecsOf(g)[j] \in Nat
      BY <2>2, <3>1
    <3> HIDE DEF last
    <3>3. Total(SecsOf(g), Waiting(n, h, 1) \union {last}) = Total(SecsOf(g), Waiting(n, h, 1)) + SecsOf(g)[last]
      BY <1>3, <3>2, TotalAdd
    <3>4. QED BY <3>3 DEF last
  <2>5. QED BY <1>2, <1>3, <1>5, <1>6, <2>1, <2>3, <2>4 DEF WaitingSecs, SecsFor, g
<1>7. CASE p.own # n
  <2>1. Waiting(n, g, 1) = Waiting(n, h, 1)
    BY <1>1, <1>7 DEF Waiting, l
  <2>2. QED BY <1>2, <1>3, <1>5, <1>7, <2>1 DEF WaitingSecs, SecsFor, g
<1>8. QED BY <1>6, <1>7

\* What the first one held.
LEMMA WaitingTail ==
    ASSUME NEW n, NEW h \in Seq(Spans), QueueFits(n, h), h # <<>>
    PROVE  /\ QueueFits(n, Tail(h))
           /\ WaitingSecs(n, h, 1) = SecsFor(n, Head(h)) + WaitingSecs(n, Tail(h), 1)
<1> DEFINE g == Tail(h)  l == Len(h)
<1>1. /\ g \in Seq(Spans) /\ l \in Nat /\ l >= 1 /\ Len(g) = l - 1 /\ h[1] = Head(h)
      /\ \A i \in 1 .. l - 1 : g[i] = h[i + 1]
  OBVIOUS
<1> HIDE DEF g, l
<1>2. QueueFits(n, g)
  <2>1. \A i \in 1 .. l : h[i].own = n => h[i].secs >= 0
    BY DEF QueueFits, l
  <2>2. \A i \in 1 .. l - 1 : i + 1 \in 1 .. l
    BY <1>1
  <2>3. QED BY <1>1, <2>1, <2>2 DEF QueueFits
<1>3. /\ IsFiniteSet(Waiting(n, g, 1)) /\ \A j \in Waiting(n, g, 1) : SecsOf(g)[j] \in Nat
  BY <1>1, <1>2, WaitingNat
<1>4. \A j \in Waiting(n, g, 1) : j \in 1 .. l - 1 /\ j + 1 \in 1 .. l /\ SecsOf(h)[j + 1] = SecsOf(g)[j]
  <2>1. ASSUME NEW j \in Waiting(n, g, 1) PROVE j \in 1 .. l - 1
    BY <1>1 DEF Waiting
  <2>2. ASSUME NEW j \in 1 .. l - 1 PROVE j + 1 \in 1 .. l /\ SecsOf(h)[j + 1] = SecsOf(g)[j]
    <3>1. j + 1 \in 1 .. l /\ g[j] = h[j + 1]
      BY <1>1
    <3>2. QED BY <1>1, <3>1 DEF SecsOf, l
  <2>3. QED BY <2>1, <2>2
<1>5. {j + 1 : j \in Waiting(n, g, 1)} = Waiting(n, h, 2)
  <2>1. ASSUME NEW i \in Waiting(n, h, 2) PROVE \E j \in Waiting(n, g, 1) : i = j + 1
    <3>1. i \in 2 .. l /\ h[i].own = n
      BY DEF Waiting, l
    <3>2. i - 1 \in 1 .. l - 1 /\ (i - 1) + 1 = i
      BY <1>1, <3>1
    <3>3. g[i - 1] = h[i]
      BY <1>1, <3>2
    <3>4. i - 1 \in Waiting(n, g, 1)
      BY <1>1, <3>1, <3>2, <3>3 DEF Waiting
    <3>5. QED BY <3>2, <3>4
  <2>2. ASSUME NEW j \in Waiting(n, g, 1) PROVE j + 1 \in Waiting(n, h, 2)
    <3>1. j \in 1 .. l - 1 /\ g[j].own = n
      BY <1>4 DEF Waiting
    <3>2. j + 1 \in 2 .. l /\ h[j + 1].own = n
      BY <1>1, <3>1
    <3>3. QED BY <3>2 DEF Waiting, l
  <2>3. QED BY <2>1, <2>2
<1>6. Waiting(n, g, 1) \in SUBSET Int
  BY <1>4
<1>7. Total(SecsOf(h), {j + 1 : j \in Waiting(n, g, 1)}) = Total(SecsOf(g), Waiting(n, g, 1))
  BY <1>3, <1>4, <1>6, TotalShift
<1>8. WaitingSecs(n, h, 2) = WaitingSecs(n, g, 1)
  BY <1>5, <1>7 DEF WaitingSecs
<1>9. 1 \in 1 .. Len(h) /\ 1 + 1 = 2
  BY <1>1 DEF l
<1>10. WaitingSecs(n, h, 1) = SecsFor(n, h[1]) + WaitingSecs(n, h, 2)
  BY <1>9, WaitingNext
<1>11. QED BY <1>1, <1>2, <1>8, <1>10 DEF g

-----------------------------------------------------------------------------
(* The operations of the book                                              *)

\* The accumulators of two books.
SameSums(b, r) == r.pausedGap = b.pausedGap /\ r.frozenGap = b.frozenGap
SameFold(b, r) == r.downPausedAt = b.downPausedAt
SameRows(b, r) == r.rows = b.rows /\ r.held = b.held

\* A deduction is taken back, down to zero, or there was none of this outage.
Undone(b, p, r) ==
    \/ SameSums(b, r) /\ (p.gen # b.gen \/ (p.deduct <= 0 /\ p.frozen <= 0))
    \/ /\ p.gen = b.gen
       /\ r.pausedGap = Bigger(b.pausedGap - p.deduct, 0)
       /\ r.frozenGap = Bigger(b.frozenGap - p.frozen, 0)

\* The fold of the open pause is begun later by what the row would have held.
Shifted(b, p, r) ==
    /\ b.downPausedAt # NoTime /\ p.gen = b.gen /\ p.start.m >= b.downPausedAt.m
    /\ r.downPausedAt = [m |-> b.downPausedAt.m + p.secs * TPS, w |-> b.downPausedAt.w + p.secs * TPS]

\* revertGapDeduction.
LEMMA RevertIs ==
    ASSUME NEW b \in Books, NEW p \in Spans
    PROVE  LET r == RevertGapDeduction(b, p)
           IN /\ r \in Books /\ SameRows(b, r) /\ SameFold(b, r) /\ Undone(b, p, r)
              /\ r.gen = b.gen /\ r.pauses = b.pauses
<1> DEFINE r == RevertGapDeduction(b, p)
<1>1. p.deduct \in Int /\ p.frozen \in Int /\ b.pausedGap \in Int /\ b.frozenGap \in Int
  BY DEF Books, Spans
<1>2. CASE p.gen # b.gen \/ (p.deduct <= 0 /\ p.frozen <= 0)
  <2>1. r = b
    BY <1>2 DEF RevertGapDeduction
  <2>2. QED BY <1>2, <2>1 DEF SameRows, SameFold, Undone, SameSums
<1>3. CASE ~(p.gen # b.gen \/ (p.deduct <= 0 /\ p.frozen <= 0))
  <2> DEFINE pg == Bigger(b.pausedGap - p.deduct, 0)  fg == Bigger(b.frozenGap - p.frozen, 0)
  <2>1. r = [b EXCEPT !.pausedGap = pg, !.frozenGap = fg]
    BY <1>3 DEF RevertGapDeduction
  <2>2. pg \in Int /\ fg \in Int
    <3>1. b.pausedGap - p.deduct \in Int /\ b.frozenGap - p.frozen \in Int /\ 0 \in Int
      BY <1>1
    <3>2. QED BY <3>1, BiggerIs
  <2> HIDE DEF pg, fg
  <2>3. /\ r \in Books /\ r.pausedGap = pg /\ r.frozenGap = fg /\ r.downPausedAt = b.downPausedAt
        /\ r.rows = b.rows /\ r.held = b.held /\ r.gen = b.gen /\ r.pauses = b.pauses
    BY <2>1, <2>2 DEF Books
  <2>4. QED BY <1>3, <2>3 DEF SameRows, SameFold, Undone, pg, fg
<1>4. QED BY <1>2, <1>3

\* What a row would hold of sleep is no less than nothing.
LEMMA ExcessNat == ASSUME NEW p \in Spans PROVE Excess(p) \in Nat
<1>1. p.secs \in Int /\ p.from \in Int /\ p.till \in Int /\ TPS \in Nat
  BY ClockAssumption DEF Spans
<1>2. p.secs * TPS \in Int
  BY <1>1
<1>3. p.secs * TPS - (p.till - p.from) \in Int
  BY <1>1, <1>2
<1>4. QED BY <1>3 DEF Excess, Bigger

\* dropRefusedPauseDeduction.
LEMMA DropIs ==
    ASSUME NEW b \in Books, NEW p \in Spans
    PROVE  LET r == DropRefusedPauseDeduction(b, p)
           IN /\ r \in Books /\ SameRows(b, r) /\ SameSums(b, r)
              /\ SameFold(b, r) \/ Shifted(b, p, r)
              /\ r.gen = b.gen /\ r.pauses = b.pauses
<1> DEFINE r == DropRefusedPauseDeduction(b, p)
           later == [m |-> b.downPausedAt.m + p.secs * TPS, w |-> b.downPausedAt.w + p.secs * TPS]
           slept == b.slept + Excess(p)
<1>1. later \in Times
  <2>1. p.secs \in Int /\ b.downPausedAt \in Times /\ TPS \in Nat
    BY ClockAssumption DEF Books, Spans
  <2>2. p.secs * TPS \in Int /\ b.downPausedAt.m \in Int /\ b.downPausedAt.w \in Int
    BY <2>1 DEF Times
  <2>3. QED BY <2>2 DEF Times
<1>2. slept \in Nat
  BY ExcessNat DEF Books
<1>3. CASE b.downPausedAt # NoTime /\ p.gen = b.gen /\ p.start.m >= b.downPausedAt.m
  <2>1. r = [b EXCEPT !.downPausedAt = later, !.slept = slept]
    BY <1>3 DEF DropRefusedPauseDeduction
  <2> HIDE DEF later, slept
  <2>2. /\ r \in Books /\ r.pausedGap = b.pausedGap /\ r.frozenGap = b.frozenGap /\ r.downPausedAt = later
        /\ r.rows = b.rows /\ r.held = b.held /\ r.gen = b.gen /\ r.pauses = b.pauses
    BY <1>1, <1>2, <2>1 DEF Books
  <2>3. QED BY <1>3, <2>2 DEF SameRows, SameSums, Shifted, later
<1>4. CASE ~(b.downPausedAt # NoTime /\ p.gen = b.gen /\ p.start.m >= b.downPausedAt.m)
  <2>1. r \in {[b EXCEPT !.kept = @ \union {p}], [b EXCEPT !.gone = @ \union {p}]}
    BY <1>4 DEF DropRefusedPauseDeduction
  <2>2. /\ r \in Books /\ r.pausedGap = b.pausedGap /\ r.frozenGap = b.frozenGap
        /\ r.downPausedAt = b.downPausedAt
        /\ r.rows = b.rows /\ r.held = b.held /\ r.gen = b.gen /\ r.pauses = b.pauses
    BY <2>1 DEF Books
  <2>3. QED BY <2>2 DEF SameRows, SameSums, SameFold
<1>5. QED BY <1>3, <1>4

\* flushGap: a row, a span held, or a refusal.
LEMMA FlushIs ==
    ASSUME NEW b \in Books, NEW p \in Spans, NEW lands
    PROVE  LET r == Flush(b, p, lands)
           IN /\ r \in Books /\ r.gen = b.gen /\ r.pauses = b.pauses
              /\ \/ r.rows = b.rows \union {p} /\ r.held = b.held /\ SameSums(b, r) /\ SameFold(b, r)
                 \/ r.rows = b.rows /\ r.held = Append(b.held, p) /\ SameSums(b, r) /\ SameFold(b, r)
                 \/ SameRows(b, r) /\ p.pause /\ SameSums(b, r) /\ (SameFold(b, r) \/ Shifted(b, p, r))
                 \/ SameRows(b, r) /\ ~p.pause /\ SameFold(b, r) /\ Undone(b, p, r)
<1> DEFINE r == Flush(b, p, lands)
<1>1. CASE PauseSpanSane(p) /\ lands
  <2>1. r = [b EXCEPT !.rows = @ \union {p}]
    BY <1>1 DEF Flush
  <2>2. /\ r \in Books /\ r.pausedGap = b.pausedGap /\ r.frozenGap = b.frozenGap /\ r.downPausedAt = b.downPausedAt
        /\ r.rows = b.rows \union {p} /\ r.held = b.held /\ r.gen = b.gen /\ r.pauses = b.pauses
    BY <2>1 DEF Books
  <2>3. QED BY <2>2 DEF SameSums, SameFold
<1>2. CASE PauseSpanSane(p) /\ ~lands
  <2>1. r = [b EXCEPT !.held = Append(@, p)]
    BY <1>2 DEF Flush
  <2>2. Append(b.held, p) \in Seq(Spans)
    BY DEF Books
  <2>3. /\ r \in Books /\ r.pausedGap = b.pausedGap /\ r.frozenGap = b.frozenGap /\ r.downPausedAt = b.downPausedAt
        /\ r.rows = b.rows /\ r.held = Append(b.held, p) /\ r.gen = b.gen /\ r.pauses = b.pauses
    BY <2>1, <2>2 DEF Books
  <2>4. QED BY <2>3 DEF SameSums, SameFold
<1>3. CASE ~PauseSpanSane(p) /\ p.pause
  <2>1. r = DropRefusedPauseDeduction(b, p)
    BY <1>3 DEF Flush
  <2>2. QED BY <1>3, <2>1, DropIs
<1>4. CASE ~PauseSpanSane(p) /\ ~p.pause
  <2>1. r = RevertGapDeduction(b, p)
    BY <1>4 DEF Flush
  <2>2. QED BY <1>4, <2>1, RevertIs
<1>5. QED BY <1>1, <1>2, <1>3, <1>4

\* appendHeldGap: the queue stays, or loses its first.
LEMMA EvictIs ==
    ASSUME NEW b \in Books
    PROVE  LET r == Evict(b)
           IN /\ r \in Books /\ r.gen = b.gen /\ r.pauses = b.pauses
              /\ \/ r = b
                 \/ /\ b.held # <<>> /\ r.held = Tail(b.held) /\ r.rows = b.rows
                    /\ SameFold(b, r) /\ Undone(b, Head(b.held), r)
<1> DEFINE r == Evict(b)  p == Head(b.held)  d == RevertGapDeduction(b, p)
<1>1. b.held \in Seq(Spans)
  BY DEF Books
<1>2. CASE Len(b.held) <= MaxHeld
  BY <1>2 DEF Evict
<1>3. CASE ~(Len(b.held) <= MaxHeld)
  <2>1. b.held # <<>>
    BY <1>1, <1>3, ClockAssumption
  <2>2. p \in Spans /\ Tail(b.held) \in Seq(Spans)
    BY <1>1, <2>1
  <2> HIDE DEF p
  <2>3. d \in Books /\ SameRows(b, d) /\ SameFold(b, d) /\ Undone(b, p, d) /\ d.gen = b.gen /\ d.pauses = b.pauses
    BY <2>2, RevertIs
  <2>4. r = [d EXCEPT !.held = Tail(@), !.gone = IF p.pause THEN @ \union {p} ELSE @]
    BY <1>3 DEF Evict, p
  <2> HIDE DEF d, r
  <2>5. Tail(d.held) = Tail(b.held)
    BY <2>3 DEF SameRows
  <2>6. /\ r \in Books /\ r.pausedGap = d.pausedGap /\ r.frozenGap = d.frozenGap /\ r.downPausedAt = d.downPausedAt
        /\ r.rows = d.rows /\ r.held = Tail(b.held) /\ r.gen = d.gen /\ r.pauses = d.pauses
    BY <2>2, <2>3, <2>4, <2>5 DEF Books
  <2>7. SameFold(b, r) /\ Undone(b, p, r) /\ r.rows = b.rows
    BY <2>3, <2>6 DEF SameRows, SameSums, SameFold, Undone
  <2>8. QED BY <2>1, <2>3, <2>6, <2>7 DEF p, r
<1>4. QED BY <1>2, <1>3

-----------------------------------------------------------------------------
(* Rows and held spans are covered                                         *)

\* A span of the generation of the book is one of the open outage n, and fits.
Placed(n, g, p) == (p.own = n => SpanFits(p)) /\ (p.gen = g <=> p.own = n)

BookFits(n, b) ==
    /\ b \in Books /\ IsFiniteSet(b.rows)
    /\ \A p \in b.rows : p.own = n => SpanFits(p)
    /\ \A p \in HeldIn(b) : Placed(n, b.gen, p)
    /\ b.downPausedAt = NoTime \/ b.downPausedAt.m >= 0

\* What the fold of the open pause will deduct, were it made at the tick.
Folded(b, tick) == IF b.downPausedAt = NoTime THEN 0 ELSE tick - b.downPausedAt.m

\* What is deducted or added to the pair is what the rows hold, with x seconds
\* still to be placed.
Covers(n, b, tick, x) == b.pausedGap + b.frozenGap + Folded(b, tick) >= TPS * (Owed(n, b) + x)

\* The queue with one more, and with one less.
LEMMA InQueueIs ==
    ASSUME NEW h \in Seq(Spans)
    PROVE  /\ InQueue(h) \subseteq Spans /\ IsFiniteSet(InQueue(h))
           /\ \A p \in Spans : InQueue(Append(h, p)) = InQueue(h) \union {p}
           /\ h # <<>> => InQueue(h) = InQueue(Tail(h)) \union {Head(h)}
<1>1. InQueue(h) \subseteq Spans
  BY DEF InQueue
<1>2. IsFiniteSet(InQueue(h))
  <2> DEFINE f == [i \in 1 .. Len(h) |-> h[i]]
  <2>1. f \in Surjection(1 .. Len(h), InQueue(h))
    BY DEF Surjection, InQueue
  <2>2. IsFiniteSet(1 .. Len(h))
    BY FS_Interval
  <2> HIDE DEF f
  <2>3. QED BY <2>1, <2>2, FS_Surjection
<1>3. ASSUME NEW p \in Spans PROVE InQueue(Append(h, p)) = InQueue(h) \union {p}
  <2> DEFINE g == Append(h, p)  l == Len(h)
  <2>1. Len(g) = l + 1 /\ l \in Nat /\ g[l + 1] = p /\ \A i \in 1 .. l : g[i] = h[i]
    OBVIOUS
  <2> HIDE DEF g, l
  <2>2. 1 .. l + 1 = (1 .. l) \union {l + 1}
    BY <2>1
  <2>3. {g[i] : i \in 1 .. l + 1} = {h[i] : i \in 1 .. l} \union {p}
    BY <2>1, <2>2
  <2>4. QED BY <2>1, <2>3 DEF InQueue, g, l
<1>4. ASSUME h # <<>> PROVE InQueue(h) = InQueue(Tail(h)) \union {Head(h)}
  <2> DEFINE g == Tail(h)  l == Len(h)
  <2>1. l \in Nat /\ l >= 1 /\ Len(g) = l - 1 /\ h[1] = Head(h) /\ \A i \in 1 .. l - 1 : g[i] = h[i + 1]
    BY <1>4
  <2> HIDE DEF g, l
  <2>2. \A i \in 1 .. l : i = 1 \/ (i - 1 \in 1 .. l - 1 /\ (i - 1) + 1 = i)
    BY <2>1
  <2>3. \A i \in 1 .. l - 1 : i + 1 \in 1 .. l
    BY <2>1
  <2>4. \A q \in {h[i] : i \in 1 .. l} : q = Head(h) \/ q \in {g[i] : i \in 1 .. l - 1}
    <3>1. ASSUME NEW i \in 1 .. l PROVE h[i] = Head(h) \/ h[i] \in {g[j] : j \in 1 .. l - 1}
      <4>1. CASE i = 1
        BY <2>1, <4>1
      <4>2. CASE i # 1
        <5>1. i - 1 \in 1 .. l - 1 /\ (i - 1) + 1 = i
          BY <2>2, <4>2
        <5>2. g[i - 1] = h[i]
          BY <2>1, <5>1
        <5>3. QED BY <5>1, <5>2
      <4>3. QED BY <4>1, <4>2
    <3>2. QED BY <3>1
  <2>5. \A q \in {g[i] : i \in 1 .. l - 1} : q \in {h[i] : i \in 1 .. l}
    BY <2>1, <2>3
  <2>6. Head(h) \in {h[i] : i \in 1 .. l}
    BY <2>1
  <2>7. {h[i] : i \in 1 .. l} = {g[i] : i \in 1 .. l - 1} \union {Head(h)}
    BY <2>4, <2>5, <2>6
  <2>8. QED BY <2>1, <2>7 DEF InQueue, g, l
<1>5. QED BY <1>1, <1>2, <1>3, <1>4

\* The time of a multiple of a second.
LEMMA TimesTPS ==
    ASSUME NEW a \in Int, NEW b \in Int, a <= b
    PROVE  TPS * a \in Int /\ TPS * b \in Int /\ TPS * a <= TPS * b
<1>1. TPS \in Nat /\ b - a \in Nat
  BY ClockAssumption
<1>2. TPS * (b - a) \in Nat /\ TPS * (b - a) = TPS * b - TPS * a /\ TPS * a \in Int /\ TPS * b \in Int
  BY <1>1
<1>3. QED BY <1>2

\* The rows' seconds.
LEMMA RowsNat ==
    ASSUME NEW n, NEW rows \in SUBSET Spans, IsFiniteSet(rows), \A p \in rows : p.own = n => SpanFits(p)
    PROVE  /\ IsFiniteSet(OfOutage(n, rows)) /\ \A p \in OfOutage(n, rows) : Secs[p] \in Nat
           /\ Total(Secs, OfOutage(n, rows)) \in Nat
<1>1. OfOutage(n, rows) \subseteq rows
  BY DEF OfOutage
<1>2. IsFiniteSet(OfOutage(n, rows))
  BY <1>1, FS_Subset
<1>3. \A p \in OfOutage(n, rows) : Secs[p] \in Nat
  <2>1. ASSUME NEW p \in OfOutage(n, rows) PROVE Secs[p] \in Nat
    <3>1. p \in Spans /\ p.secs >= 0
      BY DEF OfOutage, SpanFits
    <3>2. p.secs \in Int
      BY <3>1 DEF Spans
    <3>3. QED BY <3>1, <3>2 DEF Secs
  <2>2. QED BY <2>1
<1>4. QED BY <1>2, <1>3, TotalNat

\* With one more row.
LEMMA RowsAdd ==
    ASSUME NEW n, NEW rows \in SUBSET Spans, IsFiniteSet(rows), \A p \in rows : p.own = n => SpanFits(p),
           NEW p \in Spans, p.own = n => SpanFits(p)
    PROVE  /\ IsFiniteSet(rows \union {p})
           /\ Total(Secs, OfOutage(n, rows \union {p})) <= Total(Secs, OfOutage(n, rows)) + SecsFor(n, p)
<1>1. IsFiniteSet(rows \union {p})
  BY FS_Singleton, FS_Union
<1>2. /\ IsFiniteSet(OfOutage(n, rows)) /\ \A q \in OfOutage(n, rows) : Secs[q] \in Nat
      /\ Total(Secs, OfOutage(n, rows)) \in Nat
  BY RowsNat
<1>3. CASE p.own = n /\ p \notin rows
  <2>1. OfOutage(n, rows \union {p}) = OfOutage(n, rows) \union {p} /\ p \notin OfOutage(n, rows)
    BY <1>3 DEF OfOutage
  <2>2. Secs[p] = p.secs /\ p.secs \in Nat
    BY <1>3 DEF Secs, SpanFits, Spans
  <2>3. Total(Secs, OfOutage(n, rows) \union {p}) = Total(Secs, OfOutage(n, rows)) + Secs[p]
    BY <1>2, <2>1, <2>2, TotalAdd
  <2>4. SecsFor(n, p) = p.secs
    BY <1>3 DEF SecsFor
  <2>5. Total(Secs, OfOutage(n, rows \union {p})) = Total(Secs, OfOutage(n, rows)) + p.secs
    BY <2>1, <2>2, <2>3
  <2>6. QED BY <1>1, <1>2, <2>2, <2>4, <2>5
<1>4. CASE ~(p.own = n /\ p \notin rows)
  <2>1. OfOutage(n, rows \union {p}) = OfOutage(n, rows)
    BY <1>4 DEF OfOutage
  <2>2. SecsFor(n, p) >= 0
    BY DEF SecsFor, SpanFits
  <2>3. SecsFor(n, p) \in Int
    BY DEF SecsFor, Spans
  <2>4. QED BY <1>1, <1>2, <2>1, <2>2, <2>3
<1>5. QED BY <1>3, <1>4

\* What a book that fits is made of.
LEMMA FitsParts ==
    ASSUME NEW n, NEW b, BookFits(n, b)
    PROVE  /\ b.held \in Seq(Spans) /\ QueueFits(n, b.held)
           /\ WaitingSecs(n, b.held, 1) \in Nat /\ Total(Secs, OfOutage(n, b.rows)) \in Nat /\ Owed(n, b) \in Nat
           /\ b.pausedGap \in Int /\ b.frozenGap \in Int /\ b.downPausedAt \in Times /\ b.downPausedAt.m \in Int
           /\ b.rows \in SUBSET Spans /\ IsFiniteSet(b.rows) /\ \A p \in b.rows : p.own = n => SpanFits(p)
           /\ SpansIn(b) \in SUBSET Spans /\ IsFiniteSet(SpansIn(b)) /\ \A p \in SpansIn(b) : p.own = n => SpanFits(p)
<1>1. b.held \in Seq(Spans) /\ b.rows \in SUBSET Spans
  BY DEF BookFits, Books
<1>2. QueueFits(n, b.held)
  <2>1. ASSUME NEW i \in 1 .. Len(b.held), b.held[i].own = n PROVE b.held[i].secs >= 0
    <3>1. b.held[i] \in HeldIn(b)
      BY DEF HeldIn, InQueue
    <3>2. QED BY <2>1, <3>1 DEF BookFits, Placed, SpanFits
  <2>2. QED BY <2>1 DEF QueueFits
<1>3. WaitingSecs(n, b.held, 1) \in Nat
  BY <1>1, <1>2, WaitingNat
<1>4. IsFiniteSet(b.rows) /\ \A p \in b.rows : p.own = n => SpanFits(p)
  BY DEF BookFits
<1>5. Total(Secs, OfOutage(n, b.rows)) \in Nat
  BY <1>1, <1>4, RowsNat
<1>6. b.pausedGap \in Int /\ b.frozenGap \in Int /\ b.downPausedAt \in Times /\ b.downPausedAt.m \in Int
  BY DEF BookFits, Books, Times
<1>7. InQueue(b.held) \subseteq Spans /\ IsFiniteSet(InQueue(b.held))
  BY <1>1, InQueueIs
<1>8. SpansIn(b) \in SUBSET Spans /\ IsFiniteSet(SpansIn(b))
  BY <1>1, <1>4, <1>7, FS_Union DEF SpansIn, HeldIn
<1>9. \A p \in SpansIn(b) : p.own = n => SpanFits(p)
  BY <1>4 DEF SpansIn, BookFits, Placed
<1>10. QED BY <1>1, <1>2, <1>3, <1>4, <1>5, <1>6, <1>8, <1>9 DEF Owed

\* The shifted fold is still of a pause.
LEMMA ShiftedFits ==
    ASSUME NEW b, b.downPausedAt \in Times, NEW p \in Spans, p.secs >= 0, NEW r, Shifted(b, p, r),
           b.downPausedAt.m >= 0, NEW tick \in Int
    PROVE  /\ b.downPausedAt # NoTime /\ r.downPausedAt # NoTime /\ r.downPausedAt.m >= 0
           /\ Folded(r, tick) = Folded(b, tick) - p.secs * TPS
<1>1. p.secs \in Nat /\ TPS \in Nat /\ b.downPausedAt.m \in Int
  BY ClockAssumption DEF Spans, Times
<1>2. p.secs * TPS \in Nat
  BY <1>1
<1>3. r.downPausedAt.m = b.downPausedAt.m + p.secs * TPS
  BY DEF Shifted
<1> HIDE DEF NoTime
<1>4. NoTime.m = -1
  BY DEF NoTime
<1>5. r.downPausedAt.m >= 0 /\ r.downPausedAt.m \in Int
  BY <1>1, <1>2, <1>3
<1>6. b.downPausedAt # NoTime /\ r.downPausedAt # NoTime
  BY <1>4, <1>5 DEF Shifted
<1>7. QED BY <1>1, <1>2, <1>3, <1>5, <1>6 DEF Folded

\* A flushed span leaves a book that fits.
LEMMA FlushFits ==
    ASSUME NEW n, NEW b, BookFits(n, b), NEW p \in Spans, Placed(n, b.gen, p), NEW lands
    PROVE  LET r == Flush(b, p, lands)
           IN BookFits(n, r) /\ r.gen = b.gen /\ r.pauses = b.pauses /\ (r.downPausedAt = NoTime <=> b.downPausedAt = NoTime)
<1> DEFINE r == Flush(b, p, lands)
<1>1. b \in Books
  BY DEF BookFits
<1>2. /\ r \in Books /\ r.gen = b.gen /\ r.pauses = b.pauses
      /\ \/ r.rows = b.rows \union {p} /\ r.held = b.held /\ SameSums(b, r) /\ SameFold(b, r)
         \/ r.rows = b.rows /\ r.held = Append(b.held, p) /\ SameSums(b, r) /\ SameFold(b, r)
         \/ SameRows(b, r) /\ p.pause /\ SameSums(b, r) /\ (SameFold(b, r) \/ Shifted(b, p, r))
         \/ SameRows(b, r) /\ ~p.pause /\ SameFold(b, r) /\ Undone(b, p, r)
  BY <1>1, FlushIs
<1> HIDE DEF r
<1>3. /\ b.rows \in SUBSET Spans /\ IsFiniteSet(b.rows) /\ \A q \in b.rows : q.own = n => SpanFits(q)
      /\ b.held \in Seq(Spans) /\ b.downPausedAt \in Times
  BY FitsParts
<1>4. IsFiniteSet(r.rows) /\ \A q \in r.rows : q.own = n => SpanFits(q)
  <2>1. IsFiniteSet(b.rows \union {p})
    BY <1>3, FS_Singleton, FS_Union
  <2>2. r.rows = b.rows \/ r.rows = b.rows \union {p}
    BY <1>2 DEF SameRows
  <2>3. QED BY <1>3, <2>1, <2>2 DEF Placed
<1>5. \A q \in HeldIn(r) : Placed(n, r.gen, q)
  <2>1. InQueue(Append(b.held, p)) = InQueue(b.held) \union {p}
    BY <1>3, InQueueIs
  <2>2. r.held = b.held \/ r.held = Append(b.held, p)
    BY <1>2 DEF SameRows
  <2>3. \A q \in HeldIn(r) : q \in HeldIn(b) \/ q = p
    BY <2>1, <2>2 DEF HeldIn
  <2>4. QED BY <1>2, <2>3 DEF BookFits
<1>6. (r.downPausedAt = NoTime \/ r.downPausedAt.m >= 0) /\ (r.downPausedAt = NoTime <=> b.downPausedAt = NoTime)
  <2>1. CASE SameFold(b, r)
    BY <2>1 DEF SameFold, BookFits
  <2>2. CASE Shifted(b, p, r)
    <3>1. b.downPausedAt.m >= 0
      BY <2>2 DEF Shifted, BookFits
    <3>2. p.secs >= 0
      BY <2>2 DEF Shifted, Placed, SpanFits
    <3>3. b.downPausedAt # NoTime /\ r.downPausedAt # NoTime /\ r.downPausedAt.m >= 0
      BY <1>3, <2>2, <3>1, <3>2, ShiftedFits, 0 \in Int
    <3>4. QED BY <3>3
  <2>3. QED BY <1>2, <2>1, <2>2
<1>7. QED BY <1>2, <1>4, <1>5, <1>6 DEF BookFits, r

\* And so does the drop of the oldest.
LEMMA EvictFits ==
    ASSUME NEW n, NEW b, BookFits(n, b)
    PROVE  LET r == Evict(b)
           IN BookFits(n, r) /\ r.gen = b.gen /\ r.pauses = b.pauses /\ (r.downPausedAt = NoTime <=> b.downPausedAt = NoTime)
<1> DEFINE r == Evict(b)
<1>1. b \in Books /\ b.held \in Seq(Spans)
  BY DEF BookFits, Books
<1>2. /\ r \in Books /\ r.gen = b.gen /\ r.pauses = b.pauses
      /\ \/ r = b
         \/ /\ b.held # <<>> /\ r.held = Tail(b.held) /\ r.rows = b.rows
            /\ SameFold(b, r) /\ Undone(b, Head(b.held), r)
  BY <1>1, EvictIs
<1> HIDE DEF r
<1>3. CASE r = b
  BY <1>3 DEF r
<1>4. CASE b.held # <<>> /\ r.held = Tail(b.held) /\ r.rows = b.rows /\ SameFold(b, r)
  <2>1. InQueue(b.held) = InQueue(Tail(b.held)) \union {Head(b.held)}
    BY <1>1, <1>4, InQueueIs
  <2>2. HeldIn(r) \subseteq HeldIn(b)
    BY <1>4, <2>1 DEF HeldIn
  <2>3. QED BY <1>2, <1>4, <2>2 DEF BookFits, SameFold, r
<1>5. QED BY <1>2, <1>3, <1>4

\* Taking a deduction back takes no more than it was.
LEMMA UndoneCovers ==
    ASSUME NEW n, NEW b, BookFits(n, b), NEW p \in Spans, Placed(n, b.gen, p),
           NEW r \in Books, Undone(b, p, r)
    PROVE  r.pausedGap + r.frozenGap >= b.pausedGap + b.frozenGap - TPS * SecsFor(n, p)
<1>1. /\ b.pausedGap \in Int /\ b.frozenGap \in Int /\ r.pausedGap \in Int /\ r.frozenGap \in Int
      /\ p.secs \in Int /\ p.deduct \in Int /\ p.frozen \in Int /\ TPS \in Nat
  BY FitsParts, ClockAssumption DEF Books, Spans
<1>2. SecsFor(n, p) \in Nat
  BY <1>1 DEF SecsFor, Placed, SpanFits
<1>3. TPS * SecsFor(n, p) \in Nat
  BY <1>1, <1>2
<1>4. CASE SameSums(b, r)
  BY <1>1, <1>3, <1>4 DEF SameSums
<1>5. CASE p.gen = b.gen /\ r.pausedGap = Bigger(b.pausedGap - p.deduct, 0)
           /\ r.frozenGap = Bigger(b.frozenGap - p.frozen, 0)
  <2>1. p.own = n /\ SpanFits(p) /\ SecsFor(n, p) = p.secs
    BY <1>5 DEF Placed, SecsFor
  <2>2. r.pausedGap >= b.pausedGap - p.deduct /\ r.frozenGap >= b.frozenGap - p.frozen
    <3>1. b.pausedGap - p.deduct \in Int /\ b.frozenGap - p.frozen \in Int
      BY <1>1
    <3>2. QED BY <1>5, <3>1, BiggerIs
  <2>3. p.deduct + p.frozen <= p.secs * TPS
    <3>1. p.secs * TPS \in Nat
      BY <1>1, <2>1 DEF SpanFits
    <3>2. QED BY <1>1, <2>1, <3>1 DEF SpanFits
  <2>4. p.secs * TPS = TPS * p.secs
    BY <1>1
  <2>5. TPS * SecsFor(n, p) = p.secs * TPS
    BY <2>1, <2>4
  <2>6. p.secs * TPS \in Int
    BY <1>1
  <2>7. QED BY <1>1, <2>2, <2>3, <2>5, <2>6
<1>6. QED BY <1>4, <1>5 DEF Undone

\* A flushed span is covered as it was, or its time is given back.
LEMMA FlushCovers ==
    ASSUME NEW n, NEW b, BookFits(n, b), NEW p \in Spans, Placed(n, b.gen, p), NEW lands,
           NEW tick \in Int, NEW x \in Nat, Covers(n, b, tick, SecsFor(n, p) + x)
    PROVE  Covers(n, Flush(b, p, lands), tick, x)
<1> DEFINE r == Flush(b, p, lands)
<1>1. b \in Books
  BY DEF BookFits
<1>2. /\ r \in Books
      /\ \/ r.rows = b.rows \union {p} /\ r.held = b.held /\ SameSums(b, r) /\ SameFold(b, r)
         \/ r.rows = b.rows /\ r.held = Append(b.held, p) /\ SameSums(b, r) /\ SameFold(b, r)
         \/ SameRows(b, r) /\ p.pause /\ SameSums(b, r) /\ (SameFold(b, r) \/ Shifted(b, p, r))
         \/ SameRows(b, r) /\ ~p.pause /\ SameFold(b, r) /\ Undone(b, p, r)
  BY <1>1, FlushIs
<1>3. BookFits(n, r)
  BY FlushFits
<1> HIDE DEF r
<1> DEFINE s == SecsFor(n, p)  o == Owed(n, b)  q == Owed(n, r)
<1>4. s \in Nat /\ o \in Nat /\ q \in Nat
  <2>1. p.secs \in Int
    BY DEF Spans
  <2>2. s \in Nat
    BY <2>1 DEF SecsFor, Placed, SpanFits
  <2>3. QED BY <1>3, <2>2, FitsParts
<1>5. b.pausedGap \in Int /\ b.frozenGap \in Int /\ Folded(b, tick) \in Int
  BY FitsParts DEF Folded
<1>6. r.pausedGap \in Int /\ r.frozenGap \in Int /\ Folded(r, tick) \in Int
  BY <1>3, FitsParts DEF Folded
<1>7. b.pausedGap + b.frozenGap + Folded(b, tick) >= TPS * (o + (s + x))
  BY DEF Covers
<1>8. /\ TPS * (o + (s + x)) = TPS * (o + x) + TPS * s /\ TPS * (o + x) \in Int /\ TPS * s \in Nat
      /\ TPS \in Nat
  BY <1>4, ClockAssumption
<1>9. /\ b.held \in Seq(Spans) /\ QueueFits(n, b.held) /\ b.rows \in SUBSET Spans /\ IsFiniteSet(b.rows)
      /\ \A z \in b.rows : z.own = n => SpanFits(z)
      /\ WaitingSecs(n, b.held, 1) \in Nat /\ Total(Secs, OfOutage(n, b.rows)) \in Nat
  BY FitsParts
<1>10. CASE /\ \/ r.rows = b.rows \union {p} /\ r.held = b.held
               \/ r.rows = b.rows /\ r.held = Append(b.held, p)
            /\ SameSums(b, r) /\ SameFold(b, r)
  <2>1. q <= o + s
    <3>1. CASE r.rows = b.rows \union {p} /\ r.held = b.held
      <4>1. Total(Secs, OfOutage(n, b.rows \union {p})) <= Total(Secs, OfOutage(n, b.rows)) + s
        BY <1>9, RowsAdd DEF Placed
      <4>2. Total(Secs, OfOutage(n, r.rows)) \in Nat
        BY <1>3, FitsParts
      <4>3. QED BY <1>4, <1>9, <3>1, <4>1, <4>2 DEF Owed
    <3>2. CASE r.rows = b.rows /\ r.held = Append(b.held, p)
      <4>1. WaitingSecs(n, Append(b.held, p), 1) = WaitingSecs(n, b.held, 1) + s
        BY <1>9, WaitingAppend DEF Placed, SpanFits
      <4>2. QED BY <1>4, <1>9, <3>2, <4>1 DEF Owed
    <3>3. QED BY <1>10, <3>1, <3>2
  <2>2. TPS * (q + x) <= TPS * (o + (s + x))
    BY <1>4, <2>1, TimesTPS
  <2>3. r.pausedGap + r.frozenGap + Folded(r, tick) = b.pausedGap + b.frozenGap + Folded(b, tick)
    BY <1>10 DEF SameSums, SameFold, Folded
  <2>4. TPS * (q + x) \in Int
    BY <1>4, <1>8
  <2>5. r.pausedGap + r.frozenGap + Folded(r, tick) >= TPS * (q + x)
    BY <1>5, <1>6, <1>7, <1>8, <2>2, <2>3, <2>4
  <2>6. QED BY <2>5 DEF Covers, r
<1>11. CASE SameRows(b, r)
  <2>1. q = o
    BY <1>11 DEF SameRows, Owed
  <2>2. r.pausedGap + r.frozenGap + Folded(r, tick) >= b.pausedGap + b.frozenGap + Folded(b, tick) - TPS * s
    <3>1. CASE SameSums(b, r) /\ SameFold(b, r)
      BY <1>5, <1>8, <3>1 DEF SameSums, SameFold, Folded
    <3>2. CASE SameSums(b, r) /\ Shifted(b, p, r)
      <4>1. p.own = n /\ SpanFits(p)
        BY <3>2 DEF Shifted, Placed
      <4>2. p.secs \in Nat /\ s = p.secs
        BY <4>1 DEF SpanFits, Spans, SecsFor
      <4>3. b.downPausedAt.m >= 0 /\ b.downPausedAt \in Times
        BY <3>2, FitsParts DEF Shifted, BookFits
      <4>4. Folded(r, tick) = Folded(b, tick) - p.secs * TPS
        BY <3>2, <4>2, <4>3, ShiftedFits
      <4>5. p.secs * TPS = TPS * s
        BY <1>8, <4>2
      <4>6. QED BY <1>5, <1>8, <3>2, <4>4, <4>5 DEF SameSums
    <3>3. CASE SameFold(b, r) /\ Undone(b, p, r)
      <4>1. r.pausedGap + r.frozenGap >= b.pausedGap + b.frozenGap - TPS * s
        BY <1>2, <3>3, UndoneCovers
      <4>2. Folded(r, tick) = Folded(b, tick)
        BY <3>3 DEF SameFold, Folded
      <4> HIDE DEF s
      <4>3. QED BY <1>5, <1>6, <1>8, <4>1, <4>2
    <3>4. CASE SameSums(b, r) /\ (SameFold(b, r) \/ Shifted(b, p, r))
      BY <3>1, <3>2, <3>4
    <3>5. Append(b.held, p) # b.held
      BY <1>9
    <3>6. (SameSums(b, r) /\ (SameFold(b, r) \/ Shifted(b, p, r))) \/ (SameFold(b, r) /\ Undone(b, p, r))
      BY <1>2
    <3>7. QED BY <3>3, <3>4, <3>6
  <2> HIDE DEF s, o, q
  <2>3. r.pausedGap + r.frozenGap + Folded(r, tick) >= TPS * (q + x)
    BY <1>5, <1>6, <1>7, <1>8, <2>1, <2>2
  <2>4. QED BY <2>3 DEF Covers, q, r
<1>12. QED BY <1>2, <1>10, <1>11

\* The oldest span gives its deduction back, or was a slice that cannot.
LEMMA EvictCovers ==
    ASSUME NEW n, NEW b, BookFits(n, b), NEW tick \in Int, Covers(n, b, tick, 0)
    PROVE  Covers(n, Evict(b), tick, 0)
<1> DEFINE r == Evict(b)  p == Head(b.held)
<1>1. b \in Books
  BY DEF BookFits
<1>2. /\ r \in Books
      /\ \/ r = b
         \/ /\ b.held # <<>> /\ r.held = Tail(b.held) /\ r.rows = b.rows
            /\ SameFold(b, r) /\ Undone(b, p, r)
  BY <1>1, EvictIs
<1>3. BookFits(n, r)
  BY EvictFits
<1> HIDE DEF r
<1>4. CASE r = b
  BY <1>4 DEF r
<1>5. CASE b.held # <<>> /\ r.held = Tail(b.held) /\ r.rows = b.rows /\ SameFold(b, r) /\ Undone(b, p, r)
  <2> DEFINE s == SecsFor(n, p)  o == Owed(n, b)  q == Owed(n, r)
  <2>1. /\ b.held \in Seq(Spans) /\ QueueFits(n, b.held)
        /\ WaitingSecs(n, b.held, 1) \in Nat /\ Total(Secs, OfOutage(n, b.rows)) \in Nat /\ o \in Nat
        /\ b.pausedGap \in Int /\ b.frozenGap \in Int /\ Folded(b, tick) \in Int
    BY FitsParts DEF Folded
  <2>2. WaitingSecs(n, r.held, 1) \in Nat /\ q \in Nat /\ r.pausedGap \in Int /\ r.frozenGap \in Int
    BY <1>3, FitsParts
  <2>3. p \in Spans /\ Placed(n, b.gen, p)
    <3>1. p \in InQueue(b.held)
      BY <1>5, <2>1, InQueueIs
    <3>2. QED BY <2>1, <3>1, InQueueIs DEF BookFits, HeldIn
  <2> HIDE DEF p
  <2>4. s \in Nat
    <3>1. p.secs \in Int
      BY <2>3 DEF Spans
    <3>2. QED BY <2>3, <3>1 DEF SecsFor, Placed, SpanFits
  <2>5. WaitingSecs(n, b.held, 1) = s + WaitingSecs(n, r.held, 1)
    BY <1>5, <2>1, WaitingTail DEF p
  <2>6. o = q + s
    BY <1>5, <2>1, <2>2, <2>4, <2>5 DEF Owed
  <2>7. r.pausedGap + r.frozenGap >= b.pausedGap + b.frozenGap - TPS * s
    BY <1>2, <1>5, <2>3, UndoneCovers
  <2>8. Folded(r, tick) = Folded(b, tick)
    BY <1>5 DEF SameFold, Folded
  <2>9. o + 0 = o /\ q + 0 = q
    BY <2>1, <2>2
  <2>10. b.pausedGap + b.frozenGap + Folded(b, tick) >= TPS * o
    BY <2>9 DEF Covers
  <2>11. TPS * o = TPS * q + TPS * s /\ TPS * q \in Int /\ TPS * s \in Nat
    BY <2>2, <2>4, <2>6, ClockAssumption
  <2>12. r.pausedGap + r.frozenGap + Folded(b, tick) >= TPS * q
    <3> DEFINE tq == TPS * q  tz == TPS * s  to == TPS * o
    <3>1. to = tq + tz /\ tq \in Int /\ tz \in Nat
      BY <2>11
    <3> HIDE DEF tq, tz, to
    <3>2. /\ b.pausedGap + b.frozenGap + Folded(b, tick) >= to
          /\ r.pausedGap + r.frozenGap >= b.pausedGap + b.frozenGap - tz
      BY <2>7, <2>10 DEF to, tz
    <3>3. b.pausedGap \in Int /\ b.frozenGap \in Int /\ Folded(b, tick) \in Int
      BY <2>1
    <3>4. r.pausedGap \in Int /\ r.frozenGap \in Int
      BY <2>2
    <3>5. b.pausedGap + b.frozenGap + Folded(b, tick) >= tq + tz
      BY <3>1, <3>2
    <3>6. r.pausedGap + r.frozenGap >= b.pausedGap + b.frozenGap - tz
      BY <3>2
    <3>7. r.pausedGap + r.frozenGap + Folded(b, tick) >= tq
      BY <3>1, <3>3, <3>4, <3>5, <3>6
    <3>8. QED BY <3>7 DEF tq
  <2>13. QED BY <2>8, <2>9, <2>12 DEF Covers, r
<1>6. QED BY <1>2, <1>4, <1>5

-----------------------------------------------------------------------------
(* What is added to the pair was slept                                     *)

\* The suspends of outage n with a row or one to come, and those among Q.
GapsIn(n, b, Q) == {p \in OfOutage(n, SpansIn(b) \union Q) : ~p.pause}

\* What is added to the pair is no more than the suspends' rows say, and what
\* was slept of them; c allows for the rest.
Bounded(n, b, Q, s, c) ==
    /\ Total(Rest, GapsIn(n, b, Q)) <= s
    /\ b.frozenGap + Total(Rest, GapsIn(n, b, Q)) <= Total(Frozen, GapsIn(n, b, Q)) + c

\* Spans a book does not hold yet.
Pending(n, Q) == Q \in SUBSET Spans /\ IsFiniteSet(Q) /\ \A p \in Q : p.own = n => SpanFits(p)

\* What a suspend adds at most, and what the code may add for nothing.
LEMMA RestIs ==
    ASSUME NEW p \in Spans, SpanFits(p)
    PROVE  /\ Rest[p] \in Nat /\ Frozen[p] \in Nat /\ Frozen[p] = p.frozen
           /\ Rest[p] <= Frozen[p] /\ Frozen[p] <= Rest[p] + (TPS - 1)
<1>1. p.frozen \in Nat /\ TPS \in Nat \ {0}
  BY ClockAssumption DEF Spans, SpanFits
<1>2. Rest[p] = Bigger(p.frozen - (TPS - 1), 0) /\ Frozen[p] = p.frozen
  BY DEF Rest, Frozen
<1>3. QED BY <1>1, <1>2 DEF Bigger

\* The sums over the suspends of a book are natural numbers.
LEMMA GapsNat ==
    ASSUME NEW n, NEW b, BookFits(n, b), NEW Q, Pending(n, Q)
    PROVE  /\ GapsIn(n, b, Q) \in SUBSET Spans /\ IsFiniteSet(GapsIn(n, b, Q))
           /\ \A p \in GapsIn(n, b, Q) : SpanFits(p) /\ p.own = n /\ ~p.pause
           /\ \A p \in GapsIn(n, b, Q) : Rest[p] \in Nat /\ Frozen[p] \in Nat
           /\ Total(Rest, GapsIn(n, b, Q)) \in Nat /\ Total(Frozen, GapsIn(n, b, Q)) \in Nat
<1>1. SpansIn(b) \in SUBSET Spans /\ IsFiniteSet(SpansIn(b)) /\ \A p \in SpansIn(b) : p.own = n => SpanFits(p)
  BY FitsParts
<1>2. IsFiniteSet(SpansIn(b) \union Q)
  BY <1>1, FS_Union DEF Pending
<1>3. GapsIn(n, b, Q) \subseteq SpansIn(b) \union Q
  BY DEF GapsIn, OfOutage
<1>4. IsFiniteSet(GapsIn(n, b, Q)) /\ GapsIn(n, b, Q) \in SUBSET Spans
  BY <1>1, <1>2, <1>3, FS_Subset DEF Pending
<1>5. \A p \in GapsIn(n, b, Q) : SpanFits(p) /\ p.own = n /\ ~p.pause
  BY <1>1 DEF GapsIn, OfOutage, Pending
<1>6. \A p \in GapsIn(n, b, Q) : Rest[p] \in Nat /\ Frozen[p] \in Nat
  BY <1>4, <1>5, RestIs
<1>7. QED BY <1>4, <1>5, <1>6, TotalNat

\* Taking a suspend out of the book, with what it added.
LEMMA UndoneBounded ==
    ASSUME NEW n, NEW b, NEW r, NEW p \in Spans, Placed(n, b.gen, p),
           NEW G, NEW H, IsFiniteSet(G), H \subseteq G, G \ {p} \subseteq H,
           \A q \in G : Rest[q] \in Nat /\ Frozen[q] \in Nat,
           p \in G => p.own = n,
           b.frozenGap \in Int, NEW s \in Int, NEW c \in Int, s <= c,
           Undone(b, p, r),
           Total(Rest, G) <= s, b.frozenGap + Total(Rest, G) <= Total(Frozen, G) + c
    PROVE  /\ Total(Rest, H) <= s /\ r.frozenGap + Total(Rest, H) <= Total(Frozen, H) + c
           /\ b.frozenGap <= 0 => r.frozenGap <= 0
<1>1. IsFiniteSet(H)
  BY FS_Subset
<1>2. Total(Rest, G) \in Nat /\ Total(Frozen, G) \in Nat /\ Total(Rest, H) \in Nat /\ Total(Frozen, H) \in Nat
  BY <1>1, TotalNat
<1>3. Total(Rest, H) <= Total(Rest, G)
  BY TotalPart
<1>4. p.frozen \in Int /\ p.deduct \in Int
  BY DEF Spans
<1>5. CASE p.own # n
  <2>1. p.gen # b.gen /\ p \notin G
    BY <1>5 DEF Placed
  <2>2. H = G
    BY <2>1
  <2>3. r.frozenGap = b.frozenGap
    BY <2>1 DEF Undone, SameSums
  <2>4. QED BY <2>2, <2>3
<1>6. CASE p.own = n
  <2>1. SpanFits(p) /\ Frozen[p] \in Nat /\ Rest[p] \in Nat /\ Frozen[p] = p.frozen /\ p.frozen >= 0 /\ p.gen = b.gen
    BY <1>6, RestIs DEF Placed, SpanFits
  <2>2. \/ r.frozenGap = b.frozenGap /\ p.frozen = 0
        \/ r.frozenGap = Bigger(b.frozenGap - p.frozen, 0)
    BY <1>4, <2>1 DEF Undone, SameSums
  <2>3. \/ r.frozenGap = b.frozenGap - p.frozen
        \/ r.frozenGap = 0 /\ b.frozenGap - p.frozen <= 0
    BY <1>4, <2>1, <2>2 DEF Bigger
  <2>4. r.frozenGap \in Int
    BY <1>4, <2>3
  <2>5. b.frozenGap <= 0 => r.frozenGap <= 0
    BY <1>4, <2>1, <2>3
  <2>6. Total(Rest, H) <= s
    BY <1>2, <1>3
  <2>7. r.frozenGap + Total(Rest, H) <= Total(Frozen, H) + c
    <3>1. CASE r.frozenGap = 0
      BY <1>2, <2>6, <3>1
    <3>2. CASE r.frozenGap = b.frozenGap - p.frozen
      <4>1. CASE H = G
        BY <1>2, <1>4, <2>1, <3>2, <4>1
      <4>2. CASE H # G
        <5>1. G = H \union {p} /\ p \notin H
          BY <4>2
        <5>2. Total(Rest, H \union {p}) = Total(Rest, H) + Rest[p]
          <6>1. \A q \in H \union {p} : Rest[q] \in Nat
            BY <2>1
          <6>2. QED BY <1>1, <5>1, <6>1, TotalAdd
        <5>3. Total(Frozen, H \union {p}) = Total(Frozen, H) + Frozen[p]
          <6>1. \A q \in H \union {p} : Frozen[q] \in Nat
            BY <2>1
          <6>2. QED BY <1>1, <5>1, <6>1, TotalAdd
        <5>4. Total(Rest, G) = Total(Rest, H) + Rest[p] /\ Total(Frozen, G) = Total(Frozen, H) + p.frozen
          BY <2>1, <5>1, <5>2, <5>3
        <5>5. QED BY <1>2, <1>4, <2>1, <3>2, <5>4
      <4>3. QED BY <4>1, <4>2
    <3>3. QED BY <2>3, <3>1, <3>2
  <2>8. QED BY <2>5, <2>6, <2>7
<1>7. QED BY <1>5, <1>6

\* Which spans a flush leaves in the book.
LEMMA FlushSpans ==
    ASSUME NEW b \in Books, NEW p \in Spans, NEW lands
    PROVE  LET r == Flush(b, p, lands)
           IN /\ HeldIn(r) \subseteq HeldIn(b) \union {p}
              /\ SpansIn(b) \subseteq SpansIn(r) /\ SpansIn(r) \subseteq SpansIn(b) \union {p}
              /\ IsFiniteSet(b.rows) => IsFiniteSet(r.rows)
<1> DEFINE r == Flush(b, p, lands)
<1>1. \/ r.rows = b.rows \union {p} /\ r.held = b.held /\ SameSums(b, r)
      \/ r.rows = b.rows /\ r.held = Append(b.held, p) /\ SameSums(b, r)
      \/ SameRows(b, r)
  BY FlushIs
<1> HIDE DEF r
<1>2. InQueue(Append(b.held, p)) = InQueue(b.held) \union {p}
  <2>1. b.held \in Seq(Spans)
    BY DEF Books
  <2>2. QED BY <2>1, InQueueIs
<1>3. IsFiniteSet(b.rows) => IsFiniteSet(b.rows \union {p})
  BY FS_Singleton, FS_Union
<1>4. QED BY <1>1, <1>2, <1>3 DEF SpansIn, HeldIn, SameRows, r

\* A flushed suspend stays accounted, or what it added is taken back.
LEMMA FlushBounded ==
    ASSUME NEW n, NEW b, BookFits(n, b), NEW p \in Spans, Placed(n, b.gen, p), NEW lands,
           NEW Q, Pending(n, Q), NEW s \in Int, NEW c \in Int, s <= c, Bounded(n, b, Q \union {p}, s, c)
    PROVE  LET r == Flush(b, p, lands)
           IN Bounded(n, r, Q, s, c) /\ (b.frozenGap <= 0 => r.frozenGap <= 0)
<1> DEFINE r == Flush(b, p, lands)  P == Q \union {p}  G == GapsIn(n, b, P)  H == GapsIn(n, r, Q)
<1>1. b \in Books /\ r \in Books
  BY FlushFits DEF BookFits
<1>2. /\ r \in Books
      /\ \/ r.rows = b.rows \union {p} /\ r.held = b.held /\ SameSums(b, r) /\ SameFold(b, r)
         \/ r.rows = b.rows /\ r.held = Append(b.held, p) /\ SameSums(b, r) /\ SameFold(b, r)
         \/ SameRows(b, r) /\ p.pause /\ SameSums(b, r) /\ (SameFold(b, r) \/ Shifted(b, p, r))
         \/ SameRows(b, r) /\ ~p.pause /\ SameFold(b, r) /\ Undone(b, p, r)
  BY <1>1, FlushIs
<1>3. /\ SpansIn(b) \subseteq SpansIn(r) /\ SpansIn(r) \subseteq SpansIn(b) \union {p}
  BY <1>1, FlushSpans
<1>4. Pending(n, P)
  <2>1. IsFiniteSet(P)
    BY FS_Singleton, FS_Union DEF Pending
  <2>2. QED BY <2>1 DEF Pending, Placed
<1>5. /\ IsFiniteSet(G) /\ \A q \in G : Rest[q] \in Nat /\ Frozen[q] \in Nat
      /\ \A q \in G : q.own = n /\ ~q.pause
      /\ Total(Rest, G) \in Nat /\ Total(Frozen, G) \in Nat
  <2> HIDE DEF P
  <2>1. QED BY <1>4, GapsNat
<1>6. H \subseteq G /\ G \ {p} \subseteq H
  BY <1>3 DEF GapsIn, OfOutage
<1>7. b.frozenGap \in Int /\ Total(Rest, G) <= s /\ b.frozenGap + Total(Rest, G) <= Total(Frozen, G) + c
  BY FitsParts DEF Bounded
<1>8. CASE SameSums(b, r) /\ (p \in SpansIn(r) \/ p.pause)
  <2>1. H = G
    <3>1. CASE p \in SpansIn(r)
      BY <1>3, <3>1 DEF GapsIn, OfOutage
    <3>2. CASE p.pause
      BY <1>5, <1>6, <3>2
    <3>3. QED BY <1>8, <3>1, <3>2
  <2>2. QED BY <1>7, <1>8, <2>1 DEF Bounded, SameSums, r
<1>9. CASE Undone(b, p, r)
  <2>1. p \in G => p.own = n
    BY <1>5
  <2> HIDE DEF G, H, r
  <2>2. /\ Total(Rest, H) <= s /\ r.frozenGap + Total(Rest, H) <= Total(Frozen, H) + c
        /\ b.frozenGap <= 0 => r.frozenGap <= 0
    BY <1>5, <1>6, <1>7, <1>9, <2>1, UndoneBounded
  <2>3. QED BY <2>2 DEF Bounded, H, r
<1>10. ASSUME r.rows = b.rows \union {p} \/ (r.rows = b.rows /\ r.held = Append(b.held, p))
       PROVE  p \in SpansIn(r)
  <2>1. b.held \in Seq(Spans)
    BY <1>1 DEF Books
  <2>2. InQueue(Append(b.held, p)) = InQueue(b.held) \union {p}
    BY <2>1, InQueueIs
  <2>3. QED BY <1>10, <2>2 DEF SpansIn, HeldIn
<1>11. QED BY <1>2, <1>8, <1>9, <1>10

\* The oldest span is forgotten, with what it added.
LEMMA EvictBounded ==
    ASSUME NEW n, NEW b, BookFits(n, b), NEW s \in Int, NEW c \in Int, s <= c, Bounded(n, b, {}, s, c)
    PROVE  LET r == Evict(b)
           IN /\ Bounded(n, r, {}, s, c) /\ (b.frozenGap <= 0 => r.frozenGap <= 0)
              /\ HeldIn(r) \subseteq HeldIn(b) /\ SpansIn(r) \subseteq SpansIn(b)
<1> DEFINE r == Evict(b)  p == Head(b.held)  G == GapsIn(n, b, {})  H == GapsIn(n, r, {})
<1>1. b \in Books /\ b.held \in Seq(Spans)
  BY DEF BookFits, Books
<1>2. \/ r = b
      \/ b.held # <<>> /\ r.held = Tail(b.held) /\ r.rows = b.rows /\ Undone(b, p, r)
  BY <1>1, EvictIs
<1> HIDE DEF r
<1>3. CASE r = b
  BY <1>3 DEF r
<1>4. CASE b.held # <<>> /\ r.held = Tail(b.held) /\ r.rows = b.rows /\ Undone(b, p, r)
  <2>1. InQueue(b.held) = InQueue(Tail(b.held)) \union {p}
    BY <1>1, <1>4, InQueueIs
  <2>2. HeldIn(r) \subseteq HeldIn(b) /\ SpansIn(b) = SpansIn(r) \union {p}
    BY <1>4, <2>1 DEF HeldIn, SpansIn
  <2>3. p \in HeldIn(b)
    BY <2>1 DEF HeldIn
  <2>4. p \in Spans /\ Placed(n, b.gen, p)
    BY <1>1, <2>3, InQueueIs DEF BookFits, HeldIn
  <2>5. Pending(n, {})
    BY FS_EmptySet DEF Pending
  <2>6. /\ IsFiniteSet(G) /\ \A q \in G : Rest[q] \in Nat /\ Frozen[q] \in Nat
        /\ \A q \in G : q.own = n
    BY <2>5, GapsNat
  <2>7. H \subseteq G /\ G \ {p} \subseteq H
    BY <2>2 DEF GapsIn, OfOutage
  <2>8. b.frozenGap \in Int /\ Total(Rest, G) <= s /\ b.frozenGap + Total(Rest, G) <= Total(Frozen, G) + c
    BY FitsParts DEF Bounded
  <2>9. p \in G => p.own = n
    BY <2>6
  <2> HIDE DEF G, H, p
  <2>10. /\ Total(Rest, H) <= s /\ r.frozenGap + Total(Rest, H) <= Total(Frozen, H) + c
         /\ b.frozenGap <= 0 => r.frozenGap <= 0
    BY <1>4, <2>4, <2>6, <2>7, <2>8, <2>9, UndoneBounded
  <2>11. QED BY <2>2, <2>10 DEF Bounded, H, r
<1>5. QED BY <1>2, <1>3, <1>4

\* The spans that are left when the oldest is dropped.
LEMMA EvictSpans ==
    ASSUME NEW b \in Books
    PROVE  LET r == Evict(b)
           IN /\ r \in Books /\ r.gen = b.gen /\ r.rows = b.rows
              /\ HeldIn(r) \subseteq HeldIn(b) /\ SpansIn(r) \subseteq SpansIn(b)
<1> DEFINE r == Evict(b)
<1>1. /\ r \in Books /\ r.gen = b.gen
      /\ \/ r = b
         \/ b.held # <<>> /\ r.held = Tail(b.held) /\ r.rows = b.rows
  BY EvictIs
<1> HIDE DEF r
<1>2. b.held # <<>> => InQueue(b.held) = InQueue(Tail(b.held)) \union {Head(b.held)}
  <2>1. b.held \in Seq(Spans)
    BY DEF Books
  <2>2. QED BY <2>1, InQueueIs
<1>3. QED BY <1>1, <1>2 DEF HeldIn, SpansIn, r

\* What an operation may leave in the book: nothing but what was there, and N.
Grown(b, r, N) ==
    /\ r \in Books /\ (IsFiniteSet(b.rows) => IsFiniteSet(r.rows)) /\ r.gen = b.gen
    /\ HeldIn(r) \subseteq HeldIn(b) \union N /\ SpansIn(r) \subseteq SpansIn(b) \union N

\* A span offered is the only new one.
LEMMA OfferGrown ==
    ASSUME NEW b \in Books, NEW p \in Spans, NEW lands
    PROVE  Grown(b, Offer(b, p, lands), {p})
<1> DEFINE f == Flush(b, p, lands)
<1>1. f \in Books /\ f.gen = b.gen
  BY FlushIs
<1>2. /\ HeldIn(f) \subseteq HeldIn(b) \union {p} /\ SpansIn(f) \subseteq SpansIn(b) \union {p}
      /\ IsFiniteSet(b.rows) => IsFiniteSet(f.rows)
  BY FlushSpans
<1> HIDE DEF f
<1>3. /\ Evict(f) \in Books /\ Evict(f).gen = f.gen /\ Evict(f).rows = f.rows
      /\ HeldIn(Evict(f)) \subseteq HeldIn(f) /\ SpansIn(Evict(f)) \subseteq SpansIn(f)
  BY <1>1, EvictSpans
<1>4. Grown(b, Evict(f), {p})
  BY <1>1, <1>2, <1>3 DEF Grown
<1>5. QED BY <1>4 DEF Offer, f

\* A span offered to the book of the open outage.
LEMMA OfferFits ==
    ASSUME NEW n, NEW b, BookFits(n, b), NEW p \in Spans, Placed(n, b.gen, p), NEW lands
    PROVE  LET r == Offer(b, p, lands)
           IN BookFits(n, r) /\ r.gen = b.gen /\ r.pauses = b.pauses /\ (r.downPausedAt = NoTime <=> b.downPausedAt = NoTime)
<1> DEFINE f == Flush(b, p, lands)
<1>1. BookFits(n, f) /\ f.gen = b.gen /\ f.pauses = b.pauses /\ (f.downPausedAt = NoTime <=> b.downPausedAt = NoTime)
  BY FlushFits
<1> HIDE DEF f
<1>2. /\ BookFits(n, Evict(f)) /\ Evict(f).gen = f.gen /\ Evict(f).pauses = f.pauses
      /\ Evict(f).downPausedAt = NoTime <=> f.downPausedAt = NoTime
  BY <1>1, EvictFits
<1>3. QED BY <1>1, <1>2 DEF Offer, f

\* It is covered.
LEMMA OfferCovers ==
    ASSUME NEW n, NEW b, BookFits(n, b), NEW p \in Spans, Placed(n, b.gen, p), NEW lands,
           NEW tick \in Int, Covers(n, b, tick, SecsFor(n, p))
    PROVE  Covers(n, Offer(b, p, lands), tick, 0)
<1> DEFINE f == Flush(b, p, lands)
<1>1. SecsFor(n, p) + 0 = SecsFor(n, p)
  BY DEF SecsFor, Spans
<1>2. Covers(n, b, tick, SecsFor(n, p) + 0)
  BY <1>1
<1>3. Covers(n, f, tick, 0)
  BY <1>2, FlushCovers
<1>4. BookFits(n, f)
  BY FlushFits
<1> HIDE DEF f
<1>5. Covers(n, Evict(f), tick, 0)
  BY <1>3, <1>4, EvictCovers
<1>6. QED BY <1>5 DEF Offer, f

\* What it adds to the pair was slept.
LEMMA OfferBounded ==
    ASSUME NEW n, NEW b, BookFits(n, b), NEW p \in Spans, Placed(n, b.gen, p), NEW lands,
           NEW s \in Int, NEW c \in Int, s <= c, Bounded(n, b, {p}, s, c)
    PROVE  LET r == Offer(b, p, lands)
           IN Bounded(n, r, {}, s, c) /\ (b.frozenGap <= 0 => r.frozenGap <= 0)
<1> DEFINE f == Flush(b, p, lands)
<1>1. Bounded(n, b, {} \union {p}, s, c)
  <2>1. {} \union {p} = {p}
    OBVIOUS
  <2>2. QED BY <2>1
<1>2. Pending(n, {})
  BY FS_EmptySet DEF Pending
<1>3. Bounded(n, f, {}, s, c) /\ (b.frozenGap <= 0 => f.frozenGap <= 0)
  BY <1>1, <1>2, FlushBounded
<1>4. BookFits(n, f)
  BY FlushFits
<1> HIDE DEF f
<1>5. Bounded(n, Evict(f), {}, s, c) /\ (f.frozenGap <= 0 => Evict(f).frozenGap <= 0)
  BY <1>3, <1>4, EvictBounded
<1>6. QED BY <1>3, <1>5 DEF Offer, f

-----------------------------------------------------------------------------
(* The retry queue                                                         *)

\* The book after the first k of the queue were replayed.
Replay(f, lands) ==
    f = [k \in 0 .. Len(book.held) |->
            IF k = 0 THEN [book EXCEPT !.held = <<>>] ELSE Flush(f[k - 1], book.held[k], lands)]

\* Every queue can be replayed.
LEMMA ReplayExists ==
    ASSUME book.held \in Seq(Spans), NEW lands
    PROVE  \E f : Replay(f, lands)
<1> DEFINE N == Len(book.held)
           From(f, m) == f = [k \in 0 .. m |-> IF k = 0 THEN [book EXCEPT !.held = <<>>]
                                              ELSE Flush(f[k - 1], book.held[k], lands)]
           S == {m \in 0 .. N : \E f : From(f, m)}
<1>1. N \in Nat
  OBVIOUS
<1>2. 0 \in S
  <2> DEFINE f == [k \in 0 .. 0 |-> [book EXCEPT !.held = <<>>]]
  <2>1. From(f, 0)
    OBVIOUS
  <2> HIDE DEF From
  <2>2. QED BY <1>1, <2>1
<1>3. ASSUME NEW m \in 0 .. N - 1, m \in S PROVE m + 1 \in S
  <2>1. PICK f : From(f, m)
    BY <1>3
  <2> DEFINE g == [k \in 0 .. m + 1 |-> IF k = m + 1 THEN Flush(f[m], book.held[m + 1], lands) ELSE f[k]]
  <2>2. m \in Nat /\ m + 1 # 0 /\ (m + 1) - 1 = m
    BY <1>1
  <2>3. ASSUME NEW k \in 0 .. m + 1
        PROVE  g[k] = IF k = 0 THEN [book EXCEPT !.held = <<>>] ELSE Flush(g[k - 1], book.held[k], lands)
    <3>1. CASE k = m + 1
      <4>1. g[m] = f[m] /\ g[k] = Flush(f[m], book.held[m + 1], lands) /\ k # 0 /\ k - 1 = m
        BY <2>2, <3>1
      <4> HIDE DEF g
      <4>2. QED BY <3>1, <4>1
    <3>2. CASE k # m + 1
      <4>1. k \in 0 .. m /\ g[k] = f[k]
        BY <2>2, <3>2
      <4>2. k # 0 => k - 1 \in 0 .. m /\ k - 1 \in 0 .. m + 1 /\ k - 1 # m + 1
        BY <2>2, <4>1
      <4>3. k # 0 => g[k - 1] = f[k - 1]
        BY <4>2
      <4>4. f[k] = IF k = 0 THEN [book EXCEPT !.held = <<>>] ELSE Flush(f[k - 1], book.held[k], lands)
        BY <2>1, <4>1
      <4> HIDE DEF g
      <4>5. QED BY <4>1, <4>3, <4>4
    <3>3. QED BY <3>1, <3>2
  <2>4. From(g, m + 1)
    <3>1. g = [k \in 0 .. m + 1 |-> g[k]]
      OBVIOUS
    <3> HIDE DEF g
    <3>2. QED BY <2>3, <3>1
  <2>5. m + 1 \in 0 .. N
    BY <1>1, <2>2
  <2> HIDE DEF From, g
  <2>6. QED BY <2>4, <2>5
<1>4. 0 .. N \subseteq S
  <2> HIDE DEF S, N
  <2>1. QED BY <1>1, <1>2, <1>3, Counting
<1>5. PICK f : From(f, N)
  <2> HIDE DEF From
  <2>1. N \in S
    BY <1>1, <1>4
  <2>2. QED BY <2>1
<1>6. QED BY <1>5 DEF Replay

\* retryHeldGaps leaves the book of the last replay.
LEMMA RetryIs ==
    ASSUME book.held \in Seq(Spans), NEW lands
    PROVE  \E f : Replay(f, lands) /\ RetryHeldGaps(lands) = f[Len(book.held)]
<1>1. PICK f : Replay(f, lands)
  BY ReplayExists
<1>2. QED BY <1>1 DEF RetryHeldGaps, Replay

\* One replay after the other.
LEMMA ReplayStep ==
    ASSUME book.held \in Seq(Spans), NEW lands, NEW f, Replay(f, lands)
    PROVE  /\ f[0] = [book EXCEPT !.held = <<>>] /\ Len(book.held) \in Nat
           /\ \A k \in 0 .. Len(book.held) - 1 :
                /\ k + 1 \in 1 .. Len(book.held) /\ book.held[k + 1] \in Spans /\ book.held[k + 1] \in HeldIn(book)
                /\ f[k + 1] = Flush(f[k], book.held[k + 1], lands)
<1>1. Len(book.held) \in Nat /\ 0 \in 0 .. Len(book.held)
  OBVIOUS
<1>2. f[0] = [book EXCEPT !.held = <<>>]
  BY <1>1 DEF Replay
<1>3. ASSUME NEW k \in 0 .. Len(book.held) - 1
      PROVE  /\ k + 1 \in 1 .. Len(book.held) /\ book.held[k + 1] \in Spans /\ book.held[k + 1] \in HeldIn(book)
             /\ f[k + 1] = Flush(f[k], book.held[k + 1], lands)
  <2>1. k + 1 \in 1 .. Len(book.held) /\ k + 1 \in 0 .. Len(book.held) /\ k + 1 # 0 /\ (k + 1) - 1 = k
    BY <1>1
  <2>2. book.held[k + 1] \in Spans /\ book.held[k + 1] \in HeldIn(book)
    BY <2>1 DEF HeldIn, InQueue
  <2>3. f[k + 1] = Flush(f[(k + 1) - 1], book.held[k + 1], lands)
    BY <2>1 DEF Replay
  <2>4. QED BY <2>1, <2>2, <2>3
<1>4. QED BY <1>1, <1>2, <1>3

\* The emptied book.
LEMMA Emptied ==
    ASSUME NEW b \in Books
    PROVE  LET r == [b EXCEPT !.held = <<>>]
           IN /\ r \in Books /\ r.rows = b.rows /\ r.held = <<>> /\ SameSums(b, r) /\ SameFold(b, r)
              /\ r.gen = b.gen /\ r.pauses = b.pauses /\ HeldIn(r) = {} /\ SpansIn(r) = b.rows
<1> DEFINE r == [b EXCEPT !.held = <<>>]
<1>1. <<>> \in Seq(Spans) /\ Len(<<>>) = 0
  OBVIOUS
<1>2. /\ r \in Books /\ r.rows = b.rows /\ r.held = <<>> /\ SameSums(b, r) /\ SameFold(b, r)
      /\ r.gen = b.gen /\ r.pauses = b.pauses
  BY <1>1 DEF Books, SameSums, SameFold
<1> HIDE DEF r
<1>3. HeldIn(r) = {}
  <2>1. 1 .. 0 = {}
    OBVIOUS
  <2>2. QED BY <1>1, <1>2, <2>1 DEF HeldIn, InQueue
<1>4. QED BY <1>2, <1>3 DEF SpansIn, r

\* The retry brings no new span.
LEMMA RetryGrown ==
    ASSUME book \in Books, NEW lands
    PROVE  Grown(book, RetryHeldGaps(lands), {})
<1>1. book.held \in Seq(Spans)
  BY DEF Books
<1>2. PICK f : Replay(f, lands) /\ RetryHeldGaps(lands) = f[Len(book.held)]
  BY <1>1, RetryIs
<1> DEFINE N == Len(book.held)  S == {k \in 0 .. N : Grown(book, f[k], {})}
<1>3. /\ f[0] = [book EXCEPT !.held = <<>>] /\ N \in Nat
      /\ \A k \in 0 .. N - 1 :
           /\ k + 1 \in 1 .. N /\ book.held[k + 1] \in Spans /\ book.held[k + 1] \in HeldIn(book)
           /\ f[k + 1] = Flush(f[k], book.held[k + 1], lands)
  BY <1>1, <1>2, ReplayStep
<1>4. 0 \in S
  <2>1. Grown(book, f[0], {})
    BY <1>3, Emptied DEF Grown, SpansIn
  <2>2. QED BY <1>3, <2>1
<1>5. ASSUME NEW k \in 0 .. N - 1, k \in S PROVE k + 1 \in S
  <2> DEFINE p == book.held[k + 1]  b == f[k]
  <2>1. Grown(book, b, {}) /\ p \in Spans /\ p \in HeldIn(book) /\ f[k + 1] = Flush(b, p, lands)
    BY <1>3, <1>5
  <2> HIDE DEF p, b
  <2>2. b \in Books
    BY <2>1 DEF Grown
  <2>3. Flush(b, p, lands) \in Books /\ Flush(b, p, lands).gen = b.gen
    BY <2>1, <2>2, FlushIs
  <2>4. /\ HeldIn(Flush(b, p, lands)) \subseteq HeldIn(b) \union {p}
        /\ SpansIn(Flush(b, p, lands)) \subseteq SpansIn(b) \union {p}
        /\ IsFiniteSet(b.rows) => IsFiniteSet(Flush(b, p, lands).rows)
    BY <2>1, <2>2, FlushSpans
  <2>5. Grown(book, Flush(b, p, lands), {})
    BY <2>1, <2>3, <2>4 DEF Grown, SpansIn
  <2>6. k + 1 \in 0 .. N
    BY <1>3
  <2>7. QED BY <2>1, <2>5, <2>6
<1> HIDE DEF S
<1>6. 0 .. N \subseteq S
  <2> HIDE DEF N
  <2>1. QED BY <1>3, <1>4, <1>5, Counting
<1>7. QED BY <1>2, <1>3, <1>6 DEF S

\* The retry leaves a book that fits, and as much covered.
LEMMA RetryCovers ==
    ASSUME NEW n, BookFits(n, book), NEW lands, NEW tick \in Int, Covers(n, book, tick, 0)
    PROVE  LET r == RetryHeldGaps(lands)
           IN /\ BookFits(n, r) /\ r.gen = book.gen /\ r.pauses = book.pauses
              /\ (r.downPausedAt = NoTime <=> book.downPausedAt = NoTime) /\ Covers(n, r, tick, 0)
<1>1. book.held \in Seq(Spans) /\ QueueFits(n, book.held) /\ book \in Books
  BY FitsParts DEF BookFits
<1>2. PICK f : Replay(f, lands) /\ RetryHeldGaps(lands) = f[Len(book.held)]
  BY <1>1, RetryIs
<1> DEFINE N == Len(book.held)
           Kept(k) == /\ BookFits(n, f[k]) /\ f[k].gen = book.gen /\ f[k].pauses = book.pauses
                      /\ (f[k].downPausedAt = NoTime <=> book.downPausedAt = NoTime)
                      /\ Covers(n, f[k], tick, WaitingSecs(n, book.held, k + 1))
           S == {k \in 0 .. N : Kept(k)}
<1>3. /\ f[0] = [book EXCEPT !.held = <<>>] /\ N \in Nat
      /\ \A k \in 0 .. N - 1 :
           /\ k + 1 \in 1 .. N /\ book.held[k + 1] \in Spans /\ book.held[k + 1] \in HeldIn(book)
           /\ f[k + 1] = Flush(f[k], book.held[k + 1], lands)
  BY <1>1, <1>2, ReplayStep
<1>4. 0 \in S
  <2> DEFINE r == f[0]
  <2>1. /\ r \in Books /\ r.rows = book.rows /\ r.held = <<>> /\ SameSums(book, r) /\ SameFold(book, r)
        /\ r.gen = book.gen /\ r.pauses = book.pauses /\ HeldIn(r) = {}
    BY <1>1, <1>3, Emptied
  <2> HIDE DEF r
  <2>2. BookFits(n, r)
    BY <2>1 DEF BookFits, SameFold
  <2>3. Owed(n, book) = Total(Secs, OfOutage(n, book.rows)) + WaitingSecs(n, book.held, 1)
    BY DEF Owed
  <2>4. WaitingSecs(n, <<>>, 1) = 0
    <3>1. <<>> \in Seq(Spans) /\ Len(<<>>) = 0 /\ 1 > 0
      OBVIOUS
    <3>2. QED BY <3>1, WaitingEnds
  <2>5. /\ Total(Secs, OfOutage(n, book.rows)) \in Nat /\ WaitingSecs(n, book.held, 1) \in Nat /\ Owed(n, book) \in Nat
    BY FitsParts
  <2>6. Owed(n, r) + WaitingSecs(n, book.held, 1) = Owed(n, book) + 0
    BY <2>1, <2>3, <2>4, <2>5 DEF Owed
  <2>7. Folded(r, tick) = Folded(book, tick)
    BY <2>1 DEF SameFold, Folded
  <2>8. Covers(n, r, tick, WaitingSecs(n, book.held, 1))
    BY <2>1, <2>6, <2>7 DEF Covers, SameSums
  <2>9. 0 + 1 = 1 /\ 0 \in 0 .. N
    BY <1>3
  <2>10. Kept(0)
    BY <2>1, <2>2, <2>8, <2>9 DEF SameFold, r
  <2>11. QED BY <2>9, <2>10
<1>5. ASSUME NEW k \in 0 .. N - 1, k \in S PROVE k + 1 \in S
  <2> DEFINE p == book.held[k + 1]  b == f[k]  x == WaitingSecs(n, book.held, (k + 1) + 1)
  <2>1. p \in Spans /\ p \in HeldIn(book) /\ f[k + 1] = Flush(b, p, lands) /\ k + 1 \in 1 .. N
    BY <1>3
  <2>2. /\ BookFits(n, b) /\ b.gen = book.gen /\ b.pauses = book.pauses
        /\ (b.downPausedAt = NoTime <=> book.downPausedAt = NoTime)
        /\ Covers(n, b, tick, WaitingSecs(n, book.held, k + 1))
    BY <1>5
  <2>3. Placed(n, b.gen, p)
    BY <2>1, <2>2 DEF BookFits
  <2>4. WaitingSecs(n, book.held, k + 1) = SecsFor(n, p) + x
    BY <1>1, <2>1, WaitingNext
  <2>5. x \in Nat
    <3>1. (k + 1) + 1 \in Nat \ {0}
      BY <2>1
    <3>2. QED BY <1>1, <3>1, WaitingNat
  <2> HIDE DEF p, b, x
  <2>6. Covers(n, b, tick, SecsFor(n, p) + x)
    BY <2>2, <2>4
  <2>7. Covers(n, Flush(b, p, lands), tick, x)
    BY <2>1, <2>2, <2>3, <2>5, <2>6, FlushCovers
  <2>8. LET r == Flush(b, p, lands)
        IN BookFits(n, r) /\ r.gen = b.gen /\ r.pauses = b.pauses /\ (r.downPausedAt = NoTime <=> b.downPausedAt = NoTime)
    BY <2>1, <2>2, <2>3, FlushFits
  <2>9. Kept(k + 1)
    BY <2>1, <2>2, <2>7, <2>8 DEF x
  <2>10. k + 1 \in 0 .. N
    BY <2>1
  <2> HIDE DEF Kept
  <2>11. QED BY <2>9, <2>10
<1> HIDE DEF Kept
<1>6. 0 .. N \subseteq S
  <2> HIDE DEF N, S
  <2>1. QED BY <1>3, <1>4, <1>5, Counting
<1>7. Kept(N)
  BY <1>3, <1>6
<1>8. Covers(n, f[N], tick, WaitingSecs(n, book.held, N + 1))
  BY <1>7 DEF Kept
<1>9. WaitingSecs(n, book.held, N + 1) = 0
  <2>1. N + 1 \in Nat /\ N + 1 > Len(book.held)
    BY <1>3
  <2>2. QED BY <1>1, <2>1, WaitingEnds
<1>10. QED BY <1>2, <1>7, <1>8, <1>9 DEF Kept

\* The retry takes back what it refuses.
LEMMA RetryBounded ==
    ASSUME NEW n, BookFits(n, book), NEW lands,
           NEW s \in Int, NEW c \in Int, s <= c, Bounded(n, book, {}, s, c)
    PROVE  LET r == RetryHeldGaps(lands)
           IN Bounded(n, r, {}, s, c) /\ (book.frozenGap <= 0 => r.frozenGap <= 0)
<1>1. book.held \in Seq(Spans) /\ QueueFits(n, book.held) /\ book \in Books
  BY FitsParts DEF BookFits
<1>2. PICK f : Replay(f, lands) /\ RetryHeldGaps(lands) = f[Len(book.held)]
  BY <1>1, RetryIs
<1> DEFINE N == Len(book.held)
           Left(k) == {book.held[i] : i \in k + 1 .. N}
           Kept(k) == /\ BookFits(n, f[k]) /\ f[k].gen = book.gen
                      /\ Bounded(n, f[k], Left(k), s, c) /\ (book.frozenGap <= 0 => f[k].frozenGap <= 0)
           S == {k \in 0 .. N : Kept(k)}
<1>3. /\ f[0] = [book EXCEPT !.held = <<>>] /\ N \in Nat
      /\ \A k \in 0 .. N - 1 :
           /\ k + 1 \in 1 .. N /\ book.held[k + 1] \in Spans /\ book.held[k + 1] \in HeldIn(book)
           /\ f[k + 1] = Flush(f[k], book.held[k + 1], lands)
  BY <1>1, <1>2, ReplayStep
<1>4. 0 \in S
  <2> DEFINE r == f[0]
  <2>1. /\ r \in Books /\ r.rows = book.rows /\ SameSums(book, r) /\ SameFold(book, r)
        /\ r.gen = book.gen /\ HeldIn(r) = {} /\ SpansIn(r) = book.rows
    BY <1>1, <1>3, Emptied
  <2> HIDE DEF r
  <2>2. BookFits(n, r)
    BY <2>1 DEF BookFits, SameFold
  <2>3. Left(0) = HeldIn(book)
    <3>1. 0 + 1 = 1
      OBVIOUS
    <3>2. QED BY <3>1 DEF HeldIn, InQueue
  <2>4. GapsIn(n, r, Left(0)) = GapsIn(n, book, {})
    BY <2>1, <2>3 DEF GapsIn, SpansIn
  <2>5. Bounded(n, r, Left(0), s, c) /\ (book.frozenGap <= 0 => r.frozenGap <= 0)
    BY <2>1, <2>4 DEF Bounded, SameSums
  <2>6. 0 \in 0 .. N
    BY <1>3
  <2>7. Kept(0)
    BY <2>1, <2>2, <2>5 DEF r
  <2> HIDE DEF Kept
  <2>8. QED BY <2>6, <2>7
<1>5. ASSUME NEW k \in 0 .. N - 1, k \in S PROVE k + 1 \in S
  <2> DEFINE p == book.held[k + 1]  b == f[k]  Q == Left(k + 1)
  <2>1. p \in Spans /\ p \in HeldIn(book) /\ f[k + 1] = Flush(b, p, lands) /\ k + 1 \in 1 .. N
    BY <1>3
  <2>2. /\ BookFits(n, b) /\ b.gen = book.gen
        /\ Bounded(n, b, Left(k), s, c) /\ (book.frozenGap <= 0 => b.frozenGap <= 0)
    BY <1>5
  <2>3. Placed(n, b.gen, p)
    BY <2>1, <2>2 DEF BookFits
  <2>4. Left(k) = Q \union {p}
    <3>1. k + 1 .. N = ((k + 1) + 1 .. N) \union {k + 1}
      BY <2>1
    <3>2. QED BY <3>1
  <2>5. Pending(n, Q)
    <3>1. Q \subseteq HeldIn(book)
      <4>1. (k + 1) + 1 .. N \subseteq 1 .. N
        BY <2>1
      <4>2. QED BY <4>1 DEF HeldIn, InQueue
    <3>2. HeldIn(book) \subseteq Spans /\ IsFiniteSet(HeldIn(book))
      BY <1>1, InQueueIs DEF HeldIn
    <3>3. IsFiniteSet(Q)
      BY <3>1, <3>2, FS_Subset
    <3>4. \A q \in HeldIn(book) : q.own = n => SpanFits(q)
      BY DEF BookFits, Placed
    <3> HIDE DEF Q
    <3>5. QED BY <3>1, <3>2, <3>3, <3>4 DEF Pending
  <2>6. Bounded(n, b, Q \union {p}, s, c)
    BY <2>2, <2>4
  <2> HIDE DEF p, b, Q
  <2>7. LET r == Flush(b, p, lands)
        IN Bounded(n, r, Q, s, c) /\ (b.frozenGap <= 0 => r.frozenGap <= 0)
    BY <2>1, <2>2, <2>3, <2>5, <2>6, FlushBounded
  <2>8. BookFits(n, Flush(b, p, lands)) /\ Flush(b, p, lands).gen = b.gen
    BY <2>1, <2>2, <2>3, FlushFits
  <2>9. Kept(k + 1)
    BY <2>1, <2>2, <2>7, <2>8 DEF Q
  <2>10. k + 1 \in 0 .. N
    BY <2>1
  <2> HIDE DEF Kept
  <2>11. QED BY <2>9, <2>10
<1> HIDE DEF Kept
<1>6. 0 .. N \subseteq S
  <2> HIDE DEF N, S
  <2>1. QED BY <1>3, <1>4, <1>5, Counting
<1>7. Kept(N)
  BY <1>3, <1>6
<1>8. Left(N) = {}
  <2>1. N + 1 .. N = {}
    BY <1>3
  <2>2. QED BY <2>1
<1> HIDE DEF Left
<1>9. QED BY <1>2, <1>7, <1>8 DEF Kept

-----------------------------------------------------------------------------
(* The inductive invariant                                                 *)

\* How far the wall clock is ahead of the monotonic one; it never falls while
\* the clock is not set back.
Drift(t) == t.w - t.m

Before(t, u) == t.m <= u.m /\ (~back => (t.w <= u.w /\ Drift(t) <= Drift(u)))

\* A reading of the two clocks in the past.
Read(t) == t.m >= 0 /\ t.w >= 0 /\ Before(t, Now)

\* The readings the loop keeps are of the past, and in order.
InOrder ==
    /\ \A t \in {check, ts, fail, pauseAt} : t = NoTime \/ Read(t)
    /\ lpc \in {"top", "wait"} \/ ~online => check # NoTime
    /\ fail # NoTime /\ check # NoTime => Before(fail, check)
    /\ fail # NoTime => check # NoTime
    /\ lpc = "probe" => ts # NoTime /\ pauseAt = NoTime /\ (check = ts \/ check = NoTime)

\* Which spans are whose.
SpansKnown ==
    /\ \A p \in SpansIn(book) : p.own <= flips
    /\ \A p \in HeldIn(book) : p.gen <= book.gen

\* What the host slept of the open outage until the last check, or until the
\* open pause was last booked, and what that lets the accumulators add to the
\* pair: each pause rounds up by less than a second.
Opened == closed.wall * TPS - since
Slept(b, at, last) ==
    IF at = NoTime THEN Drift(last) - Opened + (TPS - 1) * b.pauses
    ELSE Drift(at) - Opened + (TPS - 1) * (b.pauses - 1)
Credited(b, at, last) ==
    IF at = NoTime THEN Drift(last) - Opened + (TPS - 1) * b.pauses
    ELSE Sec(at.w) * TPS - at.m - Opened + (TPS - 1) * b.pauses

SleepBounded(b, at, last) ==
    /\ Bounded(flips, b, {}, Slept(b, at, last), Credited(b, at, last))
    /\ Sec((IF at = NoTime THEN last ELSE at).w) < Epoch => b.frozenGap <= 0
    /\ \A p \in GapsIn(flips, b, {}) : p.start.w < last.w

\* The book of an open outage, booked up to its last check while no pause is
\* open, and otherwise up to the begin of the open span.
Booked(b, at, last) ==
    /\ BookFits(flips, b) /\ (at = NoTime <=> b.downPausedAt = NoTime)
    /\ Covers(flips, b, at.m, 0)
    /\ ~back => SleepBounded(b, at, last)

OutageOpen ==
    ~online => /\ closed.num = 0 /\ flips > 0
               /\ lastEv >= 0 /\ lastEv >= closed.wall
               /\ since <= check.m
               /\ ~back => closed.wall * TPS <= check.w
               /\ Booked(book, pauseAt, check)

OcInv == OcShape /\ InOrder /\ SpansKnown /\ OutageOpen /\ PairHoldsLength

-----------------------------------------------------------------------------
(* The accounting of an open outage                                        *)

\* What a step of the loop keeps to: the outage is open, and check and pauseAt
\* are readings of the past.
Accounting ==
    /\ OcShape /\ ~online /\ Read(check) /\ (pauseAt = NoTime \/ Read(pauseAt))

\* The two readings of now, and of nothing.
LEMMA NowIs ==
    ASSUME OcShape
    PROVE  /\ Now \in Times /\ Now.m = mono /\ Now.w = wall /\ Now # NoTime /\ NoTime.m = -1 /\ NoTime.w = -1
           /\ NoTime \in Times /\ Drift(Now) = wall - mono /\ mono \in Nat /\ wall \in Nat
           /\ Opened \in Int /\ TPS \in Nat \ {0}
<1>1. mono \in Nat /\ wall \in Nat
  BY DEF OcShape
<1>2. /\ Now \in Times /\ Now.m = mono /\ Now.w = wall /\ NoTime.m = -1 /\ NoTime.w = -1
      /\ NoTime \in Times
  BY <1>1 DEF Now, NoTime, Times
<1>3. Now # NoTime
  <2> HIDE DEF NoTime, Now
  <2>1. QED BY <1>1, <1>2
<1>4. closed.wall \in Int /\ since \in Int /\ TPS \in Nat \ {0}
  BY ClockAssumption DEF OcShape, Outages
<1>5. closed.wall * TPS \in Int
  BY <1>4
<1>6. QED BY <1>1, <1>2, <1>3, <1>4, <1>5 DEF Opened, Drift

\* Each pause rounds up by less than a second.
LEMMA SleptIs ==
    ASSUME OcShape, NEW b, b.pauses \in Nat, NEW at \in Times, NEW last \in Times
    PROVE  /\ Slept(b, at, last) \in Int /\ Credited(b, at, last) \in Int
           /\ Slept(b, at, last) <= Credited(b, at, last)
<1>1. Opened \in Int /\ TPS \in Nat \ {0}
  BY NowIs
<1>2. at.m \in Int /\ at.w \in Int /\ last.m \in Int /\ last.w \in Int
  BY DEF Times
<1>3. Drift(at) \in Int /\ Drift(last) \in Int
  BY <1>2 DEF Drift
<1>4. (TPS - 1) * b.pauses \in Int /\ (TPS - 1) * (b.pauses - 1) = (TPS - 1) * b.pauses - (TPS - 1)
  BY <1>1
<1>5. Sec(at.w) \in Int /\ Sec(at.w) * TPS = TPS * Sec(at.w) /\ at.w < TPS * Sec(at.w) + TPS /\ TPS * Sec(at.w) \in Int
  BY <1>1, <1>2, SecIs
<1>6. CASE at = NoTime
  BY <1>1, <1>3, <1>4, <1>6 DEF Slept, Credited
<1>7. CASE at # NoTime
  <2> DEFINE a == (TPS - 1) * b.pauses  z == TPS * Sec(at.w)
  <2>1. a \in Int /\ z \in Int /\ at.w < z + TPS
    BY <1>4, <1>5
  <2>2. Slept(b, at, last) = at.w - at.m - Opened + (a - (TPS - 1))
    BY <1>4, <1>7 DEF Slept, Drift
  <2>3. Credited(b, at, last) = z - at.m - Opened + a
    BY <1>5, <1>7 DEF Credited
  <2> HIDE DEF a, z
  <2>4. QED BY <1>1, <1>2, <2>1, <2>2, <2>3
<1>8. QED BY <1>6, <1>7

\* A bound may be wider.
LEMMA BoundedWider ==
    ASSUME NEW n, NEW b, BookFits(n, b), NEW Q, Pending(n, Q), NEW s \in Int, NEW c \in Int, Bounded(n, b, Q, s, c),
           NEW s2 \in Int, NEW c2 \in Int, s <= s2, c <= c2
    PROVE  Bounded(n, b, Q, s2, c2)
<1>1. Total(Rest, GapsIn(n, b, Q)) \in Nat /\ Total(Frozen, GapsIn(n, b, Q)) \in Nat /\ b.frozenGap \in Int
  BY GapsNat, FitsParts
<1>2. QED BY <1>1 DEF Bounded

\* The gaps of a book come from its spans.
LEMMA GapsWithin ==
    ASSUME NEW n, NEW b, NEW r, NEW N, SpansIn(r) \subseteq SpansIn(b) \union N
    PROVE  GapsIn(n, r, {}) \subseteq GapsIn(n, b, N)
BY DEF GapsIn, OfOutage

\* No spans are pending.
LEMMA NonePending == ASSUME NEW n PROVE Pending(n, {})
BY FS_EmptySet DEF Pending

\* The retry keeps the book of an open outage.
LEMMA RetryBooked ==
    ASSUME OcShape, NEW at \in Times, NEW last \in Times, Booked(book, at, last), NEW lands
    PROVE  Booked(RetryHeldGaps(lands), at, last)
<1> DEFINE r == RetryHeldGaps(lands)
<1>1. at.m \in Int /\ book \in Books /\ book.pauses \in Nat
  BY DEF Times, OcShape, Books
<1>2. /\ BookFits(flips, r) /\ r.gen = book.gen /\ r.pauses = book.pauses
      /\ (r.downPausedAt = NoTime <=> book.downPausedAt = NoTime) /\ Covers(flips, r, at.m, 0)
  BY <1>1, RetryCovers DEF Booked
<1>3. SpansIn(r) \subseteq SpansIn(book) \union {}
  BY <1>1, RetryGrown DEF Grown
<1>4. ASSUME ~back PROVE SleepBounded(r, at, last)
  <2> DEFINE s == Slept(book, at, last)  c == Credited(book, at, last)
  <2>1. s \in Int /\ c \in Int /\ s <= c
    BY <1>1, SleptIs
  <2>2. SleepBounded(book, at, last) /\ BookFits(flips, book)
    BY <1>4 DEF Booked
  <2>3. Bounded(flips, book, {}, s, c)
    BY <2>2 DEF SleepBounded
  <2>4. Slept(r, at, last) = s /\ Credited(r, at, last) = c
    BY <1>2 DEF Slept, Credited
  <2> HIDE DEF s, c, r
  <2>5. Bounded(flips, r, {}, s, c) /\ (book.frozenGap <= 0 => r.frozenGap <= 0)
    BY <2>1, <2>2, <2>3, RetryBounded DEF r
  <2>6. GapsIn(flips, r, {}) \subseteq GapsIn(flips, book, {})
    BY <1>3, GapsWithin
  <2>7. QED BY <2>2, <2>4, <2>5, <2>6 DEF SleepBounded
<1>5. QED BY <1>2, <1>4 DEF Booked

\* The length of a gap: seconds both clocks' readings vouch for.
LEMMA GapIs ==
    ASSUME OcShape
    PROVE  /\ UnobservedGap \in Nat
           /\ UnobservedGap > 0 => /\ UnobservedGap = Sec(wall) - Sec(check.w)
                                   /\ Sec(wall) >= Epoch /\ check.w < wall
<1>1. wall \in Int /\ check.w \in Int /\ waited + Slack \in Nat
  BY ClockAssumption DEF OcShape, Times
<1>2. Sec(wall) \in Int /\ Sec(check.w) \in Int /\ Sec(waited + Slack) \in Int /\ Epoch \in Int
  BY <1>1, SecIs, ClockAssumption
<1>3. Sec(waited + Slack) >= 0
  <2>1. Sec(0 * TPS) = 0 /\ 0 * TPS = 0
    <3>1. 0 * TPS = 0
      BY ClockAssumption
    <3>2. QED BY <3>1, SecOfSeconds
  <2>2. Sec(0) <= Sec(waited + Slack)
    BY <1>1, SecGrows
  <2>3. QED BY <1>2, <2>1, <2>2
<1>4. UnobservedGap = 0 \/ /\ UnobservedGap = Sec(wall) - Sec(check.w) /\ UnobservedGap > Sec(waited + Slack)
                           /\ ~(Sec(wall) < Epoch)
  <2> DEFINE gap == Sec(wall) - Sec(check.w)
  <2>1. gap \in Int
    BY <1>2
  <2>2. UnobservedGap = IF Sec(check.w) < Epoch \/ Sec(wall) < Epoch \/ gap <= Sec(waited + Slack) THEN 0 ELSE gap
    BY DEF UnobservedGap
  <2> HIDE DEF gap
  <2>3. UnobservedGap = 0 \/ (UnobservedGap = gap /\ ~(gap <= Sec(waited + Slack)) /\ ~(Sec(wall) < Epoch))
    BY <2>2
  <2>4. QED BY <1>2, <2>1, <2>3 DEF gap
<1>5. CASE UnobservedGap = 0
  BY <1>5
<1>6. CASE UnobservedGap # 0
  <2>1. /\ UnobservedGap = Sec(wall) - Sec(check.w) /\ UnobservedGap > Sec(waited + Slack) /\ ~(Sec(wall) < Epoch)
    BY <1>4, <1>6
  <2>2. UnobservedGap \in Nat /\ UnobservedGap > 0 /\ Sec(check.w) < Sec(wall)
    BY <1>2, <1>3, <2>1
  <2>3. check.w < wall
    <3>1. SUFFICES ASSUME wall <= check.w PROVE FALSE
      BY <1>1
    <3>2. Sec(wall) <= Sec(check.w)
      BY <1>1, <3>1, SecGrows
    <3>3. QED BY <1>2, <2>2, <3>2
  <2>4. QED BY <1>2, <2>1, <2>2, <2>3
<1>7. QED BY <1>5, <1>6

\* The part of a gap the elapsed time contains, and the part it does not: no more
\* than the host slept, to less than a second.
LEMMA InOutageIs ==
    ASSUME Accounting, NEW gap, gap = UnobservedGap, gap > 0
    PROVE  LET deduct == UnobservedInOutage(gap)  frozen == gap * TPS - deduct
           IN /\ deduct \in Nat /\ frozen \in Nat /\ deduct + frozen = gap * TPS /\ gap * TPS = TPS * gap
              /\ ~back => frozen - (TPS - 1) <= Drift(Now) - Drift(check)
              /\ ~back => 0 <= Drift(Now) - Drift(check)
<1> DEFINE moved == mono - check.m  whole == gap * TPS
<1>1. /\ mono \in Nat /\ wall \in Nat /\ check.m \in Int /\ check.w \in Int /\ TPS \in Nat \ {0}
      /\ gap \in Nat /\ gap = Sec(wall) - Sec(check.w)
  BY GapIs, ClockAssumption DEF Accounting, OcShape, Times
<1>2. whole \in Nat /\ whole = TPS * gap /\ moved \in Int
  BY <1>1
<1> HIDE DEF whole, moved
<1>3. UnobservedInOutage(gap) = IF moved <= 0 THEN 0 ELSE IF moved > whole THEN whole ELSE moved
  BY DEF UnobservedInOutage, moved, whole
<1>4. UnobservedInOutage(gap) \in Nat /\ UnobservedInOutage(gap) <= whole
  BY <1>2, <1>3
<1>5. Drift(Now) - Drift(check) = (wall - check.w) - moved
  BY <1>1 DEF Drift, Now, moved
<1>6. whole <= (wall - check.w) + (TPS - 1)
  <2>1. /\ Sec(wall) \in Int /\ TPS * Sec(wall) <= wall /\ Sec(check.w) \in Int
        /\ check.w < TPS * Sec(check.w) + TPS
    BY <1>1, SecIs
  <2>2. whole = TPS * Sec(wall) - TPS * Sec(check.w) /\ TPS * Sec(wall) \in Int /\ TPS * Sec(check.w) \in Int
    BY <1>1, <1>2, <2>1
  <2> DEFINE y == TPS * Sec(wall)  x == TPS * Sec(check.w)
  <2>3. whole = y - x /\ y \in Int /\ x \in Int /\ y <= wall /\ check.w < x + TPS
    BY <2>1, <2>2
  <2> HIDE DEF x, y
  <2>4. QED BY <1>1, <1>2, <2>3
<1>7. ASSUME ~back PROVE moved >= 0 /\ 0 <= Drift(Now) - Drift(check)
  <2>1. check.m <= mono /\ Drift(check) <= Drift(Now)
    BY <1>7 DEF Accounting, Read, Before, Now
  <2>2. QED BY <1>1, <1>5, <2>1 DEF moved, Drift, Now
<1>8. ASSUME ~back PROVE whole - UnobservedInOutage(gap) - (TPS - 1) <= Drift(Now) - Drift(check)
  <2>1. moved >= 0 /\ 0 <= (wall - check.w) - moved
    BY <1>5, <1>7, <1>8
  <2>2. UnobservedInOutage(gap) = whole \/ UnobservedInOutage(gap) = moved
    BY <1>2, <1>3, <2>1
  <2>3. QED BY <1>1, <1>2, <1>4, <1>5, <1>6, <2>1, <2>2
<1>9. QED BY <1>1, <1>2, <1>4, <1>7, <1>8 DEF whole

\* A gap is added to both accumulators.
LEMMA Added ==
    ASSUME NEW b \in Books, NEW x \in Int, NEW y \in Int
    PROVE  LET r == [b EXCEPT !.pausedGap = @ + x, !.frozenGap = @ + y]
           IN /\ r \in Books /\ SameRows(b, r) /\ SameFold(b, r) /\ r.gen = b.gen /\ r.pauses = b.pauses
              /\ r.pausedGap = b.pausedGap + x /\ r.frozenGap = b.frozenGap + y
              /\ HeldIn(r) = HeldIn(b) /\ SpansIn(r) = SpansIn(b)
<1> DEFINE r == [b EXCEPT !.pausedGap = @ + x, !.frozenGap = @ + y]
<1>1. b.pausedGap + x \in Int /\ b.frozenGap + y \in Int
  BY DEF Books
<1>2. /\ r \in Books /\ SameRows(b, r) /\ SameFold(b, r) /\ r.gen = b.gen /\ r.pauses = b.pauses
      /\ r.pausedGap = b.pausedGap + x /\ r.frozenGap = b.frozenGap + y
  BY <1>1 DEF Books, SameRows, SameFold
<1> HIDE DEF r
<1>3. QED BY <1>2 DEF SameRows, HeldIn, SpansIn, r

\* A book with other sums fits as well.
LEMMA SumsFit ==
    ASSUME NEW n, NEW b, BookFits(n, b), NEW r \in Books, SameRows(b, r), SameFold(b, r), r.gen = b.gen
    PROVE  BookFits(n, r) /\ Owed(n, r) = Owed(n, b) /\ \A tick : Folded(r, tick) = Folded(b, tick)
BY DEF BookFits, SameRows, SameFold, HeldIn, Owed, Folded

\* A suspend measured now, and a slice.
LEMMA SpanIs ==
    ASSUME OcShape, NEW at \in Times, NEW secs \in Int, NEW deduct \in Int, NEW frozen \in Int
    PROVE  Span(at, secs, deduct, frozen, FALSE) \in Spans /\ Span(at, secs, deduct, frozen, TRUE) \in Spans
BY DEF OcShape, Span, Spans, Times, Books

\* The sums of the suspends of a book with one more.
LEMMA OneMoreGap ==
    ASSUME NEW n, NEW b, BookFits(n, b), NEW p \in Spans, p.own = n, SpanFits(p), ~p.pause,
           p \notin GapsIn(n, b, {})
    PROVE  /\ GapsIn(n, b, {p}) = GapsIn(n, b, {}) \union {p}
           /\ Total(Rest, GapsIn(n, b, {p})) = Total(Rest, GapsIn(n, b, {})) + Rest[p]
           /\ Total(Frozen, GapsIn(n, b, {p})) = Total(Frozen, GapsIn(n, b, {})) + Frozen[p]
<1> DEFINE G == GapsIn(n, b, {})
<1>1. GapsIn(n, b, {p}) = G \union {p}
  BY DEF GapsIn, OfOutage
<1>2. p \notin G /\ IsFiniteSet(G) /\ \A q \in G : Rest[q] \in Nat /\ Frozen[q] \in Nat
  BY GapsNat, NonePending
<1>3. Rest[p] \in Nat /\ Frozen[p] \in Nat
  BY RestIs
<1> HIDE DEF G
<1>4. Total(Rest, G \union {p}) = Total(Rest, G) + Rest[p]
  <2>1. \A q \in G \union {p} : Rest[q] \in Nat
    BY <1>2, <1>3
  <2>2. QED BY <1>2, <2>1, TotalAdd
<1>5. Total(Frozen, G \union {p}) = Total(Frozen, G) + Frozen[p]
  <2>1. \A q \in G \union {p} : Frozen[q] \in Nat
    BY <1>2, <1>3
  <2>2. QED BY <1>2, <2>1, TotalAdd
<1>6. QED BY <1>1, <1>4, <1>5 DEF G

\* What the host slept until the last check grows with the check.
LEMMA SleptGrows ==
    ASSUME Accounting, ~back, NEW b, b.pauses \in Nat
    PROVE  /\ Slept(b, NoTime, check) <= Slept(b, NoTime, Now)
           /\ Slept(b, NoTime, Now) - Slept(b, NoTime, check) = Drift(Now) - Drift(check)
           /\ Credited(b, NoTime, check) = Slept(b, NoTime, check)
           /\ Credited(b, NoTime, Now) = Slept(b, NoTime, Now)
           /\ Slept(b, NoTime, check) \in Int /\ Slept(b, NoTime, Now) \in Int
<1>1. /\ Now \in Times /\ NoTime \in Times /\ check \in Times /\ Opened \in Int /\ TPS \in Nat
  BY NowIs DEF Accounting, OcShape
<1>2. Drift(check) <= Drift(Now)
  BY DEF Accounting, Read, Before
<1>3. Drift(check) \in Int /\ Drift(Now) \in Int
  BY <1>1 DEF Drift, Times
<1>4. (TPS - 1) * b.pauses \in Int
  BY <1>1
<1>5. QED BY <1>1, <1>2, <1>3, <1>4 DEF Slept, Credited

\* The gap check brings the book of an open outage up to now.
LEMMA GapBooked ==
    ASSUME Accounting, NEW b, b.gen = book.gen, Booked(b, pauseAt, check), NEW lands
    PROVE  LET r == BookUnobservedGap(b, lands)
           IN Booked(r, pauseAt, Now) /\ r.gen = book.gen
<1> DEFINE r == BookUnobservedGap(b, lands)  gap == UnobservedGap
           deduct == UnobservedInOutage(gap)  frozen == gap * TPS - deduct
           a == [b EXCEPT !.pausedGap = @ + deduct, !.frozenGap = @ + frozen]
           p == Span(check, gap, deduct, frozen, FALSE)
<1>1. /\ OcShape /\ ~online /\ b \in Books /\ BookFits(flips, b) /\ b.pauses \in Nat
      /\ check \in Times /\ Now \in Times /\ NoTime \in Times /\ Now.w = wall /\ check.w \in Int /\ wall \in Int
      /\ NoTime.m = -1
  BY NowIs DEF Accounting, Booked, BookFits, Books, OcShape, Times
<1>2. ~back => check.w <= wall
  BY <1>1 DEF Accounting, Read, Before
<1>3. CASE gap = 0 \/ pauseAt # NoTime
  <2>1. r = b
    BY <1>3 DEF BookUnobservedGap
  <2>2. ASSUME ~back PROVE SleepBounded(b, pauseAt, Now)
    <3>1. SleepBounded(b, pauseAt, check)
      BY <2>2 DEF Booked
    <3>2. \A q \in GapsIn(flips, b, {}) : q.start.w < Now.w
      <4>1. \A q \in GapsIn(flips, b, {}) : q \in Spans
        BY <1>1, GapsNat, NonePending
      <4>2. \A q \in GapsIn(flips, b, {}) : q.start.w \in Int /\ q.start.w < check.w
        BY <3>1, <4>1 DEF SleepBounded, Spans, Times
      <4>3. QED BY <1>1, <1>2, <2>2, <4>2
    <3>3. CASE pauseAt # NoTime
      <4>1. Slept(b, pauseAt, Now) = Slept(b, pauseAt, check) /\ Credited(b, pauseAt, Now) = Credited(b, pauseAt, check)
        BY <3>3 DEF Slept, Credited
      <4>2. QED BY <3>1, <3>2, <3>3, <4>1 DEF SleepBounded
    <3>4. CASE pauseAt = NoTime
      <4>1. Bounded(flips, b, {}, Slept(b, NoTime, check), Credited(b, NoTime, check))
        BY <3>1, <3>4 DEF SleepBounded
      <4>2. /\ Slept(b, NoTime, check) <= Slept(b, NoTime, Now)
            /\ Credited(b, NoTime, check) <= Credited(b, NoTime, Now)
            /\ Slept(b, NoTime, check) \in Int /\ Slept(b, NoTime, Now) \in Int
            /\ Credited(b, NoTime, check) \in Int /\ Credited(b, NoTime, Now) \in Int
        BY <1>1, <2>2, SleptGrows
      <4>3. Bounded(flips, b, {}, Slept(b, NoTime, Now), Credited(b, NoTime, Now))
        BY <1>1, <4>1, <4>2, BoundedWider, NonePending
      <4>4. Sec(check.w) <= Sec(wall) /\ Sec(check.w) \in Int /\ Sec(wall) \in Int /\ Epoch \in Int
        BY <1>1, <1>2, <2>2, SecGrows, SecIs, ClockAssumption
      <4>5. Sec(check.w) < Epoch => b.frozenGap <= 0
        BY <3>1, <3>4 DEF SleepBounded
      <4>6. Sec(Now.w) < Epoch => b.frozenGap <= 0
        BY <1>1, <4>4, <4>5
      <4>7. QED BY <3>2, <3>4, <4>3, <4>6 DEF SleepBounded
    <3>5. QED BY <3>3, <3>4
  <2>3. QED BY <2>1, <2>2 DEF Booked
<1>4. CASE gap # 0 /\ pauseAt = NoTime
  <2>1. gap \in Nat /\ gap > 0 /\ Sec(wall) >= Epoch /\ check.w < wall
    BY <1>1, <1>4, GapIs
  <2>2. /\ deduct \in Nat /\ frozen \in Nat /\ deduct + frozen = gap * TPS /\ gap * TPS = TPS * gap
        /\ ~back => frozen - (TPS - 1) <= Drift(Now) - Drift(check)
        /\ ~back => 0 <= Drift(Now) - Drift(check)
    BY <2>1, InOutageIs
  <2>3. r = Offer(a, p, lands)
    BY <1>1, <1>4 DEF BookUnobservedGap
  <2> HIDE DEF gap, deduct, frozen
  <2>4. /\ p \in Spans /\ p.start = check /\ p.secs = gap /\ p.deduct = deduct /\ p.frozen = frozen
        /\ ~p.pause /\ p.gen = book.gen /\ p.own = flips
    <3>1. gap \in Int /\ deduct \in Int /\ frozen \in Int /\ FALSE \in BOOLEAN
      BY <2>1, <2>2
    <3>2. p \in Spans
      BY <1>1, <3>1, SpanIs
    <3>3. /\ p.start = check /\ p.secs = gap /\ p.deduct = deduct /\ p.frozen = frozen
          /\ ~p.pause /\ p.gen = book.gen /\ p.own = IF online THEN 0 ELSE flips
      BY DEF Span
    <3>4. QED BY <1>1, <3>2, <3>3
  <2>5. /\ a \in Books /\ SameRows(b, a) /\ SameFold(b, a) /\ a.gen = b.gen /\ a.pauses = b.pauses
        /\ a.pausedGap = b.pausedGap + deduct /\ a.frozenGap = b.frozenGap + frozen
        /\ HeldIn(a) = HeldIn(b) /\ SpansIn(a) = SpansIn(b)
    <3>1. deduct \in Int /\ frozen \in Int
      BY <2>2
    <3>2. QED BY <1>1, <3>1, Added
  <2> HIDE DEF p, a, r
  <2>6. SpanFits(p) /\ Placed(flips, a.gen, p) /\ SecsFor(flips, p) = gap
    BY <2>1, <2>2, <2>4, <2>5 DEF SpanFits, Placed, SecsFor
  <2>7. BookFits(flips, a) /\ Owed(flips, a) = Owed(flips, b) /\ \A tick : Folded(a, tick) = Folded(b, tick)
    BY <1>1, <2>5, SumsFit
  <2>8. Covers(flips, a, -1, SecsFor(flips, p))
    <3> DEFINE o == Owed(flips, b)
    <3>1. b.pausedGap + b.frozenGap + Folded(b, -1) >= TPS * (o + 0)
      BY <1>1, <1>4 DEF Booked, Covers
    <3>2. o \in Nat /\ b.pausedGap \in Int /\ b.frozenGap \in Int /\ TPS \in Nat
      BY <1>1, FitsParts, ClockAssumption
    <3>3. Folded(b, -1) \in Int
      BY <1>1, FitsParts DEF Folded
    <3>4. TPS * (o + gap) = TPS * (o + 0) + gap * TPS /\ TPS * (o + 0) \in Int /\ gap * TPS \in Int
      BY <2>1, <2>2, <3>2
    <3> HIDE DEF o
    <3>5. a.pausedGap + a.frozenGap + Folded(a, -1) = b.pausedGap + b.frozenGap + Folded(b, -1) + gap * TPS
      BY <2>2, <2>5, <2>7, <3>2, <3>3
    <3>6. a.pausedGap + a.frozenGap + Folded(a, -1) >= TPS * (o + gap)
      BY <3>1, <3>2, <3>3, <3>4, <3>5
    <3>7. QED BY <2>6, <2>7, <3>6 DEF Covers, o
  <2>9. /\ BookFits(flips, r) /\ r.gen = a.gen /\ r.pauses = a.pauses
        /\ r.downPausedAt = NoTime <=> a.downPausedAt = NoTime
    BY <2>3, <2>4, <2>6, <2>7, OfferFits
  <2>10. Covers(flips, r, -1, 0)
    BY <2>3, <2>4, <2>6, <2>7, <2>8, OfferCovers
  <2>11. ASSUME ~back PROVE SleepBounded(r, NoTime, Now)
    <3> DEFINE s == Slept(b, NoTime, check)  s2 == Slept(b, NoTime, Now)
               G == GapsIn(flips, b, {})
    <3>1. SleepBounded(b, NoTime, check)
      BY <1>4, <2>11 DEF Booked
    <3>2. /\ s <= s2 /\ s2 - s = Drift(Now) - Drift(check) /\ s \in Int /\ s2 \in Int
          /\ Credited(b, NoTime, check) = s /\ Credited(b, NoTime, Now) = s2
      BY <1>1, <2>11, SleptGrows
    <3>3. Slept(r, NoTime, Now) = s2 /\ Credited(r, NoTime, Now) = s2
      BY <2>5, <2>9, <3>2 DEF Slept, Credited
    <3> HIDE DEF s, s2
    <3>4. Total(Rest, G) <= s /\ b.frozenGap + Total(Rest, G) <= Total(Frozen, G) + s
      BY <3>1, <3>2 DEF SleepBounded, Bounded, s
    <3>5. \A q \in G : q.start.w < check.w
      BY <3>1 DEF SleepBounded
    <3>6. p \notin G
      <4>1. ~(check.w < check.w)
        BY <1>1
      <4>2. QED BY <2>4, <3>5, <4>1
    <3>7. /\ GapsIn(flips, b, {p}) = G \union {p}
          /\ Total(Rest, GapsIn(flips, b, {p})) = Total(Rest, G) + Rest[p]
          /\ Total(Frozen, GapsIn(flips, b, {p})) = Total(Frozen, G) + Frozen[p]
      BY <1>1, <2>4, <2>6, <3>6, OneMoreGap
    <3>8. GapsIn(flips, a, {p}) = GapsIn(flips, b, {p})
      BY <2>5 DEF GapsIn
    <3>9. /\ Total(Rest, G) \in Nat /\ Total(Frozen, G) \in Nat /\ b.frozenGap \in Int
          /\ \A q \in G : q \in Spans
      BY <1>1, GapsNat, NonePending, FitsParts
    <3> HIDE DEF G
    <3>10. Rest[p] <= s2 - s /\ Rest[p] \in Nat /\ Frozen[p] = frozen
      <4>1. Rest[p] = Bigger(p.frozen - (TPS - 1), 0) /\ Frozen[p] = p.frozen
        BY <2>4 DEF Rest, Frozen
      <4>2. TPS \in Nat
        BY ClockAssumption
      <4>3. s2 - s \in Int /\ frozen - (TPS - 1) <= s2 - s /\ 0 <= s2 - s
        BY <2>2, <2>11, <3>2
      <4>4. QED BY <2>2, <2>4, <4>1, <4>2, <4>3 DEF Bigger
    <3>11. Bounded(flips, a, {p}, s2, s2)
      <4>1. Total(Rest, GapsIn(flips, a, {p})) = Total(Rest, G) + Rest[p]
        BY <3>7, <3>8
      <4>2. Total(Frozen, GapsIn(flips, a, {p})) = Total(Frozen, G) + frozen
        BY <3>7, <3>8, <3>10
      <4>3. Total(Rest, G) + Rest[p] <= s2
        BY <3>2, <3>4, <3>9, <3>10
      <4>4. b.frozenGap + frozen + (Total(Rest, G) + Rest[p]) <= Total(Frozen, G) + frozen + s2
        BY <2>2, <3>2, <3>4, <3>9, <3>10
      <4>5. QED BY <2>5, <4>1, <4>2, <4>3, <4>4 DEF Bounded
    <3>12. Bounded(flips, r, {}, s2, s2)
      BY <2>3, <2>4, <2>6, <2>7, <3>2, <3>11, OfferBounded
    <3>13. SpansIn(r) \subseteq SpansIn(b) \union {p}
      BY <2>3, <2>4, <2>5, OfferGrown DEF Grown
    <3>14. \A q \in GapsIn(flips, r, {}) : q.start.w < Now.w
      <4>1. GapsIn(flips, r, {}) \subseteq G \union {p}
        BY <3>7, <3>13, GapsWithin
      <4>2. \A q \in G : q.start.w \in Int
        BY <3>9 DEF Spans, Times
      <4>3. \A q \in G : q.start.w < wall
        BY <1>1, <2>1, <3>5, <4>2 DEF G
      <4>4. QED BY <1>1, <2>1, <2>4, <4>1, <4>3
    <3>15. ~(Sec(Now.w) < Epoch)
      BY <1>1, <2>1, SecIs, ClockAssumption
    <3>16. QED BY <3>3, <3>12, <3>14, <3>15 DEF SleepBounded
  <2>12. NoTime = NoTime <=> r.downPausedAt = NoTime
    BY <1>4, <2>5, <2>9 DEF Booked, SameFold
  <2>13. Booked(r, NoTime, Now) /\ r.gen = book.gen
    BY <1>1, <2>5, <2>9, <2>10, <2>11, <2>12 DEF Booked
  <2>14. QED BY <1>4, <2>13 DEF r
<1>5. QED BY <1>3, <1>4 DEF Booked

\* The pause that begins is open from now on.
LEMMA NoteBooked ==
    ASSUME Accounting, NEW b, b.gen = book.gen, Booked(b, NoTime, Now)
    PROVE  LET r == NotePause(b)
           IN Booked(r, Now, Now) /\ r.gen = book.gen
<1> DEFINE r == NotePause(b)
<1>1. /\ OcShape /\ ~online /\ b \in Books /\ BookFits(flips, b) /\ b.pauses \in Nat
      /\ Now \in Times /\ Now.m = mono /\ Now.w = wall /\ Now # NoTime /\ mono \in Nat /\ wall \in Nat
      /\ Opened \in Int /\ TPS \in Nat \ {0}
  BY NowIs DEF Accounting, Booked, BookFits, Books
<1>2. b.downPausedAt = NoTime
  BY DEF Booked
<1>3. /\ r \in Books /\ SameRows(b, r) /\ SameSums(b, r) /\ r.gen = b.gen /\ r.pauses = b.pauses + 1
      /\ r.downPausedAt = Now
  <2>1. r = [b EXCEPT !.downPausedAt = Now, !.began = mono, !.pauses = @ + 1]
    BY <1>1, <1>2 DEF NotePause
  <2> DEFINE k == b.pauses + 1  now == Now
  <2>2. r = [b EXCEPT !.downPausedAt = now, !.began = mono, !.pauses = k] /\ k \in Nat /\ now \in Times /\ mono \in Int
    BY <1>1, <2>1
  <2> HIDE DEF k, now, r
  <2>3. /\ r \in Books /\ r.rows = b.rows /\ r.held = b.held /\ r.pausedGap = b.pausedGap
        /\ r.frozenGap = b.frozenGap /\ r.gen = b.gen /\ r.pauses = k /\ r.downPausedAt = now
    BY <1>1, <2>2 DEF Books
  <2>4. QED BY <2>3 DEF SameRows, SameSums, k, now
<1> HIDE DEF r
<1>4. HeldIn(r) = HeldIn(b) /\ SpansIn(r) = SpansIn(b) /\ Owed(flips, r) = Owed(flips, b)
  BY <1>3 DEF SameRows, HeldIn, SpansIn, Owed
<1>5. BookFits(flips, r)
  BY <1>1, <1>3, <1>4 DEF BookFits, SameRows
<1>6. Covers(flips, r, Now.m, 0)
  <2>1. Folded(r, Now.m) = 0 /\ Folded(b, NoTime.m) = 0
    BY <1>1, <1>2, <1>3 DEF Folded
  <2>2. Covers(flips, b, NoTime.m, 0)
    BY DEF Booked
  <2>3. QED BY <1>3, <1>4, <2>1, <2>2 DEF Covers, SameSums
<1>7. ASSUME ~back PROVE SleepBounded(r, Now, Now)
  <2>1. SleepBounded(b, NoTime, Now)
    BY <1>7 DEF Booked
  <2>2. GapsIn(flips, r, {}) = GapsIn(flips, b, {})
    BY <1>4 DEF GapsIn
  <2>3. Slept(r, Now, Now) = Slept(b, NoTime, Now) /\ Credited(b, NoTime, Now) <= Credited(r, Now, Now)
    <3>1. /\ Sec(wall) \in Int /\ Sec(wall) * TPS = TPS * Sec(wall) /\ wall < TPS * Sec(wall) + TPS
          /\ TPS * Sec(wall) \in Int
      BY <1>1, SecIs
    <3>2. (TPS - 1) * (b.pauses + 1) = (TPS - 1) * b.pauses + (TPS - 1) /\ (TPS - 1) * b.pauses \in Int
      BY <1>1
    <3>3. (b.pauses + 1) - 1 = b.pauses
      BY <1>1
    <3>4. Slept(r, Now, Now) = Drift(Now) - Opened + (TPS - 1) * b.pauses
      BY <1>1, <1>3, <3>3 DEF Slept
    <3>5. Slept(b, NoTime, Now) = Drift(Now) - Opened + (TPS - 1) * b.pauses
      BY DEF Slept
    <3>6. Credited(b, NoTime, Now) = wall - mono - Opened + (TPS - 1) * b.pauses
      BY <1>1 DEF Credited, Drift
    <3>7. Credited(r, Now, Now) = TPS * Sec(wall) - mono - Opened + ((TPS - 1) * b.pauses + (TPS - 1))
      BY <1>1, <1>3, <3>1, <3>2 DEF Credited
    <3>8. Credited(b, NoTime, Now) <= Credited(r, Now, Now)
      <4> DEFINE x == TPS * Sec(wall)  y == (TPS - 1) * b.pauses
      <4>1. x \in Int /\ y \in Int /\ wall < x + TPS
        BY <3>1, <3>2
      <4>2. Credited(b, NoTime, Now) = wall - mono - Opened + y /\ Credited(r, Now, Now) = x - mono - Opened + (y + (TPS - 1))
        BY <3>6, <3>7
      <4> HIDE DEF x, y
      <4>3. QED BY <1>1, <4>1, <4>2
    <3>9. QED BY <3>4, <3>5, <3>8
  <2>4. Bounded(flips, b, {}, Slept(b, NoTime, Now), Credited(r, Now, Now))
    <3>1. /\ Slept(b, NoTime, Now) \in Int /\ Credited(b, NoTime, Now) \in Int /\ Credited(r, Now, Now) \in Int
      <4>1. NoTime \in Times /\ r.pauses \in Nat
        BY <1>1, <1>3, NowIs
      <4>2. QED BY <1>1, <4>1, SleptIs
    <3>2. Bounded(flips, b, {}, Slept(b, NoTime, Now), Credited(b, NoTime, Now)) /\ Pending(flips, {})
      BY <2>1, NonePending DEF SleepBounded
    <3>3. Slept(b, NoTime, Now) <= Slept(b, NoTime, Now)
      BY <3>1
    <3>4. QED BY <1>1, <2>3, <3>1, <3>2, <3>3, BoundedWider
  <2>5. QED BY <1>1, <1>3, <2>1, <2>2, <2>3, <2>4 DEF SleepBounded, Bounded, SameSums
<1>8. QED BY <1>1, <1>3, <1>5, <1>6, <1>7 DEF Booked, r

\* The span of an open pause, and what a slice of it holds.
LEMMA PauseIs ==
    ASSUME Accounting, Read(pauseAt)
    PROVE  /\ PauseSpan \in Int /\ Sec(PauseSpan) \in Int /\ mono - pauseAt.m \in Nat
           /\ PauseSpan > 0 => Sec(PauseSpan) \in Nat
           /\ ~back => Sec(PauseSpan) <= Sec(wall) - Sec(pauseAt.w)
           /\ ~back => wall - mono >= Drift(pauseAt)
           /\ ~back => Sec(pauseAt.w) <= Sec(wall)
           /\ Sec(wall) \in Int /\ Sec(pauseAt.w) \in Int /\ pauseAt.m \in Int /\ pauseAt.w \in Int
<1> DEFINE x == Sec(wall) - Sec(pauseAt.w)  y == mono - pauseAt.m
<1>1. mono \in Nat /\ wall \in Nat /\ pauseAt.m \in Int /\ pauseAt.w \in Int /\ TPS \in Nat \ {0}
  BY ClockAssumption DEF Accounting, OcShape, Times
<1>2. Sec(wall) \in Int /\ Sec(pauseAt.w) \in Int /\ x \in Int /\ y \in Int /\ x * TPS \in Int
  BY <1>1, SecIs
<1>3. pauseAt.m <= mono /\ (~back => (pauseAt.w <= wall /\ Drift(pauseAt) <= Drift(Now)))
  BY DEF Read, Before, Now
<1>4. y \in Nat
  BY <1>1, <1>3
<1>5. PauseSpan = Bigger(x * TPS, y)
  BY DEF PauseSpan
<1> HIDE DEF x, y
<1>6. PauseSpan \in Int /\ PauseSpan >= y /\ (PauseSpan = x * TPS \/ PauseSpan = y)
  BY <1>2, <1>5, BiggerIs
<1>7. Sec(PauseSpan) \in Int /\ Sec(0) \in Int
  BY <1>6, SecIs
<1>8. Sec(PauseSpan) \in Nat
  <2>1. 0 * TPS = 0
    BY <1>1
  <2>2. Sec(0) = 0
    BY <2>1, SecOfSeconds
  <2>3. Sec(0) <= Sec(PauseSpan)
    BY <1>4, <1>6, SecGrows
  <2>4. QED BY <1>7, <2>2, <2>3
<1>9. ASSUME ~back PROVE Sec(PauseSpan) <= x /\ wall - mono >= Drift(pauseAt) /\ Sec(pauseAt.w) <= Sec(wall)
  <2>1. pauseAt.w <= wall /\ Drift(pauseAt) <= wall - mono
    BY <1>3, <1>9 DEF Drift, Now
  <2>2. Sec(pauseAt.w) <= Sec(wall)
    BY <1>1, <2>1, SecGrows
  <2>3. Drift(pauseAt) \in Int
    BY <1>1 DEF Drift
  <2>4. Sec(PauseSpan) <= x
    <3>1. CASE PauseSpan = x * TPS
      BY <1>2, <3>1, SecOfSeconds
    <3>2. CASE PauseSpan = y
      <4>1. Sec(pauseAt.w) + Sec(y) <= Sec(pauseAt.w + y)
        BY <1>1, <1>2, SecAdds
      <4>2. pauseAt.w + y \in Int /\ pauseAt.w + y <= wall
        BY <1>1, <1>2, <2>1 DEF y, Drift
      <4>3. Sec(pauseAt.w + y) <= Sec(wall)
        BY <1>1, <4>2, SecGrows
      <4>4. Sec(pauseAt.w + y) \in Int /\ Sec(y) \in Int
        BY <1>2, <4>2, SecIs
      <4>5. QED BY <1>2, <3>2, <4>1, <4>3, <4>4 DEF x
    <3>3. QED BY <1>6, <3>1, <3>2
  <2>5. QED BY <1>1, <2>1, <2>2, <2>3, <2>4
<1>10. QED BY <1>1, <1>2, <1>4, <1>6, <1>7, <1>8, <1>9 DEF x, y

\* What a slice credits to the pair.
LEMMA CreditedTo ==
    ASSUME NEW b \in Books, NEW y \in Int
    PROVE  LET r == [b EXCEPT !.frozenGap = @ + y, !.slices = @ + 1]
           IN /\ r \in Books /\ SameRows(b, r) /\ SameFold(b, r) /\ r.gen = b.gen /\ r.pauses = b.pauses
              /\ r.pausedGap = b.pausedGap /\ r.frozenGap = b.frozenGap + y
              /\ HeldIn(r) = HeldIn(b) /\ SpansIn(r) = SpansIn(b)
<1> DEFINE r == [b EXCEPT !.frozenGap = @ + y, !.slices = @ + 1]
<1>1. b.frozenGap + y \in Int /\ b.slices + 1 \in Nat
  BY DEF Books
<1>2. /\ r \in Books /\ SameRows(b, r) /\ SameFold(b, r) /\ r.gen = b.gen /\ r.pauses = b.pauses
      /\ r.pausedGap = b.pausedGap /\ r.frozenGap = b.frozenGap + y
  BY <1>1 DEF Books, SameRows, SameFold
<1> HIDE DEF r
<1>3. QED BY <1>2 DEF SameRows, HeldIn, SpansIn, r

\* Booked up to now, an open pause allows for what its slice may credit.
LEMMA PauseAllows ==
    ASSUME Accounting, Read(pauseAt), ~back, NEW b, b.pauses \in Nat
    PROVE  LET credit == Sec(PauseSpan) * TPS - (mono - pauseAt.m)
           IN /\ Slept(b, pauseAt, Now) <= Slept(b, Now, Now)
              /\ Credited(b, pauseAt, Now) + credit <= Credited(b, Now, Now)
              /\ Slept(b, pauseAt, Now) \in Int /\ Slept(b, Now, Now) \in Int
              /\ Credited(b, pauseAt, Now) \in Int /\ Credited(b, Now, Now) \in Int
              /\ Slept(b, pauseAt, Now) <= Credited(b, pauseAt, Now) /\ Slept(b, Now, Now) <= Credited(b, Now, Now)
<1>1. /\ OcShape /\ Now \in Times /\ pauseAt \in Times /\ Now # NoTime /\ Now.m = mono /\ Now.w = wall
      /\ Opened \in Int /\ TPS \in Nat \ {0} /\ mono \in Nat /\ wall \in Nat /\ NoTime.m = -1
  BY NowIs DEF Accounting, OcShape
<1>2. pauseAt # NoTime
  <2>1. pauseAt.m >= 0
    BY DEF Read
  <2> HIDE DEF NoTime
  <2>2. QED BY <1>1, <2>1
<1>3. /\ Slept(b, pauseAt, Now) \in Int /\ Slept(b, Now, Now) \in Int
      /\ Credited(b, pauseAt, Now) \in Int /\ Credited(b, Now, Now) \in Int
      /\ Slept(b, pauseAt, Now) <= Credited(b, pauseAt, Now) /\ Slept(b, Now, Now) <= Credited(b, Now, Now)
  BY <1>1, SleptIs
<1>4. /\ Sec(PauseSpan) \in Int /\ Sec(PauseSpan) <= Sec(wall) - Sec(pauseAt.w) /\ wall - mono >= Drift(pauseAt)
      /\ Sec(wall) \in Int /\ Sec(pauseAt.w) \in Int /\ pauseAt.m \in Int /\ pauseAt.w \in Int
  BY PauseIs
<1>5. Slept(b, pauseAt, Now) <= Slept(b, Now, Now)
  <2> DEFINE y == (TPS - 1) * (b.pauses - 1)
  <2>1. y \in Int /\ Drift(pauseAt) \in Int /\ Drift(Now) = wall - mono
    BY <1>1, <1>4 DEF Drift
  <2>2. Slept(b, pauseAt, Now) = Drift(pauseAt) - Opened + y /\ Slept(b, Now, Now) = Drift(Now) - Opened + y
    BY <1>1, <1>2 DEF Slept
  <2> HIDE DEF y
  <2>3. QED BY <1>1, <1>4, <2>1, <2>2
<1>6. Credited(b, pauseAt, Now) + (Sec(PauseSpan) * TPS - (mono - pauseAt.m)) <= Credited(b, Now, Now)
  <2> DEFINE y == (TPS - 1) * b.pauses  u == TPS * Sec(PauseSpan)  v == TPS * Sec(wall)  w == TPS * Sec(pauseAt.w)
  <2>1. y \in Int /\ u \in Int /\ v \in Int /\ w \in Int
    BY <1>1, <1>4
  <2>2. u <= v - w
    <3>1. Sec(wall) - Sec(pauseAt.w) \in Int
      BY <1>4
    <3>2. u <= TPS * (Sec(wall) - Sec(pauseAt.w))
      BY <1>4, <3>1, TimesTPS
    <3>3. TPS * (Sec(wall) - Sec(pauseAt.w)) = v - w
      BY <1>1, <1>4
    <3>4. QED BY <3>2, <3>3
  <2>3. Sec(PauseSpan) * TPS = u /\ Sec(wall) * TPS = v /\ Sec(pauseAt.w) * TPS = w
    BY <1>1, <1>4
  <2>4. Credited(b, pauseAt, Now) = w - pauseAt.m - Opened + y
    BY <1>2, <2>3 DEF Credited
  <2>5. Credited(b, Now, Now) = v - mono - Opened + y
    BY <1>1, <2>3 DEF Credited
  <2>6. Sec(PauseSpan) * TPS - (mono - pauseAt.m) = u - (mono - pauseAt.m)
    BY <2>3
  <2> HIDE DEF y, u, v, w
  <2>7. QED BY <1>1, <1>4, <2>1, <2>2, <2>4, <2>5, <2>6
<1>7. QED BY <1>3, <1>5, <1>6

\* A slice is booked up to now.
LEMMA SliceBooked ==
    ASSUME Accounting, Read(pauseAt), NEW b, b.gen = book.gen, Booked(b, pauseAt, Now), NEW lands,
           ~Implausible, PauseSpan > 0
    PROVE  LET r == BookPauseSpan(b, lands)
           IN Booked(r, Now, Now) /\ r.gen = book.gen
<1> DEFINE r == BookPauseSpan(b, lands)  secs == Sec(PauseSpan)  credit == secs * TPS - (mono - pauseAt.m)
           a == [b EXCEPT !.frozenGap = @ + credit, !.slices = @ + 1]  p == Span(pauseAt, secs, 0, 0, TRUE)
<1>1. /\ OcShape /\ ~online /\ b \in Books /\ BookFits(flips, b) /\ b.pauses \in Nat /\ pauseAt \in Times
      /\ Now \in Times /\ Now.m = mono /\ Now.w = wall /\ Now # NoTime /\ mono \in Nat /\ wall \in Nat
      /\ TPS \in Nat \ {0} /\ NoTime.m = -1
  BY NowIs DEF Accounting, Booked, BookFits, Books, OcShape
<1>2. secs \in Nat /\ pauseAt.m \in Int /\ secs * TPS \in Nat /\ secs * TPS = TPS * secs /\ credit \in Int
  <2>1. Sec(PauseSpan) \in Nat /\ pauseAt.m \in Int
    BY PauseIs
  <2>2. QED BY <1>1, <2>1
<1>3. pauseAt # NoTime
  <2>1. pauseAt.m >= 0
    BY DEF Read
  <2> HIDE DEF NoTime
  <2>2. QED BY <1>1, <2>1
<1>4. r = Offer(a, p, lands)
  BY <1>1 DEF BookPauseSpan
<1>5. b.downPausedAt # NoTime /\ b.downPausedAt.m \in Int
  BY <1>1, <1>3, FitsParts DEF Booked
<1> HIDE DEF secs, credit
<1>6. /\ p \in Spans /\ p.start = pauseAt /\ p.secs = secs /\ p.deduct = 0 /\ p.frozen = 0
      /\ p.pause /\ p.gen = book.gen /\ p.own = flips
  <2>1. secs \in Int /\ 0 \in Int
    BY <1>2
  <2>2. p \in Spans
    BY <1>1, <2>1, SpanIs
  <2>3. /\ p.start = pauseAt /\ p.secs = secs /\ p.deduct = 0 /\ p.frozen = 0
        /\ p.pause /\ p.gen = book.gen /\ p.own = IF online THEN 0 ELSE flips
    BY DEF Span
  <2>4. QED BY <1>1, <2>2, <2>3
<1>7. /\ a \in Books /\ SameRows(b, a) /\ SameFold(b, a) /\ a.gen = b.gen /\ a.pauses = b.pauses
      /\ a.pausedGap = b.pausedGap /\ a.frozenGap = b.frozenGap + credit
      /\ HeldIn(a) = HeldIn(b) /\ SpansIn(a) = SpansIn(b)
  BY <1>1, <1>2, CreditedTo
<1> HIDE DEF p, a, r
<1>8. SpanFits(p) /\ Placed(flips, a.gen, p) /\ SecsFor(flips, p) = secs
  BY <1>2, <1>6, <1>7 DEF SpanFits, Placed, SecsFor
<1>9. BookFits(flips, a) /\ Owed(flips, a) = Owed(flips, b) /\ \A tick : Folded(a, tick) = Folded(b, tick)
  BY <1>1, <1>7, SumsFit
<1>10. Covers(flips, a, mono, SecsFor(flips, p))
  <2> DEFINE o == Owed(flips, b)
  <2>1. b.pausedGap + b.frozenGap + Folded(b, pauseAt.m) >= TPS * (o + 0)
    BY DEF Booked, Covers
  <2>2. o \in Nat /\ b.pausedGap \in Int /\ b.frozenGap \in Int
    BY <1>1, FitsParts
  <2>3. Folded(b, pauseAt.m) = pauseAt.m - b.downPausedAt.m /\ Folded(a, mono) = mono - b.downPausedAt.m
    BY <1>5, <1>9 DEF Folded
  <2>4. TPS * (o + secs) = TPS * (o + 0) + secs * TPS /\ TPS * (o + 0) \in Int
    BY <1>1, <1>2, <2>2
  <2>5. credit = secs * TPS - (mono - pauseAt.m)
    BY DEF credit
  <2> HIDE DEF o
  <2>6. a.pausedGap + a.frozenGap + Folded(a, mono) = b.pausedGap + b.frozenGap + Folded(b, pauseAt.m) + secs * TPS
    BY <1>1, <1>2, <1>5, <1>7, <2>2, <2>3, <2>5
  <2>7. Folded(b, pauseAt.m) \in Int
    BY <1>2, <1>5, <2>3
  <2>8. a.pausedGap + a.frozenGap + Folded(a, mono) >= TPS * (o + secs)
    <3> DEFINE x == TPS * (o + 0)  y == secs * TPS
    <3>1. x \in Int /\ y \in Int /\ b.pausedGap + b.frozenGap + Folded(b, pauseAt.m) >= x /\ TPS * (o + secs) = x + y
      BY <1>2, <2>1, <2>4 DEF o
    <3>2. a.pausedGap + a.frozenGap + Folded(a, mono) = b.pausedGap + b.frozenGap + Folded(b, pauseAt.m) + y
      BY <2>6
    <3> HIDE DEF x, y
    <3>3. QED BY <2>2, <2>7, <3>1, <3>2
  <2>9. QED BY <1>8, <1>9, <2>8 DEF Covers, o
<1>11. /\ BookFits(flips, r) /\ r.gen = a.gen /\ r.pauses = a.pauses
       /\ r.downPausedAt = NoTime <=> a.downPausedAt = NoTime
  BY <1>4, <1>6, <1>8, <1>9, OfferFits
<1>12. Covers(flips, r, mono, 0)
  BY <1>1, <1>4, <1>6, <1>8, <1>9, <1>10, OfferCovers
<1>13. ASSUME ~back PROVE SleepBounded(r, Now, Now)
  <2> DEFINE s == Slept(b, pauseAt, Now)  s2 == Slept(b, Now, Now)
             c == Credited(b, pauseAt, Now)  c2 == Credited(b, Now, Now)  G == GapsIn(flips, b, {})
  <2>1. SleepBounded(b, pauseAt, Now)
    BY <1>13 DEF Booked
  <2>2. /\ s <= s2 /\ c + credit <= c2 /\ s \in Int /\ s2 \in Int /\ c \in Int /\ c2 \in Int /\ s2 <= c2
    BY <1>1, <1>13, PauseAllows DEF credit, secs
  <2>3. Slept(r, Now, Now) = s2 /\ Credited(r, Now, Now) = c2
    BY <1>7, <1>11 DEF Slept, Credited
  <2>4. Total(Rest, G) <= s /\ b.frozenGap + Total(Rest, G) <= Total(Frozen, G) + c
    BY <2>1 DEF SleepBounded, Bounded
  <2> HIDE DEF s, s2, c, c2
  <2>5. GapsIn(flips, a, {p}) = G
    BY <1>6, <1>7 DEF GapsIn, OfOutage
  <2>6. Total(Rest, G) \in Nat /\ Total(Frozen, G) \in Nat /\ b.frozenGap \in Int
    BY <1>1, GapsNat, NonePending, FitsParts
  <2>7. Bounded(flips, a, {p}, s2, c2)
    <3>1. Total(Rest, G) <= s2
      BY <2>2, <2>4, <2>6
    <3>2. b.frozenGap + credit + Total(Rest, G) <= Total(Frozen, G) + c2
      BY <1>2, <2>2, <2>4, <2>6
    <3>3. QED BY <1>7, <2>5, <3>1, <3>2 DEF Bounded
  <2>8. Bounded(flips, r, {}, s2, c2)
    BY <1>4, <1>6, <1>8, <1>9, <2>2, <2>7, OfferBounded
  <2>9. SpansIn(r) \subseteq SpansIn(b) \union {p}
    BY <1>4, <1>6, <1>7, OfferGrown DEF Grown
  <2>10. GapsIn(flips, r, {}) \subseteq G
    BY <1>6, <2>9 DEF GapsIn, OfOutage
  <2>11. \A q \in GapsIn(flips, r, {}) : q.start.w < Now.w
    BY <2>1, <2>10 DEF SleepBounded
  <2>12. ~(Sec(Now.w) < Epoch)
    BY <1>1 DEF Implausible
  <2>13. QED BY <1>1, <2>3, <2>8, <2>11, <2>12 DEF SleepBounded
<1>14. Now = NoTime <=> r.downPausedAt = NoTime
  BY <1>1, <1>5, <1>7, <1>11 DEF SameFold
<1>15. Booked(r, Now, Now) /\ r.gen = book.gen
  BY <1>1, <1>7, <1>11, <1>12, <1>13, <1>14 DEF Booked
<1>16. QED BY <1>15 DEF r

\* A span given up changes nothing of what is booked.
LEMMA GoneIs ==
    ASSUME NEW b \in Books, NEW p \in Spans
    PROVE  LET r == [b EXCEPT !.gone = @ \union {p}, !.slices = @ + 1]
           IN /\ r \in Books /\ SameRows(b, r) /\ SameSums(b, r) /\ SameFold(b, r) /\ r.gen = b.gen /\ r.pauses = b.pauses
              /\ HeldIn(r) = HeldIn(b) /\ SpansIn(r) = SpansIn(b)
<1> DEFINE r == [b EXCEPT !.gone = @ \union {p}, !.slices = @ + 1]
<1>1. b.gone \union {p} \in SUBSET Spans /\ b.slices + 1 \in Nat
  BY DEF Books
<1>2. r \in Books /\ SameRows(b, r) /\ SameSums(b, r) /\ SameFold(b, r) /\ r.gen = b.gen /\ r.pauses = b.pauses
  BY <1>1 DEF Books, SameRows, SameSums, SameFold
<1> HIDE DEF r
<1>3. QED BY <1>2 DEF SameRows, HeldIn, SpansIn, r

\* A book with the same rows, sums and fold is booked as far.
LEMMA SameBooked ==
    ASSUME NEW b, NEW at, NEW last, Booked(b, at, last),
           NEW r \in Books, SameRows(b, r), SameSums(b, r), SameFold(b, r), r.gen = b.gen, r.pauses = b.pauses
    PROVE  Booked(r, at, last)
<1>1. HeldIn(r) = HeldIn(b) /\ SpansIn(r) = SpansIn(b) /\ Owed(flips, r) = Owed(flips, b)
      /\ (r.downPausedAt = NoTime <=> b.downPausedAt = NoTime)
  BY DEF SameRows, SameFold, HeldIn, SpansIn, Owed
<1>2. BookFits(flips, r)
  BY SumsFit DEF Booked
<1>3. Folded(r, at.m) = Folded(b, at.m)
  BY DEF Folded, SameFold
<1>4. Covers(flips, r, at.m, 0)
  BY <1>1, <1>3 DEF Covers, Booked, SameSums
<1>5. GapsIn(flips, r, {}) = GapsIn(flips, b, {})
  BY <1>1 DEF GapsIn
<1>6. Slept(r, at, last) = Slept(b, at, last) /\ Credited(r, at, last) = Credited(b, at, last)
  BY DEF Slept, Credited
<1>7. ASSUME ~back PROVE SleepBounded(r, at, last)
  <2>1. SleepBounded(b, at, last) /\ r.frozenGap = b.frozenGap
    BY <1>7 DEF Booked, SameSums
  <2>2. QED BY <1>5, <1>6, <2>1 DEF SleepBounded, Bounded
<1>8. QED BY <1>1, <1>2, <1>4, <1>7 DEF Booked

\* A span with an implausible end credits nothing: its book is booked up to now.
LEMMA GivenUpBooked ==
    ASSUME Accounting, Read(pauseAt), NEW b, Booked(b, pauseAt, Now), Implausible
    PROVE  Booked(b, Now, Now)
<1>1. /\ OcShape /\ BookFits(flips, b) /\ b \in Books /\ b.pauses \in Nat
      /\ Now \in Times /\ Now.m = mono /\ Now.w = wall /\ Now # NoTime /\ mono \in Nat /\ wall \in Nat
      /\ NoTime.m = -1
  BY NowIs DEF Accounting, Booked, BookFits, Books
<1>2. pauseAt # NoTime /\ pauseAt.m <= mono
  <2>1. pauseAt.m >= 0 /\ pauseAt.m <= mono
    BY <1>1 DEF Read, Before
  <2> HIDE DEF NoTime
  <2>2. QED BY <1>1, <2>1
<1>3. b.downPausedAt # NoTime /\ b.downPausedAt.m \in Int
  BY <1>1, <1>2, FitsParts DEF Booked
<1>4. Covers(flips, b, mono, 0)
  <2> DEFINE o == TPS * (Owed(flips, b) + 0)
  <2>1. o \in Int /\ b.pausedGap \in Int /\ b.frozenGap \in Int
    BY <1>1, FitsParts, ClockAssumption
  <2>2. b.pausedGap + b.frozenGap + Folded(b, pauseAt.m) >= o
    BY DEF Booked, Covers
  <2>3. Folded(b, pauseAt.m) = pauseAt.m - b.downPausedAt.m /\ Folded(b, mono) = mono - b.downPausedAt.m
    BY <1>3 DEF Folded
  <2>4. pauseAt.m \in Int
    BY PauseIs
  <2> HIDE DEF o
  <2>5. b.pausedGap + b.frozenGap + Folded(b, mono) >= o
    BY <1>1, <1>2, <1>3, <2>1, <2>2, <2>3, <2>4
  <2>6. QED BY <2>5 DEF Covers, o
<1>5. ASSUME ~back PROVE SleepBounded(b, Now, Now)
  <2> DEFINE s == Slept(b, pauseAt, Now)  s2 == Slept(b, Now, Now)  c2 == Credited(b, Now, Now)
             G == GapsIn(flips, b, {})
  <2>1. SleepBounded(b, pauseAt, Now)
    BY <1>5 DEF Booked
  <2>2. s <= s2 /\ s \in Int /\ s2 \in Int /\ c2 \in Int /\ s2 <= c2
    BY <1>1, <1>5, PauseAllows
  <2>3. Total(Rest, G) <= s
    BY <2>1 DEF SleepBounded, Bounded
  <2>4. Sec(pauseAt.w) < Epoch /\ Sec(wall) \in Int
    <3>1. Sec(pauseAt.w) <= Sec(wall) /\ Sec(wall) \in Int /\ Sec(pauseAt.w) \in Int /\ Epoch \in Int
      BY <1>5, PauseIs, ClockAssumption
    <3>2. QED BY <3>1 DEF Implausible
  <2>5. b.frozenGap <= 0
    BY <1>2, <2>1, <2>4 DEF SleepBounded
  <2>6. Total(Rest, G) \in Nat /\ Total(Frozen, G) \in Nat /\ b.frozenGap \in Int
    BY <1>1, GapsNat, NonePending, FitsParts
  <2>7. \A q \in G : q.start.w < Now.w
    BY <2>1 DEF SleepBounded
  <2> HIDE DEF s, s2, c2, G
  <2>8. Total(Rest, G) <= s2 /\ b.frozenGap + Total(Rest, G) <= Total(Frozen, G) + c2
    BY <2>2, <2>3, <2>5, <2>6
  <2>9. Bounded(flips, b, {}, Slept(b, Now, Now), Credited(b, Now, Now))
    BY <2>8 DEF Bounded, s2, c2, G
  <2>10. QED BY <1>1, <2>5, <2>7, <2>9 DEF SleepBounded, G
<1>6. QED BY <1>1, <1>3, <1>4, <1>5 DEF Booked

\* flushPause keeps the book of an open outage, up to where the pause is booked.
LEMMA PauseBooked ==
    ASSUME Accounting, Read(pauseAt), NEW b, b.gen = book.gen, Booked(b, pauseAt, Now), NEW force \in BOOLEAN, NEW lands
    PROVE  LET r == FlushPause(b, force, lands)
           IN /\ r.gen = book.gen
              /\ Booked(r, IF Implausible \/ WritesSlice(force) THEN Now ELSE pauseAt, Now)
<1> DEFINE r == FlushPause(b, force, lands)
<1>1. CASE Implausible
  <2> DEFINE p == Span(pauseAt, Sec(mono - pauseAt.m), 0, 0, TRUE)
  <2>1. r = [b EXCEPT !.gone = @ \union {p}, !.slices = @ + 1]
    BY <1>1 DEF FlushPause
  <2>2. p \in Spans
    <3>1. mono - pauseAt.m \in Int
      BY PauseIs
    <3>2. Sec(mono - pauseAt.m) \in Int /\ pauseAt \in Times /\ OcShape /\ 0 \in Int
      BY <3>1, SecIs DEF Accounting, OcShape
    <3>3. QED BY <3>2, SpanIs
  <2>3. b \in Books
    BY DEF Booked, BookFits
  <2> HIDE DEF p, r
  <2>4. /\ r \in Books /\ SameRows(b, r) /\ SameSums(b, r) /\ SameFold(b, r) /\ r.gen = b.gen /\ r.pauses = b.pauses
    BY <2>1, <2>2, <2>3, GoneIs
  <2>5. Booked(r, Now, Now)
    BY <1>1, <2>4, GivenUpBooked, SameBooked
  <2>6. QED BY <1>1, <2>4, <2>5 DEF r
<1>2. CASE ~Implausible /\ WritesSlice(force)
  <2>1. r = BookPauseSpan(b, lands) /\ PauseSpan > 0
    BY <1>2 DEF FlushPause, WritesSlice
  <2>2. Booked(r, Now, Now) /\ r.gen = book.gen
    BY <1>2, <2>1, SliceBooked
  <2>3. QED BY <1>2, <2>2
<1>3. CASE ~Implausible /\ ~WritesSlice(force)
  <2>1. r = b
    BY <1>3 DEF FlushPause
  <2>2. QED BY <1>3, <2>1
<1>4. QED BY <1>1, <1>2, <1>3

\* The fold of a pause that is over.
LEMMA ResumeBooked ==
    ASSUME Accounting, NEW at \in Times, Read(at), NEW b, b.gen = book.gen, Booked(b, at, Now)
    PROVE  LET r == NoteResume(b)
           IN Booked(r, NoTime, Now) /\ r.gen = book.gen
<1> DEFINE r == NoteResume(b)
<1>1. /\ OcShape /\ ~online /\ b \in Books /\ BookFits(flips, b) /\ b.pauses \in Nat
      /\ Now \in Times /\ Now.m = mono /\ Now.w = wall /\ Now # NoTime /\ mono \in Nat /\ wall \in Nat
      /\ Opened \in Int /\ TPS \in Nat \ {0} /\ NoTime.m = -1 /\ NoTime \in Times
  BY NowIs DEF Accounting, Booked, BookFits, Books
<1>2. at # NoTime /\ at.m \in Int /\ at.w \in Int /\ at.m <= mono
  <2>1. at.m >= 0 /\ at.m <= mono /\ at.m \in Int /\ at.w \in Int
    BY <1>1 DEF Read, Before, Times
  <2> HIDE DEF NoTime
  <2>2. QED BY <1>1, <2>1
<1>3. b.downPausedAt # NoTime /\ b.downPausedAt.m \in Int /\ b.pausedGap \in Int /\ b.frozenGap \in Int
  BY <1>1, <1>2, FitsParts DEF Booked
<1> DEFINE d == Bigger(mono - b.downPausedAt.m, 0)  g == b.pausedGap + d
<1>4. d \in Int /\ d >= mono - b.downPausedAt.m /\ g \in Int
  <2>1. mono - b.downPausedAt.m \in Int
    BY <1>1, <1>3
  <2>2. d \in Int /\ d >= mono - b.downPausedAt.m
    <3> DEFINE e == mono - b.downPausedAt.m
    <3>1. e \in Int /\ d = Bigger(e, 0)
      BY <2>1
    <3> HIDE DEF e, d
    <3>2. d \in Int /\ d >= e
      BY <3>1, BiggerIs
    <3>3. QED BY <3>2 DEF e
  <2> HIDE DEF d
  <2>3. QED BY <1>3, <2>2
<1>5. r = [b EXCEPT !.pausedGap = g, !.downPausedAt = NoTime, !.began = -1]
  BY <1>3 DEF NoteResume
<1> HIDE DEF d, r
<1>6. /\ r \in Books /\ SameRows(b, r) /\ r.gen = b.gen /\ r.pauses = b.pauses
      /\ r.downPausedAt = NoTime /\ r.pausedGap = b.pausedGap + d /\ r.frozenGap = b.frozenGap
  <2> DEFINE now == NoTime
  <2>1. r = [b EXCEPT !.pausedGap = g, !.downPausedAt = now, !.began = -1] /\ now \in Times /\ -1 \in Int
    BY <1>1, <1>5
  <2> HIDE DEF now
  <2>2. /\ r \in Books /\ r.rows = b.rows /\ r.held = b.held /\ r.gen = b.gen /\ r.pauses = b.pauses
        /\ r.downPausedAt = now /\ r.pausedGap = g /\ r.frozenGap = b.frozenGap
    BY <1>1, <1>4, <2>1 DEF Books
  <2>3. QED BY <2>2 DEF SameRows, now
<1>7. HeldIn(r) = HeldIn(b) /\ SpansIn(r) = SpansIn(b) /\ Owed(flips, r) = Owed(flips, b)
  BY <1>6 DEF SameRows, HeldIn, SpansIn, Owed
<1>8. BookFits(flips, r)
  BY <1>1, <1>6, <1>7 DEF BookFits, SameRows
<1>9. Covers(flips, r, NoTime.m, 0)
  <2> DEFINE o == TPS * (Owed(flips, b) + 0)
  <2>1. o \in Int
    BY <1>1, FitsParts
  <2>2. b.pausedGap + b.frozenGap + Folded(b, at.m) >= o
    BY DEF Booked, Covers
  <2>3. Folded(b, at.m) = at.m - b.downPausedAt.m /\ Folded(r, NoTime.m) = 0
    BY <1>3, <1>6 DEF Folded
  <2> HIDE DEF o
  <2>4. r.pausedGap + r.frozenGap + Folded(r, NoTime.m) >= o
    BY <1>1, <1>2, <1>3, <1>4, <1>6, <2>1, <2>2, <2>3
  <2>5. QED BY <1>7, <2>4 DEF Covers, o
<1>10. ASSUME ~back PROVE SleepBounded(r, NoTime, Now)
  <2> DEFINE s == Slept(b, at, Now)  s2 == Slept(b, NoTime, Now)
             c == Credited(b, at, Now)  c2 == Credited(b, NoTime, Now)
  <2>1. SleepBounded(b, at, Now)
    BY <1>10 DEF Booked
  <2>2. at.w <= wall /\ at.w - at.m <= wall - mono
    BY <1>1, <1>10 DEF Read, Before, Drift
  <2>3. s \in Int /\ s2 \in Int /\ c \in Int /\ c2 \in Int
    BY <1>1, SleptIs
  <2>4. s <= s2 /\ c <= c2
    <3> DEFINE x == (TPS - 1) * b.pauses  z == TPS * Sec(at.w)
    <3>1. x \in Int /\ (TPS - 1) * (b.pauses - 1) = x - (TPS - 1)
      BY <1>1
    <3>2. z \in Int /\ z <= at.w /\ Sec(at.w) * TPS = z
      BY <1>1, <1>2, SecIs
    <3>3. s = at.w - at.m - Opened + (x - (TPS - 1)) /\ c = z - at.m - Opened + x
      BY <1>2, <3>1, <3>2 DEF Slept, Credited, Drift
    <3>4. s2 = wall - mono - Opened + x /\ c2 = wall - mono - Opened + x
      BY <1>1 DEF Slept, Credited, Drift
    <3> HIDE DEF x, z, s, s2, c, c2
    <3>5. QED BY <1>1, <1>2, <2>2, <3>1, <3>2, <3>3, <3>4
  <2>5. Slept(r, NoTime, Now) = s2 /\ Credited(r, NoTime, Now) = c2
    BY <1>6 DEF Slept, Credited
  <2>6. Bounded(flips, b, {}, s, c)
    BY <2>1 DEF SleepBounded
  <2> HIDE DEF s, s2, c, c2
  <2>7. Bounded(flips, b, {}, s2, c2)
    BY <1>1, <2>3, <2>4, <2>6, BoundedWider, NonePending
  <2>8. GapsIn(flips, r, {}) = GapsIn(flips, b, {})
    BY <1>7 DEF GapsIn
  <2>9. Bounded(flips, r, {}, s2, c2)
    BY <1>6, <2>7, <2>8 DEF Bounded
  <2>10. Sec(Now.w) < Epoch => r.frozenGap <= 0
    <3>1. Sec(at.w) <= Sec(wall) /\ Sec(at.w) \in Int /\ Sec(wall) \in Int /\ Epoch \in Int
      BY <1>1, <1>2, <2>2, SecGrows, SecIs, ClockAssumption
    <3>2. Sec(at.w) < Epoch => b.frozenGap <= 0
      BY <1>2, <2>1 DEF SleepBounded
    <3>3. QED BY <1>1, <1>6, <3>1, <3>2
  <2>11. QED BY <2>1, <2>5, <2>8, <2>9, <2>10 DEF SleepBounded
<1>11. QED BY <1>6, <1>8, <1>9, <1>10 DEF Booked, r

\* The head of an iteration brings the book of an open outage up to now.
LEMMA WokenBooked ==
    ASSUME Accounting, Booked(book, pauseAt, check), NEW lands
    PROVE  Booked(Woken(lands), pauseAt, Now) /\ Woken(lands).gen = book.gen
<1> DEFINE r == RetryHeldGaps(lands)
<1>1. OcShape /\ pauseAt \in Times /\ check \in Times /\ book \in Books
  BY DEF Accounting, OcShape
<1>2. Booked(r, pauseAt, check)
  BY <1>1, RetryBooked
<1>3. r.gen = book.gen
  BY <1>1, RetryGrown DEF Grown
<1> HIDE DEF r
<1>4. QED BY <1>2, <1>3, GapBooked DEF Woken, r

\* A reading of now is one of the past.
LEMMA ReadNow ==
    ASSUME OcShape
    PROVE  Read(Now) /\ Before(Now, Now)
<1>1. Now.m = mono /\ Now.w = wall /\ mono \in Nat /\ wall \in Nat /\ Drift(Now) = wall - mono
  BY NowIs
<1>2. QED BY <1>1 DEF Read, Before

\* An iteration that finds the gate shut leaves it booked.
LEMMA PausedBooked ==
    ASSUME Accounting, Booked(book, pauseAt, check), NEW lands
    PROVE  /\ pauseAt = NoTime => Booked(NotePause(Woken(lands)), Now, Now)
           /\ pauseAt # NoTime => Booked(FlushPause(Woken(lands), FALSE, lands), Reanchored, Now)
<1> DEFINE b == Woken(lands)
<1>1. Booked(b, pauseAt, Now) /\ b.gen = book.gen
  BY WokenBooked
<1> HIDE DEF b
<1>2. CASE pauseAt = NoTime
  BY <1>1, <1>2, NoteBooked DEF b
<1>3. CASE pauseAt # NoTime
  <2>1. Read(pauseAt) /\ FALSE \in BOOLEAN
    BY <1>3 DEF Accounting
  <2>2. Booked(FlushPause(b, FALSE, lands), IF Implausible \/ WritesSlice(FALSE) THEN Now ELSE pauseAt, Now)
    BY <1>1, <2>1, PauseBooked
  <2>3. QED BY <1>3, <2>2 DEF Reanchored, b
<1>4. QED BY <1>2, <1>3

\* And so does the resume edge.
LEMMA ResumeEdgeBooked ==
    ASSUME Accounting, Booked(book, pauseAt, check), NEW lands
    PROVE  Booked(ResumeEdge(lands), NoTime, Now)
<1> DEFINE b == Woken(lands)
<1>1. Booked(b, pauseAt, Now) /\ b.gen = book.gen
  BY WokenBooked
<1> HIDE DEF b
<1>2. CASE pauseAt = NoTime
  BY <1>1, <1>2 DEF ResumeEdge, b
<1>3. CASE pauseAt # NoTime
  <2> DEFINE at == IF Implausible \/ WritesSlice(TRUE) THEN Now ELSE pauseAt
             f == FlushPause(b, TRUE, lands)
  <2>1. Read(pauseAt) /\ TRUE \in BOOLEAN
    BY <1>3 DEF Accounting
  <2>2. f.gen = book.gen /\ Booked(f, at, Now)
    BY <1>1, <2>1, PauseBooked
  <2>3. Read(at) /\ at \in Times
    <3>1. Read(Now) /\ Now \in Times /\ pauseAt \in Times
      BY ReadNow, NowIs DEF Accounting, OcShape
    <3>2. QED BY <2>1, <3>1
  <2> HIDE DEF at, f
  <2>4. Booked(NoteResume(f), NoTime, Now)
    BY <2>2, <2>3, ResumeBooked
  <2>5. QED BY <1>3, <2>4 DEF ResumeEdge, f, b
<1>4. QED BY <1>2, <1>3

\* The accounting does not depend on anything else that may change in between.
LEMMA StaysBooked ==
    ASSUME UNCHANGED <<flips, back, closed, since>>, Booked(book', pauseAt', check')
    PROVE  Booked(book, pauseAt, check)'
<1>1. BookFits(flips, book)' /\ (pauseAt' = NoTime <=> book'.downPausedAt = NoTime) /\ Covers(flips, book, pauseAt.m, 0)'
  BY DEF Booked
<1>2. ASSUME ~back PROVE SleepBounded(book, pauseAt, check)'
  <2>1. SleepBounded(book', pauseAt', check')
    BY <1>2 DEF Booked
  <2>2. Slept(book, pauseAt, check)' = Slept(book', pauseAt', check') /\ Credited(book, pauseAt, check)' = Credited(book', pauseAt', check')
    BY DEF Slept, Credited, Opened
  <2>3. QED BY <2>1, <2>2 DEF SleepBounded
<1>3. QED BY <1>1, <1>2 DEF Booked

-----------------------------------------------------------------------------
(* What an iteration adds to the book                                      *)

\* A span measured now, in the open outage if there is one.
Ours(p) == p.gen = book.gen /\ p.own = IF online THEN 0 ELSE flips

\* The book has no other spans than it had, and such ones.
Kept(b, r) ==
    /\ r \in Books /\ (IsFiniteSet(b.rows) => IsFiniteSet(r.rows)) /\ r.gen = b.gen
    /\ \A p \in SpansIn(r) : p \in SpansIn(b) \/ Ours(p)
    /\ \A p \in HeldIn(r) : p \in HeldIn(b) \/ Ours(p)

\* One operation after another.
LEMMA KeptTwice ==
    ASSUME NEW a, NEW b, NEW c, Kept(a, b), Kept(b, c)
    PROVE  Kept(a, c)
BY DEF Kept

\* What an operation adds, if it was measured now.
LEMMA KeptGrown ==
    ASSUME NEW b, NEW r, NEW N, Grown(b, r, N), \A p \in N : Ours(p)
    PROVE  Kept(b, r)
BY DEF Kept, Grown

\* An operation that leaves the rows and the queue alone.
LEMMA KeptSame ==
    ASSUME NEW b, NEW r \in Books, r.rows = b.rows, r.held = b.held, r.gen = b.gen
    PROVE  Kept(b, r)
BY DEF Kept, HeldIn, SpansIn

\* A span is measured now.
LEMMA SpanOurs ==
    ASSUME NEW at, NEW secs, NEW deduct, NEW frozen, NEW pause
    PROVE  Ours(Span(at, secs, deduct, frozen, pause))
BY DEF Ours, Span

\* The gap check.
LEMMA GapKept ==
    ASSUME OcShape, NEW b \in Books, NEW lands
    PROVE  Kept(b, BookUnobservedGap(b, lands))
<1> DEFINE gap == UnobservedGap
           deduct == IF online THEN 0 ELSE UnobservedInOutage(gap)
           frozen == IF online THEN 0 ELSE gap * TPS - deduct
           a == [b EXCEPT !.pausedGap = @ + deduct, !.frozenGap = @ + frozen]
           p == Span(check, gap, deduct, frozen, FALSE)
<1>1. gap \in Int /\ deduct \in Int /\ frozen \in Int
  <2>1. gap \in Nat /\ TPS \in Nat /\ mono - check.m \in Int
    BY GapIs, ClockAssumption DEF OcShape, Times
  <2> HIDE DEF gap
  <2>2. gap * TPS \in Int
    BY <2>1
  <2>3. UnobservedInOutage(gap) \in Int
    BY <2>1, <2>2 DEF UnobservedInOutage
  <2>4. QED BY <2>1, <2>2, <2>3
<1>2. BookUnobservedGap(b, lands) = IF gap = 0 \/ pauseAt # NoTime THEN b ELSE Offer(a, p, lands)
  BY DEF BookUnobservedGap
<1>3. p \in Spans
  <2>1. check \in Times
    BY DEF OcShape
  <2> HIDE DEF gap, deduct, frozen
  <2>2. QED BY <1>1, <2>1, SpanIs
<1>4. Ours(p)
  BY SpanOurs
<1>5. a \in Books /\ a.rows = b.rows /\ a.held = b.held /\ a.gen = b.gen
  <2> HIDE DEF gap, deduct, frozen
  <2>1. QED BY <1>1, Added DEF SameRows
<1> HIDE DEF gap, deduct, frozen, a, p
<1>6. Kept(b, a)
  BY <1>5, KeptSame
<1>7. Kept(a, Offer(a, p, lands))
  <2>1. Grown(a, Offer(a, p, lands), {p})
    BY <1>3, <1>5, OfferGrown
  <2>2. \A q \in {p} : Ours(q)
    BY <1>4
  <2>3. QED BY <2>1, <2>2, KeptGrown
<1>8. Kept(b, Offer(a, p, lands))
  BY <1>6, <1>7, KeptTwice
<1>9. Kept(b, b)
  BY KeptSame
<1>10. QED BY <1>2, <1>8, <1>9

\* The head of an iteration.
LEMMA WokenKept ==
    ASSUME OcShape, NEW lands
    PROVE  Kept(book, Woken(lands))
<1> DEFINE r == RetryHeldGaps(lands)
<1>1. book \in Books
  BY DEF OcShape
<1>2. Kept(book, r)
  <2>1. Grown(book, r, {})
    BY <1>1, RetryGrown
  <2>2. QED BY <2>1, KeptGrown
<1> HIDE DEF r
<1>3. r \in Books
  BY <1>2 DEF Kept
<1>4. Kept(r, BookUnobservedGap(r, lands))
  BY <1>3, GapKept
<1>5. QED BY <1>2, <1>4, KeptTwice DEF Woken, r

\* A pause that begins.
LEMMA NoteKept ==
    ASSUME OcShape, NEW b \in Books
    PROVE  Kept(b, NotePause(b))
<1> DEFINE r == NotePause(b)  dp == IF ~online /\ b.downPausedAt = NoTime THEN Now ELSE b.downPausedAt
           k == b.pauses + 1
<1>1. Now \in Times /\ mono \in Int
  BY NowIs
<1>2. dp \in Times /\ k \in Nat
  BY <1>1 DEF Books
<1>3. r = [b EXCEPT !.downPausedAt = dp, !.began = mono, !.pauses = k]
  BY DEF NotePause
<1> HIDE DEF dp, k, r
<1>4. r \in Books /\ r.rows = b.rows /\ r.held = b.held /\ r.gen = b.gen
  BY <1>1, <1>2, <1>3 DEF Books
<1>5. QED BY <1>4, KeptSame DEF r

\* One that is over.
LEMMA ResumeKept ==
    ASSUME OcShape, NEW b \in Books
    PROVE  Kept(b, NoteResume(b))
<1> DEFINE r == NoteResume(b)  now == NoTime
           g == IF b.downPausedAt = NoTime THEN b.pausedGap ELSE b.pausedGap + Bigger(mono - b.downPausedAt.m, 0)
<1>1. now \in Times /\ mono \in Int
  BY NowIs
<1>2. g \in Int
  <2>1. b.pausedGap \in Int /\ b.downPausedAt.m \in Int
    BY DEF Books, Times
  <2>2. QED BY <1>1, <2>1 DEF Bigger
<1>3. r = [b EXCEPT !.pausedGap = g, !.downPausedAt = now, !.began = -1] /\ -1 \in Int
  BY DEF NoteResume
<1> HIDE DEF g, now, r
<1>4. r \in Books /\ r.rows = b.rows /\ r.held = b.held /\ r.gen = b.gen
  BY <1>1, <1>2, <1>3 DEF Books
<1>5. QED BY <1>4, KeptSame DEF r

\* And its slices.
LEMMA FlushPauseKept ==
    ASSUME OcShape, NEW b \in Books, NEW force, NEW lands
    PROVE  Kept(b, FlushPause(b, force, lands))
<1>1. /\ PauseSpan \in Int /\ Sec(PauseSpan) \in Int /\ pauseAt \in Times /\ mono - pauseAt.m \in Int
      /\ Sec(mono - pauseAt.m) \in Int /\ TPS \in Nat /\ 0 \in Int
  <2>1. mono \in Nat /\ wall \in Nat /\ pauseAt.m \in Int /\ pauseAt.w \in Int /\ TPS \in Nat /\ pauseAt \in Times
    BY ClockAssumption DEF OcShape, Times
  <2>2. Sec(wall) \in Int /\ Sec(pauseAt.w) \in Int
    BY <2>1, SecIs
  <2>3. PauseSpan \in Int
    BY <2>1, <2>2 DEF PauseSpan, Bigger
  <2>4. QED BY <2>1, <2>3, SecIs
<1>2. CASE Implausible
  <2> DEFINE p == Span(pauseAt, Sec(mono - pauseAt.m), 0, 0, TRUE)
             r == FlushPause(b, force, lands)
  <2>1. p \in Spans
    BY <1>1, SpanIs
  <2>2. r = [b EXCEPT !.gone = @ \union {p}, !.slices = @ + 1]
    BY <1>2 DEF FlushPause
  <2> HIDE DEF p, r
  <2>3. r \in Books /\ SameRows(b, r) /\ r.gen = b.gen
    BY <2>1, <2>2, GoneIs
  <2>4. QED BY <2>3, KeptSame DEF r, SameRows
<1>3. CASE ~Implausible /\ WritesSlice(force)
  <2> DEFINE secs == Sec(PauseSpan)  credit == secs * TPS - (mono - pauseAt.m)
             y == IF online THEN 0 ELSE credit
             a == [b EXCEPT !.frozenGap = IF online THEN @ ELSE @ + credit, !.slices = @ + 1]
             p == Span(pauseAt, secs, 0, 0, TRUE)
  <2>1. FlushPause(b, force, lands) = Offer(a, p, lands)
    BY <1>3 DEF FlushPause, BookPauseSpan
  <2>2. p \in Spans
    BY <1>1, SpanIs
  <2>3. Ours(p)
    BY SpanOurs
  <2>4. credit \in Int
    <3>1. secs * TPS \in Int
      BY <1>1
    <3>2. QED BY <1>1, <3>1
  <2> HIDE DEF credit, p
  <2>5. a \in Books /\ a.rows = b.rows /\ a.held = b.held /\ a.gen = b.gen
    <3> DEFINE f == IF online THEN b.frozenGap ELSE b.frozenGap + credit
    <3>1. f \in Int /\ b.slices + 1 \in Nat
      BY <2>4 DEF Books
    <3>2. a = [b EXCEPT !.frozenGap = f, !.slices = @ + 1]
      OBVIOUS
    <3> HIDE DEF f, a
    <3>3. QED BY <3>1, <3>2 DEF Books
  <2> HIDE DEF a
  <2>6. Kept(b, a)
    BY <2>5, KeptSame
  <2>7. Grown(a, Offer(a, p, lands), {p})
    BY <2>2, <2>5, OfferGrown
  <2>8. \A q \in {p} : Ours(q)
    BY <2>3
  <2>9. Kept(a, Offer(a, p, lands))
    BY <2>7, <2>8, KeptGrown
  <2>10. QED BY <2>1, <2>6, <2>9, KeptTwice
<1>4. CASE ~Implausible /\ ~WritesSlice(force)
  <2>1. FlushPause(b, force, lands) = b
    BY <1>4 DEF FlushPause
  <2>2. QED BY <2>1, KeptSame
<1>5. QED BY <1>2, <1>3, <1>4

\* An iteration.
LEMMA IterationKept ==
    ASSUME OcShape, NEW lands
    PROVE  /\ Kept(book, ResumeEdge(lands)) /\ Kept(book, NotePause(Woken(lands)))
           /\ Kept(book, FlushPause(Woken(lands), FALSE, lands))
<1> DEFINE b == Woken(lands)
<1>1. Kept(book, b)
  BY WokenKept
<1> HIDE DEF b
<1>2. b \in Books
  BY <1>1 DEF Kept
<1>3. Kept(book, NotePause(b))
  BY <1>1, <1>2, NoteKept, KeptTwice
<1>4. ASSUME NEW force PROVE Kept(book, FlushPause(b, force, lands))
  BY <1>1, <1>2, FlushPauseKept, KeptTwice
<1>5. Kept(book, NoteResume(FlushPause(b, TRUE, lands)))
  <2> DEFINE f == FlushPause(b, TRUE, lands)
  <2>1. Kept(book, f)
    BY <1>4
  <2> HIDE DEF f
  <2>2. f \in Books
    BY <2>1 DEF Kept
  <2>3. Kept(f, NoteResume(f))
    BY <2>2, ResumeKept
  <2>4. Kept(book, NoteResume(f))
    BY <2>1, <2>3, KeptTwice
  <2>5. QED BY <2>4 DEF f
<1>6. QED BY <1>1, <1>3, <1>4, <1>5 DEF ResumeEdge, b

-----------------------------------------------------------------------------
(* The steps of the loop                                                   *)

\* Fewer rows leave more of the pair.
LEMMA ObservableGrows ==
    ASSUME NEW o \in Outages, NEW S, NEW T \in SUBSET S
    PROVE  Observable(o, S) \in Nat /\ Observable(o, T) \in Nat /\ Observable(o, S) <= Observable(o, T)
<1> DEFINE Left(R) == {t \in o.start .. o.end - 1 : ~\E p \in R : Sec(p.start.w) <= t /\ t < Sec(p.start.w) + p.secs}
<1>1. IsFiniteSet(o.start .. o.end - 1)
  <2>1. o.start \in Int /\ o.end - 1 \in Int
    BY DEF Outages
  <2>2. QED BY <2>1, FS_Interval
<1>2. Left(S) \subseteq Left(T) /\ Left(T) \subseteq o.start .. o.end - 1
  OBVIOUS
<1> HIDE DEF Left
<1>3. IsFiniteSet(Left(T)) /\ IsFiniteSet(Left(S))
  BY <1>1, <1>2, FS_Subset
<1>4. Cardinality(Left(S)) <= Cardinality(Left(T)) /\ Cardinality(Left(S)) \in Nat /\ Cardinality(Left(T)) \in Nat
  BY <1>2, <1>3, FS_Subset, FS_CardinalityType
<1>5. QED BY <1>4 DEF Observable, Left

\* The held spans of the book.
LEMMA HeldIs == book.rows \union Held = SpansIn(book)
BY DEF Held, SpansIn, HeldIn, InQueue

\* What is true of the spans and of the outage closed last stays true when the
\* book has no others than those measured now.
LEMMA KeptInv ==
    ASSUME OcInv, Kept(book, book'), UNCHANGED <<back, online, flips, closed>>
    PROVE  /\ book' \in Books /\ IsFiniteSet(book'.rows)
           /\ SpansKnown' /\ PairHoldsLength'
<1>1. OcShape /\ SpansKnown /\ PairHoldsLength /\ OutageOpen
  BY DEF OcInv
<1>2. book' \in Books /\ IsFiniteSet(book'.rows) /\ book'.gen = book.gen /\ book.gen \in Nat
  BY <1>1 DEF Kept, OcShape, Books
<1>3. SpansKnown'
  <2>1. \A p \in SpansIn(book') : p.own <= flips
    <3>1. flips \in Nat
      BY <1>1 DEF OcShape
    <3>2. QED BY <1>1, <3>1 DEF Kept, Ours, SpansKnown
  <2>2. \A p \in HeldIn(book') : p.gen <= book.gen
    BY <1>1, <1>2 DEF Kept, Ours, SpansKnown
  <2>3. QED BY <1>2, <2>1, <2>2 DEF SpansKnown
<1>4. ASSUME closed.num # 0
      PROVE  /\ Observable(closed, OfOutage(closed.num, SpansIn(book'))) >= closed.observed
             /\ ~back => closed.end - closed.start <= closed.wall + 1 + closed.cuts
  <2>1. online
    BY <1>1, <1>4 DEF OutageOpen
  <2>2. OfOutage(closed.num, SpansIn(book')) \in SUBSET OfOutage(closed.num, SpansIn(book))
    BY <1>4, <2>1 DEF OfOutage, Kept, Ours
  <2>3. closed \in Outages
    BY <1>1 DEF OcShape
  <2> DEFINE S == OfOutage(closed.num, SpansIn(book))  T == OfOutage(closed.num, SpansIn(book'))
  <2>4. /\ Observable(closed, S) >= closed.observed
        /\ ~back => closed.end - closed.start <= closed.wall + 1 + closed.cuts
    BY <1>1, <1>4, HeldIs DEF PairHoldsLength
  <2>5. Observable(closed, S) \in Nat /\ Observable(closed, T) \in Nat /\ Observable(closed, S) <= Observable(closed, T)
    BY <2>2, <2>3, ObservableGrows
  <2>6. closed.observed \in Int
    BY <2>3 DEF Outages
  <2> HIDE DEF S, T
  <2>7. Observable(closed, T) >= closed.observed
    BY <2>4, <2>5, <2>6
  <2>8. QED BY <2>4, <2>7 DEF T
<1>5. PairHoldsLength'
  <2>1. (book.rows \union Held)' = SpansIn(book')
    BY DEF Held, SpansIn, HeldIn, InQueue
  <2>2. QED BY <1>4, <2>1 DEF PairHoldsLength
<1>6. QED BY <1>2, <1>3, <1>5

\* The loop of an open outage reads its clocks in order.
LEMMA InvAccounting ==
    ASSUME OcInv, ~online
    PROVE  Accounting /\ Booked(book, pauseAt, check) /\ check \in Times /\ check.m <= mono /\ (~back => check.w <= wall)
<1>1. OcShape /\ InOrder /\ OutageOpen
  BY DEF OcInv
<1>2. Read(check) /\ (pauseAt = NoTime \/ Read(pauseAt))
  BY <1>1 DEF InOrder
<1>3. check.m <= mono /\ (~back => check.w <= wall)
  BY <1>1, <1>2, NowIs DEF Read, Before
<1>4. QED BY <1>1, <1>2, <1>3 DEF Accounting, OutageOpen, OcShape

\* The outage stays open, booked up to now.
LEMMA StaysOpen ==
    ASSUME OcInv, UNCHANGED <<mono, wall, back, online, since, lastEv, flips, closed>>, check' = Now,
           ~online => Booked(book', pauseAt', Now)
    PROVE  OutageOpen'
<1> SUFFICES ASSUME ~online PROVE OutageOpen'
  BY DEF OutageOpen
<1>1. OcShape /\ OutageOpen
  BY DEF OcInv
<1>2. Booked(book, pauseAt, check)'
  <2>1. Booked(book', pauseAt', check')
    OBVIOUS
  <2>2. QED BY <2>1, StaysBooked
<1>3. check'.m = mono /\ check'.w = wall
  BY <1>1, NowIs
<1>4. since <= mono /\ (~back => closed.wall * TPS <= wall)
  <2>1. check.m <= mono /\ (~back => check.w <= wall) /\ check.m \in Int /\ check.w \in Int
    BY InvAccounting DEF Times
  <2>2. since \in Int /\ mono \in Int /\ wall \in Int
    BY <1>1 DEF OcShape
  <2>3. closed.wall * TPS \in Int
    BY <1>1, ClockAssumption DEF OcShape, Outages
  <2>4. since <= check.m /\ (~back => closed.wall * TPS <= check.w)
    BY <1>1 DEF OutageOpen
  <2> DEFINE x == closed.wall * TPS
  <2>5. x \in Int /\ (~back => x <= check.w)
    BY <2>3, <2>4
  <2> HIDE DEF x
  <2>6. since <= mono /\ (~back => x <= wall)
    BY <2>1, <2>2, <2>4, <2>5
  <2>7. QED BY <2>6 DEF x
<1>5. QED BY <1>1, <1>2, <1>3, <1>4 DEF OutageOpen

\* The readings kept are still of the past while the clocks stand.
LEMMA StillRead ==
    ASSUME UNCHANGED <<mono, wall, back>>
    PROVE  /\ \A t : Read(t) => Read(t)'
           /\ \A t, u : Before(t, u) => Before(t, u)'
BY DEF Read, Before, Now

\* An iteration that finds the gate shut.
LEMMA PausedInv ==
    ASSUME OcInv, NEW lands, Paused(lands)
    PROVE  OcInv'
<1>1. OcShape /\ InOrder
  BY DEF OcInv
<1>2. UNCHANGED <<mono, wall, back, online, since, lastEv, flips, closed, newest, seen, ts, lastRound>>
  BY DEF Paused, clockVars
<1>3. /\ Now \in Times /\ Now # NoTime /\ NoTime \in Times /\ Now.m = mono /\ Now.w = wall /\ mono \in Nat
      /\ Read(Now) /\ Before(Now, Now)
  BY <1>1, NowIs, ReadNow
<1>4. /\ fail' = NoTime /\ check' = Now /\ lpc' = "wait" /\ due' = mono + Recheck /\ waited' = Recheck
      /\ pauseAt' \in {Now, pauseAt}
  BY DEF Paused, Reanchored
<1>5. Kept(book, book')
  BY <1>1, IterationKept DEF Paused
<1>6. book' \in Books /\ IsFiniteSet(book'.rows) /\ SpansKnown' /\ PairHoldsLength'
  BY <1>2, <1>5, KeptInv
<1>7. OcShape'
  BY <1>1, <1>2, <1>3, <1>4, <1>6, ClockAssumption DEF OcShape
<1>8. InOrder'
  <2>1. \A t \in {check, ts, fail, pauseAt}' : t = NoTime \/ Read(t)
    BY <1>1, <1>2, <1>3, <1>4 DEF InOrder
  <2>2. \A t \in {check, ts, fail, pauseAt}' : t = NoTime \/ Read(t)'
    BY <1>2, <2>1, StillRead
  <2>3. QED BY <1>3, <1>4, <2>2 DEF InOrder
<1>9. OutageOpen'
  <2>1. ASSUME ~online PROVE Booked(book', pauseAt', Now)
    <3>1. Accounting /\ Booked(book, pauseAt, check)
      BY <2>1, InvAccounting
    <3>2. /\ pauseAt = NoTime => Booked(NotePause(Woken(lands)), Now, Now)
          /\ pauseAt # NoTime => Booked(FlushPause(Woken(lands), FALSE, lands), Reanchored, Now)
      BY <3>1, PausedBooked
    <3>3. QED BY <3>2 DEF Paused
  <2>2. QED BY <1>2, <1>4, <2>1, StaysOpen
<1>10. QED BY <1>6, <1>7, <1>8, <1>9 DEF OcInv

\* And one that finds it open.
LEMMA ProbingInv ==
    ASSUME OcInv, NEW lands, Probing(lands)
    PROVE  OcInv'
<1>1. OcShape /\ InOrder
  BY DEF OcInv
<1>2. UNCHANGED <<mono, wall, back, online, since, lastEv, flips, closed, newest, seen, lastRound>>
  BY DEF Probing, clockVars
<1>3. /\ Now \in Times /\ Now # NoTime /\ NoTime \in Times /\ Now.m = mono /\ Now.w = wall /\ mono \in Nat
      /\ Read(Now) /\ Before(Now, Now)
  BY <1>1, NowIs, ReadNow
<1>4. fail' \in {NoTime, fail} /\ check' = Now /\ pauseAt' = NoTime
  BY DEF Probing, Unbroken
<1>5. \/ lpc' = "probe" /\ ts' = Now /\ waited' = 0 /\ due' = due
      \/ lpc' = "wait" /\ ts' = ts /\ due' \in Int /\ waited' \in Nat
  <2>1. CASE Deadline <= mono
    BY <2>1 DEF Probing
  <2>2. CASE ~(Deadline <= mono)
    <3>1. Deadline \in Int
      BY <1>1, ClockAssumption DEF OcShape, Deadline
    <3>2. Deadline - mono \in Nat
      BY <1>3, <2>2, <3>1
    <3>3. lpc' = "wait" /\ due' = Deadline /\ waited' = Deadline - mono /\ UNCHANGED ts
      BY <2>2 DEF Probing
    <3>4. QED BY <3>1, <3>2, <3>3
  <2>3. QED BY <2>1, <2>2
<1>6. Kept(book, book')
  BY <1>1, IterationKept DEF Probing
<1>7. book' \in Books /\ IsFiniteSet(book'.rows) /\ SpansKnown' /\ PairHoldsLength'
  BY <1>2, <1>6, KeptInv
<1>8. OcShape'
  <2>1. {check, ts, fail, pauseAt}' \subseteq Times
    BY <1>1, <1>3, <1>4, <1>5 DEF OcShape
  <2>2. lpc' \in {"down", "top", "wait", "probe"} /\ due' \in Int /\ waited' \in Nat
    BY <1>1, <1>5 DEF OcShape
  <2>3. QED BY <1>1, <1>2, <1>7, <2>1, <2>2 DEF OcShape
<1>9. InOrder'
  <2>1. \A t \in {check, ts, fail, pauseAt}' : t = NoTime \/ Read(t)
    BY <1>1, <1>3, <1>4, <1>5 DEF InOrder
  <2>2. \A t \in {check, ts, fail, pauseAt}' : t = NoTime \/ Read(t)'
    BY <1>2, <2>1, StillRead
  <2>3. fail' # NoTime => Before(fail', check')
    BY <1>1, <1>4 DEF InOrder, Read
  <2>4. fail' # NoTime => Before(fail, check)'
    BY <1>2, <2>3, StillRead DEF Before
  <2>5. QED BY <1>3, <1>4, <1>5, <2>2, <2>4 DEF InOrder
<1>10. OutageOpen'
  <2>1. ASSUME ~online PROVE Booked(book', pauseAt', Now)
    <3>1. Accounting /\ Booked(book, pauseAt, check)
      BY <2>1, InvAccounting
    <3>2. Booked(ResumeEdge(lands), NoTime, Now)
      BY <3>1, ResumeEdgeBooked
    <3>3. QED BY <1>4, <3>2 DEF Probing
  <2>2. QED BY <1>2, <1>4, <2>1, StaysOpen
<1>11. QED BY <1>7, <1>8, <1>9, <1>10 DEF OcInv

-----------------------------------------------------------------------------
(* The clocks, and rounds                                                  *)

\* The clocks move on, the wall clock no slower unless it is set back.
LEMMA ClocksInv ==
    ASSUME OcInv, mono' \in Nat, wall' \in Nat, back' \in BOOLEAN, mono <= mono', back => back',
           ~back' => mono' - mono <= wall' - wall,
           lpc' = lpc \/ lpc' = "down",
           UNCHANGED <<due, waited, check, lastRound, ts, linkVars, pauseAt, book>>
    PROVE  OcInv'
<1>1. OcShape /\ InOrder /\ SpansKnown /\ OutageOpen /\ PairHoldsLength
  BY DEF OcInv
<1>2. UNCHANGED <<fail, online, since, lastEv, newest, seen, flips, closed>>
  BY DEF linkVars
<1>3. OcShape'
  BY <1>1, <1>2 DEF OcShape
<1>4. \A t, u : Before(t, u) => Before(t, u)'
  BY DEF Before
<1>5. ASSUME NEW t \in Times, Read(t) PROVE Read(t)'
  <2>1. /\ mono \in Nat /\ wall \in Nat /\ t.m \in Int /\ t.w \in Int
    BY <1>1 DEF OcShape, Times
  <2>2. t.m >= 0 /\ t.w >= 0 /\ t.m <= mono /\ (~back => (t.w <= wall /\ t.w - t.m <= wall - mono))
    BY <1>5 DEF Read, Before, Now, Drift
  <2>3. t.m <= mono'
    BY <2>1, <2>2
  <2>4. ASSUME ~back' PROVE t.w <= wall' /\ t.w - t.m <= wall' - mono'
    <3>1. ~back /\ mono' - mono <= wall' - wall
      BY <2>4
    <3>2. t.w <= wall /\ t.w - t.m <= wall - mono
      BY <2>2, <3>1
    <3> DEFINE m2 == mono'  w2 == wall'
    <3>3. m2 \in Int /\ w2 \in Int /\ mono <= m2 /\ m2 - mono <= w2 - wall
      BY <3>1
    <3> HIDE DEF m2, w2
    <3>4. t.w <= w2 /\ t.w - t.m <= w2 - m2
      BY <2>1, <3>2, <3>3
    <3>5. QED BY <3>4 DEF m2, w2
  <2>5. QED BY <2>2, <2>3, <2>4 DEF Read, Before, Now, Drift
<1>6. InOrder'
  <2>1. \A t \in {check, ts, fail, pauseAt} : t \in Times
    BY <1>1 DEF OcShape
  <2>2. \A t \in {check, ts, fail, pauseAt} : t = NoTime \/ Read(t)'
    BY <1>1, <1>5, <2>1 DEF InOrder
  <2>3. fail # NoTime /\ check # NoTime => Before(fail, check)'
    BY <1>1, <1>2, <1>4 DEF InOrder, Before
  <2>4. QED BY <1>1, <1>2, <2>2, <2>3 DEF InOrder
<1>7. SpansKnown'
  BY <1>1, <1>2 DEF SpansKnown
<1>8. OutageOpen'
  <2> SUFFICES ASSUME ~online PROVE OutageOpen'
    BY <1>2 DEF OutageOpen
  <2>1. Booked(book, pauseAt, check)'
    <3>1. Booked(book, pauseAt, check)
      BY <1>1 DEF OutageOpen
    <3>2. /\ BookFits(flips, book)' /\ (pauseAt' = NoTime <=> book'.downPausedAt = NoTime)
          /\ Covers(flips, book, pauseAt.m, 0)'
      BY <1>2, <3>1 DEF Booked
    <3>3. ASSUME ~back' PROVE SleepBounded(book, pauseAt, check)'
      <4>1. SleepBounded(book, pauseAt, check)
        BY <3>1, <3>3 DEF Booked
      <4>2. QED BY <1>2, <4>1 DEF SleepBounded, Slept, Credited, Opened
    <3>4. QED BY <3>2, <3>3 DEF Booked
  <2>2. QED BY <1>1, <1>2, <2>1 DEF OutageOpen
<1>9. PairHoldsLength'
  BY <1>1, <1>2 DEF PairHoldsLength, Held
<1>10. QED BY <1>3, <1>6, <1>7, <1>8, <1>9 DEF OcInv

\* Time passes, the host sleeps, the clock is set, and the process dies.
LEMMA ClockSteps ==
    ASSUME OcInv,
           \/ Pass
           \/ \E d \in Suspends, e \in {0, 1} : Suspend(d, e * d)
           \/ \E d \in Corrections : Correct(d)
           \/ \E d \in Suspends \union {0} : Die(d)
    PROVE  OcInv'
<1>1. mono \in Nat /\ wall \in Nat /\ back \in BOOLEAN
  BY DEF OcInv, OcShape
<1>2. CASE Pass
  <2>1. mono' = mono + 1 /\ wall' = wall + 1 /\ back' = back
    BY <1>2 DEF Pass
  <2>2. lpc' = lpc /\ UNCHANGED <<due, waited, check, lastRound, ts, linkVars, pauseAt, book>>
    BY <1>2 DEF Pass, loopVars
  <2>3. QED BY <1>1, <2>1, <2>2, ClocksInv
<1>3. CASE \E d \in Suspends, e \in {0, 1} : Suspend(d, e * d)
  <2>1. PICK d \in Suspends, e \in {0, 1} : Suspend(d, e * d)
    BY <1>3
  <2>2. d \in Nat /\ e * d \in {0, d}
    BY ClockAssumption
  <2>3. mono' = mono + e * d /\ wall' = wall + d /\ back' = back
    BY <2>1 DEF Suspend
  <2>4. lpc' = lpc /\ UNCHANGED <<due, waited, check, lastRound, ts, linkVars, pauseAt, book>>
    BY <2>1 DEF Suspend, loopVars
  <2>5. QED BY <1>1, <2>2, <2>3, <2>4, ClocksInv
<1>4. CASE \E d \in Corrections : Correct(d)
  <2>1. PICK d \in Corrections : Correct(d)
    BY <1>4
  <2>2. d \in Int /\ wall + d >= 0
    BY <2>1, ClockAssumption DEF Correct
  <2>3. mono' = mono /\ wall' = wall + d /\ back' = (back \/ d < 0)
    BY <2>1 DEF Correct
  <2>4. lpc' = lpc /\ UNCHANGED <<due, waited, check, lastRound, ts, linkVars, pauseAt, book>>
    BY <2>1 DEF Correct, loopVars
  <2>5. mono' \in Nat /\ wall' \in Nat /\ mono <= mono' /\ (d >= 0 => mono' - mono <= wall' - wall)
    BY <1>1, <2>2, <2>3
  <2>6. back' \in BOOLEAN /\ (back => back') /\ (~back' => ~(d < 0))
    BY <1>1, <2>3
  <2>7. ~back' => mono' - mono <= wall' - wall
    <3>1. ~(d < 0) => d >= 0
      BY <2>2
    <3>2. QED BY <2>5, <2>6, <3>1
  <2>8. QED BY <2>4, <2>5, <2>6, <2>7, ClocksInv
<1>5. CASE \E d \in Suspends \union {0} : Die(d)
  <2>1. PICK d \in Suspends \union {0} : Die(d)
    BY <1>5
  <2>2. d \in Nat
    BY ClockAssumption
  <2>3. mono' = mono /\ wall' = wall + d /\ back' = back
    BY <2>1 DEF Die
  <2>4. lpc' = "down" /\ UNCHANGED <<due, waited, check, lastRound, ts, linkVars, pauseAt, book>>
    BY <2>1 DEF Die
  <2>5. QED BY <1>1, <2>2, <2>3, <2>4, ClocksInv
<1>6. QED BY <1>2, <1>3, <1>4, <1>5

\* What a round finds, and what it leaves of the loop: it began at ts, and the
\* last check was then, unless there was none.
LEMMA RoundReads ==
    ASSUME OcInv, lpc = "probe", RoundDone
    PROVE  /\ UNCHANGED <<mono, wall, back, due, waited, pauseAt>> /\ pauseAt = NoTime
           /\ ts \in Times /\ Read(ts) /\ check' \in Times /\ check' # NoTime /\ Read(check') /\ Before(ts, check')
           /\ check = NoTime \/ (check = ts /\ check' = ts)
           /\ fail # NoTime => (fail \in Times /\ Read(fail) /\ check = ts /\ Before(fail, check'))
           /\ lpc' = "top" /\ lastRound' = mono /\ ts' = NoTime
<1>1. OcShape /\ InOrder
  BY DEF OcInv
<1>2. /\ UNCHANGED <<mono, wall, back, due, waited, pauseAt>> /\ lpc' = "top" /\ lastRound' = mono /\ ts' = NoTime
      /\ check' = IF check = NoTime THEN Now ELSE check
  BY DEF RoundDone, clockVars
<1>3. ts # NoTime /\ pauseAt = NoTime /\ (check = ts \/ check = NoTime) /\ {ts, check, fail} \subseteq Times
  BY <1>1 DEF InOrder, OcShape
<1>4. Read(ts) /\ (fail = NoTime \/ Read(fail))
  BY <1>1, <1>3 DEF InOrder
<1>5. Read(Now) /\ Now \in Times /\ Now # NoTime
  BY <1>1, ReadNow, NowIs
<1>6. Before(ts, ts)
  <2>1. ts.m \in Int /\ ts.w \in Int
    BY <1>3 DEF Times
  <2>2. QED BY <2>1 DEF Before, Drift
<1>7. Before(ts, check')
  BY <1>2, <1>3, <1>4, <1>6 DEF Read
<1>8. fail # NoTime => check = ts /\ check # NoTime /\ Before(fail, check)
  BY <1>1, <1>3 DEF InOrder
<1>9. QED BY <1>2, <1>3, <1>4, <1>5, <1>7, <1>8

\* What is in order when a round is done.
LEMMA RoundOrder ==
    ASSUME OcInv, lpc = "probe", RoundDone, fail' \in {NoTime, ts, fail}
    PROVE  InOrder'
<1>1. /\ UNCHANGED <<mono, wall, back, due, waited, pauseAt>> /\ pauseAt = NoTime
      /\ Read(ts) /\ check' # NoTime /\ Read(check') /\ Before(ts, check')
      /\ fail # NoTime => Read(fail) /\ Before(fail, check')
      /\ lpc' = "top" /\ ts' = NoTime
  BY RoundReads
<1>2. \A t \in {check, ts, fail, pauseAt}' : t = NoTime \/ Read(t)
  BY <1>1
<1>3. \A t \in {check, ts, fail, pauseAt}' : t = NoTime \/ Read(t)'
  BY <1>1, <1>2, StillRead
<1>4. fail' # NoTime => Before(fail', check')
  BY <1>1
<1>5. fail' # NoTime => Before(fail, check)'
  BY <1>1, <1>4 DEF Before
<1>6. QED BY <1>1, <1>3, <1>5 DEF InOrder

\* A round that changes nothing.
LEMMA RoundInv ==
    ASSUME OcInv, NEW dated, Round(dated)
    PROVE  OcInv'
<1>1. OcShape /\ SpansKnown /\ OutageOpen /\ PairHoldsLength
  BY DEF OcInv
<1>2. lpc = "probe" /\ RoundDone /\ UNCHANGED <<online, since, lastEv, newest, flips, closed, book>>
  BY DEF Round
<1>3. /\ UNCHANGED <<mono, wall, back, due, waited, pauseAt>>
      /\ ts \in Times /\ check' \in Times
      /\ check = NoTime \/ (check = ts /\ check' = ts)
      /\ lpc' = "top" /\ lastRound' = mono /\ ts' = NoTime
  BY <1>2, RoundReads
<1>4. fail' \in {NoTime, ts, fail}
  BY DEF Round
<1>5. InOrder'
  BY <1>2, <1>4, RoundOrder
<1>6. OcShape'
  <2>1. seen' \in SUBSET Int
    <3>1. Sec(ts.w) \in Int
      BY <1>3, SecIs DEF Times
    <3>2. seen' = IF starts < MaxStarts THEN seen \union {Sec(ts.w)} ELSE {}
      BY DEF Round
    <3>3. QED BY <1>1, <3>1, <3>2 DEF OcShape
  <2>2. NoTime \in Times
    BY <1>1, NowIs
  <2>3. {check, ts, fail, pauseAt}' \subseteq Times
    BY <1>1, <1>3, <1>4, <2>2 DEF OcShape
  <2>4. QED BY <1>1, <1>2, <1>3, <2>1, <2>3 DEF OcShape
<1>7. SpansKnown'
  BY <1>1, <1>2 DEF SpansKnown
<1>8. PairHoldsLength'
  BY <1>1, <1>2, <1>3 DEF PairHoldsLength, Held
<1>9. OutageOpen'
  <2> SUFFICES ASSUME ~online PROVE OutageOpen'
    BY <1>2 DEF OutageOpen
  <2>1. check # NoTime
    BY DEF OcInv, InOrder
  <2>2. check' = check /\ Booked(book', pauseAt', check')
    BY <1>1, <1>2, <1>3, <2>1 DEF OutageOpen
  <2>3. Booked(book, pauseAt, check)'
    BY <1>2, <1>3, <2>2, StaysBooked
  <2>4. QED BY <1>1, <1>2, <1>3, <2>2, <2>3 DEF OutageOpen
<1>10. QED BY <1>5, <1>6, <1>7, <1>8, <1>9 DEF OcInv

-----------------------------------------------------------------------------
(* Sums and the seconds they cover                                         *)

\* A sum that is larger by at most k for each summand.
LEMMA TotalExcess ==
    ASSUME NEW S, IsFiniteSet(S), NEW f, NEW g, NEW k \in Nat,
           \A x \in S : f[x] \in Nat /\ g[x] \in Nat /\ f[x] <= g[x] + k
    PROVE  Cardinality(S) \in Nat /\ Total(f, S) <= Total(g, S) + Cardinality(S) * k
<1> DEFINE E == Units(f, S) \ Units(g, S)
           slot == [u \in E |-> <<u[1], u[2] - g[u[1]]>>]
<1>1. IsFiniteSet(Units(f, S)) /\ IsFiniteSet(Units(g, S)) /\ Total(f, S) \in Nat /\ Total(g, S) \in Nat
  BY TotalNat
<1>2. \A u \in E : /\ u = <<u[1], u[2]>> /\ u[1] \in S /\ u[2] \in Int
                   /\ g[u[1]] < u[2] /\ u[2] <= f[u[1]] /\ u[2] - g[u[1]] \in 1 .. k
  <2>1. ASSUME NEW u \in E
        PROVE  /\ u = <<u[1], u[2]>> /\ u[1] \in S /\ u[2] \in Int
               /\ g[u[1]] < u[2] /\ u[2] <= f[u[1]] /\ u[2] - g[u[1]] \in 1 .. k
    <3>1. PICK x \in S : u \in {x} \X (1 .. f[x])
      BY DEF Units
    <3>2. u = <<x, u[2]>> /\ u[2] \in 1 .. f[x] /\ u[1] = x
      BY <3>1
    <3>3. f[x] \in Nat /\ g[x] \in Nat /\ f[x] <= g[x] + k
      OBVIOUS
    <3>4. u[2] \notin 1 .. g[x]
      <4>1. u \notin {x} \X (1 .. g[x])
        BY DEF Units
      <4>2. QED BY <3>2, <4>1
    <3> DEFINE i == u[2]  a == f[x]  c == g[x]
    <3>5. i \in Int /\ 1 <= i /\ i <= a /\ a \in Nat /\ c \in Nat /\ a <= c + k /\ ~(i <= c)
      BY <3>2, <3>3, <3>4
    <3> HIDE DEF i, a, c
    <3>6. i \in Int /\ c < i /\ i <= a /\ i - c \in 1 .. k
      BY <3>5
    <3>7. QED BY <3>2, <3>6 DEF i, a, c
  <2>2. QED BY <2>1
<1>3. slot \in Injection(E, S \X (1 .. k))
  <2>1. slot \in [E -> S \X (1 .. k)]
    <3>1. \A u \in E : <<u[1], u[2] - g[u[1]]>> \in S \X (1 .. k)
      BY <1>2
    <3>2. QED BY <3>1
  <2>2. ASSUME NEW u \in E, NEW v \in E, slot[u] = slot[v] PROVE u = v
    <3>1. u[1] = v[1] /\ u[2] - g[u[1]] = v[2] - g[v[1]]
      BY <2>2
    <3>2. u = <<u[1], u[2]>> /\ v = <<v[1], v[2]>> /\ u[2] \in Int /\ v[2] \in Int /\ g[u[1]] \in Nat
      BY <1>2
    <3>3. u[2] = v[2]
      BY <3>1, <3>2
    <3>4. QED BY <3>1, <3>2, <3>3
  <2>3. DOMAIN slot = E
    OBVIOUS
  <2> HIDE DEF slot, E
  <2>4. QED BY <2>1, <2>2, <2>3 DEF Injection, IsInjective
<1>4. IsFiniteSet(1 .. k) /\ Cardinality(1 .. k) = k
  <2>1. IsFiniteSet(1 .. k) /\ Cardinality(1 .. k) = IF 1 > k THEN 0 ELSE k - 1 + 1
    BY FS_Interval
  <2>2. QED BY <2>1
<1>5. IsFiniteSet(S \X (1 .. k)) /\ Cardinality(S \X (1 .. k)) = Cardinality(S) * k /\ Cardinality(S) \in Nat
  <2>1. IsFiniteSet(S \X (1 .. k)) /\ Cardinality(S \X (1 .. k)) = Cardinality(S) * Cardinality(1 .. k)
    BY <1>4, FS_Product
  <2>2. QED BY <1>4, <2>1, FS_CardinalityType
<1> HIDE DEF slot, E
<1>6. IsFiniteSet(E) /\ Cardinality(E) <= Cardinality(S) * k /\ Cardinality(E) \in Nat
  <2>1. IsFiniteSet(E) /\ Cardinality(E) <= Cardinality(S \X (1 .. k))
    BY <1>3, <1>5, FS_Injection
  <2>2. QED BY <1>5, <2>1, FS_CardinalityType
<1>7. Total(f, S) <= Total(g, S) + Cardinality(E)
  <2> DEFINE U == Units(g, S) \union E
  <2>1. IsFiniteSet(U) /\ Cardinality(U) = Total(g, S) + Cardinality(E) - Cardinality(Units(g, S) \cap E)
    BY <1>1, <1>6, FS_Union DEF Total
  <2>2. Units(f, S) \subseteq U
    BY DEF E
  <2>3. Cardinality(Units(g, S) \cap E) \in Nat
    <3>1. IsFiniteSet(Units(g, S) \cap E)
      BY <1>6, FS_Subset
    <3>2. QED BY <3>1, FS_CardinalityType
  <2> HIDE DEF U
  <2>4. Total(f, S) <= Cardinality(U)
    BY <2>1, <2>2, FS_Subset DEF Total
  <2>5. QED BY <1>1, <1>6, <2>1, <2>3, <2>4
<1> DEFINE z == Cardinality(S) * k
<1>8. z \in Int
  BY <1>5
<1> HIDE DEF z
<1>9. Total(f, S) <= Total(g, S) + z
  BY <1>1, <1>6, <1>7, <1>8 DEF z
<1>10. QED BY <1>5, <1>9 DEF z

\* Stretches of seconds cover no more than their lengths.
LEMMA StretchesCover ==
    ASSUME NEW S, IsFiniteSet(S), NEW f, NEW at, \A x \in S : f[x] \in Nat /\ at[x] \in Int
    PROVE  LET C == {t \in Int : \E x \in S : at[x] <= t /\ t < at[x] + f[x]}
           IN IsFiniteSet(C) /\ Cardinality(C) \in Nat /\ Cardinality(C) <= Total(f, S)
<1> DEFINE C == {t \in Int : \E x \in S : at[x] <= t /\ t < at[x] + f[x]}
           time == [u \in Units(f, S) |-> at[u[1]] + u[2] - 1]
<1>1. IsFiniteSet(Units(f, S))
  BY TotalNat
<1>2. ASSUME NEW u \in Units(f, S) PROVE at[u[1]] + u[2] - 1 \in C
  <2>1. PICK x \in S : u \in {x} \X (1 .. f[x])
    BY DEF Units
  <2>2. u[1] = x /\ u[2] \in 1 .. f[x] /\ f[x] \in Nat /\ at[x] \in Int
    BY <2>1
  <2> DEFINE a == at[x]  i == u[2]
  <2>3. a \in Int /\ i \in Int /\ 1 <= i /\ i <= f[x] /\ f[x] \in Nat
    BY <2>2
  <2> HIDE DEF a, i
  <2>4. a + i - 1 \in Int /\ a <= a + i - 1 /\ a + i - 1 < a + f[x]
    BY <2>3
  <2>5. at[x] <= a + i - 1 /\ a + i - 1 < at[x] + f[x] /\ a + i - 1 \in Int
    BY <2>4 DEF a
  <2>6. a + i - 1 \in C
    BY <2>5
  <2>7. QED BY <2>2, <2>6 DEF a, i
<1>3. ASSUME NEW t \in C PROVE \E u \in Units(f, S) : time[u] = t
  <2>1. PICK x \in S : at[x] <= t /\ t < at[x] + f[x]
    OBVIOUS
  <2> DEFINE i == t - at[x] + 1  a == at[x]
  <2>2. t \in Int /\ a \in Int /\ f[x] \in Nat
    OBVIOUS
  <2>3. i \in 1 .. f[x] /\ a + i - 1 = t
    BY <2>1, <2>2
  <2> HIDE DEF i
  <2>4. <<x, i>> \in Units(f, S)
    BY <2>3 DEF Units
  <2>5. time[<<x, i>>] = t
    BY <2>3, <2>4
  <2>6. QED BY <2>4, <2>5
<1>4. time \in Surjection(Units(f, S), C)
  <2>1. time \in [Units(f, S) -> C]
    BY <1>2
  <2> HIDE DEF time, C
  <2>2. QED BY <1>3, <2>1 DEF Surjection
<1> HIDE DEF time, C
<1>5. IsFiniteSet(C) /\ Cardinality(C) <= Cardinality(Units(f, S))
  BY <1>1, <1>4, FS_Surjection
<1>6. QED BY <1>5, FS_CardinalityType DEF Total, C

\* The rows of an outage, those that will still be written too, cover no more
\* seconds than they hold.
LEMMA RowsCover ==
    ASSUME NEW n, NEW b, BookFits(n, b)
    PROVE  LET C == {t \in Int : \E p \in OfOutage(n, SpansIn(b)) : Sec(p.start.w) <= t /\ t < Sec(p.start.w) + p.secs}
           IN IsFiniteSet(C) /\ Cardinality(C) \in Nat /\ Cardinality(C) <= Owed(n, b)
<1> DEFINE C == {t \in Int : \E p \in OfOutage(n, SpansIn(b)) : Sec(p.start.w) <= t /\ t < Sec(p.start.w) + p.secs}
           R == OfOutage(n, b.rows)  W == Waiting(n, b.held, 1)
           rowAt == [p \in R |-> Sec(p.start.w)]  heldAt == [i \in W |-> Sec(b.held[i].start.w)]
           A == {t \in Int : \E p \in R : rowAt[p] <= t /\ t < rowAt[p] + Secs[p]}
           B == {t \in Int : \E i \in W : heldAt[i] <= t /\ t < heldAt[i] + SecsOf(b.held)[i]}
<1>1. /\ b.held \in Seq(Spans) /\ QueueFits(n, b.held) /\ b.rows \in SUBSET Spans /\ IsFiniteSet(b.rows)
      /\ \A p \in b.rows : p.own = n => SpanFits(p)
      /\ Total(Secs, R) \in Nat /\ WaitingSecs(n, b.held, 1) \in Nat
  BY FitsParts
<1>2. \A p \in Spans : Sec(p.start.w) \in Int
  <2>1. \A p \in Spans : p.start.w \in Int
    BY DEF Spans, Times
  <2>2. QED BY <2>1, SecIs
<1>3. IsFiniteSet(R) /\ (\A p \in R : Secs[p] \in Nat) /\ R \in SUBSET Spans
  BY <1>1, RowsNat DEF OfOutage
<1>4. IsFiniteSet(W) /\ (\A i \in W : SecsOf(b.held)[i] \in Nat) /\ \A i \in W : i \in 1 .. Len(b.held) /\ b.held[i] \in Spans
  <2>1. 1 \in Nat \ {0}
    OBVIOUS
  <2>2. IsFiniteSet(W) /\ \A i \in W : SecsOf(b.held)[i] \in Nat
    BY <1>1, <2>1, WaitingNat
  <2>3. \A i \in W : i \in 1 .. Len(b.held) /\ b.held[i] \in Spans
    BY <1>1 DEF Waiting
  <2>4. QED BY <2>2, <2>3
<1>5. IsFiniteSet(A) /\ Cardinality(A) \in Nat /\ Cardinality(A) <= Total(Secs, R)
  <2>1. \A p \in R : Secs[p] \in Nat /\ rowAt[p] \in Int
    BY <1>2, <1>3
  <2> HIDE DEF rowAt, R
  <2>2. QED BY <1>3, <2>1, StretchesCover
<1>6. IsFiniteSet(B) /\ Cardinality(B) \in Nat /\ Cardinality(B) <= Total(SecsOf(b.held), W)
  <2>1. \A i \in W : SecsOf(b.held)[i] \in Nat /\ heldAt[i] \in Int
    BY <1>2, <1>4
  <2> HIDE DEF heldAt, W
  <2>2. QED BY <1>4, <2>1, StretchesCover
<1>7. C \subseteq A \union B
  <2>1. ASSUME NEW t \in C PROVE t \in A \union B
    <3>1. PICK p \in OfOutage(n, SpansIn(b)) : Sec(p.start.w) <= t /\ t < Sec(p.start.w) + p.secs
      OBVIOUS
    <3>2. CASE p \in b.rows
      <4>1. p \in R /\ p \in Spans
        BY <1>1, <3>2 DEF OfOutage
      <4>2. rowAt[p] = Sec(p.start.w) /\ Secs[p] = p.secs
        BY <4>1 DEF Secs
      <4>3. t \in Int
        OBVIOUS
      <4>4. QED BY <3>1, <4>1, <4>2, <4>3
    <3>3. CASE p \in HeldIn(b)
      <4>1. PICK i \in 1 .. Len(b.held) : p = b.held[i]
        BY <3>3 DEF HeldIn, InQueue
      <4>2. i \in W
        BY <1>1, <4>1 DEF Waiting, OfOutage
      <4>3. heldAt[i] = Sec(p.start.w) /\ SecsOf(b.held)[i] = p.secs
        BY <4>1, <4>2 DEF SecsOf
      <4>4. t \in Int
        OBVIOUS
      <4>5. QED BY <3>1, <4>2, <4>3, <4>4
    <3>4. QED BY <3>2, <3>3 DEF SpansIn, OfOutage
  <2>2. QED BY <2>1
<1>8. Owed(n, b) = Total(Secs, R) + Total(SecsOf(b.held), W) /\ Total(SecsOf(b.held), W) \in Nat
  BY <1>1 DEF Owed, WaitingSecs
<1> HIDE DEF A, B, C, R, W
<1>9. IsFiniteSet(A \union B) /\ Cardinality(A \union B) <= Owed(n, b) /\ Cardinality(A \union B) \in Nat
  <2>1. /\ IsFiniteSet(A \union B)
        /\ Cardinality(A \union B) = Cardinality(A) + Cardinality(B) - Cardinality(A \cap B)
    BY <1>5, <1>6, FS_Union
  <2>2. Cardinality(A \cap B) \in Nat
    <3>1. IsFiniteSet(A \cap B)
      BY <1>5, FS_Subset
    <3>2. QED BY <3>1, FS_CardinalityType
  <2>3. Total(Secs, R) \in Nat
    BY <1>1 DEF R
  <2>4. QED BY <1>5, <1>6, <1>8, <2>1, <2>2, <2>3, FS_CardinalityType
<1>10. IsFiniteSet(C) /\ Cardinality(C) <= Cardinality(A \union B) /\ Cardinality(C) \in Nat
  BY <1>7, <1>9, FS_Subset, FS_CardinalityType
<1>11. Owed(n, b) \in Int
  BY FitsParts
<1>12. Cardinality(C) <= Owed(n, b)
  BY <1>9, <1>10, <1>11
<1>13. QED BY <1>10, <1>12 DEF C

\* What they leave of a pair.
LEMMA PairLeaves ==
    ASSUME NEW n, NEW b, BookFits(n, b), NEW o \in Outages
    PROVE  LET left == Observable(o, OfOutage(n, SpansIn(b)))
           IN left \in Nat /\ left >= o.end - o.start - Owed(n, b)
<1> DEFINE C == {t \in Int : \E p \in OfOutage(n, SpansIn(b)) : Sec(p.start.w) <= t /\ t < Sec(p.start.w) + p.secs}
           I == o.start .. o.end - 1
<1>1. IsFiniteSet(C) /\ Cardinality(C) \in Nat /\ Cardinality(C) <= Owed(n, b)
  BY RowsCover
<1>2. o.start \in Int /\ o.end \in Int /\ o.end - 1 \in Int
  BY DEF Outages
<1>3. IsFiniteSet(I) /\ Cardinality(I) \in Nat /\ Cardinality(I) >= o.end - o.start
  <2>1. IsFiniteSet(I) /\ Cardinality(I) = IF o.start > o.end - 1 THEN 0 ELSE o.end - 1 - o.start + 1
    BY <1>2, FS_Interval
  <2> HIDE DEF I
  <2>2. QED BY <1>2, <2>1
<1>4. Observable(o, OfOutage(n, SpansIn(b))) = Cardinality(I \ C)
  <2>1. I \subseteq Int
    BY <1>2
  <2>2. {t \in I : ~\E p \in OfOutage(n, SpansIn(b)) : Sec(p.start.w) <= t /\ t < Sec(p.start.w) + p.secs} = I \ C
    BY <2>1
  <2>3. QED BY <2>2 DEF Observable
<1> HIDE DEF C, I
<1>5. IsFiniteSet(I \ C) /\ Cardinality(I \ C) = Cardinality(I) - Cardinality(I \cap C)
  BY <1>3, FS_Difference
<1>6. Cardinality(I \cap C) <= Cardinality(C) /\ Cardinality(I \cap C) \in Nat
  <2>1. IsFiniteSet(I \cap C) /\ Cardinality(I \cap C) <= Cardinality(C)
    BY <1>1, FS_Subset
  <2>2. QED BY <2>1, FS_CardinalityType
<1>7. Owed(n, b) \in Int
  BY FitsParts
<1>8. QED BY <1>1, <1>2, <1>3, <1>4, <1>5, <1>6, <1>7, FS_CardinalityType

-----------------------------------------------------------------------------
(* Transitions                                                             *)

\* The accumulators of the next incarnation, and the rows of the last.
LEMMA NextIs ==
    ASSUME OcInv, book' = NextIncarnation
    PROVE  /\ book' \in Books /\ IsFiniteSet(book'.rows) /\ book'.gen = book.gen + 1 /\ book'.pauses = 0
           /\ book'.pausedGap = 0 /\ book'.frozenGap = 0 /\ book'.downPausedAt = NoTime
           /\ book'.rows = book.rows /\ book'.held = book.held
           /\ SpansIn(book') = SpansIn(book) /\ HeldIn(book') = HeldIn(book)
<1>1. OcShape /\ book \in Books /\ IsFiniteSet(book.rows)
  BY DEF OcInv, OcShape
<1> DEFINE g == book.gen + 1  now == NoTime
<1>2. g \in Nat /\ now \in Times
  BY <1>1, NowIs DEF Books
<1>3. book' = [book EXCEPT !.gen = g, !.pausedGap = 0, !.frozenGap = 0, !.downPausedAt = now, !.pauses = 0,
                              !.slices = 0, !.slept = 0]
  BY DEF NextIncarnation
<1> HIDE DEF g, now
<1>4. /\ book' \in Books /\ book'.gen = g /\ book'.pauses = 0 /\ book'.pausedGap = 0 /\ book'.frozenGap = 0
      /\ book'.downPausedAt = now /\ book'.rows = book.rows /\ book'.held = book.held
  <2> DEFINE b == book  r == book'
  <2>1. b \in Books
    BY <1>1
  <2>2. r = [b EXCEPT !.gen = g, !.pausedGap = 0, !.frozenGap = 0, !.downPausedAt = now, !.pauses = 0,
                      !.slices = 0, !.slept = 0]
    BY <1>3
  <2> HIDE DEF b, r
  <2>3. /\ r.gen = g /\ r.pauses = 0 /\ r.pausedGap = 0 /\ r.frozenGap = 0
        /\ r.downPausedAt = now /\ r.rows = b.rows /\ r.held = b.held
    BY <2>1, <2>2 DEF Books
  <2>4. r \in Books
    <3> DEFINE none == 0
    <3>1. none \in Int /\ none \in Nat
      OBVIOUS
    <3>2. r = [b EXCEPT !.gen = g, !.pausedGap = none, !.frozenGap = none, !.downPausedAt = now, !.pauses = none,
                        !.slices = none, !.slept = none]
      BY <2>2
    <3> HIDE DEF none
    <3>3. QED BY <1>2, <2>1, <3>1, <3>2 DEF Books
  <2>5. QED BY <2>3, <2>4 DEF b, r
<1>5. QED BY <1>1, <1>4 DEF g, now, SpansIn, HeldIn

\* What a transition leaves of the spans, the loop and the store.
LEMMA RecordInv ==
    ASSUME OcInv, lpc = "probe", RoundDone, Record, fail' = NoTime,
           since' \in Int, lastEv' \in Int, online' \in BOOLEAN, closed' \in Outages
    PROVE  OcShape' /\ InOrder' /\ SpansKnown'
<1>1. OcShape /\ SpansKnown
  BY DEF OcInv
<1>2. /\ UNCHANGED <<mono, wall, back, due, waited, pauseAt>>
      /\ ts \in Times /\ check' \in Times
      /\ lpc' = "top" /\ lastRound' = mono /\ ts' = NoTime
  BY RoundReads
<1>3. /\ newest' = Bigger(newest, lastEv') /\ flips' = flips + 1 /\ book' = NextIncarnation
      /\ seen' = IF starts < MaxStarts THEN seen \union {Sec(ts.w), lastEv'} ELSE {}
  BY DEF Record
<1>4. InOrder'
  BY RoundOrder
<1>5. /\ book' \in Books /\ IsFiniteSet(book'.rows) /\ book'.gen = book.gen + 1
      /\ SpansIn(book') = SpansIn(book) /\ HeldIn(book') = HeldIn(book)
  BY <1>3, NextIs
<1>6. OcShape'
  <2>1. seen' \in SUBSET Int
    <3>1. Sec(ts.w) \in Int
      BY <1>2, SecIs DEF Times
    <3>2. seen \in SUBSET Int
      BY <1>1 DEF OcShape
    <3>3. QED BY <1>3, <3>1, <3>2
  <2>2. {check, ts, fail, pauseAt}' \subseteq Times
    <3>1. NoTime \in Times
      BY <1>1, NowIs
    <3>2. QED BY <1>1, <1>2, <3>1 DEF OcShape
  <2>3. newest' \in Int /\ flips' \in Nat
    BY <1>1, <1>3 DEF OcShape, Bigger
  <2>4. QED BY <1>1, <1>2, <1>5, <2>1, <2>2, <2>3 DEF OcShape
<1>7. SpansKnown'
  <2>1. flips' = flips + 1 /\ flips \in Nat /\ book.gen \in Nat
    BY <1>1, <1>3 DEF OcShape, Books
  <2>2. \A p \in SpansIn(book) : p.own \in Nat /\ p.own <= flips
    <3>1. SpansIn(book) \subseteq Spans
      <4>1. book.held \in Seq(Spans) /\ book.rows \in SUBSET Spans
        BY <1>1 DEF OcShape, Books
      <4>2. QED BY <4>1, InQueueIs DEF SpansIn, HeldIn
    <3>2. QED BY <1>1, <3>1 DEF SpansKnown, Spans
  <2>3. \A p \in HeldIn(book) : p.gen \in Nat /\ p.gen <= book.gen
    <3>1. HeldIn(book) \subseteq Spans
      <4>1. book.held \in Seq(Spans)
        BY <1>1 DEF OcShape, Books
      <4>2. QED BY <4>1, InQueueIs DEF HeldIn
    <3>2. QED BY <1>1, <3>1 DEF SpansKnown, Spans
  <2>4. \A p \in SpansIn(book') : p.own <= flips'
    BY <1>5, <2>1, <2>2
  <2>5. \A p \in HeldIn(book') : p.gen <= book'.gen
    BY <1>5, <2>1, <2>3
  <2>6. QED BY <2>4, <2>5 DEF SpansKnown
<1>8. QED BY <1>4, <1>6, <1>7

\* A new outage has no spans, and nothing is booked.
LEMMA FreshBooked ==
    ASSUME OcInv, book' = NextIncarnation, flips' = flips + 1, pauseAt' = NoTime, closed' \in Outages,
           check' \in Times, NEW t \in Times, Before(t, check'), since' = t.m,
           closed'.wall = Sec(t.w), back' = back
    PROVE  Booked(book, pauseAt, check)'
<1> DEFINE n == flips + 1  b == book'
<1>1. /\ b \in Books /\ IsFiniteSet(b.rows) /\ b.gen = book.gen + 1 /\ b.pauses = 0
      /\ b.pausedGap = 0 /\ b.frozenGap = 0 /\ b.downPausedAt = NoTime
      /\ SpansIn(b) = SpansIn(book) /\ HeldIn(b) = HeldIn(book)
  BY NextIs
<1>2. OcShape /\ SpansKnown /\ flips \in Nat /\ book.gen \in Nat /\ book.held \in Seq(Spans) /\ book.rows \in SUBSET Spans
  BY DEF OcInv, OcShape, Books
<1>3. \A p \in SpansIn(b) : p.own # n
  <2>1. SpansIn(book) \subseteq Spans
    BY <1>2, InQueueIs DEF SpansIn, HeldIn
  <2>2. \A p \in SpansIn(book) : p.own \in Nat /\ p.own <= flips
    BY <1>2, <2>1 DEF SpansKnown, Spans
  <2>3. QED BY <1>1, <1>2, <2>2
<1>4. \A p \in HeldIn(b) : p.gen # b.gen /\ p.own # n
  <2>1. HeldIn(book) \subseteq Spans
    BY <1>2, InQueueIs DEF HeldIn
  <2>2. \A p \in HeldIn(book) : p.gen \in Nat /\ p.gen <= book.gen
    BY <1>2, <2>1 DEF SpansKnown, Spans
  <2>3. QED BY <1>1, <1>2, <1>3, <2>2 DEF SpansIn
<1> HIDE DEF n, b
<1>5. BookFits(n, b)
  BY <1>1, <1>3, <1>4 DEF BookFits, Placed, SpansIn
<1>6. Owed(n, b) = 0
  <2>1. OfOutage(n, b.rows) = {}
    BY <1>3 DEF OfOutage, SpansIn
  <2>2. Waiting(n, b.held, 1) = {}
    <3>1. \A i \in 1 .. Len(b.held) : b.held[i] \in HeldIn(b)
      BY DEF HeldIn, InQueue
    <3>2. QED BY <1>4, <3>1 DEF Waiting
  <2>3. QED BY <2>1, <2>2, TotalNone DEF Owed, WaitingSecs
<1>7. Covers(n, b, NoTime.m, 0)
  <2>1. Folded(b, NoTime.m) = 0
    BY <1>1 DEF Folded
  <2>2. TPS * (0 + 0) = 0
    BY ClockAssumption
  <2>3. QED BY <1>1, <1>6, <2>1, <2>2 DEF Covers
<1>8. GapsIn(n, b, {}) = {}
  BY <1>3 DEF GapsIn, OfOutage
<1> DEFINE u == check'  z == closed'.wall
<1>9. ASSUME ~back
      PROVE  u.w - u.m - (z * TPS - since') + (TPS - 1) * 0 \in Nat
  <2>1. u.m \in Int /\ u.w \in Int /\ t.m \in Int /\ t.w \in Int /\ z \in Int /\ TPS \in Nat
    BY ClockAssumption DEF Times, Outages
  <2>2. TPS * Sec(t.w) <= t.w /\ TPS * Sec(t.w) \in Int /\ Sec(t.w) \in Int
    BY <2>1, SecIs
  <2> DEFINE y == TPS * Sec(t.w)
  <2>3. z * TPS = y /\ y <= t.w /\ y \in Int
    <3>1. Sec(t.w) * TPS = TPS * Sec(t.w)
      BY <2>1, <2>2
    <3>2. QED BY <2>2, <3>1
  <2>4. t.w - t.m <= u.w - u.m
    BY <1>9 DEF Before, Drift
  <2>5. (TPS - 1) * 0 = 0
    BY <2>1
  <2> HIDE DEF y, u
  <2>6. u.w - u.m - (y - t.m) + 0 \in Nat
    BY <2>1, <2>3, <2>4
  <2>7. QED BY <2>3, <2>5, <2>6
<1>10. BookFits(flips, book)' /\ Covers(flips, book, pauseAt.m, 0)' /\ (pauseAt' = NoTime <=> book'.downPausedAt = NoTime)
  BY <1>1, <1>5, <1>7 DEF n, b
<1>11. ASSUME ~back' PROVE SleepBounded(book, pauseAt, check)'
  <2>1. Total(Rest, {}) = 0 /\ Total(Frozen, {}) = 0
    BY TotalNone
  <2>2. /\ Slept(book, pauseAt, check)' = u.w - u.m - (z * TPS - since') + (TPS - 1) * 0
        /\ Credited(book, pauseAt, check)' = u.w - u.m - (z * TPS - since') + (TPS - 1) * 0
    BY <1>1 DEF Slept, Credited, Opened, Drift, b
  <2> DEFINE s == u.w - u.m - (z * TPS - since') + (TPS - 1) * 0
  <2>3. s \in Nat
    BY <1>9, <1>11
  <2> HIDE DEF s
  <2>4. Bounded(n, b, {}, s, s)
    BY <1>1, <1>8, <2>1, <2>3 DEF Bounded
  <2>5. SleepBounded(book, pauseAt, check)' <=>
           /\ Bounded(n, b, {}, Slept(book, pauseAt, check)', Credited(book, pauseAt, check)')
           /\ Sec((IF pauseAt' = NoTime THEN check' ELSE pauseAt').w) < Epoch => b.frozenGap <= 0
           /\ \A p \in GapsIn(n, b, {}) : p.start.w < check'.w
    BY DEF SleepBounded, n, b
  <2>6. QED BY <1>1, <1>8, <2>2, <2>4, <2>5 DEF s
<1>12. QED BY <1>10, <1>11 DEF Booked

\* A round that confirms an outage.
LEMMA GoDownInv ==
    ASSUME OcInv, GoDown
    PROVE  OcInv'
<1> DEFINE t == IF fail = NoTime THEN ts ELSE fail
           at == IF EventAfter(t) = lastEv THEN lastEv + 1 ELSE EventAfter(t)
           z == Sec(t.w)
<1>1. /\ lpc = "probe" /\ RoundDone /\ Record /\ fail' = NoTime
      /\ online' = FALSE /\ since' = t.m /\ lastEv' = at /\ closed' = [NoOutage EXCEPT !.wall = z]
  BY DEF GoDown, Down
<1>2. OcShape /\ flips \in Nat /\ lastEv \in Int
  BY DEF OcInv, OcShape
<1>3. /\ UNCHANGED <<mono, wall, back>> /\ pauseAt' = NoTime /\ check' \in Times
      /\ t \in Times /\ Read(t) /\ Before(t, check')
  BY <1>1, RoundReads
<1> HIDE DEF t
<1>4. t.m \in Int /\ t.w \in Int /\ t.w >= 0 /\ z \in Int
  BY <1>3, SecIs DEF Times, Read
<1>5. z >= 0 /\ TPS * z <= t.w /\ TPS * z \in Int
  <2>1. 0 * TPS = 0 /\ TPS \in Nat
    BY ClockAssumption
  <2>2. Sec(0) = 0
    BY <2>1, SecOfSeconds
  <2>3. Sec(0) <= z
    BY <1>4, SecGrows
  <2>4. TPS * z <= t.w
    BY <1>4, SecIs
  <2> HIDE DEF z
  <2>5. QED BY <1>4, <2>1, <2>2, <2>3, <2>4
<1>6. at \in Int /\ at >= z
  <2>1. EventAfter(t) \in Int /\ EventAfter(t) >= z /\ EventAfter(t) >= lastEv
    BY <1>2, <1>4, BiggerIs DEF EventAfter
  <2>2. QED BY <1>2, <1>4, <2>1
<1> HIDE DEF z, at
<1>7. closed' \in Outages /\ closed'.wall = z /\ closed'.num = 0
  BY <1>1, <1>4 DEF NoOutage, Outages, NoSec
<1>8. OcShape' /\ InOrder' /\ SpansKnown'
  BY <1>1, <1>4, <1>6, <1>7, RecordInv
<1>9. book' = NextIncarnation /\ flips' = flips + 1
  BY <1>1 DEF Record
<1>10. Booked(book, pauseAt, check)'
  BY <1>1, <1>3, <1>7, <1>9, FreshBooked DEF z
<1>11. t.m <= check'.m /\ (~back => t.w <= check'.w)
  BY <1>3 DEF Before
<1>12. ~back => closed'.wall * TPS <= check'.w
  <2>1. closed'.wall * TPS = TPS * z
    BY <1>4, <1>7, ClockAssumption
  <2>2. check'.w \in Int
    BY <1>3 DEF Times
  <2>3. QED BY <1>4, <1>5, <1>11, <2>1, <2>2
<1>13. OutageOpen'
  <2>1. flips' > 0 /\ lastEv' >= 0 /\ lastEv' >= closed'.wall
    BY <1>1, <1>2, <1>4, <1>5, <1>6, <1>7, <1>9
  <2>2. QED BY <1>1, <1>3, <1>7, <1>10, <1>11, <1>12, <2>1 DEF OutageOpen
<1>14. PairHoldsLength'
  BY <1>7 DEF PairHoldsLength
<1>15. QED BY <1>8, <1>13, <1>14 DEF OcInv

\* What the accumulators hold of an outage is enough for its rows, in whole seconds.
LEMMA SecondsCover ==
    ASSUME NEW paused \in Int, NEW frozen \in Int, NEW owed \in Int, paused + frozen >= TPS * owed
    PROVE  CeilSec(frozen) + Sec(paused) >= owed
<1>1. TPS \in Nat /\ TPS * owed \in Int
  BY ClockAssumption
<1>2. /\ Sec(paused) \in Int /\ TPS * Sec(paused) \in Int /\ paused < TPS * Sec(paused) + TPS
      /\ CeilSec(frozen) \in Int /\ TPS * CeilSec(frozen) \in Int /\ TPS * CeilSec(frozen) >= frozen
  BY <1>1, SecIs, CeilIs
<1>3. TPS * (CeilSec(frozen) + Sec(paused)) = TPS * CeilSec(frozen) + TPS * Sec(paused)
  BY <1>1, <1>2
<1> DEFINE x == TPS * Sec(paused)  y == TPS * CeilSec(frozen)  z == TPS * owed
<1>4. /\ x \in Int /\ y \in Int /\ z \in Int /\ paused < x + TPS /\ y >= frozen /\ paused + frozen >= z
      /\ TPS * (CeilSec(frozen) + Sec(paused)) = y + x
  BY <1>1, <1>2, <1>3
<1> HIDE DEF x, y, z
<1>5. z < (y + x) + TPS
  BY <1>1, <1>4
<1>6. TPS * owed < TPS * (CeilSec(frozen) + Sec(paused)) + TPS
  BY <1>4, <1>5 DEF z
<1>7. CeilSec(frozen) + Sec(paused) \in Int
  BY <1>2
<1>8. QED BY <1>6, <1>7, SecondsApart

\* The pair is no wider than the outage was, to a second for each cut.
LEMMA WidthBounded ==
    ASSUME NEW e \in Int, NEW f \in Int, NEW k \in Nat, NEW w \in Int, NEW z \in Int,
           e + f <= w - TPS * z + (TPS - 1) * k
    PROVE  Sec(e) + CeilSec(f) <= Sec(w) - z + 1 + k
<1>1. TPS \in Nat /\ TPS * z \in Int /\ (TPS - 1) * k = TPS * k - k /\ TPS * k \in Int
  BY ClockAssumption
<1>2. /\ Sec(e) \in Int /\ TPS * Sec(e) \in Int /\ TPS * Sec(e) <= e
      /\ CeilSec(f) \in Int /\ TPS * CeilSec(f) \in Int /\ TPS * CeilSec(f) < f + TPS
      /\ Sec(w) \in Int /\ TPS * Sec(w) \in Int /\ w < TPS * Sec(w) + TPS
  BY <1>1, SecIs, CeilIs
<1> DEFINE a == TPS * Sec(e)  b == TPS * CeilSec(f)  c == TPS * Sec(w)  d == TPS * z  g == TPS * k
<1>3. /\ a \in Int /\ b \in Int /\ c \in Int /\ d \in Int /\ g \in Int
      /\ a <= e /\ b < f + TPS /\ w < c + TPS /\ e + f <= w - d + (g - k)
  BY <1>1, <1>2
<1>4. TPS * (Sec(e) + CeilSec(f)) = a + b /\ TPS * (Sec(w) - z + 1 + k) = c - d + TPS + g
  BY <1>1, <1>2
<1> HIDE DEF a, b, c, d, g
<1>5. a + b < c - d + TPS + g + TPS
  BY <1>1, <1>3
<1>6. TPS * (Sec(e) + CeilSec(f)) < TPS * (Sec(w) - z + 1 + k) + TPS
  BY <1>4, <1>5
<1>7. Sec(e) + CeilSec(f) \in Int /\ Sec(w) - z + 1 + k \in Int
  BY <1>2
<1>8. QED BY <1>6, <1>7, SecondsApart

\* The round that confirms a recovery finds the outage booked up to its begin.
LEMMA Closing ==
    ASSUME OcInv, lpc = "probe", RoundDone, ~online
    PROVE  /\ check = ts /\ pauseAt = NoTime /\ Booked(book, NoTime, ts) /\ BookFits(flips, book)
           /\ ts.m \in Int /\ ts.w \in Int /\ since <= ts.m /\ (~back => closed.wall * TPS <= ts.w)
           /\ closed.wall \in Int /\ since \in Int /\ lastEv \in Int /\ lastEv >= 0 /\ lastEv >= closed.wall
           /\ Elapsed(ts) = ts.m - since
<1>1. OcShape /\ InOrder /\ OutageOpen
  BY DEF OcInv
<1>2. ts \in Times /\ pauseAt = NoTime /\ check = ts
  <2>1. check # NoTime
    BY <1>1 DEF InOrder
  <2>2. QED BY <2>1, RoundReads
<1>3. Booked(book, NoTime, ts) /\ since <= ts.m /\ (~back => closed.wall * TPS <= ts.w) /\ lastEv >= 0 /\ lastEv >= closed.wall
  BY <1>1, <1>2 DEF OutageOpen
<1>4. ts.m \in Int /\ ts.w \in Int /\ closed.wall \in Int /\ since \in Int /\ lastEv \in Int
  BY <1>1, <1>2 DEF OcShape, Times, Outages
<1>5. Elapsed(ts) = ts.m - since
  BY <1>3, <1>4 DEF Elapsed, Bigger
<1>6. QED BY <1>2, <1>3, <1>4, <1>5 DEF Booked

\* The cuts of the open outage are its pauses and suspends.
LEMMA CutsIs ==
    ASSUME OcInv, BookFits(flips, book)
    PROVE  /\ Cuts = book.pauses + Cardinality(GapsIn(flips, book, {}))
           /\ Cardinality(GapsIn(flips, book, {})) \in Nat /\ book.pauses \in Nat /\ Cuts \in Nat
<1>1. Cuts = book.pauses + Cardinality({p \in OfOutage(flips, SpansIn(book)) : ~p.pause})
  BY HeldIs DEF Cuts
<1>2. {p \in OfOutage(flips, SpansIn(book)) : ~p.pause} = GapsIn(flips, book, {})
  BY DEF GapsIn, OfOutage
<1>3. Cardinality(GapsIn(flips, book, {})) \in Nat
  BY GapsNat, NonePending, FS_CardinalityType
<1>4. book.pauses \in Nat
  BY DEF BookFits, Books
<1> DEFINE k == Cardinality(GapsIn(flips, book, {}))
<1>5. Cuts = book.pauses + k /\ k \in Nat
  BY <1>1, <1>2, <1>3
<1> HIDE DEF k
<1>6. Cuts \in Nat
  BY <1>4, <1>5
<1>7. QED BY <1>4, <1>5, <1>6 DEF k

\* What the accumulators add to a pair that is closed now.
LEMMA WidthFits ==
    ASSUME OcInv, lpc = "probe", RoundDone, ~online, ~back
    PROVE  Width(ts) <= Sec(ts.w) - closed.wall + 1 + Cuts
<1>1. /\ Booked(book, NoTime, ts) /\ BookFits(flips, book)
      /\ ts.m \in Int /\ ts.w \in Int /\ closed.wall \in Int /\ since \in Int /\ Elapsed(ts) = ts.m - since
  BY Closing
<1> DEFINE G == GapsIn(flips, book, {})  k == Cardinality(G)  c == Credited(book, NoTime, ts)
<1>2. k \in Nat /\ book.pauses \in Nat /\ Cuts = book.pauses + k
  BY <1>1, CutsIs
<1>3. /\ IsFiniteSet(G) /\ Total(Rest, G) \in Nat /\ Total(Frozen, G) \in Nat /\ book.frozenGap \in Int
      /\ \A p \in G : p \in Spans /\ SpanFits(p)
  BY <1>1, GapsNat, NonePending, FitsParts
<1>4. book.frozenGap + Total(Rest, G) <= Total(Frozen, G) + c
  BY <1>1 DEF Booked, SleepBounded, Bounded
<1>5. TPS - 1 \in Nat
  BY ClockAssumption
<1>6. \A p \in G : Frozen[p] \in Nat /\ Rest[p] \in Nat /\ Frozen[p] <= Rest[p] + (TPS - 1)
  BY <1>3, RestIs
<1> HIDE DEF G
<1>7. Total(Frozen, G) <= Total(Rest, G) + k * (TPS - 1)
  BY <1>3, <1>5, <1>6, TotalExcess
<1>8. c = ts.w - ts.m - (closed.wall * TPS - since) + (TPS - 1) * book.pauses
  BY DEF Credited, Drift, Opened
<1> HIDE DEF c, k
<1>9. book.frozenGap <= k * (TPS - 1) + c
  <2> DEFINE y == k * (TPS - 1)
  <2>1. y \in Int
    BY <1>2, <1>5
  <2>2. Total(Frozen, G) <= Total(Rest, G) + y
    BY <1>7
  <2>3. c \in Int
    <3>1. closed.wall * TPS \in Int /\ (TPS - 1) * book.pauses \in Int
      BY <1>1, <1>2, <1>5, ClockAssumption
    <3>2. QED BY <1>1, <1>8, <3>1
  <2> HIDE DEF y
  <2>4. book.frozenGap <= y + c
    BY <1>3, <1>4, <2>1, <2>2, <2>3
  <2>5. QED BY <2>4 DEF y
<1>10. Elapsed(ts) + book.frozenGap <= ts.w - TPS * closed.wall + (TPS - 1) * Cuts
  <2> DEFINE x == closed.wall * TPS  y == k * (TPS - 1)  z == (TPS - 1) * book.pauses
  <2>1. x \in Int /\ y \in Int /\ z \in Int /\ x = TPS * closed.wall
    BY <1>1, <1>2, <1>5, ClockAssumption
  <2>2. (TPS - 1) * Cuts = z + y
    BY <1>2, <1>5
  <2>3. book.frozenGap <= y + (ts.w - ts.m - (x - since) + z)
    BY <1>8, <1>9
  <2> HIDE DEF x, y, z
  <2>4. (ts.m - since) + book.frozenGap <= ts.w - x + (z + y)
    BY <1>1, <1>3, <2>1, <2>3
  <2>5. QED BY <1>1, <2>1, <2>2, <2>4
<1>11. Cuts \in Nat /\ Elapsed(ts) \in Int
  BY <1>1, <1>2
<1>12. Sec(Elapsed(ts)) + CeilSec(book.frozenGap) <= Sec(ts.w) - closed.wall + 1 + Cuts
  BY <1>1, <1>3, <1>10, <1>11, WidthBounded
<1>13. QED BY <1>12 DEF Width

\* And what they deduct: the rows are owed no more than both.
LEMMA WidthCovers ==
    ASSUME OcInv, lpc = "probe", RoundDone, ~online
    PROVE  /\ Width(ts) \in Int /\ Observed(ts) \in Nat
           /\ Observed(ts) > 0 => Width(ts) - Owed(flips, book) >= Observed(ts)
<1>1. /\ Booked(book, NoTime, ts) /\ BookFits(flips, book) /\ OcShape
      /\ ts.m \in Int /\ since \in Int /\ Elapsed(ts) = ts.m - since
  BY Closing DEF OcInv
<1>2. book.pausedGap \in Int /\ book.frozenGap \in Int /\ Owed(flips, book) \in Nat
  BY <1>1, FitsParts
<1>3. Elapsed(ts) \in Int
  BY <1>1
<1>4. Sec(Elapsed(ts)) \in Int /\ CeilSec(book.frozenGap) \in Int /\ Sec(book.pausedGap) \in Int
  BY <1>2, <1>3, SecIs, CeilIs
<1>5. book.pausedGap + book.frozenGap >= TPS * Owed(flips, book)
  <2>1. book.downPausedAt = NoTime
    BY <1>1 DEF Booked
  <2>2. Folded(book, NoTime.m) = 0
    BY <2>1 DEF Folded
  <2>3. book.pausedGap + book.frozenGap + 0 >= TPS * (Owed(flips, book) + 0)
    BY <1>1, <2>2 DEF Booked, Covers
  <2>4. Owed(flips, book) + 0 = Owed(flips, book)
    BY <1>2
  <2>5. QED BY <1>2, <2>3, <2>4
<1>6. CeilSec(book.frozenGap) + Sec(book.pausedGap) >= Owed(flips, book)
  BY <1>2, <1>5, SecondsCover
<1>7. Width(ts) = Sec(Elapsed(ts)) + CeilSec(book.frozenGap)
  BY DEF Width
<1>8. Observed(ts) = Bigger(Sec(Elapsed(ts)) - Sec(book.pausedGap), 0)
  BY DEF Observed
<1> DEFINE x == Sec(Elapsed(ts))  y == CeilSec(book.frozenGap)  z == Sec(book.pausedGap)  o == Owed(flips, book)
<1>9. x \in Int /\ y \in Int /\ z \in Int /\ o \in Int /\ y + z >= o /\ Width(ts) = x + y /\ Observed(ts) = Bigger(x - z, 0)
  BY <1>2, <1>4, <1>6, <1>7, <1>8
<1> HIDE DEF x, y, z, o
<1>10. Width(ts) \in Int /\ Observed(ts) \in Nat /\ (Observed(ts) > 0 => Width(ts) - o >= Observed(ts))
  BY <1>9 DEF Bigger
<1>11. QED BY <1>10 DEF o

\* A round that confirms a recovery.
LEMMA GoUpInv ==
    ASSUME OcInv, GoUp
    PROVE  OcInv'
<1> DEFINE obs == Observed(ts)  width == Width(ts)  ev == EventAfter(ts)  s == Sec(ts.w)
           at == IF obs > 0 /\ lastEv # NoSec THEN Bigger(ev, lastEv + width) ELSE ev
<1>1. /\ lpc = "probe" /\ RoundDone /\ Record /\ fail' = NoTime /\ ~online
      /\ online' = TRUE /\ since' = ts.m /\ lastEv' = at
      /\ closed' = [start |-> lastEv, end |-> at, observed |-> obs,
                    from |-> since, to |-> ts.m, cuts |-> Cuts,
                    wall |-> s - closed.wall, num |-> flips]
  BY DEF GoUp, Up
<1>2. OcShape /\ flips \in Nat /\ flips > 0 /\ book' = NextIncarnation
  BY <1>1 DEF OcInv, OcShape, OutageOpen, Record
<1>3. /\ BookFits(flips, book) /\ ts.m \in Int /\ ts.w \in Int /\ (~back => closed.wall * TPS <= ts.w)
      /\ closed.wall \in Int /\ since \in Int /\ lastEv \in Int /\ lastEv >= 0 /\ lastEv >= closed.wall
  BY <1>1, Closing
<1>4. width \in Int /\ obs \in Nat /\ (obs > 0 => width - Owed(flips, book) >= obs)
  BY <1>1, WidthCovers
<1>5. s \in Int /\ ev \in Int /\ ev >= lastEv /\ (ev = s \/ ev = lastEv)
  <2>1. s \in Int
    BY <1>3, SecIs
  <2>2. ev = Bigger(s, lastEv)
    BY DEF EventAfter
  <2> HIDE DEF s, ev
  <2>3. QED BY <1>3, <2>1, <2>2, BiggerIs
<1>6. Cuts \in Nat
  BY <1>3, CutsIs
<1>7. ~back => width <= s - closed.wall + 1 + Cuts
  BY <1>1, WidthFits
<1>8. ~back => closed.wall <= s
  <2> SUFFICES ASSUME ~back PROVE closed.wall <= s
    OBVIOUS
  <2>1. TPS * closed.wall <= ts.w /\ TPS \in Nat /\ TPS * closed.wall \in Int
    <3>1. TPS \in Nat /\ TPS * closed.wall = closed.wall * TPS /\ TPS * closed.wall \in Int
      BY <1>3, ClockAssumption
    <3>2. QED BY <1>3, <3>1
  <2>2. ts.w < TPS * s + TPS /\ TPS * s \in Int
    BY <1>3, <1>5, <2>1, SecIs
  <2>3. TPS * closed.wall < TPS * s + TPS
    <3> DEFINE x == TPS * closed.wall  y == TPS * s
    <3>1. x \in Int /\ y \in Int /\ x <= ts.w /\ ts.w < y + TPS
      BY <2>1, <2>2
    <3> HIDE DEF x, y
    <3>2. x < y + TPS
      BY <1>3, <2>1, <3>1
    <3>3. QED BY <3>2 DEF x, y
  <2> HIDE DEF s
  <2>4. QED BY <1>3, <1>5, <2>3, SecondsApart
<1> HIDE DEF obs, width, ev, s
<1>9. at \in Int /\ (at = ev \/ at = lastEv + width) /\ (obs > 0 => at >= lastEv + width)
  <2>1. lastEv # NoSec
    BY <1>3 DEF NoSec
  <2>2. QED BY <1>3, <1>4, <1>5, <2>1 DEF Bigger
<1> HIDE DEF at
<1>10. /\ closed' \in Outages /\ closed'.num = flips /\ closed'.start = lastEv /\ closed'.end = at
       /\ closed'.observed = obs /\ closed'.wall = s - closed.wall /\ closed'.cuts = Cuts
  <2>1. s - closed.wall \in Int
    BY <1>3, <1>5
  <2>2. QED BY <1>1, <1>2, <1>3, <1>4, <1>6, <1>9, <2>1 DEF Outages
<1>11. OcShape' /\ InOrder' /\ SpansKnown'
  BY <1>1, <1>3, <1>9, <1>10, RecordInv
<1>12. OutageOpen'
  BY <1>1 DEF OutageOpen
<1>13. Observable(closed', OfOutage(flips, SpansIn(book))) >= obs
  <2> DEFINE left == Observable(closed', OfOutage(flips, SpansIn(book)))
  <2>1. left \in Nat /\ left >= at - lastEv - Owed(flips, book)
    BY <1>3, <1>10, PairLeaves
  <2>2. Owed(flips, book) \in Int
    BY <1>3, FitsParts
  <2> HIDE DEF left
  <2>3. left >= obs
    BY <1>3, <1>4, <1>9, <2>1, <2>2
  <2>4. QED BY <2>3 DEF left
<1>14. ~back => at - lastEv <= s - closed.wall + 1 + Cuts
  BY <1>3, <1>4, <1>5, <1>6, <1>7, <1>8, <1>9
<1>15. SpansIn(book') = SpansIn(book) /\ UNCHANGED back
  BY <1>1, <1>2, NextIs, RoundReads
<1>16. PairHoldsLength'
  <2>1. (book.rows \union Held)' = SpansIn(book')
    BY DEF Held, SpansIn, HeldIn, InQueue
  <2>2. QED BY <1>10, <1>13, <1>14, <1>15, <2>1 DEF PairHoldsLength
<1>17. QED BY <1>11, <1>12, <1>16 DEF OcInv

-----------------------------------------------------------------------------
(* Starting                                                                *)

\* A finite set of integers has a largest member.
LEMMA LargestExists ==
    ASSUME NEW S \in SUBSET Int, IsFiniteSet(S), S # {}
    PROVE  Max(S) \in S
<1> DEFINE above == [x \in S |-> {y \in S : y > x}]  counts == {Cardinality(above[x]) : x \in S}
<1>1. \A x \in S : IsFiniteSet(above[x]) /\ Cardinality(above[x]) \in Nat
  <2>1. \A x \in S : IsFiniteSet(above[x])
    BY FS_Subset
  <2>2. QED BY <2>1, FS_CardinalityType
<1>2. counts \subseteq Nat /\ counts # {}
  BY <1>1
<1>3. PICK c \in counts : \A d \in counts : ~(<<d, c>> \in OpToRel(<, Nat))
  <2> HIDE DEF counts
  <2>1. QED BY <1>2, NatLessThanWellFounded, WFMin
<1>4. PICK x \in S : c = Cardinality(above[x])
  OBVIOUS
<1>5. ASSUME NEW y \in S, y > x PROVE FALSE
  <2>1. above[y] \subseteq above[x] /\ y \in above[x] /\ y \notin above[y]
    <3>1. x \in Int /\ y \in Int /\ S \subseteq Int
      OBVIOUS
    <3>2. \A z \in S : z > y => z > x
      BY <1>5, <3>1
    <3>3. above[y] = {z \in S : z > y} /\ above[x] = {z \in S : z > x}
      OBVIOUS
    <3>4. ~(y > y)
      BY <3>1
    <3> HIDE DEF above
    <3>5. QED BY <1>5, <3>2, <3>3, <3>4
  <2>2. Cardinality(above[y]) <= Cardinality(above[x]) /\ Cardinality(above[y]) # Cardinality(above[x])
    <3> HIDE DEF above
    <3>1. IsFiniteSet(above[x])
      BY <1>1
    <3>2. QED BY <2>1, <3>1, FS_Subset
  <2> DEFINE d == Cardinality(above[y])
  <2>3. d \in Nat /\ c \in Nat /\ d < c /\ d \in counts
    <3>1. d \in Nat /\ c \in Nat /\ d \in counts
      BY <1>1, <1>4
    <3>2. d <= c /\ d # c
      BY <1>4, <2>2
    <3> HIDE DEF d, counts
    <3>3. QED BY <3>1, <3>2
  <2> HIDE DEF d, counts
  <2>4. OpToRel(<, Nat) = {ss \in Nat \X Nat : ss[1] < ss[2]}
    BY DEF OpToRel
  <2>5. <<d, c>> \in {ss \in Nat \X Nat : ss[1] < ss[2]}
    BY <2>3
  <2>6. QED BY <1>3, <2>3, <2>4, <2>5
<1>6. \A y \in S : x >= y
  BY <1>5
<1>7. QED BY <1>6 DEF Max

\* LastObserved is a time.
LEMMA LastObservedIs ==
    ASSUME OcInv
    PROVE  LastObserved \in Int
<1> DEFINE Reached(t) == t >= Epoch /\ t <= Sec(wall)
           low  == {t \in seen : Reached(t)}
           rows == {q \in book.rows : Reached(Sec(q.start.w))}
           ends == {Sec(p.start.w) + p.secs : p \in rows}
           end  == [p \in rows |-> Sec(p.start.w) + p.secs]
<1>1. /\ seen \in SUBSET Int /\ wall \in Int /\ Epoch \in Int /\ book.rows \in SUBSET Spans /\ IsFiniteSet(book.rows)
  BY ClockAssumption DEF OcInv, OcShape, Books
<1>2. Sec(wall) \in Int
  BY <1>1, SecIs
<1>3. IsFiniteSet(low) /\ low \in SUBSET Int
  <2> DEFINE top == Sec(wall)
  <2>1. low \subseteq Epoch .. Sec(wall) /\ low \subseteq Int
    <3>1. \A t \in low : t \in Int /\ t >= Epoch /\ t <= top
      BY <1>1
    <3>2. top \in Int /\ Epoch \in Int
      BY <1>1, <1>2
    <3> HIDE DEF low, top
    <3>3. \A t \in low : t \in Epoch .. top
      BY <3>1, <3>2
    <3>4. QED BY <3>1, <3>3 DEF top
  <2>2. IsFiniteSet(Epoch .. Sec(wall))
    BY <1>1, <1>2, FS_Interval
  <2> HIDE DEF low
  <2>3. QED BY <2>1, <2>2, FS_Subset
<1>4. IsFiniteSet(ends) /\ ends \in SUBSET Int
  <2>1. IsFiniteSet(rows) /\ rows \in SUBSET Spans
    BY <1>1, FS_Subset
  <2>2. \A p \in Spans : Sec(p.start.w) \in Int /\ p.secs \in Int
    <3>1. \A p \in Spans : p.start.w \in Int /\ p.secs \in Int
      BY DEF Spans, Times
    <3>2. QED BY <3>1, SecIs
  <2>3. end \in Surjection(rows, ends)
    <3> HIDE DEF rows
    <3>1. QED BY DEF Surjection
  <2> HIDE DEF end
  <2>4. IsFiniteSet(ends)
    BY <2>1, <2>3, FS_Surjection
  <2>5. QED BY <2>1, <2>2, <2>4
<1>5. LastObserved = IF low \union ends = {} THEN NoSec ELSE Max(low \union ends)
  BY DEF LastObserved
<1> HIDE DEF low, ends
<1>6. IsFiniteSet(low \union ends) /\ low \union ends \in SUBSET Int
  BY <1>3, <1>4, FS_Union
<1>7. low \union ends # {} => Max(low \union ends) \in low \union ends
  BY <1>6, LargestExists
<1>8. NoSec \in Int
  BY DEF NoSec
<1>9. QED BY <1>5, <1>6, <1>7, <1>8

\* The book of a new process: the rows in the store, and the gap it was down.
LEMMA StartupGapIs ==
    ASSUME OcInv, NEW lands
    PROVE  LET r == StartupGap(NewBook(book.rows), lands)
           IN /\ r \in Books /\ IsFiniteSet(r.rows) /\ r.gen = 0
              /\ \A p \in SpansIn(r) : p \in book.rows \/ p.own = 0
              /\ \A p \in HeldIn(r) : p.gen = 0
<1> DEFINE b == NewBook(book.rows)  last == LastObserved  gap == wall - last * TPS
           p == [Span([m |-> mono, w |-> last * TPS], Sec(gap), 0, 0, TRUE) EXCEPT !.gen = 0, !.own = 0]
           r == StartupGap(b, lands)
<1>1. OcShape /\ book.rows \in SUBSET Spans /\ IsFiniteSet(book.rows) /\ NoTime \in Times
  BY NowIs DEF OcInv, OcShape, Books
<1>2. b \in Books /\ b.rows = book.rows /\ b.held = <<>> /\ b.gen = 0
  <2> DEFINE now == NoTime
  <2>1. now \in Times
    BY <1>1
  <2>2. b = [pausedGap |-> 0, frozenGap |-> 0, downPausedAt |-> now, gen |-> 0,
             held |-> <<>>, rows |-> book.rows, began |-> -1, pauses |-> 0,
             slices |-> 0, slept |-> 0, kept |-> {}, gone |-> {}]
    BY DEF NewBook
  <2>3. <<>> \in Seq(Spans) /\ {} \in SUBSET Spans /\ -1 \in Int
    OBVIOUS
  <2> HIDE DEF now, b
  <2>4. QED BY <1>1, <2>1, <2>2, <2>3 DEF Books
<1>3. HeldIn(b) = {} /\ SpansIn(b) = book.rows
  BY <1>2 DEF HeldIn, InQueue, SpansIn
<1>4. p \in Spans /\ p.gen = 0 /\ p.own = 0
  <2>1. last \in Int /\ TPS \in Nat /\ wall \in Nat /\ mono \in Nat
    BY LastObservedIs, ClockAssumption, <1>1 DEF OcShape
  <2>2. last * TPS \in Int /\ gap \in Int
    BY <2>1
  <2>3. Sec(gap) \in Int
    BY <2>2, SecIs
  <2> DEFINE at == [m |-> mono, w |-> last * TPS]  secs == Sec(gap)
             q == Span(at, secs, 0, 0, TRUE)
  <2>4. at \in Times
    BY <2>1, <2>2 DEF Times
  <2>5. secs \in Int /\ 0 \in Int
    BY <2>3
  <2> HIDE DEF at, secs, last, gap
  <2>6. q \in Spans
    BY <1>1, <2>4, <2>5, SpanIs
  <2>7. p = [q EXCEPT !.gen = 0, !.own = 0]
    BY DEF at, secs
  <2> HIDE DEF q, p
  <2>8. QED BY <2>6, <2>7 DEF Spans
<1>5. r = b \/ r = Offer(b, p, lands)
  BY DEF StartupGap
<1> HIDE DEF b, p, r
<1>6. CASE r = b
  BY <1>1, <1>2, <1>3, <1>6 DEF b, r
<1>7. CASE r = Offer(b, p, lands)
  <2>1. Grown(b, r, {p})
    BY <1>2, <1>4, <1>7, OfferGrown
  <2>2. QED BY <1>1, <1>2, <1>3, <1>4, <2>1 DEF Grown, b, r
<1>8. QED BY <1>5, <1>6, <1>7

\* A process that starts.
LEMMA StartInv ==
    ASSUME OcInv, NEW probing, NEW lands, Start(probing, lands)
    PROVE  OcInv'
<1>1. OcShape /\ SpansKnown
  BY DEF OcInv
<1>2. /\ online' = TRUE /\ since' = mono /\ fail' = NoTime /\ closed' = NoOutage /\ lastEv' = Seed
      /\ book' = StartupGap(NewBook(book.rows), lands)
      /\ pauseAt' = NoTime /\ waited' = Interval /\ due' = mono /\ lastRound' = mono
      /\ UNCHANGED <<mono, wall, back, newest, seen, flips>>
  BY DEF Start, clockVars
<1>3. \/ lpc' = "probe" /\ ts' = Now /\ check' = NoTime
      \/ lpc' = "top" /\ ts' = NoTime /\ check' = Now
  BY DEF Start
<1>4. /\ Now \in Times /\ Now # NoTime /\ NoTime \in Times /\ Read(Now) /\ mono \in Nat
  BY <1>1, NowIs, ReadNow
<1>5. /\ book' \in Books /\ IsFiniteSet(book'.rows) /\ book'.gen = 0
      /\ \A p \in SpansIn(book') : p \in book.rows \/ p.own = 0
      /\ \A p \in HeldIn(book') : p.gen = 0
  BY <1>2, StartupGapIs
<1>6. closed' \in Outages /\ closed'.num = 0
  BY <1>2 DEF NoOutage, NoSec, Outages
<1>7. OcShape'
  <2>1. lastEv' \in Int
    BY <1>1, <1>2 DEF Seed, NoSec, OcShape
  <2>2. {check, ts, fail, pauseAt}' \subseteq Times
    BY <1>2, <1>3, <1>4
  <2>3. lpc' \in {"down", "top", "wait", "probe"} /\ waited' \in Nat /\ due' \in Int /\ lastRound' \in Int /\ since' \in Int
    BY <1>2, <1>3, <1>4, ClockAssumption
  <2>4. QED BY <1>1, <1>2, <1>5, <1>6, <2>1, <2>2, <2>3 DEF OcShape
<1>8. InOrder'
  <2>1. \A t \in {check, ts, fail, pauseAt}' : t = NoTime \/ Read(t)
    BY <1>2, <1>3, <1>4
  <2>2. \A t \in {check, ts, fail, pauseAt}' : t = NoTime \/ Read(t)'
    BY <1>2, <2>1, StillRead
  <2>3. QED BY <1>2, <1>3, <1>4, <2>2 DEF InOrder
<1>9. SpansKnown'
  <2>1. \A p \in SpansIn(book') : p.own <= flips
    <3>1. flips \in Nat
      BY <1>1 DEF OcShape
    <3>2. \A p \in book.rows : p.own <= flips
      BY <1>1 DEF SpansKnown, SpansIn
    <3>3. QED BY <1>5, <3>1, <3>2
  <2>2. \A p \in HeldIn(book') : p.gen <= book'.gen
    BY <1>5
  <2>3. QED BY <1>2, <2>1, <2>2 DEF SpansKnown
<1>10. OutageOpen'
  BY <1>2 DEF OutageOpen
<1>11. PairHoldsLength'
  BY <1>6 DEF PairHoldsLength
<1>12. QED BY <1>7, <1>8, <1>9, <1>10, <1>11 DEF OcInv

-----------------------------------------------------------------------------
(* The results                                                             *)

\* The invariant holds at first.
LEMMA OcInit ==
    ASSUME Init
    PROVE  OcInv
<1>1. NoTime \in Times /\ NoOutage \in Outages /\ NoOutage.num = 0 /\ NoSec \in Int
  BY DEF NoTime, Times, NoOutage, NoSec, Outages
<1>2. book \in Books /\ IsFiniteSet(book.rows) /\ SpansIn(book) = {} /\ HeldIn(book) = {}
  <2> DEFINE now == NoTime
  <2>1. book = [pausedGap |-> 0, frozenGap |-> 0, downPausedAt |-> now, gen |-> 0,
                held |-> <<>>, rows |-> {}, began |-> -1, pauses |-> 0,
                slices |-> 0, slept |-> 0, kept |-> {}, gone |-> {}]
    BY DEF Init, NewBook
  <2>2. <<>> \in Seq(Spans) /\ {} \in SUBSET Spans /\ -1 \in Int /\ now \in Times
    BY <1>1
  <2> HIDE DEF now
  <2>3. book \in Books
    BY <2>1, <2>2 DEF Books
  <2>4. QED BY <2>1, <2>3, FS_EmptySet DEF SpansIn, HeldIn, InQueue
<1>3. OcShape
  <2>1. mono \in Nat /\ wall \in Nat /\ back \in BOOLEAN /\ lpc \in {"down", "top", "wait", "probe"}
    BY ClockAssumption DEF Init
  <2>2. due \in Int /\ waited \in Nat /\ lastRound \in Int /\ {check, ts, fail, pauseAt} \subseteq Times
    BY <1>1 DEF Init
  <2>3. online \in BOOLEAN /\ since \in Int /\ lastEv \in Int /\ newest \in Int /\ seen \in SUBSET Int
    BY <1>1 DEF Init
  <2>4. flips \in Nat /\ closed \in Outages
    BY <1>1 DEF Init
  <2>5. QED BY <1>2, <2>1, <2>2, <2>3, <2>4 DEF OcShape
<1>4. InOrder
  BY DEF Init, InOrder
<1>5. SpansKnown
  BY <1>2 DEF SpansKnown
<1>6. OutageOpen
  BY DEF Init, OutageOpen
<1>7. PairHoldsLength
  BY <1>1 DEF Init, PairHoldsLength
<1>8. QED BY <1>3, <1>4, <1>5, <1>6, <1>7 DEF OcInv

\* Every step keeps it.
LEMMA OcStep ==
    ASSUME OcInv, [Next]_vars
    PROVE  OcInv'
<1>1. CASE UNCHANGED vars
  <2>1. UNCHANGED <<clockVars, loopVars, linkVars, pauseAt, book, starts>>
    BY <1>1 DEF vars
  <2>2. /\ UNCHANGED <<mono, wall, back, lpc, due, waited, check, lastRound, ts, linkVars, pauseAt, book>>
    BY <2>1 DEF clockVars, loopVars
  <2>3. mono \in Nat /\ wall \in Nat /\ back \in BOOLEAN
    BY DEF OcInv, OcShape
  <2>4. QED BY <2>2, <2>3, ClocksInv
<1>2. CASE Pass \/ (\E d \in Suspends, e \in {0, 1} : Suspend(d, e * d))
           \/ (\E d \in Corrections : Correct(d)) \/ (\E d \in Suspends \union {0} : Die(d))
  BY <1>2, ClockSteps
<1>3. CASE \E lands \in Landings : Probing(lands)
  BY <1>3, ProbingInv
<1>4. CASE \E lands \in Landings : Paused(lands)
  BY <1>4, PausedInv
<1>5. CASE \E dated \in {"none", "run"} : Round(dated)
  BY <1>5, RoundInv
<1>6. CASE GoDown
  BY <1>6, GoDownInv
<1>7. CASE GoUp
  BY <1>7, GoUpInv
<1>8. CASE \E probing \in BOOLEAN, lands \in Landings : Start(probing, lands)
  BY <1>8, StartInv
<1>9. QED BY <1>1, <1>2, <1>3, <1>4, <1>5, <1>6, <1>7, <1>8 DEF Next

\* In every behaviour an open outage is accounted for up to the last check: its
\* two accumulators hold at least what its rows do, and while the clock is never
\* set back no more is added to the pair than the host slept.
THEOREM OutageIsAccounted == Spec => []OcInv
<1>1. Init => OcInv
  BY OcInit
<1>2. OcInv /\ [Next]_vars => OcInv'
  BY OcStep
<1>3. QED BY <1>1, <1>2, PTL DEF Spec

\* A stored outage has at least duration_s seconds left when its own rows are
\* subtracted, whatever was suspended, paused, corrected, refused or dropped while
\* it was open; and on a host whose clock is never set back the pair is no wider
\* than the outage was, to a second for each cut.
THEOREM PairsHoldTheirLength == Spec => []PairHoldsLength
<1>1. OcInv => PairHoldsLength
  BY DEF OcInv
<1>2. QED BY <1>1, OutageIsAccounted, PTL

-----------------------------------------------------------------------------
(* The order of the events                                                 *)

\* The newest event lies further ahead than the store accepts: the seed of a new
\* process leaves it out.
Condemned == newest > Sec(wall) + FutureSlack

\* While a process runs, its last event is the newest in the store.
LastIsNewest == lpc # "down" => lastEv >= newest

\* No event is dated before the last, and the times of transitions are integers.
LEMMA EventAfterIs ==
    ASSUME OcShape, NEW t \in Times
    PROVE  EventAfter(t) \in Int /\ EventAfter(t) >= lastEv
<1>1. Sec(t.w) \in Int /\ lastEv \in Int
  BY SecIs DEF OcShape, Times
<1>2. QED BY <1>1, BiggerIs DEF EventAfter

\* A transition is dated in order.
LEMMA TransitionOrdered ==
    ASSUME OcInv, LastIsNewest, GoDown \/ GoUp
    PROVE  /\ lastEv' \in Int /\ newest \in Int /\ lastEv' >= newest /\ newest' = lastEv'
           /\ online' \/ lastEv' > newest
<1>1. OcShape /\ lastEv \in Int /\ newest \in Int /\ lpc = "probe" /\ lastEv >= newest
  BY DEF OcInv, OcShape, GoDown, GoUp, LastIsNewest
<1>2. newest' = Bigger(newest, lastEv')
  BY DEF GoDown, GoUp, Record
<1>3. lastEv' \in Int /\ lastEv' >= lastEv /\ (online' \/ lastEv' > lastEv)
  <2>1. CASE GoDown
    <3> DEFINE t == IF fail = NoTime THEN ts ELSE fail
    <3>1. t \in Times
      BY <1>1 DEF OcShape
    <3>2. lastEv' = IF EventAfter(t) = lastEv THEN lastEv + 1 ELSE EventAfter(t)
      BY <2>1 DEF GoDown, Down
    <3> HIDE DEF t
    <3>3. EventAfter(t) \in Int /\ EventAfter(t) >= lastEv
      BY <1>1, <3>1, EventAfterIs
    <3>4. QED BY <1>1, <3>2, <3>3
  <2>2. CASE GoUp
    <3>1. ts \in Times /\ online' = TRUE
      BY <1>1, <2>2 DEF OcShape, GoUp, Up
    <3>2. EventAfter(ts) \in Int /\ EventAfter(ts) >= lastEv
      BY <1>1, <3>1, EventAfterIs
    <3>3. Width(ts) \in Int
      BY <2>2, WidthCovers DEF GoUp
    <3>4. lastEv' = IF Observed(ts) > 0 /\ lastEv # NoSec
                    THEN Bigger(EventAfter(ts), lastEv + Width(ts)) ELSE EventAfter(ts)
      BY <2>2 DEF GoUp, Up
    <3> DEFINE w == lastEv + Width(ts)  e == EventAfter(ts)
    <3>5. w \in Int /\ e \in Int /\ e >= lastEv /\ (lastEv' = Bigger(e, w) \/ lastEv' = e)
      BY <1>1, <3>2, <3>3, <3>4
    <3> HIDE DEF w, e
    <3>6. Bigger(e, w) \in Int /\ Bigger(e, w) >= e
      BY <3>5, BiggerIs
    <3>7. QED BY <1>1, <3>1, <3>5, <3>6
  <2>3. QED BY <2>1, <2>2
<1> DEFINE n == newest  l == lastEv'
<1>4. l \in Int /\ n \in Int /\ l >= n /\ (online' \/ l > n)
  BY <1>1, <1>3
<1>5. newest' = Bigger(n, l)
  BY <1>2
<1> HIDE DEF n, l
<1>6. newest' = l
  BY <1>4, <1>5 DEF Bigger
<1>7. QED BY <1>4, <1>6 DEF n, l

\* Every other step keeps the newest event, and the last one of a process that runs.
LEMMA OrderStep ==
    ASSUME OcInv, LastIsNewest, ~Condemned, [Next]_vars
    PROVE  /\ LastIsNewest'
           /\ flips' # flips => IF online' THEN lastEv' >= newest ELSE lastEv' > newest
<1>1. CASE GoDown \/ GoUp
  <2>1. lastEv' \in Int /\ lastEv' >= newest /\ newest' = lastEv' /\ (online' \/ lastEv' > newest)
    BY <1>1, TransitionOrdered
  <2>2. QED BY <2>1 DEF LastIsNewest
<1>2. CASE \E probing \in BOOLEAN, lands \in Landings : Start(probing, lands)
  <2>1. lastEv' = Seed /\ newest' = newest /\ flips' = flips
    BY <1>2 DEF Start
  <2>2. Sec(wall) + FutureSlack \in Int /\ newest \in Int
    <3>1. wall \in Int /\ newest \in Int
      BY DEF OcInv, OcShape
    <3>2. Sec(wall) \in Int
      BY <3>1, SecIs
    <3>3. QED BY <3>1, <3>2, ClockAssumption
  <2>3. Seed = newest
    BY <2>2 DEF Seed, Condemned
  <2>4. QED BY <2>1, <2>2, <2>3 DEF LastIsNewest
<1>3. CASE UNCHANGED <<lastEv, newest, flips>> /\ (lpc' = "down" \/ lpc # "down")
  BY <1>3 DEF LastIsNewest
<1>4. CASE UNCHANGED vars
  <2>1. UNCHANGED <<clockVars, loopVars, linkVars>>
    BY <1>4 DEF vars
  <2>2. UNCHANGED <<lpc, lastEv, newest, flips>>
    BY <2>1 DEF loopVars, linkVars
  <2>3. QED BY <2>2 DEF LastIsNewest
<1>5. CASE Pass \/ (\E d \in Suspends, e \in {0, 1} : Suspend(d, e * d))
           \/ (\E d \in Corrections : Correct(d)) \/ (\E d \in Suspends \union {0} : Die(d))
  <2>1. UNCHANGED <<lastEv, newest, flips>> /\ lpc # "down"
    BY <1>5 DEF Pass, Suspend, Correct, Die, linkVars, Blocked
  <2>2. QED BY <1>3, <2>1
<1>6. CASE \/ \E lands \in Landings : Probing(lands)
           \/ \E lands \in Landings : Paused(lands)
           \/ \E dated \in {"none", "run"} : Round(dated)
  <2>1. UNCHANGED <<lastEv, newest, flips>> /\ lpc # "down"
    BY <1>6 DEF Probing, Paused, Round, Wakes
  <2>2. QED BY <1>3, <2>1
<1>7. QED BY <1>1, <1>2, <1>4, <1>5, <1>6 DEF Next

\* However the clock is set and however often the process starts, an outage begins
\* strictly after every event in the store and a recovery not before them, as
\* long as no event is further ahead of the clock than the store accepts.
THEOREM EventsInOrder == Spec /\ []~Condemned => EventsOrdered
<1>1. Init => LastIsNewest
  BY DEF Init, LastIsNewest
<1>2. OcInv /\ LastIsNewest /\ ~Condemned /\ [Next]_vars => LastIsNewest'
  BY OrderStep
<1>3. OcInv /\ LastIsNewest /\ ~Condemned /\ [Next]_vars
        => [flips' # flips => IF online' THEN lastEv' >= newest ELSE lastEv' > newest]_vars
  BY OrderStep
<1>4. QED BY <1>1, <1>2, <1>3, OutageIsAccounted, PTL DEF Spec, EventsOrdered

-----------------------------------------------------------------------------
(* The time nobody watched                                                 *)

\* The ticks a span stands for: those the monotonic clock saw, and no more than
\* its row holds.
Ticks(p) == {t \in p.from .. p.till - 1 : t < p.from + p.secs * TPS}
TicksOf(S) == UNION {Ticks(p) : p \in S}

\* The spans of an outage that are out of its length: with a row, waiting for
\* one, or without one and not put back.
Settled(b) == b.rows \union b.gone \union b.kept
CutOut(n, b) == OfOutage(n, Settled(b) \union HeldIn(b))
Gaps(S) == {p \in S : ~p.pause}

\* A span lies in the outage, up to a tick, and a gap deducts what it stands for.
Stretch(p, last) ==
    /\ since <= p.from /\ p.from <= p.till /\ p.till <= last /\ p.secs >= 0
    /\ IF p.pause THEN p.start.m = p.from ELSE p.deduct = Cardinality(Ticks(p))

\* What waits stands for ticks of its own.
Apart(n, h) == \A i, j \in 1 .. Len(h) :
                 i # j /\ h[i].own = n /\ h[j].own = n => Ticks(h[i]) \cap Ticks(h[j]) = {}
QueueClear(n, b) ==
    \A i \in 1 .. Len(b.held) : b.held[i].own = n => Ticks(b.held[i]) \cap TicksOf(OfOutage(n, Settled(b))) = {}

Within(n, b, last) ==
    /\ BookFits(n, b) /\ Settled(b) \subseteq Spans
    /\ \A p \in CutOut(n, b) : Stretch(p, last)
    /\ Apart(n, b.held) /\ QueueClear(n, b)

\* A span that is not in the book yet.
Apart1(n, b, last, p) == p.own = n => Stretch(p, last) /\ Ticks(p) \cap TicksOf(CutOut(n, b)) = {}

\* What the spans stand for is what is deducted, with x ticks still to be placed
\* and y of them of gaps: no less than it, but for what was taken back of sleep,
\* and no more, but for what each slice is rounded by.
Tallies(n, b, last, x, y) ==
    /\ Cardinality(TicksOf(Gaps(CutOut(n, b)))) + y <= b.pausedGap
    /\ Cardinality(TicksOf(CutOut(n, b))) + x <= b.pausedGap + Folded(b, last) + b.slept
    /\ b.pausedGap + Bigger(Folded(b, last), 0) <= Cardinality(TicksOf(CutOut(n, b))) + x + TPS * b.slices

TicksFor(n, p) == IF p.own = n THEN Cardinality(Ticks(p)) ELSE 0
GapFor(n, p)   == IF p.own = n /\ ~p.pause THEN Cardinality(Ticks(p)) ELSE 0

\* A span stands for what it took, or for what its row holds.
LEMMA TicksIs ==
    ASSUME NEW p \in Spans, p.from <= p.till, p.secs >= 0
    PROVE  /\ IsFiniteSet(Ticks(p)) /\ Cardinality(Ticks(p)) \in Nat
           /\ Cardinality(Ticks(p)) <= p.till - p.from /\ Cardinality(Ticks(p)) <= p.secs * TPS
           /\ Cardinality(Ticks(p)) = p.till - p.from \/ Cardinality(Ticks(p)) = p.secs * TPS
<1> DEFINE f == p.from  u == p.till  s == p.secs * TPS  e == IF u <= f + s THEN u ELSE f + s
<1>1. f \in Int /\ u \in Int /\ s \in Nat /\ f <= u
  <2>1. p.from \in Int /\ p.till \in Int /\ p.secs \in Nat /\ TPS \in Nat
    BY ClockAssumption DEF Spans
  <2>2. p.secs * TPS \in Nat
    BY <2>1
  <2>3. QED BY <2>1, <2>2
<1>2. Ticks(p) = {t \in f .. u - 1 : t < f + s}
  BY DEF Ticks
<1> HIDE DEF f, u, s
<1>3. e \in Int /\ f <= e /\ e - f <= u - f /\ e - f <= s /\ (e - f = u - f \/ e - f = s)
  BY <1>1
<1>4. Ticks(p) = f .. e - 1
  <2>1. {t \in f .. u - 1 : t < f + s} = f .. e - 1
    BY <1>1
  <2>2. QED BY <1>2, <2>1
<1> HIDE DEF e
<1>5. IsFiniteSet(f .. e - 1) /\ Cardinality(f .. e - 1) = e - f
  <2>1. e - 1 \in Int
    BY <1>3
  <2>2. IsFiniteSet(f .. e - 1) /\ Cardinality(f .. e - 1) = IF f > e - 1 THEN 0 ELSE (e - 1) - f + 1
    BY <1>1, <2>1, FS_Interval
  <2>3. QED BY <1>1, <1>3, <2>2
<1>6. e - f \in Nat
  BY <1>1, <1>3
<1>7. QED BY <1>3, <1>4, <1>5, <1>6 DEF f, u, s

\* The ticks of spans, and of one more.
LEMMA TicksOfMore == ASSUME NEW S, NEW p PROVE TicksOf(S \union {p}) = TicksOf(S) \union Ticks(p)
BY DEF TicksOf

\* Spans within bounds stand for finitely many ticks.
LEMMA TicksFinite ==
    ASSUME NEW S, S \subseteq Spans, NEW lo \in Int, NEW hi \in Int, \A p \in S : lo <= p.from /\ p.till <= hi
    PROVE  TicksOf(S) \subseteq lo .. hi - 1 /\ IsFiniteSet(TicksOf(S)) /\ Cardinality(TicksOf(S)) \in Nat
<1>1. ASSUME NEW t \in TicksOf(S) PROVE t \in lo .. hi - 1
  <2>1. PICK p \in S : t \in Ticks(p)
    BY DEF TicksOf
  <2>2. t \in p.from .. p.till - 1 /\ p.from \in Int /\ p.till \in Int
    BY <2>1 DEF Ticks, Spans
  <2>3. lo <= p.from /\ p.till <= hi
    BY <2>1
  <2>4. QED BY <2>2, <2>3
<1>2. TicksOf(S) \in SUBSET (lo .. hi - 1)
  BY <1>1
<1>3. hi - 1 \in Int
  OBVIOUS
<1>4. IsFiniteSet(TicksOf(S))
  BY <1>2, <1>3, FS_Interval, FS_Subset
<1>5. QED BY <1>2, <1>4, FS_CardinalityType

\* Sets apart add up.
LEMMA ApartAdd ==
    ASSUME NEW S, IsFiniteSet(S), NEW T, IsFiniteSet(T), S \cap T = {}
    PROVE  IsFiniteSet(S \union T) /\ Cardinality(S \union T) = Cardinality(S) + Cardinality(T)
<1>1. Cardinality(S \union T) = Cardinality(S) + Cardinality(T) - Cardinality(S \cap T) /\ IsFiniteSet(S \union T)
  BY FS_Union
<1>2. Cardinality(S) \in Nat /\ Cardinality(T) \in Nat /\ Cardinality(S \cap T) = 0
  BY FS_CardinalityType, FS_EmptySet
<1>3. QED BY <1>1, <1>2

\* What tallies are made of.
SameTally(b, r) ==
    /\ r.pausedGap = b.pausedGap /\ r.downPausedAt = b.downPausedAt /\ r.slept = b.slept /\ r.slices = b.slices

\* The ways of a flush: the span gets its row or stays cut out without one, it
\* waits, the fold of its pause begins later, or its deduction is undone.
Settles(b, p, r) == Settled(r) = Settled(b) \union {p} /\ r.held = b.held /\ SameTally(b, r)
Waits(b, p, r)   == Settled(r) = Settled(b) /\ r.held = Append(b.held, p) /\ SameTally(b, r)
TakenBack(b, p, r) ==
    /\ Settled(r) = Settled(b) /\ r.held = b.held /\ Shifted(b, p, r) /\ p.pause
    /\ r.pausedGap = b.pausedGap /\ r.slept = b.slept + Excess(p) /\ r.slices = b.slices
Reverted(b, p, r) ==
    /\ r.downPausedAt = b.downPausedAt /\ r.slept = b.slept /\ r.slices = b.slices
    /\ \/ r.pausedGap = b.pausedGap /\ (p.gen # b.gen \/ (p.deduct <= 0 /\ p.frozen <= 0))
       \/ r.pausedGap = Bigger(b.pausedGap - p.deduct, 0) /\ p.gen = b.gen

\* revertGapDeduction leaves the tallies to the deduction.
LEMMA RevertWays ==
    ASSUME NEW b \in Books, NEW p \in Spans
    PROVE  LET r == RevertGapDeduction(b, p) IN Reverted(b, p, r) /\ Settled(r) = Settled(b) /\ r.held = b.held
<1> DEFINE r == RevertGapDeduction(b, p)
<1>1. CASE p.gen # b.gen \/ (p.deduct <= 0 /\ p.frozen <= 0)
  <2>1. r = b
    BY <1>1 DEF RevertGapDeduction
  <2>2. QED BY <1>1, <2>1 DEF Reverted, Settled
<1>2. CASE ~(p.gen # b.gen \/ (p.deduct <= 0 /\ p.frozen <= 0))
  <2> DEFINE pg == Bigger(b.pausedGap - p.deduct, 0)  fg == Bigger(b.frozenGap - p.frozen, 0)
  <2>1. r = [b EXCEPT !.pausedGap = pg, !.frozenGap = fg]
    BY <1>2 DEF RevertGapDeduction
  <2>2. pg = Bigger(b.pausedGap - p.deduct, 0)
    OBVIOUS
  <2> HIDE DEF pg, fg, r
  <2>3. /\ r.pausedGap = pg /\ r.downPausedAt = b.downPausedAt /\ r.slept = b.slept /\ r.slices = b.slices
        /\ r.rows = b.rows /\ r.held = b.held /\ r.kept = b.kept /\ r.gone = b.gone
    BY <2>1 DEF Books
  <2>4. p.gen = b.gen
    BY <1>2
  <2>5. QED BY <2>2, <2>3, <2>4 DEF Reverted, Settled, r
<1>3. QED BY <1>1, <1>2

\* dropRefusedPauseDeduction takes a slice back, or it stays cut out.
LEMMA DropWays ==
    ASSUME NEW b \in Books, NEW p \in Spans, p.pause
    PROVE  LET r == DropRefusedPauseDeduction(b, p) IN TakenBack(b, p, r) \/ Settles(b, p, r)
<1> DEFINE r == DropRefusedPauseDeduction(b, p)
           later == [m |-> b.downPausedAt.m + p.secs * TPS, w |-> b.downPausedAt.w + p.secs * TPS]
           slept == b.slept + Excess(p)
<1>1. CASE b.downPausedAt # NoTime /\ p.gen = b.gen /\ p.start.m >= b.downPausedAt.m
  <2>1. r = [b EXCEPT !.downPausedAt = later, !.slept = slept]
    BY <1>1 DEF DropRefusedPauseDeduction
  <2>2. later = [m |-> b.downPausedAt.m + p.secs * TPS, w |-> b.downPausedAt.w + p.secs * TPS]
        /\ slept = b.slept + Excess(p)
    OBVIOUS
  <2> HIDE DEF later, slept, r
  <2>3. /\ r.pausedGap = b.pausedGap /\ r.downPausedAt = later /\ r.slept = slept /\ r.slices = b.slices
        /\ r.rows = b.rows /\ r.held = b.held /\ r.kept = b.kept /\ r.gone = b.gone
    BY <2>1 DEF Books
  <2>4. Shifted(b, p, r)
    BY <1>1, <2>2, <2>3 DEF Shifted
  <2>5. TakenBack(b, p, r)
    BY <2>2, <2>3, <2>4 DEF TakenBack, Settled
  <2>6. QED BY <2>5 DEF r
<1>2. CASE ~(b.downPausedAt # NoTime /\ p.gen = b.gen /\ p.start.m >= b.downPausedAt.m)
  <2>1. r \in {[b EXCEPT !.kept = @ \union {p}], [b EXCEPT !.gone = @ \union {p}]}
    BY <1>2 DEF DropRefusedPauseDeduction
  <2> HIDE DEF r
  <2>2. /\ r.pausedGap = b.pausedGap /\ r.downPausedAt = b.downPausedAt /\ r.slept = b.slept /\ r.slices = b.slices
        /\ r.rows = b.rows /\ r.held = b.held
        /\ \/ r.kept = b.kept \union {p} /\ r.gone = b.gone
           \/ r.kept = b.kept /\ r.gone = b.gone \union {p}
    BY <2>1 DEF Books
  <2>3. Settled(r) = Settled(b) \union {p}
    BY <2>2 DEF Settled
  <2>4. Settles(b, p, r)
    BY <2>2, <2>3 DEF Settles, SameTally
  <2>5. QED BY <2>4 DEF r
<1>3. QED BY <1>1, <1>2

\* flushGap, as far as it changes what is cut out.
LEMMA FlushWays ==
    ASSUME NEW b \in Books, NEW p \in Spans, NEW lands
    PROVE  LET r == Flush(b, p, lands)
           IN \/ Settles(b, p, r) \/ Waits(b, p, r) \/ TakenBack(b, p, r)
              \/ Reverted(b, p, r) /\ Settled(r) = Settled(b) /\ r.held = b.held /\ ~p.pause
<1> DEFINE r == Flush(b, p, lands)
<1>1. CASE PauseSpanSane(p) /\ lands
  <2>1. r = [b EXCEPT !.rows = @ \union {p}]
    BY <1>1 DEF Flush
  <2> HIDE DEF r
  <2>2. /\ r.pausedGap = b.pausedGap /\ r.downPausedAt = b.downPausedAt /\ r.slept = b.slept /\ r.slices = b.slices
        /\ r.rows = b.rows \union {p} /\ r.held = b.held /\ r.kept = b.kept /\ r.gone = b.gone
    BY <2>1 DEF Books
  <2>3. Settles(b, p, r)
    BY <2>2 DEF Settles, SameTally, Settled
  <2>4. QED BY <2>3 DEF r
<1>2. CASE PauseSpanSane(p) /\ ~lands
  <2>1. r = [b EXCEPT !.held = Append(@, p)]
    BY <1>2 DEF Flush
  <2> HIDE DEF r
  <2>2. /\ r.pausedGap = b.pausedGap /\ r.downPausedAt = b.downPausedAt /\ r.slept = b.slept /\ r.slices = b.slices
        /\ r.rows = b.rows /\ r.held = Append(b.held, p) /\ r.kept = b.kept /\ r.gone = b.gone
    BY <2>1 DEF Books
  <2>3. Waits(b, p, r)
    BY <2>2 DEF Waits, SameTally, Settled
  <2>4. QED BY <2>3 DEF r
<1>3. CASE ~PauseSpanSane(p) /\ p.pause
  <2>1. r = DropRefusedPauseDeduction(b, p)
    BY <1>3 DEF Flush
  <2>2. QED BY <1>3, <2>1, DropWays
<1>4. CASE ~PauseSpanSane(p) /\ ~p.pause
  <2>1. r = RevertGapDeduction(b, p)
    BY <1>4 DEF Flush
  <2>2. QED BY <1>4, <2>1, RevertWays
<1>5. QED BY <1>1, <1>2, <1>3, <1>4

\* appendHeldGap: the queue stays, or its first leaves; a slice stays cut out.
LEMMA EvictWays ==
    ASSUME NEW b \in Books
    PROVE  LET r == Evict(b)  p == Head(b.held)
           IN \/ r = b
              \/ /\ b.held # <<>> /\ r.held = Tail(b.held) /\ Reverted(b, p, r) /\ p \in Spans
                 /\ Settled(r) = Settled(b) \union (IF p.pause THEN {p} ELSE {})
<1> DEFINE r == Evict(b)  p == Head(b.held)  d == RevertGapDeduction(b, p)
<1>1. b.held \in Seq(Spans)
  BY DEF Books
<1>2. CASE Len(b.held) <= MaxHeld
  BY <1>2 DEF Evict
<1>3. CASE ~(Len(b.held) <= MaxHeld)
  <2>1. b.held # <<>>
    BY <1>1, <1>3, ClockAssumption
  <2>2. p \in Spans
    BY <1>1, <2>1
  <2> HIDE DEF p
  <2>3. d \in Books /\ Reverted(b, p, d) /\ Settled(d) = Settled(b) /\ d.held = b.held
    BY <2>2, RevertIs, RevertWays
  <2>4. r = [d EXCEPT !.held = Tail(@), !.gone = IF p.pause THEN @ \union {p} ELSE @]
    BY <1>3 DEF Evict, p
  <2> HIDE DEF d, r
  <2>5. /\ r.pausedGap = d.pausedGap /\ r.downPausedAt = d.downPausedAt /\ r.slept = d.slept /\ r.slices = d.slices
        /\ r.rows = d.rows /\ r.held = Tail(d.held) /\ r.kept = d.kept
        /\ r.gone = IF p.pause THEN d.gone \union {p} ELSE d.gone
    BY <2>3, <2>4 DEF Books
  <2>6. Settled(r) = Settled(d) \union (IF p.pause THEN {p} ELSE {})
    BY <2>5 DEF Settled
  <2>7. Reverted(b, p, r)
    BY <2>3, <2>5 DEF Reverted
  <2>8. r.held = Tail(b.held) /\ Settled(r) = Settled(b) \union (IF p.pause THEN {p} ELSE {})
    BY <2>3, <2>5, <2>6
  <2>9. QED BY <2>1, <2>2, <2>7, <2>8 DEF p, r
<1>4. QED BY <1>2, <1>3

\* What is cut out of an outage are spans in it.
LEMMA CutOutIs ==
    ASSUME since \in Int, NEW n, NEW b, NEW last \in Int, Within(n, b, last)
    PROVE  /\ b \in Books /\ b.held \in Seq(Spans) /\ HeldIn(b) \subseteq Spans /\ CutOut(n, b) \subseteq Spans
           /\ IsFiniteSet(TicksOf(CutOut(n, b))) /\ Cardinality(TicksOf(CutOut(n, b))) \in Nat
           /\ IsFiniteSet(TicksOf(Gaps(CutOut(n, b)))) /\ Cardinality(TicksOf(Gaps(CutOut(n, b)))) \in Nat
           /\ \A i \in 1 .. Len(b.held) : b.held[i] \in Spans /\ (b.held[i].own = n => b.held[i] \in CutOut(n, b))
<1>1. b \in Books /\ b.held \in Seq(Spans)
  BY DEF Within, BookFits, Books
<1>2. HeldIn(b) \subseteq Spans
  BY <1>1, InQueueIs DEF HeldIn
<1>3. CutOut(n, b) \subseteq Spans /\ Gaps(CutOut(n, b)) \subseteq CutOut(n, b)
  BY <1>2 DEF CutOut, OfOutage, Gaps, Within
<1>4. \A p \in CutOut(n, b) : since <= p.from /\ p.till <= last
  BY DEF Within, Stretch
<1> DEFINE S == CutOut(n, b)  G == Gaps(S)
<1>5. IsFiniteSet(TicksOf(S)) /\ Cardinality(TicksOf(S)) \in Nat
  <2>1. S \subseteq Spans /\ \A p \in S : since <= p.from /\ p.till <= last
    BY <1>3, <1>4
  <2> HIDE DEF S
  <2>2. QED BY <2>1, TicksFinite
<1>6. IsFiniteSet(TicksOf(G)) /\ Cardinality(TicksOf(G)) \in Nat
  <2>1. G \subseteq Spans /\ \A p \in G : since <= p.from /\ p.till <= last
    BY <1>3, <1>4
  <2> HIDE DEF G
  <2>2. QED BY <2>1, TicksFinite
<1>7. ASSUME NEW i \in 1 .. Len(b.held) PROVE b.held[i] \in Spans /\ (b.held[i].own = n => b.held[i] \in CutOut(n, b))
  <2>1. b.held[i] \in HeldIn(b)
    BY DEF HeldIn, InQueue
  <2>2. QED BY <1>2, <2>1 DEF CutOut, OfOutage
<1>8. QED BY <1>1, <1>2, <1>3, <1>5, <1>6, <1>7

\* A span with or without a row adds itself to what is cut out.
LEMMA CutOutMore ==
    ASSUME NEW n, NEW b, NEW p, NEW r, Settled(r) \union HeldIn(r) = (Settled(b) \union HeldIn(b)) \union {p}
    PROVE  CutOut(n, r) = IF p.own = n THEN CutOut(n, b) \union {p} ELSE CutOut(n, b)
<1> DEFINE U == Settled(b) \union HeldIn(b)
<1>1. CutOut(n, r) = OfOutage(n, U \union {p}) /\ CutOut(n, b) = OfOutage(n, U)
  BY DEF CutOut
<1> HIDE DEF U
<1>2. OfOutage(n, U \union {p}) = IF p.own = n THEN OfOutage(n, U) \union {p} ELSE OfOutage(n, U)
  BY DEF OfOutage
<1>3. QED BY <1>1, <1>2

\* What waits after one more stands for ticks of its own.
LEMMA ApartAppend ==
    ASSUME NEW n, NEW h \in Seq(Spans), Apart(n, h), NEW p \in Spans,
           p.own = n => \A i \in 1 .. Len(h) : h[i].own = n => Ticks(h[i]) \cap Ticks(p) = {}
    PROVE  Apart(n, Append(h, p))
<1> DEFINE g == Append(h, p)  l == Len(h)
<1>1. l \in Nat /\ Len(g) = l + 1 /\ g[l + 1] = p /\ \A i \in 1 .. l : g[i] = h[i]
  OBVIOUS
<1> HIDE DEF g
<1>2. \A i \in 1 .. Len(g) : i \in 1 .. l \/ i = l + 1
  BY <1>1
<1>3. ASSUME NEW i \in 1 .. Len(g), NEW j \in 1 .. Len(g), i # j, g[i].own = n, g[j].own = n
      PROVE  Ticks(g[i]) \cap Ticks(g[j]) = {}
  <2>1. CASE i \in 1 .. l /\ j \in 1 .. l
    BY <1>1, <1>3, <2>1 DEF Apart
  <2>2. CASE i \in 1 .. l /\ j = l + 1
    BY <1>1, <1>3, <2>2
  <2>3. CASE i = l + 1 /\ j \in 1 .. l
    BY <1>1, <1>3, <2>3
  <2>4. QED BY <1>2, <1>3, <2>1, <2>2, <2>3
<1>4. Apart(n, g)
  BY <1>3 DEF Apart
<1>5. QED BY <1>4 DEF g

\* A flush leaves spans of the outage that are apart.
LEMMA FlushWithin ==
    ASSUME since \in Int, NEW n, NEW b, NEW last \in Int, Within(n, b, last), NEW p \in Spans, Placed(n, b.gen, p),
           Apart1(n, b, last, p), NEW lands
    PROVE  LET r == Flush(b, p, lands)
           IN /\ Within(n, r, last) /\ r.gen = b.gen
              /\ CutOut(n, r) \subseteq (IF p.own = n THEN CutOut(n, b) \union {p} ELSE CutOut(n, b))
<1> DEFINE r == Flush(b, p, lands)
<1>1. /\ BookFits(n, b) /\ b \in Books /\ b.held \in Seq(Spans) /\ Settled(b) \subseteq Spans
      /\ Apart(n, b.held) /\ QueueClear(n, b) /\ \A q \in CutOut(n, b) : Stretch(q, last)
      /\ \A i \in 1 .. Len(b.held) : b.held[i] \in Spans /\ (b.held[i].own = n => b.held[i] \in CutOut(n, b))
  BY CutOutIs DEF Within
<1>2. BookFits(n, r) /\ r.gen = b.gen
  BY <1>1, FlushFits
<1>3. \/ Settles(b, p, r) \/ Waits(b, p, r) \/ TakenBack(b, p, r)
      \/ Reverted(b, p, r) /\ Settled(r) = Settled(b) /\ r.held = b.held /\ ~p.pause
  BY <1>1, FlushWays
<1> HIDE DEF r
<1>4. ASSUME NEW i \in 1 .. Len(b.held), b.held[i].own = n, p.own = n PROVE Ticks(b.held[i]) \cap Ticks(p) = {}
  <2>1. b.held[i] \in CutOut(n, b)
    BY <1>1, <1>4
  <2>2. Ticks(p) \cap TicksOf(CutOut(n, b)) = {}
    BY <1>4 DEF Apart1
  <2>3. QED BY <2>1, <2>2 DEF TicksOf
<1>5. CASE Settled(r) = Settled(b) /\ r.held = b.held
  <2>1. CutOut(n, r) = CutOut(n, b) /\ QueueClear(n, r)
    BY <1>1, <1>5 DEF CutOut, HeldIn, QueueClear
  <2>2. Within(n, r, last)
    BY <1>1, <1>2, <1>5, <2>1 DEF Within
  <2>3. QED BY <1>2, <2>1, <2>2 DEF r
<1>6. CASE Settles(b, p, r)
  <2>1. Settled(r) = Settled(b) \union {p} /\ r.held = b.held /\ HeldIn(r) = HeldIn(b)
    BY <1>6 DEF Settles, HeldIn
  <2>2. CutOut(n, r) = IF p.own = n THEN CutOut(n, b) \union {p} ELSE CutOut(n, b)
    <3>1. Settled(r) \union HeldIn(r) = (Settled(b) \union HeldIn(b)) \union {p}
      BY <2>1
    <3>2. QED BY <3>1, CutOutMore
  <2>3. \A q \in CutOut(n, r) : Stretch(q, last)
    BY <1>1, <2>2 DEF Apart1
  <2>4. QueueClear(n, r)
    <3>1. ASSUME NEW i \in 1 .. Len(b.held), b.held[i].own = n
          PROVE  Ticks(b.held[i]) \cap TicksOf(OfOutage(n, Settled(r))) = {}
      <4>1. Ticks(b.held[i]) \cap TicksOf(OfOutage(n, Settled(b))) = {}
        BY <1>1, <3>1 DEF QueueClear
      <4>2. ASSUME NEW q \in OfOutage(n, Settled(r)) PROVE Ticks(b.held[i]) \cap Ticks(q) = {}
        <5>1. q.own = n /\ (q \in OfOutage(n, Settled(b)) \/ q = p)
          BY <2>1 DEF OfOutage
        <5>2. QED BY <1>4, <3>1, <4>1, <5>1 DEF TicksOf
      <4>3. QED BY <4>2 DEF TicksOf
    <3>2. QED BY <2>1, <3>1 DEF QueueClear
  <2>5. Apart(n, r.held) /\ Settled(r) \subseteq Spans
    BY <1>1, <2>1
  <2>6. Within(n, r, last)
    BY <1>2, <2>3, <2>4, <2>5 DEF Within
  <2>7. QED BY <1>2, <2>2, <2>6 DEF r
<1>7. CASE Waits(b, p, r)
  <2>1. Settled(r) = Settled(b) /\ r.held = Append(b.held, p)
    BY <1>7 DEF Waits
  <2>2. HeldIn(r) = HeldIn(b) \union {p}
    BY <1>1, <2>1, InQueueIs DEF HeldIn
  <2>3. CutOut(n, r) = IF p.own = n THEN CutOut(n, b) \union {p} ELSE CutOut(n, b)
    <3>1. Settled(r) \union HeldIn(r) = (Settled(b) \union HeldIn(b)) \union {p}
      BY <2>1, <2>2
    <3>2. QED BY <3>1, CutOutMore
  <2>4. \A q \in CutOut(n, r) : Stretch(q, last)
    BY <1>1, <2>3 DEF Apart1
  <2>5. Apart(n, r.held)
    BY <1>1, <1>4, <2>1, ApartAppend
  <2>6. QueueClear(n, r)
    <3> DEFINE g == Append(b.held, p)  l == Len(b.held)
    <3>1. l \in Nat /\ Len(g) = l + 1 /\ g[l + 1] = p /\ \A i \in 1 .. l : g[i] = b.held[i]
      BY <1>1
    <3> HIDE DEF g
    <3>2. ASSUME NEW i \in 1 .. Len(g), g[i].own = n PROVE Ticks(g[i]) \cap TicksOf(OfOutage(n, Settled(b))) = {}
      <4>1. CASE i \in 1 .. l
        BY <1>1, <3>1, <3>2, <4>1 DEF QueueClear
      <4>2. CASE i = l + 1
        <5>1. p.own = n /\ OfOutage(n, Settled(b)) \subseteq CutOut(n, b)
          BY <3>1, <3>2, <4>2 DEF CutOut, OfOutage
        <5>2. QED BY <3>1, <4>2, <5>1 DEF Apart1, TicksOf
      <4>3. QED BY <3>1, <4>1, <4>2
    <3>3. QED BY <2>1, <3>2 DEF QueueClear, g
  <2>7. Within(n, r, last)
    BY <1>1, <1>2, <2>1, <2>4, <2>5, <2>6 DEF Within
  <2>8. QED BY <1>2, <2>3, <2>7 DEF r
<1>8. TakenBack(b, p, r) => Settled(r) = Settled(b) /\ r.held = b.held
  BY DEF TakenBack
<1>9. QED BY <1>3, <1>5, <1>6, <1>7, <1>8

\* One more span, of ticks of its own.
LEMMA MoreTicks ==
    ASSUME NEW S, IsFiniteSet(TicksOf(S)), NEW p, IsFiniteSet(Ticks(p)), Ticks(p) \cap TicksOf(S) = {}
    PROVE  /\ Cardinality(TicksOf(S \union {p})) = Cardinality(TicksOf(S)) + Cardinality(Ticks(p))
           /\ Cardinality(TicksOf(Gaps(S \union {p})))
              = Cardinality(TicksOf(Gaps(S))) + IF p.pause THEN 0 ELSE Cardinality(Ticks(p))
<1> DEFINE A == TicksOf(S)  G == TicksOf(Gaps(S))  T == Ticks(p)
<1>1. G \subseteq A /\ IsFiniteSet(G) /\ Cardinality(G) \in Nat
  <2>1. G \in SUBSET A
    BY DEF TicksOf, Gaps
  <2>2. QED BY <2>1, FS_Subset, FS_CardinalityType
<1>2. TicksOf(S \union {p}) = A \union T
  BY TicksOfMore
<1>3. TicksOf(Gaps(S \union {p})) = IF p.pause THEN G ELSE G \union T
  <2>1. Gaps(S \union {p}) = IF p.pause THEN Gaps(S) ELSE Gaps(S) \union {p}
    BY DEF Gaps
  <2>2. QED BY <2>1, TicksOfMore
<1> HIDE DEF A, G, T
<1>4. Cardinality(A \union T) = Cardinality(A) + Cardinality(T)
  BY ApartAdd DEF A, T
<1>5. G \cap T = {}
  BY <1>1 DEF A, T
<1>6. Cardinality(G \union T) = Cardinality(G) + Cardinality(T)
  BY <1>1, <1>5, ApartAdd DEF T
<1>7. Cardinality(TicksOf(Gaps(S \union {p}))) = Cardinality(G) + IF p.pause THEN 0 ELSE Cardinality(T)
  <2>1. CASE p.pause
    BY <1>1, <1>3, <2>1
  <2>2. CASE ~p.pause
    BY <1>3, <1>6, <2>2
  <2>3. QED BY <2>1, <2>2
<1>8. QED BY <1>2, <1>4, <1>7 DEF A, G, T

\* A span more is cut out.
LEMMA MoreCut ==
    ASSUME since \in Int, NEW n, NEW b, NEW last \in Int, Within(n, b, last), NEW p \in Spans, p.own = n,
           Apart1(n, b, last, p), NEW r, CutOut(n, r) = CutOut(n, b) \union {p}
    PROVE  /\ Cardinality(TicksOf(CutOut(n, r))) = Cardinality(TicksOf(CutOut(n, b))) + TicksFor(n, p)
           /\ Cardinality(TicksOf(Gaps(CutOut(n, r)))) = Cardinality(TicksOf(Gaps(CutOut(n, b)))) + GapFor(n, p)
<1>1. IsFiniteSet(TicksOf(CutOut(n, b))) /\ IsFiniteSet(Ticks(p)) /\ Ticks(p) \cap TicksOf(CutOut(n, b)) = {}
  BY CutOutIs, TicksIs DEF Apart1, Stretch
<1>2. TicksFor(n, p) = Cardinality(Ticks(p)) /\ GapFor(n, p) = IF p.pause THEN 0 ELSE Cardinality(Ticks(p))
  BY DEF TicksFor, GapFor
<1>3. QED BY <1>1, <1>2, MoreTicks

\* The fold is a number.
LEMMA FoldedInt == ASSUME NEW b, b.downPausedAt \in Times, NEW last \in Int PROVE Folded(b, last) \in Int
BY DEF Folded, Times

\* A flush places the ticks of its span.
LEMMA FlushTallied ==
    ASSUME since \in Int, NEW n, NEW b, NEW last \in Int, Within(n, b, last), NEW p \in Spans, Placed(n, b.gen, p),
           Apart1(n, b, last, p), NEW lands, NEW x \in Nat, NEW y \in Nat,
           Tallies(n, b, last, x + TicksFor(n, p), y + GapFor(n, p))
    PROVE  Tallies(n, Flush(b, p, lands), last, x, y)
<1> DEFINE r == Flush(b, p, lands)
           C == Cardinality(TicksOf(CutOut(n, b)))  G == Cardinality(TicksOf(Gaps(CutOut(n, b))))
           c == TicksFor(n, p)  g == GapFor(n, p)  F == Folded(b, last)  k == TPS * b.slices
<1>1. /\ b \in Books /\ b.held \in Seq(Spans) /\ C \in Nat /\ G \in Nat /\ b.pausedGap \in Int /\ b.slept \in Nat
      /\ b.slices \in Nat /\ b.downPausedAt \in Times /\ TPS \in Nat
  <2>1. b \in Books /\ b.held \in Seq(Spans) /\ C \in Nat /\ G \in Nat
    BY CutOutIs
  <2>2. b.pausedGap \in Int /\ b.slept \in Nat /\ b.slices \in Nat /\ b.downPausedAt \in Times
    BY <2>1 DEF Books
  <2>3. QED BY <2>1, <2>2, ClockAssumption
<1>2. F \in Int /\ k \in Int
  <2>1. F \in Int
    BY <1>1, FoldedInt
  <2>2. k \in Int
    <3>1. b.slices \in Nat /\ TPS \in Nat
      BY <1>1
    <3>2. QED BY ONLY <3>1
  <2>3. QED BY <2>1, <2>2
<1>3. c \in Nat /\ g \in Nat
  BY TicksIs DEF TicksFor, GapFor, Apart1, Stretch
<1>4. \/ Settles(b, p, r) \/ Waits(b, p, r) \/ TakenBack(b, p, r)
      \/ Reverted(b, p, r) /\ Settled(r) = Settled(b) /\ r.held = b.held /\ ~p.pause
  BY <1>1, FlushWays
<1>5. G + (y + g) <= b.pausedGap /\ C + (x + c) <= b.pausedGap + F + b.slept /\ b.pausedGap + Bigger(F, 0) <= C + (x + c) + k
  BY DEF Tallies
<1> HIDE DEF r, C, G, c, g, F, k
<1>6. CASE Settles(b, p, r) \/ Waits(b, p, r)
  <2>1. SameTally(b, r) /\ Folded(r, last) = F /\ TPS * r.slices = k
    BY <1>6 DEF Settles, Waits, SameTally, Folded, F, k
  <2>2. Settled(r) \union HeldIn(r) = (Settled(b) \union HeldIn(b)) \union {p}
    <3>1. InQueue(Append(b.held, p)) = InQueue(b.held) \union {p}
      BY <1>1, InQueueIs
    <3>2. QED BY <1>6, <3>1 DEF Settles, Waits, HeldIn
  <2>3. CutOut(n, r) = IF p.own = n THEN CutOut(n, b) \union {p} ELSE CutOut(n, b)
    BY <2>2, CutOutMore
  <2>4. /\ Cardinality(TicksOf(CutOut(n, r))) = C + c /\ Cardinality(TicksOf(Gaps(CutOut(n, r)))) = G + g
    <3>1. CASE p.own = n
      BY <2>3, <3>1, MoreCut DEF C, G, c, g
    <3>2. CASE p.own # n
      <4>1. c = 0 /\ g = 0
        BY <3>2 DEF c, g, TicksFor, GapFor
      <4>2. QED BY <1>1, <2>3, <3>2, <4>1 DEF C, G
    <3>3. QED BY <3>1, <3>2
  <2>5. G + g + y <= b.pausedGap /\ C + c + x <= b.pausedGap + F + b.slept /\ b.pausedGap + Bigger(F, 0) <= C + c + x + k
    <3>1. C + (x + c) = C + c + x /\ G + (y + g) = G + g + y
      BY <1>1, <1>3
    <3>2. QED BY <1>5, <3>1
  <2>6. QED BY <2>1, <2>4, <2>5 DEF Tallies, SameTally, r
<1>7. CASE TakenBack(b, p, r)
  <2> DEFINE s == p.secs * TPS  w == p.till - p.from  e == Excess(p)
  <2>1. Settled(r) = Settled(b) /\ r.held = b.held /\ Shifted(b, p, r) /\ p.pause /\ p.gen = b.gen /\ p.own = n
    BY <1>7 DEF TakenBack, Shifted, Placed
  <2>2. CutOut(n, r) = CutOut(n, b)
    BY <2>1 DEF CutOut, HeldIn
  <2>3. /\ r.pausedGap = b.pausedGap /\ r.slept = b.slept + e /\ TPS * r.slices = k
    BY <1>7 DEF TakenBack, k
  <2>4. p.secs \in Nat /\ p.from \in Int /\ p.till \in Int /\ p.from <= p.till /\ p.till <= last /\ p.start.m = p.from
    BY <2>1 DEF Apart1, Stretch, Spans
  <2>5. s \in Nat /\ w \in Nat
    BY <1>1, <2>4
  <2>6. c <= w /\ c <= s /\ (c = w \/ c = s) /\ g = 0
    BY <2>1, <2>4, TicksIs DEF TicksFor, GapFor, c, g
  <2>7. e = IF s >= w THEN s - w ELSE 0
    <3>1. e = Bigger(s - w, 0)
      BY DEF Excess
    <3> HIDE DEF s, w, e
    <3>2. QED BY <2>5, <3>1 DEF Bigger
  <2>8. Folded(r, last) = F - s /\ F >= w
    <3>1. /\ b.downPausedAt # NoTime /\ p.start.m >= b.downPausedAt.m
          /\ r.downPausedAt = [m |-> b.downPausedAt.m + s, w |-> b.downPausedAt.w + s]
      BY <2>1 DEF Shifted
    <3>2. b.downPausedAt.m \in Int /\ b.downPausedAt.m >= 0
      <4>1. b.downPausedAt = NoTime \/ b.downPausedAt.m >= 0
        BY DEF Within, BookFits
      <4>2. QED BY <1>1, <3>1, <4>1 DEF Times
    <3>3. F = last - b.downPausedAt.m
      BY <3>1 DEF F, Folded
    <3> HIDE DEF s
    <3>4. r.downPausedAt.m = b.downPausedAt.m + s
      BY <3>1
    <3>5. r.downPausedAt # NoTime
      <4>1. r.downPausedAt.m >= 0
        BY <2>5, <3>2, <3>4
      <4>2. NoTime.m = -1
        BY DEF NoTime
      <4> HIDE DEF NoTime
      <4>3. QED BY <4>1, <4>2
    <3>6. Folded(r, last) = last - (b.downPausedAt.m + s)
      BY <3>4, <3>5 DEF Folded
    <3>7. QED BY <2>4, <2>5, <3>1, <3>2, <3>3, <3>6
  <2> HIDE DEF s, w, e
  <2>9. G + y <= b.pausedGap
    BY <1>1, <1>5, <2>6
  <2>10. C + x <= b.pausedGap + (F - s) + (b.slept + e)
    BY ONLY <1>1, <1>2, <1>3, <1>5, <2>5, <2>6, <2>7, x \in Nat
  <2>11. b.pausedGap + Bigger(F - s, 0) <= C + x + k
    <3>1. Bigger(F, 0) = F
      BY <1>2, <2>5, <2>8 DEF Bigger
    <3>2. Bigger(F - s, 0) <= F - c /\ Bigger(F - s, 0) \in Int
      BY <1>2, <1>3, <2>5, <2>6, <2>8 DEF Bigger
    <3>3. QED BY ONLY <1>1, <1>2, <1>3, <1>5, <3>1, <3>2, x \in Nat
  <2>12. QED BY <2>2, <2>3, <2>8, <2>9, <2>10, <2>11 DEF Tallies, C, G, r
<1>8. CASE Reverted(b, p, r) /\ Settled(r) = Settled(b) /\ r.held = b.held /\ ~p.pause
  <2>1. CutOut(n, r) = CutOut(n, b)
    BY <1>8 DEF CutOut, HeldIn
  <2>2. r.downPausedAt = b.downPausedAt /\ r.slept = b.slept /\ TPS * r.slices = k /\ Folded(r, last) = F
    BY <1>8 DEF Reverted, k, F, Folded
  <2>3. c = g
    BY <1>8 DEF c, g, TicksFor, GapFor
  <2>4. r.pausedGap = b.pausedGap - c
    <3>1. CASE p.own = n
      <4>1. p.gen = b.gen /\ p.deduct = c /\ p.deduct >= 0
        BY <1>8, <3>1 DEF Placed, SpanFits, Apart1, Stretch, c, TicksFor
      <4>2. CASE r.pausedGap = b.pausedGap /\ p.deduct <= 0
        BY <1>1, <1>3, <4>1, <4>2
      <4>3. CASE r.pausedGap = Bigger(b.pausedGap - p.deduct, 0)
        <5>1. b.pausedGap - c >= 0 /\ b.pausedGap - c \in Int
          BY ONLY <1>1, <1>3, <1>5, <2>3, y \in Nat
        <5>2. r.pausedGap = Bigger(b.pausedGap - c, 0)
          BY <4>1, <4>3
        <5>3. QED BY ONLY <5>1, <5>2 DEF Bigger
      <4>4. QED BY <1>8, <4>1, <4>2, <4>3 DEF Reverted
    <3>2. CASE p.own # n
      <4>1. p.gen # b.gen /\ c = 0
        BY <3>2 DEF Placed, c, TicksFor
      <4>2. QED BY <1>1, <1>8, <4>1 DEF Reverted
    <3>3. QED BY <3>1, <3>2
  <2>5. G + y <= r.pausedGap /\ C + x <= r.pausedGap + F + b.slept /\ r.pausedGap + Bigger(F, 0) <= C + x + k
    <3>1. Bigger(F, 0) \in Int
      BY <1>2, BiggerIs, 0 \in Int
    <3> DEFINE q == r.pausedGap  o == b.pausedGap  m == Bigger(F, 0)  t == b.slept
    <3>2. q = o - c /\ c = g /\ m \in Int /\ o \in Int /\ t \in Nat
      BY <1>1, <2>3, <2>4, <3>1
    <3>3. G + (y + g) <= o /\ C + (x + c) <= o + F + t /\ o + m <= C + (x + c) + k
      BY <1>5
    <3>4. C \in Nat /\ G \in Nat
      BY <1>1
    <3> HIDE DEF q, o, m, t
    <3>5. q + m = o + m - c
      BY ONLY <1>3, <3>2
    <3>6. G + y <= q /\ C + x <= q + F + t /\ q + m <= C + x + k
      BY ONLY <1>2, <1>3, <3>2, <3>3, <3>4, <3>5, x \in Nat, y \in Nat
    <3>7. QED BY <3>6 DEF q, o, m, t
  <2>6. QED BY <2>1, <2>2, <2>5 DEF Tallies, C, G, r
<1>9. QED BY <1>4, <1>6, <1>7, <1>8

\* The queue without its first.
LEMMA TailIs ==
    ASSUME NEW h \in Seq(Spans), h # <<>>
    PROVE  /\ 1 \in 1 .. Len(h) /\ Head(h) = h[1] /\ h[1] \in Spans
           /\ \A i \in 1 .. Len(Tail(h)) : i + 1 \in 1 .. Len(h) /\ i + 1 # 1 /\ Tail(h)[i] = h[i + 1]
<1> DEFINE g == Tail(h)
<1>1. Len(h) \in Nat \ {0} /\ Len(g) = Len(h) - 1 /\ Head(h) = h[1]
  OBVIOUS
<1>2. \A i \in 1 .. Len(g) : g[i] = h[i + 1]
  OBVIOUS
<1> HIDE DEF g
<1>3. 1 \in 1 .. Len(h) /\ \A i \in 1 .. Len(g) : i + 1 \in 1 .. Len(h) /\ i + 1 # 1
  BY <1>1
<1>4. h[1] \in Spans
  BY <1>3
<1>5. QED BY <1>1, <1>2, <1>3, <1>4 DEF g

\* The drop of the oldest leaves spans of the outage that are apart; a slice
\* stays cut out, a gap that leaves stood for ticks of its own.
LEMMA EvictWithin ==
    ASSUME since \in Int, NEW n, NEW b, NEW last \in Int, Within(n, b, last), b.held # <<>>, NEW r,
           BookFits(n, r), r.held = Tail(b.held),
           Settled(r) = Settled(b) \union (IF Head(b.held).pause THEN {Head(b.held)} ELSE {})
    PROVE  LET p == Head(b.held)
           IN /\ Within(n, r, last) /\ p \in Spans /\ p \in HeldIn(b)
              /\ p.own # n \/ p.pause => CutOut(n, r) = CutOut(n, b)
              /\ p.own = n => Stretch(p, last)
              /\ p.own = n /\ ~p.pause => CutOut(n, b) = CutOut(n, r) \union {p} /\ Apart1(n, r, last, p)
<1> DEFINE p == Head(b.held)  h == b.held  g == Tail(b.held)
<1>1. /\ b.held \in Seq(Spans) /\ Settled(b) \subseteq Spans
      /\ Apart(n, b.held) /\ QueueClear(n, b) /\ \A q \in CutOut(n, b) : Stretch(q, last)
      /\ \A i \in 1 .. Len(b.held) : b.held[i] \in Spans /\ (b.held[i].own = n => b.held[i] \in CutOut(n, b))
  BY CutOutIs DEF Within
<1>2. /\ 1 \in 1 .. Len(h) /\ p = h[1] /\ p \in Spans
      /\ \A i \in 1 .. Len(g) : i + 1 \in 1 .. Len(h) /\ i + 1 # 1 /\ g[i] = h[i + 1]
  BY <1>1, TailIs
<1>3. HeldIn(b) = HeldIn(r) \union {p} /\ p \in HeldIn(b)
  BY <1>1, InQueueIs DEF HeldIn
<1>4. p.own = n => Stretch(p, last)
  BY <1>1, <1>2
<1>5. r.held = g /\ Settled(r) = Settled(b) \union (IF p.pause THEN {p} ELSE {})
  OBVIOUS
<1> HIDE DEF p, g, h
<1>6. \A i \in 1 .. Len(g) : g[i].own = n => Ticks(g[i]) \cap TicksOf(OfOutage(n, Settled(b))) = {}
  BY <1>1, <1>2 DEF QueueClear, h
<1>7. ASSUME NEW i \in 1 .. Len(g), g[i].own = n, p.own = n PROVE Ticks(g[i]) \cap Ticks(p) = {}
  BY <1>1, <1>2, <1>7 DEF Apart, h
<1>8. Apart(n, g)
  <2>1. ASSUME NEW i \in 1 .. Len(g), NEW j \in 1 .. Len(g), i # j, g[i].own = n, g[j].own = n
        PROVE  Ticks(g[i]) \cap Ticks(g[j]) = {}
    <3>1. /\ i + 1 \in 1 .. Len(h) /\ g[i] = h[i + 1] /\ j + 1 \in 1 .. Len(h) /\ g[j] = h[j + 1]
      BY <1>2
    <3>2. i + 1 # j + 1
      BY <2>1
    <3>3. QED BY <1>1, <2>1, <3>1, <3>2 DEF Apart, h
  <2>2. QED BY <2>1 DEF Apart
<1>9. QueueClear(n, r)
  <2>1. ASSUME NEW i \in 1 .. Len(g), g[i].own = n PROVE Ticks(g[i]) \cap TicksOf(OfOutage(n, Settled(r))) = {}
    <3>1. ASSUME NEW q \in OfOutage(n, Settled(r)) PROVE Ticks(g[i]) \cap Ticks(q) = {}
      <4>1. q.own = n /\ (q \in OfOutage(n, Settled(b)) \/ q = p)
        BY <1>5 DEF OfOutage
      <4>2. Ticks(g[i]) \cap TicksOf(OfOutage(n, Settled(b))) = {}
        BY <1>6, <2>1
      <4>3. QED BY <1>7, <2>1, <4>1, <4>2 DEF TicksOf
    <3>2. QED BY <3>1 DEF TicksOf
  <2>2. QED BY <1>5, <2>1 DEF QueueClear
<1>10. CutOut(n, r) \subseteq CutOut(n, b) /\ (p.own # n \/ p.pause => CutOut(n, r) = CutOut(n, b))
  BY <1>3, <1>5 DEF CutOut, OfOutage
<1>11. Settled(r) \subseteq Spans /\ \A q \in CutOut(n, r) : Stretch(q, last)
  BY <1>1, <1>2, <1>5, <1>10
<1>12. Within(n, r, last)
  BY <1>5, <1>8, <1>9, <1>11 DEF Within
<1>13. ASSUME p.own = n, ~p.pause PROVE CutOut(n, b) = CutOut(n, r) \union {p} /\ Apart1(n, r, last, p)
  <2>1. CutOut(n, b) = CutOut(n, r) \union {p}
    BY <1>3, <1>5, <1>13 DEF CutOut, OfOutage
  <2>2. ASSUME NEW q \in CutOut(n, r) PROVE Ticks(p) \cap Ticks(q) = {}
    <3>1. CASE q \in Settled(r)
      <4>1. q \in OfOutage(n, Settled(b))
        BY <1>5, <1>13, <3>1 DEF CutOut, OfOutage
      <4>2. Ticks(p) \cap TicksOf(OfOutage(n, Settled(b))) = {}
        BY <1>1, <1>2, <1>13 DEF QueueClear, h
      <4>3. QED BY <4>1, <4>2 DEF TicksOf
    <3>2. CASE q \in HeldIn(r)
      <4>1. PICK i \in 1 .. Len(g) : q = g[i]
        BY <1>5, <3>2 DEF HeldIn, InQueue
      <4>2. q.own = n
        BY DEF CutOut, OfOutage
      <4>3. QED BY <1>7, <1>13, <4>1, <4>2
    <3>3. QED BY <3>1, <3>2 DEF CutOut, OfOutage
  <2>3. Ticks(p) \cap TicksOf(CutOut(n, r)) = {}
    BY <2>2 DEF TicksOf
  <2>4. QED BY <1>4, <1>13, <2>1, <2>3 DEF Apart1
<1>14. QED BY <1>2, <1>3, <1>4, <1>10, <1>12, <1>13 DEF p

\* And the tallies.
LEMMA EvictTallied ==
    ASSUME since \in Int, NEW n, NEW b, NEW last \in Int, Within(n, b, last), Tallies(n, b, last, 0, 0)
    PROVE  LET r == Evict(b)
           IN /\ Within(n, r, last) /\ Tallies(n, r, last, 0, 0) /\ r.gen = b.gen
              /\ CutOut(n, r) \subseteq CutOut(n, b)
<1> DEFINE r == Evict(b)  p == Head(b.held)
<1>1. b \in Books /\ BookFits(n, b)
  BY CutOutIs DEF Within
<1>2. BookFits(n, r) /\ r.gen = b.gen
  BY <1>1, EvictFits
<1>3. \/ r = b
      \/ /\ b.held # <<>> /\ r.held = Tail(b.held) /\ Reverted(b, p, r) /\ p \in Spans
         /\ Settled(r) = Settled(b) \union (IF p.pause THEN {p} ELSE {})
  BY <1>1, EvictWays
<1> HIDE DEF r
<1>4. CASE r = b
  BY <1>4 DEF r
<1>5. CASE /\ b.held # <<>> /\ r.held = Tail(b.held) /\ Reverted(b, p, r) /\ p \in Spans
           /\ Settled(r) = Settled(b) \union (IF p.pause THEN {p} ELSE {})
  <2>1. /\ Within(n, r, last) /\ p \in Spans /\ p \in HeldIn(b)
        /\ p.own # n \/ p.pause => CutOut(n, r) = CutOut(n, b)
        /\ p.own = n => Stretch(p, last)
        /\ p.own = n /\ ~p.pause => CutOut(n, b) = CutOut(n, r) \union {p} /\ Apart1(n, r, last, p)
    BY <1>2, <1>5, EvictWithin
  <2> HIDE DEF p
  <2>2. Placed(n, b.gen, p)
    BY <1>1, <2>1 DEF BookFits
  <2> DEFINE C == Cardinality(TicksOf(CutOut(n, b)))  G == Cardinality(TicksOf(Gaps(CutOut(n, b))))
             D == Cardinality(TicksOf(CutOut(n, r)))  H == Cardinality(TicksOf(Gaps(CutOut(n, r))))
             c == GapFor(n, p)  F == Folded(b, last)  k == TPS * b.slices
             o == b.pausedGap  q == r.pausedGap  t == b.slept  m == Bigger(F, 0)
  <2>3. C \in Nat /\ G \in Nat /\ D \in Nat /\ H \in Nat
    BY <2>1, CutOutIs
  <2>4. C = D + c /\ G = H + c /\ c \in Nat
    <3>1. CASE p.own # n \/ p.pause
      <4>1. CutOut(n, r) = CutOut(n, b) /\ c = 0
        BY <2>1, <3>1 DEF GapFor
      <4>2. QED BY <2>3, <4>1
    <3>2. CASE p.own = n /\ ~p.pause
      <4>1. CutOut(n, b) = CutOut(n, r) \union {p} /\ Apart1(n, r, last, p) /\ Stretch(p, last)
        BY <2>1, <3>2
      <4>2. TicksFor(n, p) = c
        BY <3>2 DEF TicksFor, GapFor
      <4>3. C = D + c /\ G = H + c
        BY <2>1, <3>2, <4>1, <4>2, MoreCut
      <4>4. c \in Nat
        BY <2>1, <3>2, <4>1, TicksIs DEF GapFor, Stretch
      <4>5. QED BY <4>3, <4>4
    <3>3. QED BY <3>1, <3>2
  <2>5. G + 0 <= o /\ C + 0 <= o + F + t /\ o + m <= C + 0 + k
    BY DEF Tallies
  <2>6. o \in Int /\ F \in Int /\ m \in Int /\ t \in Nat /\ k \in Int
    <3>1. o \in Int /\ t \in Nat /\ b.downPausedAt \in Times /\ b.slices \in Nat /\ TPS \in Nat
      BY <1>1, ClockAssumption DEF Books
    <3>2. F \in Int
      BY <3>1, FoldedInt
    <3>3. m \in Int
      BY <3>2, BiggerIs, 0 \in Int
    <3>4. k \in Int
      BY ONLY <3>1
    <3>5. QED BY <3>1, <3>2, <3>3, <3>4
  <2>7. /\ r.downPausedAt = b.downPausedAt /\ r.slept = t /\ TPS * r.slices = k
        /\ \/ q = o /\ (p.gen # b.gen \/ (p.deduct <= 0 /\ p.frozen <= 0))
           \/ q = Bigger(o - p.deduct, 0) /\ p.gen = b.gen
    BY <1>5 DEF Reverted, p
  <2>8. Folded(r, last) = F
    BY <2>7 DEF Folded
  <2>9. p.gen = b.gen => p.own = n /\ p.deduct = c
    BY <2>1, <2>2 DEF Placed, SpanFits, Stretch, GapFor
  <2>10. p.gen # b.gen => c = 0
    BY <2>2 DEF Placed, GapFor
  <2> HIDE DEF C, G, D, H, c, F, k, o, q, t, m
  <2>11. q = o - c
    <3>1. o - c >= 0 /\ o - c \in Int
      BY ONLY <2>3, <2>4, <2>5, <2>6
    <3>2. CASE q = o /\ p.gen # b.gen
      BY ONLY <2>10, <3>2, <2>6
    <3>3. CASE q = o /\ p.gen = b.gen /\ p.deduct <= 0
      BY ONLY <2>9, <3>3, <2>4, <2>6
    <3>4. CASE q = Bigger(o - p.deduct, 0) /\ p.gen = b.gen
      <4>1. q = Bigger(o - c, 0)
        BY <2>9, <3>4
      <4>2. QED BY ONLY <3>1, <4>1 DEF Bigger
    <3>5. QED BY <2>7, <3>2, <3>3, <3>4
  <2>12. q + m = o + m - c
    BY ONLY <2>4, <2>6, <2>11
  <2>13. H + 0 <= q /\ D + 0 <= q + F + t /\ q + m <= D + 0 + k
    BY ONLY <2>3, <2>4, <2>5, <2>6, <2>11, <2>12
  <2>14. Tallies(n, r, last, 0, 0)
    BY <2>7, <2>8, <2>13 DEF Tallies, D, H, q, F, t, m, k
  <2>15. CutOut(n, r) \subseteq CutOut(n, b)
    BY <2>1
  <2>16. QED BY <1>2, <2>1, <2>14, <2>15 DEF r
<1>6. QED BY <1>3, <1>4, <1>5

\* What a span stands for is counted.
LEMMA ForNat ==
    ASSUME NEW n, NEW last, NEW p \in Spans, p.own = n => Stretch(p, last)
    PROVE  TicksFor(n, p) \in Nat /\ GapFor(n, p) \in Nat
BY TicksIs DEF TicksFor, GapFor, Stretch

\* A span that was just measured.
LEMMA OfferTallied ==
    ASSUME since \in Int, NEW n, NEW b, NEW last \in Int, Within(n, b, last), NEW p \in Spans, Placed(n, b.gen, p),
           Apart1(n, b, last, p), NEW lands, Tallies(n, b, last, TicksFor(n, p), GapFor(n, p))
    PROVE  LET r == Offer(b, p, lands)
           IN Within(n, r, last) /\ Tallies(n, r, last, 0, 0) /\ r.gen = b.gen
<1> DEFINE f == Flush(b, p, lands)
<1>1. Within(n, f, last) /\ f.gen = b.gen
  BY FlushWithin
<1>2. TicksFor(n, p) = 0 + TicksFor(n, p) /\ GapFor(n, p) = 0 + GapFor(n, p)
  BY ForNat DEF Apart1
<1>3. Tallies(n, b, last, 0 + TicksFor(n, p), 0 + GapFor(n, p))
  BY <1>2
<1>4. Tallies(n, f, last, 0, 0)
  BY <1>3, FlushTallied, 0 \in Nat
<1> HIDE DEF f
<1>5. Within(n, Evict(f), last) /\ Tallies(n, Evict(f), last, 0, 0) /\ Evict(f).gen = f.gen
  BY <1>1, <1>4, EvictTallied
<1>6. QED BY <1>1, <1>5 DEF Offer, f

\* The spans of an outage that are left to replay after the first k.
Left(n, h, k) == {h[i] : i \in {j \in 1 .. Len(h) : j > k /\ h[j].own = n}}

\* The retry leaves the tallies.
LEMMA RetryTallied ==
    ASSUME since \in Int, NEW n, NEW last \in Int, Within(n, book, last), Tallies(n, book, last, 0, 0), NEW lands
    PROVE  LET r == RetryHeldGaps(lands)
           IN Within(n, r, last) /\ Tallies(n, r, last, 0, 0) /\ r.gen = book.gen
<1> DEFINE h == book.held  N == Len(book.held)
           X(k) == Cardinality(TicksOf(Left(n, h, k)))  Y(k) == Cardinality(TicksOf(Gaps(Left(n, h, k))))
<1>1. /\ book \in Books /\ h \in Seq(Spans) /\ BookFits(n, book) /\ Settled(book) \subseteq Spans /\ N \in Nat
      /\ Apart(n, h) /\ QueueClear(n, book) /\ \A q \in CutOut(n, book) : Stretch(q, last)
      /\ \A i \in 1 .. N : h[i] \in Spans /\ h[i] \in HeldIn(book) /\ (h[i].own = n => h[i] \in CutOut(n, book))
  <2>1. \A i \in 1 .. N : h[i] \in HeldIn(book)
    BY DEF HeldIn, InQueue
  <2>2. book.held \in Seq(Spans)
    BY CutOutIs
  <2>3. Len(book.held) \in Nat
    BY <2>2
  <2>4. QED BY <2>1, <2>2, <2>3, CutOutIs DEF Within
<1>2. PICK f : Replay(f, lands) /\ RetryHeldGaps(lands) = f[N]
  BY <1>1, RetryIs
<1>3. /\ f[0] = [book EXCEPT !.held = <<>>]
      /\ \A k \in 0 .. N - 1 :
           /\ k + 1 \in 1 .. N /\ h[k + 1] \in Spans /\ h[k + 1] \in HeldIn(book)
           /\ f[k + 1] = Flush(f[k], h[k + 1], lands)
  BY <1>1, <1>2, ReplayStep
<1> DEFINE Kept1(k) ==
             /\ Within(n, f[k], last) /\ f[k].gen = book.gen
             /\ \A i \in 1 .. N : i > k /\ h[i].own = n => Ticks(h[i]) \cap TicksOf(CutOut(n, f[k])) = {}
             /\ Tallies(n, f[k], last, X(k), Y(k))
           S == {k \in 0 .. N : Kept1(k)}
<1>4. \A k \in 0 .. N : Left(n, h, k) \subseteq CutOut(n, book) /\ Left(n, h, k) \subseteq Spans
  BY <1>1 DEF Left
<1>5. ASSUME NEW k \in 0 .. N
      PROVE  IsFiniteSet(TicksOf(Left(n, h, k))) /\ X(k) \in Nat /\ Y(k) \in Nat
  <2>1. \A p \in Left(n, h, k) : since <= p.from /\ p.till <= last
    BY <1>1, <1>4 DEF Stretch
  <2> DEFINE L == Left(n, h, k)  M == Gaps(L)
  <2>2. L \subseteq Spans /\ M \subseteq L
    BY <1>4 DEF Gaps
  <2>3. \A p \in L : since <= p.from /\ p.till <= last
    BY <2>1
  <2> HIDE DEF L, M
  <2>4. IsFiniteSet(TicksOf(L)) /\ Cardinality(TicksOf(L)) \in Nat
    BY <2>2, <2>3, TicksFinite
  <2>5. M \subseteq Spans /\ \A p \in M : since <= p.from /\ p.till <= last
    BY <2>2, <2>3
  <2>6. Cardinality(TicksOf(M)) \in Nat
    BY <2>5, TicksFinite
  <2>7. QED BY <2>4, <2>6 DEF L, M
<1>6. ASSUME NEW k \in 0 .. N - 1
      PROVE  X(k) = X(k + 1) + TicksFor(n, h[k + 1]) /\ Y(k) = Y(k + 1) + GapFor(n, h[k + 1])
  <2> DEFINE p == h[k + 1]
  <2>1. k + 1 \in 1 .. N /\ p \in Spans /\ k + 1 \in 0 .. N
    BY <1>1, <1>3
  <2>2. \A j \in 1 .. N : j > k <=> j > k + 1 \/ j = k + 1
    BY <1>1
  <2>3. CASE p.own # n
    <3>1. {j \in 1 .. N : j > k /\ h[j].own = n} = {j \in 1 .. N : j > k + 1 /\ h[j].own = n}
      BY <2>2, <2>3
    <3>2. Left(n, h, k) = Left(n, h, k + 1)
      BY <3>1 DEF Left
    <3>3. TicksFor(n, p) = 0 /\ GapFor(n, p) = 0
      BY <2>3 DEF TicksFor, GapFor
    <3>4. QED BY <1>5, <2>1, <3>2, <3>3
  <2>4. CASE p.own = n
    <3>1. Left(n, h, k) = Left(n, h, k + 1) \union {p}
      <4>1. {j \in 1 .. N : j > k /\ h[j].own = n} = {j \in 1 .. N : j > k + 1 /\ h[j].own = n} \union {k + 1}
        BY <2>1, <2>2, <2>4
      <4>2. QED BY <4>1 DEF Left
    <3>2. Ticks(p) \cap TicksOf(Left(n, h, k + 1)) = {}
      <4>1. ASSUME NEW q \in Left(n, h, k + 1) PROVE Ticks(p) \cap Ticks(q) = {}
        <5>1. PICK j \in 1 .. N : j > k + 1 /\ h[j].own = n /\ q = h[j]
          BY DEF Left
        <5>2. j # k + 1
          BY <2>1, <5>1
        <5>3. QED BY <1>1, <2>1, <2>4, <5>1, <5>2 DEF Apart
      <4>2. QED BY <4>1 DEF TicksOf
    <3>3. IsFiniteSet(TicksOf(Left(n, h, k + 1)))
      BY <1>5, <2>1
    <3>4. Stretch(p, last)
      BY <1>1, <2>1, <2>4
    <3>5. IsFiniteSet(Ticks(p))
      BY <2>1, <3>4, TicksIs DEF Stretch
    <3>6. TicksFor(n, p) = Cardinality(Ticks(p)) /\ GapFor(n, p) = IF p.pause THEN 0 ELSE Cardinality(Ticks(p))
      BY <2>4 DEF TicksFor, GapFor
    <3> HIDE DEF p
    <3>7. QED BY <3>1, <3>2, <3>3, <3>5, <3>6, MoreTicks DEF p
  <2>5. QED BY <2>3, <2>4
<1>7. Kept1(0)
  <2> DEFINE r == f[0]
  <2>1. /\ r \in Books /\ r.rows = book.rows /\ r.held = <<>> /\ SameSums(book, r) /\ SameFold(book, r)
        /\ r.gen = book.gen /\ HeldIn(r) = {}
    BY <1>1, <1>3, Emptied
  <2>2. r.gone = book.gone /\ r.kept = book.kept /\ r.slept = book.slept /\ r.slices = book.slices
    BY <1>1, <1>3 DEF Books
  <2> HIDE DEF r
  <2>3. Settled(r) = Settled(book) /\ CutOut(n, r) = OfOutage(n, Settled(book)) /\ CutOut(n, r) \subseteq CutOut(n, book)
    BY <2>1, <2>2 DEF Settled, CutOut, OfOutage
  <2>4. BookFits(n, r)
    BY <1>1, <2>1 DEF BookFits, SameFold
  <2>5. Apart(n, r.held) /\ QueueClear(n, r)
    <3>1. \A i \in 1 .. Len(<<>>) : FALSE
      OBVIOUS
    <3>2. QED BY <2>1, <3>1 DEF Apart, QueueClear
  <2>6. Within(n, r, last)
    BY <1>1, <2>3, <2>4, <2>5 DEF Within
  <2>7. \A i \in 1 .. N : i > 0 /\ h[i].own = n => Ticks(h[i]) \cap TicksOf(CutOut(n, r)) = {}
    BY <1>1, <2>3 DEF QueueClear
  <2>8. CutOut(n, book) = CutOut(n, r) \union Left(n, h, 0)
    <3>1. OfOutage(n, HeldIn(book)) = Left(n, h, 0)
      <4>1. \A j \in 1 .. N : j > 0
        OBVIOUS
      <4>2. QED BY <4>1 DEF OfOutage, HeldIn, InQueue, Left
    <3>2. QED BY <2>3, <3>1 DEF CutOut, OfOutage
  <2>9. TicksOf(CutOut(n, r)) \cap TicksOf(Left(n, h, 0)) = {}
    BY <2>7 DEF TicksOf, Left
  <2> DEFINE A == TicksOf(CutOut(n, r))  G == TicksOf(Gaps(CutOut(n, r)))
             L == TicksOf(Left(n, h, 0))  M == TicksOf(Gaps(Left(n, h, 0)))
  <2>10. IsFiniteSet(A) /\ IsFiniteSet(G) /\ IsFiniteSet(L) /\ IsFiniteSet(M) /\ G \subseteq A /\ M \subseteq L
    <3>1. IsFiniteSet(A) /\ IsFiniteSet(G)
      BY <2>6, CutOutIs
    <3>2. IsFiniteSet(L)
      BY <1>1, <1>5
    <3>3. G \subseteq A /\ M \in SUBSET L
      BY DEF TicksOf, Gaps
    <3>4. QED BY <3>1, <3>2, <3>3, FS_Subset
  <2>11. TicksOf(CutOut(n, book)) = A \union L /\ TicksOf(Gaps(CutOut(n, book))) = G \union M
    BY <2>8 DEF TicksOf, Gaps
  <2>12. X(0) = Cardinality(L) /\ Y(0) = Cardinality(M) /\ A \cap L = {}
    BY <2>9
  <2> HIDE DEF A, G, L, M, X, Y
  <2>13. Cardinality(A \union L) = Cardinality(A) + X(0) /\ Cardinality(G \union M) = Cardinality(G) + Y(0)
    <3>1. G \cap M = {}
      BY <2>10, <2>12
    <3>2. QED BY <2>10, <2>12, <3>1, ApartAdd
  <2>14. Cardinality(A) \in Nat /\ Cardinality(G) \in Nat /\ X(0) \in Nat /\ Y(0) \in Nat
    BY <2>10, <2>12, FS_CardinalityType
  <2>15. /\ r.pausedGap = book.pausedGap /\ r.slept = book.slept /\ r.slices = book.slices
         /\ Folded(r, last) = Folded(book, last)
    BY <2>1, <2>2 DEF SameSums, SameFold, Folded
  <2>16. Tallies(n, r, last, X(0), Y(0))
    <3> DEFINE o == book.pausedGap  e == o + Folded(book, last) + book.slept
               u == o + Bigger(Folded(book, last), 0)  k == TPS * book.slices
    <3>1. /\ Cardinality(A) + X(0) + 0 <= e /\ Cardinality(G) + Y(0) + 0 <= o
          /\ u <= Cardinality(A) + X(0) + 0 + k
      BY <2>11, <2>13 DEF Tallies
    <3>2. Cardinality(A) + X(0) + 0 = Cardinality(A) + X(0) /\ Cardinality(G) + Y(0) + 0 = Cardinality(G) + Y(0)
      BY <2>14
    <3> HIDE DEF o, e, u, k
    <3>3. Cardinality(A) + X(0) <= e /\ Cardinality(G) + Y(0) <= o /\ u <= Cardinality(A) + X(0) + k
      BY <3>1, <3>2
    <3>4. QED BY <2>15, <3>3 DEF Tallies, A, G, o, e, u, k
  <2>17. QED BY <2>1, <2>6, <2>7, <2>16 DEF r
<1>8. ASSUME NEW k \in 0 .. N - 1, Kept1(k) PROVE Kept1(k + 1)
  <2> DEFINE p == h[k + 1]  b == f[k]  r == f[k + 1]
  <2>1. /\ p \in Spans /\ p \in HeldIn(book) /\ r = Flush(b, p, lands) /\ k + 1 \in 1 .. N /\ k + 1 \in 0 .. N /\ k + 1 > k
        /\ k \in Nat
    BY <1>1, <1>3
  <2>2. Within(n, b, last) /\ b.gen = book.gen /\ Tallies(n, b, last, X(k), Y(k))
    BY <1>8
  <2>3. Placed(n, b.gen, p)
    BY <1>1, <2>1, <2>2 DEF BookFits
  <2>4. Apart1(n, b, last, p)
    <3>1. p.own = n => Stretch(p, last)
      BY <1>1, <2>1
    <3>2. p.own = n => Ticks(p) \cap TicksOf(CutOut(n, b)) = {}
      BY <1>8, <2>1
    <3>3. QED BY <3>1, <3>2 DEF Apart1
  <2>5. \A i \in 1 .. N : i > k + 1 /\ h[i].own = n => Ticks(h[i]) \cap TicksOf(CutOut(n, b)) = {}
    BY <1>8, <2>1
  <2>6. X(k) = X(k + 1) + TicksFor(n, p) /\ Y(k) = Y(k + 1) + GapFor(n, p) /\ X(k + 1) \in Nat /\ Y(k + 1) \in Nat
    BY <1>5, <1>6, <2>1
  <2>7. \A i \in 1 .. N : i > k + 1 /\ h[i].own = n /\ p.own = n => Ticks(h[i]) \cap Ticks(p) = {}
    <3>1. ASSUME NEW i \in 1 .. N, i > k + 1, h[i].own = n, p.own = n PROVE Ticks(h[i]) \cap Ticks(p) = {}
      <4>1. i # k + 1
        BY <2>1, <3>1
      <4>2. QED BY <1>1, <2>1, <3>1, <4>1 DEF Apart
    <3>2. QED BY <3>1
  <2> HIDE DEF p, b, r, X, Y
  <2>8. /\ Within(n, r, last) /\ r.gen = b.gen
        /\ CutOut(n, r) \subseteq (IF p.own = n THEN CutOut(n, b) \union {p} ELSE CutOut(n, b))
    BY <2>1, <2>2, <2>3, <2>4, FlushWithin
  <2>9. Tallies(n, b, last, X(k + 1) + TicksFor(n, p), Y(k + 1) + GapFor(n, p))
    BY <2>2, <2>6
  <2>10. Tallies(n, r, last, X(k + 1), Y(k + 1))
    BY <2>1, <2>2, <2>3, <2>4, <2>6, <2>9, FlushTallied
  <2>11. \A i \in 1 .. N : i > k + 1 /\ h[i].own = n => Ticks(h[i]) \cap TicksOf(CutOut(n, r)) = {}
    <3>1. ASSUME NEW i \in 1 .. N, i > k + 1, h[i].own = n, NEW q \in CutOut(n, r) PROVE Ticks(h[i]) \cap Ticks(q) = {}
      <4>1. q \in CutOut(n, b) \/ (p.own = n /\ q = p)
        BY <2>8
      <4>2. Ticks(h[i]) \cap TicksOf(CutOut(n, b)) = {}
        BY <2>5, <3>1
      <4>3. QED BY <2>7, <3>1, <4>1, <4>2 DEF TicksOf
    <3>2. QED BY <3>1 DEF TicksOf
  <2>12. QED BY <2>2, <2>8, <2>10, <2>11 DEF r
<1> HIDE DEF Kept1
<1>9. 0 \in S /\ \A k \in 0 .. N - 1 : k \in S => k + 1 \in S
  <2>1. 0 \in 0 .. N /\ \A k \in 0 .. N - 1 : k + 1 \in 0 .. N
    BY <1>1
  <2>2. QED BY <1>7, <1>8, <2>1
<1>10. N \in S
  <2> HIDE DEF N, S
  <2>1. 0 .. N \subseteq S
    BY <1>1, <1>9, Counting
  <2>2. QED BY <1>1, <2>1
<1>11. Left(n, h, N) = {}
  <2>1. \A j \in 1 .. N : ~(j > N)
    BY <1>1
  <2>2. QED BY <2>1 DEF Left
<1>12. X(N) = 0 /\ Y(N) = 0
  <2>1. TicksOf(Left(n, h, N)) = {} /\ TicksOf(Gaps(Left(n, h, N))) = {}
    BY <1>11 DEF TicksOf, Gaps
  <2>2. QED BY <2>1, FS_EmptySet
<1>13. Within(n, f[N], last) /\ f[N].gen = book.gen /\ Tallies(n, f[N], last, 0, 0)
  BY <1>10, <1>12 DEF Kept1
<1>14. QED BY <1>2, <1>13

\* Every span a book knows of.
Every(b) == Settled(b) \union HeldIn(b)

\* An operation brings no spans but those measured now.
Adds(b, r) == r \in Books /\ r.gen = b.gen /\ \A p \in Every(r) : p \in Every(b) \/ Ours(p)

\* One operation after another.
LEMMA AddsTwice ==
    ASSUME NEW a, NEW b, NEW c, Adds(a, b), Adds(b, c)
    PROVE  Adds(a, c)
BY DEF Adds

\* One that leaves the spans alone.
LEMMA AddsSame ==
    ASSUME NEW b, NEW r \in Books, r.gen = b.gen, r.held = b.held, r.rows = b.rows, r.kept = b.kept, r.gone = b.gone
    PROVE  Adds(b, r)
BY DEF Adds, Every, Settled, HeldIn

\* A flush adds its span at most.
LEMMA FlushEvery ==
    ASSUME NEW b \in Books, NEW p \in Spans, NEW lands
    PROVE  Every(Flush(b, p, lands)) \subseteq Every(b) \union {p}
<1> DEFINE r == Flush(b, p, lands)
<1>1. \/ Settles(b, p, r) \/ Waits(b, p, r) \/ TakenBack(b, p, r)
      \/ Reverted(b, p, r) /\ Settled(r) = Settled(b) /\ r.held = b.held /\ ~p.pause
  BY FlushWays
<1>2. HeldIn(r) = HeldIn(b) \/ (HeldIn(r) = HeldIn(b) \union {p})
  <2>1. b.held \in Seq(Spans)
    BY DEF Books
  <2>2. InQueue(Append(b.held, p)) = InQueue(b.held) \union {p}
    BY <2>1, InQueueIs
  <2> HIDE DEF r
  <2>3. QED BY <1>1, <2>2 DEF HeldIn, Settles, Waits, TakenBack
<1> HIDE DEF r
<1>3. Settled(r) \subseteq Settled(b) \union {p}
  BY <1>1 DEF Settles, Waits, TakenBack
<1>4. QED BY <1>2, <1>3 DEF Every, r

\* And the oldest that is dropped was there.
LEMMA EvictEvery ==
    ASSUME NEW b \in Books
    PROVE  Every(Evict(b)) \subseteq Every(b)
<1> DEFINE r == Evict(b)  p == Head(b.held)
<1>1. \/ r = b
      \/ /\ b.held # <<>> /\ r.held = Tail(b.held)
         /\ Settled(r) = Settled(b) \union (IF p.pause THEN {p} ELSE {})
  BY EvictWays
<1>2. b.held \in Seq(Spans)
  BY DEF Books
<1>3. b.held # <<>> => InQueue(b.held) = InQueue(Tail(b.held)) \union {p}
  BY <1>2, InQueueIs
<1> HIDE DEF r, p
<1>4. QED BY <1>1, <1>3 DEF Every, HeldIn, r

\* A span that was just measured.
LEMMA OfferAdds ==
    ASSUME NEW b \in Books, NEW p \in Spans, Ours(p), NEW lands
    PROVE  Adds(b, Offer(b, p, lands))
<1> DEFINE f == Flush(b, p, lands)
<1>1. f \in Books /\ f.gen = b.gen /\ Every(f) \subseteq Every(b) \union {p}
  BY FlushIs, FlushEvery
<1> HIDE DEF f
<1>2. Evict(f) \in Books /\ Evict(f).gen = f.gen /\ Every(Evict(f)) \subseteq Every(f)
  BY <1>1, EvictIs, EvictEvery
<1>3. QED BY <1>1, <1>2 DEF Adds, Offer, f

\* The retry.
LEMMA RetryAdds ==
    ASSUME book \in Books, NEW lands
    PROVE  Adds(book, RetryHeldGaps(lands))
<1>1. book.held \in Seq(Spans)
  BY DEF Books
<1>2. PICK f : Replay(f, lands) /\ RetryHeldGaps(lands) = f[Len(book.held)]
  BY <1>1, RetryIs
<1> DEFINE N == Len(book.held)  Fine(r) == r \in Books /\ r.gen = book.gen /\ Every(r) \subseteq Every(book)
           S == {k \in 0 .. N : Fine(f[k])}
<1>3. /\ f[0] = [book EXCEPT !.held = <<>>] /\ N \in Nat
      /\ \A k \in 0 .. N - 1 :
           /\ k + 1 \in 1 .. N /\ book.held[k + 1] \in Spans /\ book.held[k + 1] \in HeldIn(book)
           /\ f[k + 1] = Flush(f[k], book.held[k + 1], lands)
  BY <1>1, <1>2, ReplayStep
<1>4. 0 \in S
  <2>1. f[0] \in Books /\ f[0].gen = book.gen /\ HeldIn(f[0]) = {}
    BY <1>3, Emptied
  <2>2. f[0].rows = book.rows /\ f[0].kept = book.kept /\ f[0].gone = book.gone
    BY <1>3 DEF Books
  <2>3. Fine(f[0])
    BY <2>1, <2>2 DEF Every, Settled
  <2>4. 0 \in 0 .. N
    BY <1>3
  <2>5. QED BY <2>3, <2>4
<1>5. ASSUME NEW k \in 0 .. N - 1, k \in S PROVE k + 1 \in S
  <2> DEFINE p == book.held[k + 1]  b == f[k]
  <2>1. Fine(b) /\ p \in Spans /\ p \in HeldIn(book) /\ f[k + 1] = Flush(b, p, lands)
    BY <1>3, <1>5
  <2> HIDE DEF p, b
  <2>2. Flush(b, p, lands) \in Books /\ Flush(b, p, lands).gen = b.gen /\ Every(Flush(b, p, lands)) \subseteq Every(b) \union {p}
    BY <2>1, FlushIs, FlushEvery
  <2>3. p \in Every(book)
    BY <2>1 DEF Every
  <2>4. Fine(Flush(b, p, lands))
    BY <2>1, <2>2, <2>3
  <2>5. k + 1 \in 0 .. N
    BY <1>3
  <2>6. QED BY <2>1, <2>4, <2>5
<1> HIDE DEF S
<1>6. 0 .. N \subseteq S
  <2> HIDE DEF N
  <2>1. QED BY <1>3, <1>4, <1>5, Counting
<1>7. QED BY <1>2, <1>3, <1>6 DEF S, Adds

\* The head of an iteration.
LEMMA WokenAdds ==
    ASSUME OcShape, NEW lands
    PROVE  Adds(book, Woken(lands))
<1> DEFINE b == RetryHeldGaps(lands)  gap == UnobservedGap
           deduct == IF online THEN 0 ELSE UnobservedInOutage(gap)
           frozen == IF online THEN 0 ELSE gap * TPS - deduct
           a == [b EXCEPT !.pausedGap = @ + deduct, !.frozenGap = @ + frozen]
           p == Span(check, gap, deduct, frozen, FALSE)
<1>1. book \in Books /\ check \in Times
  BY DEF OcShape
<1>2. Adds(book, b)
  BY <1>1, RetryAdds
<1>3. gap \in Int /\ deduct \in Int /\ frozen \in Int
  <2>1. gap \in Nat /\ TPS \in Nat /\ mono - check.m \in Int
    BY GapIs, ClockAssumption DEF OcShape, Times
  <2> HIDE DEF gap
  <2>2. gap * TPS \in Int
    BY <2>1
  <2>3. UnobservedInOutage(gap) \in Int
    BY <2>1, <2>2 DEF UnobservedInOutage
  <2>4. QED BY <2>1, <2>2, <2>3
<1>4. Woken(lands) = b \/ Woken(lands) = Offer(a, p, lands)
  BY DEF Woken, BookUnobservedGap
<1> HIDE DEF b, gap, deduct, frozen
<1>5. p \in Spans /\ Ours(p)
  BY <1>1, <1>3, SpanIs, SpanOurs
<1>6. b \in Books
  BY <1>2 DEF Adds
<1>7. Adds(b, a)
  <2>1. a \in Books
    BY <1>3, <1>6, Added
  <2>2. a.gen = b.gen /\ a.held = b.held /\ a.rows = b.rows /\ a.kept = b.kept /\ a.gone = b.gone
    BY <1>6 DEF Books
  <2>3. QED BY <2>1, <2>2, AddsSame
<1> HIDE DEF a, p
<1>8. Adds(a, Offer(a, p, lands))
  BY <1>5, <1>7, OfferAdds DEF Adds
<1>9. QED BY <1>2, <1>4, <1>7, <1>8, AddsTwice

\* The pause that begins, its slices, and its fold.
LEMMA PauseAdds ==
    ASSUME OcShape, NEW b \in Books, NEW force, NEW lands
    PROVE  Adds(b, NotePause(b)) /\ Adds(b, NoteResume(b)) /\ Adds(b, FlushPause(b, force, lands))
<1>1. Adds(b, NotePause(b))
  <2>1. Kept(b, NotePause(b))
    BY NoteKept
  <2>2. LET r == NotePause(b) IN r.held = b.held /\ r.rows = b.rows /\ r.kept = b.kept /\ r.gone = b.gone
    BY DEF NotePause, Books
  <2>3. QED BY <2>1, <2>2, AddsSame DEF Kept
<1>2. Adds(b, NoteResume(b))
  <2>1. Kept(b, NoteResume(b))
    BY ResumeKept
  <2>2. LET r == NoteResume(b) IN r.held = b.held /\ r.rows = b.rows /\ r.kept = b.kept /\ r.gone = b.gone
    BY DEF NoteResume, Books
  <2>3. QED BY <2>1, <2>2, AddsSame DEF Kept
<1>3. Adds(b, FlushPause(b, force, lands))
  <2> DEFINE r == FlushPause(b, force, lands)
  <2>1. r \in Books /\ r.gen = b.gen
    BY FlushPauseKept DEF Kept
  <2>2. pauseAt \in Times /\ Sec(PauseSpan) \in Int /\ Sec(mono - pauseAt.m) \in Int /\ mono - pauseAt.m \in Int
        /\ TPS \in Nat /\ 0 \in Int
    <3>1. mono \in Nat /\ wall \in Nat /\ pauseAt.m \in Int /\ pauseAt.w \in Int /\ TPS \in Nat /\ pauseAt \in Times
      BY ClockAssumption DEF OcShape, Times
    <3>2. Sec(wall) \in Int /\ Sec(pauseAt.w) \in Int
      BY <3>1, SecIs
    <3>3. PauseSpan \in Int
      BY <3>1, <3>2 DEF PauseSpan, Bigger
    <3>4. QED BY <3>1, <3>3, SecIs
  <2>3. CASE Implausible
    <3> DEFINE p == Span(pauseAt, Sec(mono - pauseAt.m), 0, 0, TRUE)
    <3>1. r = [b EXCEPT !.gone = @ \union {p}, !.slices = @ + 1]
      BY <2>3 DEF FlushPause
    <3>2. Ours(p)
      BY SpanOurs
    <3> HIDE DEF p, r
    <3>3. r.held = b.held /\ r.rows = b.rows /\ r.kept = b.kept /\ r.gone = b.gone \union {p}
      BY <3>1 DEF Books
    <3>4. QED BY <2>1, <3>2, <3>3 DEF Adds, Every, Settled, HeldIn, r
  <2>4. CASE ~Implausible /\ WritesSlice(force)
    <3> DEFINE secs == Sec(PauseSpan)  credit == secs * TPS - (mono - pauseAt.m)
               a == [b EXCEPT !.frozenGap = IF online THEN @ ELSE @ + credit, !.slices = @ + 1]
               p == Span(pauseAt, secs, 0, 0, TRUE)
    <3>1. r = Offer(a, p, lands)
      BY <2>4 DEF FlushPause, BookPauseSpan
    <3>2. p \in Spans /\ Ours(p)
      BY <2>2, SpanIs, SpanOurs
    <3>3. credit \in Int
      <4>1. secs * TPS \in Int
        BY <2>2
      <4>2. QED BY <2>2, <4>1
    <3> HIDE DEF secs, credit, p
    <3>4. a \in Books /\ a.gen = b.gen /\ a.held = b.held /\ a.rows = b.rows /\ a.kept = b.kept /\ a.gone = b.gone
      <4> DEFINE g == IF online THEN b.frozenGap ELSE b.frozenGap + credit
      <4>1. g \in Int /\ b.slices + 1 \in Nat
        BY <3>3 DEF Books
      <4>2. a = [b EXCEPT !.frozenGap = g, !.slices = @ + 1]
        OBVIOUS
      <4> HIDE DEF g, a
      <4>3. QED BY <4>1, <4>2 DEF Books
    <3> HIDE DEF a, r
    <3>5. Adds(b, a)
      BY <3>4, AddsSame
    <3>6. Adds(a, Offer(a, p, lands))
      BY <3>2, <3>4, OfferAdds
    <3>7. QED BY <3>1, <3>5, <3>6, AddsTwice DEF r
  <2>5. CASE ~Implausible /\ ~WritesSlice(force)
    <3>1. r = b
      BY <2>5 DEF FlushPause
    <3>2. QED BY <2>1, <3>1, AddsSame
  <2>6. QED BY <2>3, <2>4, <2>5
<1>4. QED BY <1>1, <1>2, <1>3

\* An iteration.
LEMMA IterationAdds ==
    ASSUME OcShape, NEW lands
    PROVE  /\ Adds(book, ResumeEdge(lands)) /\ Adds(book, NotePause(Woken(lands)))
           /\ Adds(book, FlushPause(Woken(lands), FALSE, lands))
<1> DEFINE b == Woken(lands)
<1>1. Adds(book, b)
  BY WokenAdds
<1> HIDE DEF b
<1>2. b \in Books
  BY <1>1 DEF Adds
<1>3. Adds(book, NotePause(b))
  BY <1>1, <1>2, PauseAdds, AddsTwice
<1>4. ASSUME NEW force PROVE Adds(book, FlushPause(b, force, lands))
  BY <1>1, <1>2, PauseAdds, AddsTwice
<1>5. Adds(book, NoteResume(FlushPause(b, TRUE, lands)))
  <2> DEFINE f == FlushPause(b, TRUE, lands)
  <2>1. Adds(book, f)
    BY <1>4
  <2> HIDE DEF f
  <2>2. f \in Books
    BY <2>1 DEF Adds
  <2>3. Adds(f, NoteResume(f))
    BY <2>2, PauseAdds
  <2>4. Adds(book, NoteResume(f))
    BY <2>1, <2>3, AddsTwice
  <2>5. QED BY <2>4 DEF f
<1>6. QED BY <1>1, <1>3, <1>4, <1>5 DEF ResumeEdge, b

\* The book of an open outage, as far as it is watched.
Watched(b, last) == Within(flips, b, last) /\ Tallies(flips, b, last, 0, 0)

\* What lay in the outage lies in it later.
LEMMA WithinOn ==
    ASSUME since \in Int, NEW n, NEW b, NEW last \in Int, Within(n, b, last), NEW later \in Int, last <= later,
           NEW r, BookFits(n, r), Settled(r) = Settled(b), r.held = b.held
    PROVE  Within(n, r, later) /\ CutOut(n, r) = CutOut(n, b)
<1>1. HeldIn(r) = HeldIn(b) /\ CutOut(n, r) = CutOut(n, b)
  BY DEF HeldIn, CutOut
<1>2. \A p \in CutOut(n, b) : Stretch(p, last) /\ p.till \in Int
  BY CutOutIs DEF Within, Spans
<1>3. \A p \in CutOut(n, b) : Stretch(p, later)
  <2>1. ASSUME NEW p \in CutOut(n, b) PROVE Stretch(p, later)
    <3>1. Stretch(p, last) /\ p.till \in Int
      BY <1>2
    <3>2. p.till <= later
      BY <3>1 DEF Stretch
    <3>3. QED BY <3>1, <3>2 DEF Stretch
  <2>2. QED BY <2>1
<1>4. QED BY <1>1, <1>3 DEF Within, QueueClear

\* What begins where the rest ends stands for ticks of its own.
LEMMA BeginsApart ==
    ASSUME since \in Int, NEW n, NEW b, NEW last \in Int, Within(n, b, last), NEW later \in Int,
           NEW p \in Spans, p.from = last, Stretch(p, later)
    PROVE  Apart1(n, b, later, p)
<1>1. ASSUME NEW q \in CutOut(n, b) PROVE Ticks(p) \cap Ticks(q) = {}
  <2>1. q \in Spans /\ q.till <= last
    BY CutOutIs DEF Within, Stretch
  <2>2. q.till \in Int /\ q.from \in Int /\ p.till \in Int
    BY <2>1 DEF Spans
  <2>3. ASSUME NEW t \in Ticks(p), t \in Ticks(q) PROVE FALSE
    <3>1. t \in p.from .. p.till - 1 /\ t \in q.from .. q.till - 1
      BY <2>3 DEF Ticks
    <3>2. QED BY <2>1, <2>2, <3>1
  <2>4. QED BY <2>3
<1>2. QED BY <1>1 DEF Apart1, TicksOf

\* The gap check keeps the book watched, up to now if no pause is open.
LEMMA GapWatched ==
    ASSUME Accounting, since <= check.m, pauseAt = NoTime, NEW b, b.gen = book.gen, b.downPausedAt = NoTime,
           Watched(b, check.m), NEW lands
    PROVE  Watched(BookUnobservedGap(b, lands), mono)
<1> DEFINE r == BookUnobservedGap(b, lands)  gap == UnobservedGap
           deduct == UnobservedInOutage(gap)  frozen == gap * TPS - deduct
           a == [b EXCEPT !.pausedGap = @ + deduct, !.frozenGap = @ + frozen]
           p == Span(check, gap, deduct, frozen, FALSE)  n == flips
           C == Cardinality(TicksOf(CutOut(flips, b)))  G == Cardinality(TicksOf(Gaps(CutOut(flips, b))))
<1>1. /\ OcShape /\ ~online /\ b \in Books /\ BookFits(flips, b) /\ since \in Int
      /\ check \in Times /\ check.m \in Int /\ mono \in Nat /\ mono \in Int /\ check.m <= mono
      /\ b.pausedGap \in Int /\ b.slept \in Nat /\ b.slices \in Nat /\ TPS \in Nat \ {0}
  <2>1. OcShape /\ BookFits(flips, b) /\ b \in Books
    BY DEF Accounting, Watched, Within, BookFits
  <2>2. check \in Times /\ mono \in Nat /\ since \in Int
    BY <2>1 DEF OcShape
  <2>3. check.m <= mono
    BY <2>1, NowIs DEF Accounting, Read, Before
  <2>4. QED BY <2>1, <2>2, <2>3, ClockAssumption DEF Accounting, Times, Books
<1>2. Within(flips, b, check.m) /\ Tallies(flips, b, check.m, 0, 0)
  BY DEF Watched
<1>3. C \in Nat /\ G \in Nat
  BY <1>1, <1>2, CutOutIs
<1>4. Folded(b, check.m) = 0 /\ Folded(b, mono) = 0 /\ Bigger(0, 0) = 0
  BY DEF Folded, Bigger
<1>5. /\ G <= b.pausedGap /\ C <= b.pausedGap + b.slept /\ b.pausedGap <= C + TPS * b.slices /\ TPS * b.slices \in Nat
  <2>1. TPS * b.slices \in Nat
    BY <1>1
  <2>2. G + 0 <= b.pausedGap /\ C + 0 <= b.pausedGap + 0 + b.slept /\ b.pausedGap + 0 <= C + 0 + TPS * b.slices
    BY <1>2, <1>4 DEF Tallies
  <2> DEFINE k == TPS * b.slices
  <2> HIDE DEF C, G, k
  <2>3. QED BY <1>1, <1>3, <2>1, <2>2 DEF k
<1>6. CASE gap = 0
  <2>1. r = b
    BY <1>6 DEF BookUnobservedGap
  <2>2. Within(flips, b, mono)
    BY <1>1, <1>2, WithinOn
  <2>3. Tallies(flips, b, mono, 0, 0)
    BY <1>2, <1>4 DEF Tallies
  <2>4. QED BY <2>1, <2>2, <2>3 DEF Watched
<1>7. CASE gap # 0
  <2>1. gap \in Nat /\ gap > 0
    BY <1>1, <1>7, GapIs
  <2>2. deduct \in Nat /\ frozen \in Nat /\ deduct + frozen = gap * TPS /\ gap * TPS = TPS * gap
    BY <2>1, InOutageIs
  <2>3. r = Offer(a, p, lands)
    BY <1>1, <1>7 DEF BookUnobservedGap
  <2>4. deduct = IF mono - check.m <= gap * TPS THEN mono - check.m ELSE gap * TPS
    <3> DEFINE moved == mono - check.m  whole == gap * TPS
    <3>1. moved \in Nat /\ whole \in Nat
      BY <1>1, <2>1
    <3>2. deduct = IF moved <= 0 THEN 0 ELSE IF moved > whole THEN whole ELSE moved
      BY DEF UnobservedInOutage
    <3> HIDE DEF moved, whole, deduct
    <3>3. deduct = IF moved <= whole THEN moved ELSE whole
      BY <3>1, <3>2
    <3>4. QED BY <3>3 DEF moved, whole
  <2> HIDE DEF gap, deduct, frozen
  <2>5. /\ p \in Spans /\ p.start = check /\ p.secs = gap /\ p.deduct = deduct /\ p.frozen = frozen
        /\ ~p.pause /\ p.gen = book.gen /\ p.own = flips /\ p.from = check.m /\ p.till = mono
    <3>1. gap \in Int /\ deduct \in Int /\ frozen \in Int
      BY <2>1, <2>2
    <3>2. p \in Spans
      BY <1>1, <3>1, SpanIs
    <3>3. /\ p.start = check /\ p.secs = gap /\ p.deduct = deduct /\ p.frozen = frozen
          /\ ~p.pause /\ p.gen = book.gen /\ p.own = (IF online THEN 0 ELSE flips) /\ p.from = check.m /\ p.till = mono
      BY DEF Span
    <3>4. QED BY <1>1, <3>2, <3>3
  <2>6. /\ a \in Books /\ SameRows(b, a) /\ SameFold(b, a) /\ a.gen = b.gen
        /\ a.pausedGap = b.pausedGap + deduct /\ a.slept = b.slept /\ a.slices = b.slices
        /\ Settled(a) = Settled(b) /\ a.held = b.held
    <3>1. deduct \in Int /\ frozen \in Int /\ b \in Books
      BY <1>1, <2>2
    <3>2. a \in Books /\ SameRows(b, a) /\ SameFold(b, a) /\ a.gen = b.gen /\ a.pausedGap = b.pausedGap + deduct
      BY ONLY <3>1, Added
    <3>3. a.slept = b.slept /\ a.slices = b.slices /\ a.rows = b.rows /\ a.kept = b.kept /\ a.gone = b.gone /\ a.held = b.held
      BY <1>1 DEF Books
    <3> HIDE DEF a
    <3>4. QED BY <3>2, <3>3 DEF Settled
  <2> HIDE DEF p, a, r
  <2>7. SpanFits(p) /\ Placed(flips, a.gen, p)
    BY <2>1, <2>2, <2>5, <2>6 DEF SpanFits, Placed
  <2>8. BookFits(flips, a) /\ Folded(a, mono) = 0
    BY <1>1, <1>4, <2>6, SumsFit
  <2>9. Within(flips, a, check.m) /\ Within(flips, a, mono) /\ CutOut(flips, a) = CutOut(flips, b)
    <3>1. check.m <= check.m
      BY <1>1
    <3>2. QED BY <1>1, <1>2, <2>6, <2>8, <3>1, WithinOn
  <2>10. Cardinality(Ticks(p)) = deduct
    <3> DEFINE k == Cardinality(Ticks(p))  moved == mono - check.m  whole == gap * TPS
    <3>1. k \in Nat /\ k <= moved /\ k <= whole /\ (k = moved \/ k = whole)
      <4>1. p.from <= p.till /\ p.secs >= 0
        BY <1>1, <2>1, <2>5
      <4>2. QED BY <2>5, <4>1, TicksIs
    <3>2. moved \in Int /\ whole \in Int /\ deduct = IF moved <= whole THEN moved ELSE whole
      BY <1>1, <2>1, <2>4
    <3> HIDE DEF k, moved, whole
    <3>3. k = deduct
      BY <3>1, <3>2
    <3>4. QED BY <3>3 DEF k
  <2>11. Stretch(p, mono)
    <3>1. since <= p.from /\ p.from <= p.till /\ p.till <= mono /\ p.secs >= 0
      BY <1>1, <2>1, <2>5
    <3>2. QED BY <2>5, <2>10, <3>1 DEF Stretch
  <2>12. Apart1(flips, a, mono, p)
    BY <1>1, <2>5, <2>9, <2>11, BeginsApart
  <2>13. TicksFor(flips, p) = deduct /\ GapFor(flips, p) = deduct
    BY <2>5, <2>10 DEF TicksFor, GapFor
  <2>14. Tallies(flips, a, mono, deduct, deduct)
    <3>1. /\ G + deduct <= a.pausedGap /\ C + deduct <= a.pausedGap + 0 + a.slept
          /\ a.pausedGap + 0 <= C + deduct + TPS * a.slices
      <4> DEFINE k == TPS * b.slices
      <4>1. a.pausedGap = b.pausedGap + deduct /\ a.slept = b.slept /\ TPS * a.slices = k
        BY <2>6
      <4>2. k \in Nat /\ G <= b.pausedGap /\ C <= b.pausedGap + b.slept /\ b.pausedGap <= C + k
        BY <1>5
      <4> HIDE DEF C, G, k
      <4>3. QED BY <1>1, <1>3, <2>2, <4>1, <4>2
    <3>2. QED BY <1>4, <2>8, <2>9, <3>1 DEF Tallies
  <2>15. Tallies(flips, a, mono, TicksFor(flips, p), GapFor(flips, p))
    BY <2>13, <2>14
  <2>16. Within(flips, r, mono) /\ Tallies(flips, r, mono, 0, 0)
    BY <1>1, <2>3, <2>5, <2>7, <2>9, <2>12, <2>15, OfferTallied
  <2>17. QED BY <2>16 DEF Watched, r
<1>8. QED BY <1>6, <1>7

\* The head of an iteration.
LEMMA WokenWatched ==
    ASSUME Accounting, Booked(book, pauseAt, check), since <= check.m, NEW lands,
           Watched(book, IF pauseAt = NoTime THEN check.m ELSE pauseAt.m)
    PROVE  Watched(Woken(lands), IF pauseAt = NoTime THEN mono ELSE pauseAt.m)
<1> DEFINE b == RetryHeldGaps(lands)
<1>1. check.m \in Int /\ pauseAt.m \in Int /\ since \in Int /\ check \in Times /\ pauseAt \in Times
  BY DEF Accounting, OcShape, Times
<1>2. Watched(b, IF pauseAt = NoTime THEN check.m ELSE pauseAt.m) /\ b.gen = book.gen
  BY <1>1, RetryTallied DEF Watched
<1>3. pauseAt = NoTime <=> b.downPausedAt = NoTime
  <2>1. OcShape
    BY DEF Accounting
  <2>2. Booked(b, pauseAt, check)
    BY <1>1, <2>1, RetryBooked
  <2>3. QED BY <2>2 DEF Booked
<1> HIDE DEF b
<1>4. CASE pauseAt = NoTime
  BY <1>2, <1>3, <1>4, GapWatched DEF Woken, b
<1>5. CASE pauseAt # NoTime
  <2>1. Woken(lands) = b
    BY <1>5 DEF Woken, BookUnobservedGap, b
  <2>2. QED BY <1>2, <1>5, <2>1
<1>6. QED BY <1>4, <1>5

\* A pause that begins has nothing to fold yet.
LEMMA NoteWatched ==
    ASSUME Accounting, NEW b, b.gen = book.gen, Booked(b, NoTime, Now), Watched(b, mono)
    PROVE  Watched(NotePause(b), mono)
<1> DEFINE r == NotePause(b)
<1>1. /\ OcShape /\ ~online /\ b \in Books /\ since \in Int /\ mono \in Int /\ Now # NoTime /\ Now.m = mono
      /\ b.downPausedAt = NoTime
  <2>1. OcShape /\ ~online
    BY DEF Accounting
  <2>2. since \in Int /\ mono \in Int
    BY <2>1 DEF OcShape
  <2>3. Now # NoTime /\ Now.m = mono
    BY <2>1, NowIs
  <2>4. b.downPausedAt = NoTime /\ b \in Books
    BY DEF Booked, BookFits
  <2>5. QED BY <2>1, <2>2, <2>3, <2>4
<1>2. BookFits(flips, r)
  BY NoteBooked DEF Booked
<1>3. /\ r.pausedGap = b.pausedGap /\ r.slept = b.slept /\ r.slices = b.slices /\ r.downPausedAt = Now
      /\ r.rows = b.rows /\ r.held = b.held /\ r.kept = b.kept /\ r.gone = b.gone
  <2> DEFINE now == Now
  <2>1. r = [b EXCEPT !.downPausedAt = now, !.began = mono, !.pauses = @ + 1]
    BY <1>1 DEF NotePause
  <2> HIDE DEF now, r
  <2>2. /\ r.pausedGap = b.pausedGap /\ r.slept = b.slept /\ r.slices = b.slices /\ r.downPausedAt = now
        /\ r.rows = b.rows /\ r.held = b.held /\ r.kept = b.kept /\ r.gone = b.gone
    BY <1>1, <2>1 DEF Books
  <2>3. QED BY <2>2 DEF now
<1> HIDE DEF r
<1>4. Settled(r) = Settled(b)
  BY <1>3 DEF Settled
<1>5. Within(flips, r, mono) /\ CutOut(flips, r) = CutOut(flips, b)
  <2>1. mono <= mono
    BY <1>1
  <2>2. QED BY <1>1, <1>2, <1>3, <1>4, <2>1, WithinOn DEF Watched
<1>6. Folded(r, mono) = 0 /\ Folded(b, mono) = 0
  BY <1>1, <1>3 DEF Folded
<1>7. Tallies(flips, r, mono, 0, 0)
  BY <1>3, <1>5, <1>6 DEF Tallies, Watched
<1>8. QED BY <1>5, <1>7 DEF Watched, r

\* A slice is rounded by less than a second.
LEMMA SliceTallies ==
    ASSUME since \in Int, NEW n, NEW b, NEW last \in Int, Within(n, b, last), Tallies(n, b, last, 0, 0), NEW later \in Int,
           b.downPausedAt # NoTime, NEW a, a.pausedGap = b.pausedGap, a.slept = b.slept, a.slices = b.slices + 1,
           a.downPausedAt = b.downPausedAt, CutOut(n, a) = CutOut(n, b),
           NEW c \in Nat, c <= later - last, later - last <= c + TPS
    PROVE  Tallies(n, a, later, c, 0)
<1> DEFINE C == Cardinality(TicksOf(CutOut(n, b)))  G == Cardinality(TicksOf(Gaps(CutOut(n, b))))
           f == Folded(b, last)  g == Folded(a, later)  k == TPS * b.slices  l == TPS * a.slices
<1>1. b \in Books /\ C \in Nat /\ G \in Nat
  BY CutOutIs
<1>2. b.pausedGap \in Int /\ b.slept \in Nat /\ b.slices \in Nat /\ b.downPausedAt.m \in Int /\ TPS \in Nat
  BY <1>1, ClockAssumption DEF Books, Times
<1>3. f = last - b.downPausedAt.m /\ g = later - b.downPausedAt.m
  BY DEF Folded
<1>4. f \in Int /\ g \in Int /\ g = f + (later - last)
  BY <1>2, <1>3
<1>5. k \in Nat /\ l = k + TPS
  <2> DEFINE x == b.slices
  <2>1. x \in Nat /\ TPS \in Nat /\ k = TPS * x /\ l = TPS * (x + 1)
    BY <1>2
  <2> HIDE DEF x, k, l
  <2>2. TPS * (x + 1) = TPS * x + TPS /\ TPS * x \in Nat
    BY ONLY <2>1
  <2>3. QED BY ONLY <2>1, <2>2
<1>6. G + 0 <= b.pausedGap /\ C + 0 <= b.pausedGap + f + b.slept /\ b.pausedGap + Bigger(f, 0) <= C + 0 + k
  BY DEF Tallies
<1> HIDE DEF C, G, f, g, k, l
<1>7. Bigger(f, 0) \in Int /\ Bigger(g, 0) <= Bigger(f, 0) + (later - last) /\ Bigger(g, 0) \in Int
  BY <1>4 DEF Bigger
<1>8. G + 0 <= b.pausedGap /\ C + c <= b.pausedGap + g + b.slept /\ b.pausedGap + Bigger(g, 0) <= C + c + l
  BY <1>1, <1>2, <1>4, <1>5, <1>6, <1>7
<1>9. QED BY <1>8 DEF Tallies, C, G, g, l

\* A span that stays cut out has its ticks placed.
LEMMA SettledWatched ==
    ASSUME since \in Int, NEW last \in Int, NEW b, Within(flips, b, last), NEW p \in Spans, p.own = flips,
           Placed(flips, b.gen, p), Apart1(flips, b, last, p), Tallies(flips, b, last, TicksFor(flips, p), GapFor(flips, p)),
           NEW r \in Books, SameRows(b, r), SameFold(b, r), r.gen = b.gen, Settles(b, p, r)
    PROVE  Watched(r, last)
<1> DEFINE C == Cardinality(TicksOf(CutOut(flips, b)))  G == Cardinality(TicksOf(Gaps(CutOut(flips, b))))
           C2 == Cardinality(TicksOf(CutOut(flips, r)))  G2 == Cardinality(TicksOf(Gaps(CutOut(flips, r))))
           c == TicksFor(flips, p)  g == GapFor(flips, p)  k == TPS * b.slices  f == Folded(b, last)
<1>1. /\ b \in Books /\ C \in Nat /\ G \in Nat /\ \A i \in 1 .. Len(b.held) : b.held[i].own = flips => b.held[i] \in CutOut(flips, b)
      /\ CutOut(flips, b) \subseteq Spans
  BY CutOutIs
<1>2. Settled(r) = Settled(b) \union {p} /\ r.held = b.held /\ HeldIn(r) = HeldIn(b) /\ SameTally(b, r)
  BY DEF Settles, HeldIn
<1>3. CutOut(flips, r) = CutOut(flips, b) \union {p}
  <2>1. Settled(r) \union HeldIn(r) = (Settled(b) \union HeldIn(b)) \union {p}
    BY <1>2
  <2>2. QED BY <2>1, CutOutMore
<1>4. C2 = C + c /\ G2 = G + g
  BY <1>3, MoreCut
<1>5. Within(flips, r, last)
  <2>1. BookFits(flips, r)
    BY SumsFit DEF Within
  <2>2. Settled(r) \subseteq Spans /\ Apart(flips, r.held)
    BY <1>2 DEF Within
  <2>3. \A q \in CutOut(flips, r) : Stretch(q, last)
    BY <1>3 DEF Within, Apart1
  <2>4. QueueClear(flips, r)
    <3>1. ASSUME NEW i \in 1 .. Len(b.held), b.held[i].own = flips
          PROVE  Ticks(b.held[i]) \cap TicksOf(OfOutage(flips, Settled(r))) = {}
      <4>1. OfOutage(flips, Settled(r)) \subseteq OfOutage(flips, Settled(b)) \union {p}
        BY <1>2 DEF OfOutage
      <4>2. Ticks(b.held[i]) \cap TicksOf(OfOutage(flips, Settled(b))) = {}
        BY <3>1 DEF Within, QueueClear
      <4>3. Ticks(b.held[i]) \cap Ticks(p) = {}
        BY <1>1, <3>1 DEF Apart1, TicksOf
      <4>4. QED BY <4>1, <4>2, <4>3 DEF TicksOf
    <3>2. QED BY <1>2, <3>1 DEF QueueClear
  <2>5. QED BY <2>1, <2>2, <2>3, <2>4 DEF Within
<1>6. /\ G + g <= b.pausedGap /\ C + c <= b.pausedGap + f + b.slept
      /\ b.pausedGap + Bigger(f, 0) <= C + c + k
  BY DEF Tallies
<1>7. c \in Nat /\ g \in Nat
  BY ForNat DEF Apart1
<1>8. r.pausedGap = b.pausedGap /\ r.slept = b.slept /\ TPS * r.slices = k /\ Folded(r, last) = f
  BY <1>2 DEF SameTally, Folded
<1> HIDE DEF C, G, C2, G2, c, g, k, f
<1>9. C2 + 0 = C + c /\ G2 + 0 = G + g
  BY <1>1, <1>4, <1>7
<1>10. G2 + 0 <= b.pausedGap /\ C2 + 0 <= b.pausedGap + f + b.slept /\ b.pausedGap + Bigger(f, 0) <= C2 + 0 + k
  BY <1>6, <1>9
<1>11. Tallies(flips, r, last, 0, 0)
  BY <1>8, <1>10 DEF Tallies, C2, G2
<1>12. QED BY <1>5, <1>11 DEF Watched

\* flushPause keeps the book watched, up to where the pause is booked.
LEMMA PauseWatched ==
    ASSUME Accounting, Read(pauseAt), since <= pauseAt.m, NEW b, b.gen = book.gen, Booked(b, pauseAt, Now),
           Watched(b, pauseAt.m), NEW force \in BOOLEAN, NEW lands
    PROVE  Watched(FlushPause(b, force, lands), IF Implausible \/ WritesSlice(force) THEN mono ELSE pauseAt.m)
<1> DEFINE r == FlushPause(b, force, lands)  d == mono - pauseAt.m  n == flips
<1>1. /\ OcShape /\ ~online /\ b \in Books /\ BookFits(flips, b) /\ since \in Int /\ pauseAt \in Times
      /\ pauseAt.m \in Int /\ mono \in Int /\ TPS \in Nat \ {0} /\ b.downPausedAt # NoTime
  <2>1. OcShape /\ ~online /\ BookFits(flips, b) /\ b \in Books /\ (pauseAt = NoTime <=> b.downPausedAt = NoTime)
    BY DEF Accounting, Booked, BookFits
  <2>2. since \in Int /\ mono \in Int /\ pauseAt \in Times /\ pauseAt.m \in Int
    BY <2>1 DEF OcShape, Times
  <2>3. pauseAt # NoTime
    <3>1. pauseAt.m >= 0 /\ NoTime.m = -1
      BY <2>1, NowIs DEF Read
    <3> HIDE DEF NoTime
    <3>2. QED BY <2>2, <3>1
  <2>4. QED BY <2>1, <2>2, <2>3, ClockAssumption
<1>2. d \in Nat /\ PauseSpan \in Int /\ PauseSpan >= d /\ (PauseSpan > 0 => Sec(PauseSpan) \in Nat)
  <2>1. d \in Nat /\ PauseSpan \in Int /\ (PauseSpan > 0 => Sec(PauseSpan) \in Nat)
        /\ Sec(wall) \in Int /\ Sec(pauseAt.w) \in Int
    BY PauseIs
  <2>2. (Sec(wall) - Sec(pauseAt.w)) * TPS \in Int
    BY <1>1, <2>1
  <2>3. PauseSpan >= d
    <3> DEFINE x == (Sec(wall) - Sec(pauseAt.w)) * TPS
    <3>1. x \in Int /\ d \in Int /\ PauseSpan = Bigger(x, d)
      BY <2>1, <2>2 DEF PauseSpan
    <3> HIDE DEF x, d
    <3>2. QED BY <3>1, BiggerIs
  <2>4. QED BY <2>1, <2>3
<1>3. Within(flips, b, pauseAt.m) /\ Tallies(flips, b, pauseAt.m, 0, 0)
  BY DEF Watched
<1>4. pauseAt.m <= mono
  BY <1>1, <1>2
\* A slice of some seconds, and the book it is offered to.
<1>5. ASSUME NEW secs \in Nat, NEW a, a \in Books, a.gen = b.gen, SameRows(b, a), SameFold(b, a), Settled(a) = Settled(b),
             a.pausedGap = b.pausedGap, a.slept = b.slept, a.slices = b.slices + 1,
             d < secs * TPS + TPS
      PROVE  LET p == Span(pauseAt, secs, 0, 0, TRUE)
             IN /\ p \in Spans /\ p.pause /\ p.own = flips /\ Placed(flips, a.gen, p)
                /\ Within(flips, a, mono) /\ Apart1(flips, a, mono, p)
                /\ Tallies(flips, a, mono, TicksFor(flips, p), GapFor(flips, p))
  <2> DEFINE p == Span(pauseAt, secs, 0, 0, TRUE)  c == Cardinality(Ticks(p))
  <2>1. /\ p \in Spans /\ p.start = pauseAt /\ p.secs = secs /\ p.deduct = 0 /\ p.frozen = 0
        /\ p.pause /\ p.gen = book.gen /\ p.own = flips /\ p.from = pauseAt.m /\ p.till = mono
    <3>1. secs \in Int /\ 0 \in Int
      OBVIOUS
    <3>2. p \in Spans
      BY <1>1, <3>1, SpanIs
    <3>3. /\ p.start = pauseAt /\ p.secs = secs /\ p.deduct = 0 /\ p.frozen = 0
          /\ p.pause /\ p.gen = book.gen /\ p.own = (IF online THEN 0 ELSE flips) /\ p.from = pauseAt.m /\ p.till = mono
      BY DEF Span
    <3>4. QED BY <1>1, <3>2, <3>3
  <2> HIDE DEF p
  <2>2. Placed(flips, a.gen, p)
    BY <1>5, <2>1 DEF Placed, SpanFits
  <2>3. BookFits(flips, a) /\ a.held = b.held
    BY <1>1, <1>5, SumsFit DEF SameRows
  <2>4. /\ Within(flips, a, pauseAt.m) /\ Within(flips, a, mono) /\ CutOut(flips, a) = CutOut(flips, b)
    <3>1. pauseAt.m <= pauseAt.m
      BY <1>1
    <3>2. QED BY <1>1, <1>3, <1>4, <1>5, <2>3, <3>1, WithinOn
  <2>5. c \in Nat /\ c <= d /\ d <= c + TPS
    <3> DEFINE s == secs * TPS
    <3>1. c \in Nat /\ c <= d /\ (c = d \/ c = s)
      <4>1. p.from <= p.till /\ p.secs >= 0
        BY <1>4, <2>1
      <4>2. QED BY <2>1, <4>1, TicksIs
    <3>2. s \in Nat /\ d < s + TPS
      BY <1>1, <1>5
    <3> HIDE DEF c, s, d
    <3>3. QED BY <1>1, <1>2, <3>1, <3>2
  <2>6. Stretch(p, mono)
    <3>1. p.secs >= 0
      BY <2>1
    <3>2. QED BY <1>1, <1>4, <2>1, <3>1 DEF Stretch
  <2>7. Apart1(flips, a, mono, p)
    BY <1>1, <2>1, <2>4, <2>6, BeginsApart
  <2>8. TicksFor(flips, p) = c /\ GapFor(flips, p) = 0
    BY <2>1 DEF TicksFor, GapFor
  <2> HIDE DEF c
  <2>9. Tallies(flips, a, mono, c, 0)
    BY <1>1, <1>3, <1>5, <2>4, <2>5, SliceTallies DEF SameFold
  <2>10. QED BY <2>1, <2>2, <2>4, <2>7, <2>8, <2>9 DEF p
\* A span with an implausible end is given up, with all but its rounding.
<1>6. CASE Implausible
  <2> DEFINE secs == Sec(d)  a == [b EXCEPT !.slices = @ + 1]  p == Span(pauseAt, secs, 0, 0, TRUE)
  <2>1. r = [b EXCEPT !.gone = @ \union {p}, !.slices = @ + 1]
    BY <1>6 DEF FlushPause
  <2>2. secs \in Nat /\ d < secs * TPS + TPS
    <3>1. Sec(d) \in Int /\ d < TPS * Sec(d) + TPS /\ Sec(0) = 0 /\ Sec(0) <= Sec(d)
      <4>1. 0 * TPS = 0 /\ 0 <= d /\ d \in Int
        BY <1>1, <1>2
      <4>2. Sec(0) = 0
        BY <4>1, SecOfSeconds
      <4>3. QED BY <4>1, <4>2, SecIs, SecGrows
    <3> HIDE DEF d
    <3>2. QED BY <1>1, <3>1
  <2> HIDE DEF secs, r, d
  <2>3. /\ a \in Books /\ a.gen = b.gen /\ a.rows = b.rows /\ a.held = b.held /\ a.kept = b.kept /\ a.gone = b.gone
        /\ a.pausedGap = b.pausedGap /\ a.frozenGap = b.frozenGap /\ a.slept = b.slept /\ a.slices = b.slices + 1
        /\ a.downPausedAt = b.downPausedAt
    <3>1. b.slices + 1 \in Nat
      BY <1>1 DEF Books
    <3>2. QED BY <1>1, <3>1 DEF Books
  <2> HIDE DEF a
  <2>4. SameRows(b, a) /\ SameFold(b, a) /\ Settled(a) = Settled(b)
    BY <2>3 DEF SameRows, SameFold, Settled
  <2>5. /\ p \in Spans /\ p.pause /\ p.own = flips /\ Placed(flips, a.gen, p)
        /\ Within(flips, a, mono) /\ Apart1(flips, a, mono, p)
        /\ Tallies(flips, a, mono, TicksFor(flips, p), GapFor(flips, p))
    BY <1>5, <2>2, <2>3, <2>4
  <2> HIDE DEF p
  <2>6. /\ r \in Books /\ r.gen = a.gen /\ SameRows(a, r) /\ SameFold(a, r)
        /\ r.pausedGap = a.pausedGap /\ r.slept = a.slept /\ r.slices = a.slices
        /\ Settled(r) = Settled(a) \union {p} /\ r.held = a.held
    <3>1. /\ r.gen = b.gen /\ r.rows = b.rows /\ r.held = b.held /\ r.kept = b.kept /\ r.gone = b.gone \union {p}
          /\ r.pausedGap = b.pausedGap /\ r.slept = b.slept /\ r.slices = b.slices + 1
          /\ r.downPausedAt = b.downPausedAt
      BY <1>1, <2>1 DEF Books
    <3>2. r \in Books
      BY <1>1, <2>1, <2>5, GoneIs
    <3>3. QED BY <2>3, <3>1, <3>2 DEF SameRows, SameFold, Settled
  <2>7. Settles(a, p, r)
    BY <2>6 DEF Settles, SameTally, SameFold
  <2>8. Watched(r, mono)
    BY <1>1, <2>5, <2>6, <2>7, SettledWatched
  <2>9. QED BY <1>6, <2>8 DEF r
<1>7. CASE ~Implausible /\ WritesSlice(force)
  <2> DEFINE secs == Sec(PauseSpan)  credit == secs * TPS - d
             a == [b EXCEPT !.frozenGap = @ + credit, !.slices = @ + 1]  p == Span(pauseAt, secs, 0, 0, TRUE)
  <2>1. r = Offer(a, p, lands)
    BY <1>1, <1>7 DEF FlushPause, BookPauseSpan
  <2>2. secs \in Nat /\ d < secs * TPS + TPS
    <3>1. secs \in Nat
      BY <1>2, <1>7 DEF WritesSlice
    <3>2. PauseSpan < TPS * secs + TPS
      BY <1>2, SecIs
    <3> HIDE DEF secs, d
    <3>3. TPS * secs = secs * TPS /\ secs * TPS \in Int
      BY <1>1, <3>1
    <3> DEFINE y == secs * TPS
    <3>4. PauseSpan < y + TPS /\ y \in Int
      BY <3>2, <3>3
    <3> HIDE DEF y
    <3>5. d < y + TPS
      BY <1>1, <1>2, <3>4
    <3>6. QED BY <3>1, <3>5 DEF y
  <2>3. credit \in Int
    <3>1. secs * TPS \in Int /\ d \in Int
      BY <1>1, <1>2, <2>2
    <3>2. QED BY <3>1
  <2> HIDE DEF secs, credit, r, d
  <2>4. /\ a \in Books /\ SameRows(b, a) /\ SameFold(b, a) /\ a.gen = b.gen
    BY <1>1, <2>3, CreditedTo
  <2>5. /\ a.rows = b.rows /\ a.kept = b.kept /\ a.gone = b.gone
        /\ a.pausedGap = b.pausedGap /\ a.slept = b.slept /\ a.slices = b.slices + 1
    BY <1>1 DEF Books
  <2> HIDE DEF a
  <2>6. Settled(a) = Settled(b)
    BY <2>5 DEF Settled
  <2>7. /\ p \in Spans /\ p.pause /\ p.own = flips /\ Placed(flips, a.gen, p)
        /\ Within(flips, a, mono) /\ Apart1(flips, a, mono, p)
        /\ Tallies(flips, a, mono, TicksFor(flips, p), GapFor(flips, p))
    BY <1>5, <2>2, <2>4, <2>5, <2>6
  <2> HIDE DEF p
  <2>8. Within(flips, r, mono) /\ Tallies(flips, r, mono, 0, 0)
    BY <1>1, <2>1, <2>7, OfferTallied
  <2>9. QED BY <1>7, <2>8 DEF Watched, r
<1>8. CASE ~Implausible /\ ~WritesSlice(force)
  <2>1. r = b
    BY <1>8 DEF FlushPause
  <2>2. QED BY <1>8, <2>1
<1>9. QED BY <1>6, <1>7, <1>8

\* The fold of a pause that is over deducts what its slices stand for.
LEMMA ResumeWatched ==
    ASSUME Accounting, NEW at \in Times, Read(at), NEW b, b.gen = book.gen, Booked(b, at, Now), Watched(b, mono)
    PROVE  Watched(NoteResume(b), mono)
<1> DEFINE r == NoteResume(b)  f == Folded(b, mono)  e == Bigger(f, 0)
           C == Cardinality(TicksOf(CutOut(flips, b)))  G == Cardinality(TicksOf(Gaps(CutOut(flips, b))))
<1>1. /\ OcShape /\ b \in Books /\ since \in Int /\ mono \in Int /\ mono <= mono
      /\ b.downPausedAt # NoTime /\ b.downPausedAt.m \in Int /\ b.pausedGap \in Int /\ b.slept \in Nat /\ b.slices \in Nat
  <2>1. OcShape /\ b \in Books /\ (at = NoTime <=> b.downPausedAt = NoTime)
    BY DEF Accounting, Booked, BookFits
  <2>2. at # NoTime
    <3>1. at.m >= 0 /\ NoTime.m = -1
      BY <2>1, NowIs DEF Read
    <3>2. at.m \in Int
      BY DEF Times
    <3> HIDE DEF NoTime
    <3>3. QED BY <3>1, <3>2
  <2>3. since \in Int /\ mono \in Int /\ mono <= mono
    BY <2>1 DEF OcShape
  <2>4. QED BY <2>1, <2>2, <2>3 DEF Books, Times
<1>2. BookFits(flips, r)
  BY ResumeBooked DEF Booked
<1>3. /\ r.pausedGap = b.pausedGap + e /\ r.slept = b.slept /\ r.slices = b.slices /\ r.downPausedAt = NoTime
      /\ r.rows = b.rows /\ r.held = b.held /\ r.kept = b.kept /\ r.gone = b.gone
  <2> DEFINE now == NoTime  g == b.pausedGap + e
  <2>1. f = mono - b.downPausedAt.m
    BY <1>1 DEF Folded
  <2>2. r = [b EXCEPT !.pausedGap = g, !.downPausedAt = now, !.began = -1]
    BY <1>1, <2>1 DEF NoteResume
  <2> HIDE DEF now, g, r
  <2>3. /\ r.pausedGap = g /\ r.slept = b.slept /\ r.slices = b.slices /\ r.downPausedAt = now
        /\ r.rows = b.rows /\ r.held = b.held /\ r.kept = b.kept /\ r.gone = b.gone
    BY <1>1, <2>2 DEF Books
  <2>4. QED BY <2>3 DEF now, g
<1> HIDE DEF r
<1>4. Settled(r) = Settled(b)
  BY <1>3 DEF Settled
<1>5. Within(flips, b, mono) /\ Tallies(flips, b, mono, 0, 0)
  BY DEF Watched
<1>6. Within(flips, r, mono) /\ CutOut(flips, r) = CutOut(flips, b)
  BY <1>1, <1>2, <1>3, <1>4, <1>5, WithinOn
<1>7. f \in Int /\ e \in Int /\ e >= f /\ e >= 0 /\ Bigger(0, 0) = 0 /\ Folded(r, mono) = 0
  <2>1. f \in Int
    BY <1>1 DEF Folded
  <2>2. Folded(r, mono) = 0
    BY <1>3 DEF Folded
  <2> HIDE DEF f
  <2>3. e \in Int /\ e >= f /\ e >= 0 /\ Bigger(0, 0) = 0
    BY <2>1 DEF Bigger
  <2>4. QED BY <2>1, <2>2, <2>3
<1>8. C \in Nat /\ G \in Nat
  BY <1>1, <1>5, CutOutIs
<1>9. /\ G + 0 <= b.pausedGap /\ C + 0 <= b.pausedGap + f + b.slept
      /\ b.pausedGap + e <= C + 0 + TPS * b.slices
  BY <1>5 DEF Tallies
<1>10. TPS * b.slices \in Nat
  BY <1>1, ClockAssumption
<1> DEFINE k == TPS * b.slices
<1>11. /\ G + 0 <= b.pausedGap + e /\ C + 0 <= b.pausedGap + e + 0 + b.slept
       /\ b.pausedGap + e + 0 <= C + 0 + k
  <2> HIDE DEF C, G, e, f, k
  <2>1. k \in Nat /\ b.pausedGap + e <= C + 0 + k
    BY <1>9, <1>10 DEF k
  <2>2. QED BY <1>1, <1>7, <1>8, <1>9, <2>1
<1>12. Tallies(flips, r, mono, 0, 0)
  BY <1>3, <1>6, <1>7, <1>11 DEF Tallies
<1>13. QED BY <1>6, <1>12 DEF Watched, r

\* An iteration that finds the gate shut leaves the outage watched.
LEMMA PausedWatched ==
    ASSUME Accounting, Booked(book, pauseAt, check), since <= check.m, pauseAt # NoTime => since <= pauseAt.m,
           Watched(book, IF pauseAt = NoTime THEN check.m ELSE pauseAt.m), NEW lands
    PROVE  /\ pauseAt = NoTime => Watched(NotePause(Woken(lands)), mono)
           /\ pauseAt # NoTime => Watched(FlushPause(Woken(lands), FALSE, lands), Reanchored.m)
<1> DEFINE b == Woken(lands)
<1>1. Booked(b, pauseAt, Now) /\ b.gen = book.gen
  BY WokenBooked
<1>2. Watched(b, IF pauseAt = NoTime THEN mono ELSE pauseAt.m)
  BY WokenWatched
<1>3. Now.m = mono
  BY NowIs DEF Accounting
<1> HIDE DEF b
<1>4. CASE pauseAt = NoTime
  BY <1>1, <1>2, <1>4, NoteWatched DEF b
<1>5. CASE pauseAt # NoTime
  <2>1. Read(pauseAt) /\ FALSE \in BOOLEAN
    BY <1>5 DEF Accounting
  <2>2. Watched(FlushPause(b, FALSE, lands), IF Implausible \/ WritesSlice(FALSE) THEN mono ELSE pauseAt.m)
    BY <1>1, <1>2, <1>5, <2>1, PauseWatched
  <2>3. QED BY <1>3, <1>5, <2>2 DEF Reanchored, b
<1>6. QED BY <1>4, <1>5

\* And so does the resume edge, whose last slice is written unless no time passed.
LEMMA ResumeEdgeWatched ==
    ASSUME Accounting, Booked(book, pauseAt, check), since <= check.m, pauseAt # NoTime => since <= pauseAt.m,
           Watched(book, IF pauseAt = NoTime THEN check.m ELSE pauseAt.m), NEW lands
    PROVE  Watched(ResumeEdge(lands), mono)
<1> DEFINE b == Woken(lands)
<1>1. Booked(b, pauseAt, Now) /\ b.gen = book.gen
  BY WokenBooked
<1>2. Watched(b, IF pauseAt = NoTime THEN mono ELSE pauseAt.m)
  BY WokenWatched
<1> HIDE DEF b
<1>3. CASE pauseAt = NoTime
  BY <1>2, <1>3 DEF ResumeEdge, b
<1>4. CASE pauseAt # NoTime
  <2> DEFINE at == IF Implausible \/ WritesSlice(TRUE) THEN Now ELSE pauseAt
             f == FlushPause(b, TRUE, lands)
  <2>1. Read(pauseAt) /\ TRUE \in BOOLEAN
    BY <1>4 DEF Accounting
  <2>2. f.gen = book.gen /\ Booked(f, at, Now)
    BY <1>1, <2>1, PauseBooked
  <2>3. Read(at) /\ at \in Times
    <3>1. Read(Now) /\ Now \in Times /\ pauseAt \in Times
      BY ReadNow, NowIs DEF Accounting, OcShape
    <3>2. QED BY <2>1, <3>1
  <2>4. Watched(f, IF Implausible \/ WritesSlice(TRUE) THEN mono ELSE pauseAt.m)
    BY <1>1, <1>2, <1>4, <2>1, PauseWatched
  <2>5. ~(Implausible \/ WritesSlice(TRUE)) => pauseAt.m = mono
    <3> SUFFICES ASSUME ~(Implausible \/ WritesSlice(TRUE)) PROVE pauseAt.m = mono
      OBVIOUS
    <3>1. ~(PauseSpan > 0)
      BY DEF WritesSlice
    <3>2. PauseSpan \in Int /\ mono - pauseAt.m \in Nat /\ Sec(wall) \in Int /\ Sec(pauseAt.w) \in Int /\ pauseAt.m \in Int
      BY <2>1, PauseIs
    <3> DEFINE x == (Sec(wall) - Sec(pauseAt.w)) * TPS  d == mono - pauseAt.m
    <3>3. x \in Int /\ d \in Int /\ PauseSpan = Bigger(x, d)
      BY <3>2, ClockAssumption DEF PauseSpan
    <3>4. d \in Nat /\ mono \in Int
      BY <3>2 DEF Accounting, OcShape
    <3> HIDE DEF x
    <3>5. PauseSpan >= d
      <4> HIDE DEF d
      <4>1. QED BY <3>3, BiggerIs
    <3>6. QED BY <3>1, <3>2, <3>4, <3>5
  <2> HIDE DEF at, f
  <2>6. Watched(f, mono)
    BY <2>4, <2>5
  <2>7. Watched(NoteResume(f), mono)
    BY <2>2, <2>3, <2>6, ResumeWatched
  <2>8. QED BY <1>4, <2>7 DEF ResumeEdge, f, b
<1>5. QED BY <1>3, <1>4

\* An outage is watched while it is open, and no span is of a later one.
WatchInv ==
    /\ \A p \in Every(book) : p.own <= flips
    /\ ~online => /\ pauseAt # NoTime => since <= pauseAt.m
                  /\ Watched(book, IF pauseAt = NoTime THEN check.m ELSE pauseAt.m)

\* A step that leaves the transitions alone.
LEMMA WatchOn ==
    ASSUME OcInv, WatchInv, Adds(book, book'), UNCHANGED <<flips, since, online>>,
           ~online => /\ pauseAt' # NoTime => since <= pauseAt'.m
                      /\ Watched(book', IF pauseAt' = NoTime THEN check'.m ELSE pauseAt'.m)
    PROVE  WatchInv'
<1>1. \A p \in Every(book)' : p.own <= flips'
  <2>1. Every(book') = Every(book)' /\ flips \in Nat
    BY DEF Every, Settled, HeldIn, InQueue, OcInv, OcShape
  <2>2. \A p \in Every(book') : p \in Every(book) \/ Ours(p)
    BY DEF Adds
  <2>3. \A p \in Every(book') : p.own <= flips
    BY <2>1, <2>2 DEF WatchInv, Ours
  <2>4. QED BY <2>1, <2>3
<1>2. ASSUME ~online PROVE Watched(book, IF pauseAt = NoTime THEN check.m ELSE pauseAt.m)'
  <2>1. Watched(book', IF pauseAt' = NoTime THEN check'.m ELSE pauseAt'.m)
    BY <1>2
  <2>2. QED BY <2>1 DEF Watched, Within, Stretch
<1>3. QED BY <1>1, <1>2 DEF WatchInv

\* An iteration keeps it.
LEMMA IterationWatch ==
    ASSUME OcInv, WatchInv, NEW lands, Paused(lands) \/ Probing(lands)
    PROVE  WatchInv'
<1>1. OcShape /\ UNCHANGED <<flips, since, online>> /\ check' = Now
  BY DEF OcInv, Paused, Probing
<1>2. Adds(book, book')
  BY <1>1, IterationAdds DEF Paused, Probing
<1>3. Now.m = mono /\ Now # NoTime /\ mono \in Int /\ since \in Int
  BY <1>1, NowIs DEF OcShape
<1>4. ASSUME ~online
      PROVE  /\ pauseAt' # NoTime => since <= pauseAt'.m
             /\ Watched(book', IF pauseAt' = NoTime THEN check'.m ELSE pauseAt'.m)
  <2>1. /\ Accounting /\ Booked(book, pauseAt, check) /\ (pauseAt # NoTime => since <= pauseAt.m)
        /\ Watched(book, IF pauseAt = NoTime THEN check.m ELSE pauseAt.m)
    BY <1>4, InvAccounting DEF WatchInv
  <2>2. since <= check.m /\ since <= mono
    <3>1. since <= check.m
      BY <1>4 DEF OcInv, OutageOpen
    <3>2. check.m <= mono /\ check.m \in Int
      BY <1>4, InvAccounting DEF Times
    <3>3. QED BY <1>3, <3>1, <3>2
  <2>3. CASE Probing(lands)
    <3>1. book' = ResumeEdge(lands) /\ pauseAt' = NoTime
      BY <2>3 DEF Probing
    <3>2. Watched(ResumeEdge(lands), mono)
      BY <2>1, <2>2, ResumeEdgeWatched
    <3>3. QED BY <1>1, <1>3, <3>1, <3>2
  <2>4. CASE Paused(lands) /\ pauseAt = NoTime
    <3>1. book' = NotePause(Woken(lands)) /\ pauseAt' = Now
      BY <2>4 DEF Paused
    <3>2. Watched(NotePause(Woken(lands)), mono)
      BY <2>1, <2>2, <2>4, PausedWatched
    <3>3. QED BY <1>3, <2>2, <3>1, <3>2
  <2>5. CASE Paused(lands) /\ pauseAt # NoTime
    <3>1. book' = FlushPause(Woken(lands), FALSE, lands) /\ pauseAt' = Reanchored
      BY <2>5 DEF Paused
    <3>2. Watched(FlushPause(Woken(lands), FALSE, lands), Reanchored.m)
      BY <2>1, <2>2, <2>5, PausedWatched
    <3>3. Reanchored \in {Now, pauseAt}
      BY DEF Reanchored
    <3>4. Reanchored # NoTime /\ since <= Reanchored.m
      BY <1>3, <2>1, <2>2, <2>5, <3>3
    <3>5. QED BY <3>1, <3>2, <3>4
  <2>6. QED BY <2>3, <2>4, <2>5
<1>5. QED BY <1>1, <1>2, <1>4, WatchOn

\* What leaves the book, the pause and the link alone keeps it.
LEMMA IdleWatch ==
    ASSUME OcInv, WatchInv, UNCHANGED <<flips, since, online, book, pauseAt>>, ~online => check' = check
    PROVE  WatchInv'
<1>1. book \in Books
  BY DEF OcInv, OcShape
<1>2. Adds(book, book')
  BY <1>1 DEF Adds
<1>3. ~online => /\ pauseAt' # NoTime => since <= pauseAt'.m
                 /\ Watched(book', IF pauseAt' = NoTime THEN check'.m ELSE pauseAt'.m)
  BY DEF WatchInv
<1>4. QED BY <1>2, <1>3, WatchOn

\* The spans of a book are spans.
LEMMA EveryIs == ASSUME NEW b \in Books PROVE Every(b) \subseteq Spans
<1>1. b.held \in Seq(Spans) /\ b.rows \subseteq Spans /\ b.kept \subseteq Spans /\ b.gone \subseteq Spans
  BY DEF Books
<1>2. HeldIn(b) \subseteq Spans
  BY <1>1, InQueueIs DEF HeldIn
<1>3. QED BY <1>1, <1>2 DEF Every, Settled

\* A transition: nothing is cut out of the outage that begins.
LEMMA TransitionWatch ==
    ASSUME OcInv, OcInv', WatchInv, GoDown \/ GoUp
    PROVE  WatchInv'
<1>1. /\ book' = NextIncarnation /\ flips' = flips + 1 /\ pauseAt' = NoTime /\ lpc = "probe"
  <2>1. lpc = "probe" /\ RoundDone /\ Record
    BY DEF GoDown, GoUp
  <2>2. pauseAt' = NoTime
    BY <2>1, RoundReads
  <2>3. QED BY <2>1, <2>2 DEF Record
<1>2. book \in Books /\ flips \in Nat
  BY DEF OcInv, OcShape
<1>3. /\ book'.rows = book.rows /\ book'.held = book.held /\ book'.kept = book.kept /\ book'.gone = book.gone
      /\ book'.slices = 0 /\ book'.slept = 0 /\ book'.pausedGap = 0 /\ book'.downPausedAt = NoTime
  <2> DEFINE b == book  r == book'  now == NoTime  g == book.gen + 1
  <2>1. r = [b EXCEPT !.gen = g, !.pausedGap = 0, !.frozenGap = 0, !.downPausedAt = now, !.pauses = 0,
                      !.slices = 0, !.slept = 0] /\ b \in Books
    BY <1>1, <1>2 DEF NextIncarnation
  <2> HIDE DEF b, r, now, g
  <2>2. /\ r.rows = b.rows /\ r.held = b.held /\ r.kept = b.kept /\ r.gone = b.gone
        /\ r.slices = 0 /\ r.slept = 0 /\ r.pausedGap = 0 /\ r.downPausedAt = now
    BY <2>1 DEF Books
  <2>3. QED BY <2>2 DEF b, r, now
<1>4. Every(book') = Every(book) /\ Settled(book') = Settled(book) /\ HeldIn(book') = HeldIn(book)
  BY <1>3 DEF Every, Settled, HeldIn
<1>5. \A p \in Every(book) : p.own \in Nat /\ p.own <= flips
  <2>1. Every(book) \subseteq Spans
    BY <1>2, EveryIs
  <2>2. QED BY <2>1 DEF WatchInv, Spans
<1>6. \A p \in Every(book)' : p.own <= flips'
  <2>1. \A p \in Every(book) : p.own <= flips + 1
    BY <1>2, <1>5
  <2>2. Every(book)' = Every(book')
    BY DEF Every, Settled, HeldIn, InQueue
  <2>3. QED BY <1>1, <1>4, <2>1, <2>2
<1>7. ASSUME ~online' PROVE Watched(book, IF pauseAt = NoTime THEN check.m ELSE pauseAt.m)'
  <2> DEFINE n == flips'  b == book'  last == check'.m
  <2>1. \A p \in Every(b) : p.own # n
    BY <1>1, <1>2, <1>4, <1>5
  <2>2. BookFits(n, b) /\ b \in Books
    <3>1. Booked(book, pauseAt, check)'
      BY <1>7 DEF OcInv, OutageOpen
    <3>2. BookFits(flips, book)'
      BY <3>1 DEF Booked
    <3>3. QED BY <3>2 DEF BookFits
  <2>3. b.pausedGap = 0 /\ b.slices = 0 /\ b.slept = 0 /\ b.downPausedAt = NoTime
    BY <1>3
  <2> HIDE DEF n, b, last
  <2>4. CutOut(n, b) = {} /\ OfOutage(n, Settled(b)) = {}
    BY <2>1 DEF CutOut, Every, OfOutage
  <2>5. \A i \in 1 .. Len(b.held) : b.held[i].own # n
    BY <2>1 DEF Every, HeldIn, InQueue
  <2>6. Apart(n, b.held) /\ QueueClear(n, b)
    BY <2>5 DEF Apart, QueueClear
  <2>7. Settled(b) \subseteq Spans
    BY <2>2, EveryIs DEF Every
  <2>8. TicksOf({}) = {} /\ Gaps({}) = {} /\ Cardinality({}) = 0
    BY FS_EmptySet DEF TicksOf, Gaps
  <2>9. Folded(b, last) = 0 /\ Bigger(0, 0) = 0 /\ TPS * 0 = 0
    BY <2>3, ClockAssumption DEF Folded, Bigger
  <2>10. Tallies(n, b, last, 0, 0)
    BY <2>3, <2>4, <2>8, <2>9 DEF Tallies
  <2>11. BookFits(n, b) /\ Settled(b) \subseteq Spans /\ CutOut(n, b) = {} /\ Apart(n, b.held) /\ QueueClear(n, b)
         /\ Tallies(n, b, last, 0, 0)
    BY <2>2, <2>4, <2>6, <2>7, <2>10
  <2>12. QED BY <1>1, <2>11 DEF Watched, Within, n, b, last
<1>8. QED BY <1>1, <1>6, <1>7 DEF WatchInv

\* A process that starts.
LEMMA StartWatch ==
    ASSUME OcInv, WatchInv, NEW probing, NEW lands, Start(probing, lands)
    PROVE  WatchInv'
<1>1. online' = TRUE /\ flips' = flips /\ book' = StartupGap(NewBook(book.rows), lands)
  BY DEF Start
<1>2. OcShape /\ book \in Books /\ flips \in Nat
  BY DEF OcInv, OcShape
<1> DEFINE b == NewBook(book.rows)  last == LastObserved  gap == wall - last * TPS
           p == [Span([m |-> mono, w |-> last * TPS], Sec(gap), 0, 0, TRUE) EXCEPT !.gen = 0, !.own = 0]
           r == StartupGap(b, lands)
<1>3. b \in Books /\ Every(b) = book.rows
  <2>1. book.rows \in SUBSET Spans /\ NoTime \in Times
    BY <1>2, NowIs DEF Books
  <2> DEFINE now == NoTime
  <2>2. b = [pausedGap |-> 0, frozenGap |-> 0, downPausedAt |-> now, gen |-> 0,
             held |-> <<>>, rows |-> book.rows, began |-> -1, pauses |-> 0,
             slices |-> 0, slept |-> 0, kept |-> {}, gone |-> {}]
    BY DEF NewBook
  <2>3. <<>> \in Seq(Spans) /\ {} \in SUBSET Spans /\ -1 \in Int /\ now \in Times
    BY <2>1
  <2> HIDE DEF now, b
  <2>4. b \in Books /\ b.rows = book.rows /\ b.kept = {} /\ b.gone = {} /\ b.held = <<>>
    BY <2>1, <2>2, <2>3 DEF Books
  <2>5. HeldIn(b) = {}
    BY <2>4 DEF HeldIn, InQueue
  <2>6. QED BY <2>4, <2>5 DEF Every, Settled
<1>4. p \in Spans /\ p.own = 0
  <2>1. last \in Int /\ TPS \in Nat /\ wall \in Nat /\ mono \in Nat
    BY LastObservedIs, ClockAssumption, <1>2 DEF OcShape
  <2>2. last * TPS \in Int /\ gap \in Int
    BY <2>1
  <2>3. Sec(gap) \in Int
    BY <2>2, SecIs
  <2> DEFINE at == [m |-> mono, w |-> last * TPS]  secs == Sec(gap)
             q == Span(at, secs, 0, 0, TRUE)
  <2>4. at \in Times /\ secs \in Int /\ 0 \in Int
    BY <2>1, <2>2, <2>3 DEF Times
  <2> HIDE DEF at, secs, last, gap
  <2>5. q \in Spans
    BY <1>2, <2>4, SpanIs
  <2>6. p = [q EXCEPT !.gen = 0, !.own = 0]
    BY DEF at, secs
  <2> HIDE DEF q, p
  <2>7. QED BY <2>5, <2>6 DEF Spans
<1>5. r = b \/ r = Evict(Flush(b, p, lands))
  BY DEF StartupGap, Offer
<1> HIDE DEF b, p, r
<1>6. Every(r) \subseteq Every(b) \union {p}
  <2> DEFINE f == Flush(b, p, lands)
  <2>1. f \in Books /\ Every(f) \subseteq Every(b) \union {p}
    BY <1>3, <1>4, FlushIs, FlushEvery
  <2> HIDE DEF f
  <2>2. Every(Evict(f)) \subseteq Every(f)
    BY <2>1, EvictEvery
  <2>3. QED BY <1>5, <2>1, <2>2 DEF f
<1>7. \A q \in Every(r) : q.own <= flips
  <2>1. \A q \in book.rows : q.own <= flips
    BY DEF WatchInv, Every, Settled
  <2>2. QED BY <1>2, <1>3, <1>4, <1>6, <2>1
<1>8. Every(book)' = Every(r)
  BY <1>1 DEF r, b, Every, Settled, HeldIn, InQueue
<1>9. QED BY <1>1, <1>7, <1>8 DEF WatchInv

\* The clocks, the rounds and the transitions keep it.
LEMMA WatchStep ==
    ASSUME OcInv, OcInv', WatchInv, [Next]_vars
    PROVE  WatchInv'
<1>1. CASE UNCHANGED vars
  <2>1. UNCHANGED <<clockVars, loopVars, linkVars, pauseAt, book, starts>>
    BY <1>1 DEF vars
  <2>2. UNCHANGED <<flips, since, online, book, pauseAt, check>>
    BY <2>1 DEF loopVars, linkVars
  <2>3. QED BY <2>2, IdleWatch
<1>2. CASE Pass \/ (\E d \in Suspends, e \in {0, 1} : Suspend(d, e * d))
           \/ (\E d \in Corrections : Correct(d)) \/ (\E d \in Suspends \union {0} : Die(d))
  <2>1. UNCHANGED <<flips, since, online, book, pauseAt, check>>
    BY <1>2 DEF Pass, Suspend, Correct, Die, loopVars, linkVars
  <2>2. QED BY <2>1, IdleWatch
<1>3. CASE \E lands \in Landings : Probing(lands) \/ Paused(lands)
  BY <1>3, IterationWatch
<1>4. CASE \E dated \in {"none", "run"} : Round(dated)
  <2>1. RoundDone /\ lpc = "probe" /\ UNCHANGED <<flips, since, online, book>>
    BY <1>4 DEF Round
  <2>2. UNCHANGED pauseAt /\ (check # NoTime => check' = check)
    BY <2>1 DEF RoundDone
  <2>3. ~online => check # NoTime
    BY DEF OcInv, InOrder
  <2>4. QED BY <2>1, <2>2, <2>3, IdleWatch
<1>5. CASE GoDown \/ GoUp
  BY <1>5, TransitionWatch
<1>6. CASE \E probing \in BOOLEAN, lands \in Landings : Start(probing, lands)
  BY <1>6, StartWatch
<1>7. QED BY <1>1, <1>2, <1>3, <1>4, <1>5, <1>6 DEF Next

\* It holds at first.
LEMMA WatchInit == ASSUME Init PROVE WatchInv
<1>1. online /\ Every(book) = {}
  <2>1. online /\ book.rows = {} /\ book.held = <<>> /\ book.kept = {} /\ book.gone = {}
    BY DEF Init, NewBook
  <2>2. HeldIn(book) = {}
    BY <2>1 DEF HeldIn, InQueue
  <2>3. QED BY <2>1, <2>2 DEF Every, Settled
<1>2. QED BY <1>1 DEF WatchInv

\* A length less what is deducted, in seconds, is what is left of it, but for
\* what was taken back of sleep, and what each slice is rounded by.
LEMMA SecondsKept ==
    ASSUME NEW e \in Int, NEW c \in Nat, NEW g \in Int, NEW s \in Nat, NEW k \in Nat,
           c <= e, c <= g + s, g <= c + TPS * k
    PROVE  /\ Bigger(Sec(e) - Sec(g), 0) <= Sec(e - c) + CeilSec(s) + 1
           /\ Bigger(Sec(e) - Sec(g), 0) >= Sec(e - c) - k
<1>1. TPS \in Nat /\ TPS * k \in Nat /\ e - c \in Nat
  BY ClockAssumption
<1>2. /\ Sec(e) \in Int /\ TPS * Sec(e) \in Int /\ TPS * Sec(e) <= e /\ e < TPS * Sec(e) + TPS
      /\ Sec(g) \in Int /\ TPS * Sec(g) \in Int /\ TPS * Sec(g) <= g /\ g < TPS * Sec(g) + TPS
      /\ Sec(e - c) \in Int /\ TPS * Sec(e - c) \in Int /\ TPS * Sec(e - c) <= e - c /\ e - c < TPS * Sec(e - c) + TPS
      /\ CeilSec(s) \in Int /\ TPS * CeilSec(s) \in Int /\ TPS * CeilSec(s) >= s
  BY <1>1, SecIs, CeilIs
<1> DEFINE E == Sec(e)  G == Sec(g)  W == Sec(e - c)  S == CeilSec(s)
           tE == TPS * E  tG == TPS * G  tW == TPS * W  tS == TPS * S  tk == TPS * k
<1>3. /\ TPS * (E - G) = tE - tG /\ TPS * (W + S + 1) = tW + tS + TPS
      /\ TPS * (W + G) = tW + tG /\ TPS * (E + k) = tE + tk /\ TPS * (-1) + TPS = 0 /\ TPS * 0 = 0
  BY <1>1, <1>2
<1>4. /\ tE \in Int /\ tG \in Int /\ tW \in Int /\ tS \in Int /\ tk \in Int /\ TPS \in Nat
      /\ tE <= e /\ e < tE + TPS /\ tG <= g /\ g < tG + TPS /\ tW <= e - c /\ e - c < tW + TPS /\ tS >= s
      /\ g <= c + tk /\ c <= g + s
  BY <1>1, <1>2
<1>5. E \in Int /\ G \in Int /\ W \in Int /\ S \in Int
  BY <1>2
<1> HIDE DEF E, G, W, S, tE, tG, tW, tS, tk
<1>6. E - G <= W + S + 1
  <2>1. tE - tG < (tW + tS + TPS) + TPS
    BY <1>4
  <2>2. TPS * (E - G) < TPS * (W + S + 1) + TPS
    BY <1>3, <2>1
  <2>3. E - G \in Int /\ W + S + 1 \in Int
    BY <1>5
  <2>4. QED BY <2>2, <2>3, SecondsApart
<1>7. W + G <= E + k
  <2>1. tW + tG < (tE + tk) + TPS
    BY <1>4
  <2>2. TPS * (W + G) < TPS * (E + k) + TPS
    BY <1>3, <2>1
  <2>3. W + G \in Int /\ E + k \in Int
    BY <1>5
  <2>4. QED BY <2>2, <2>3, SecondsApart
<1>8. 0 <= W /\ 0 <= S
  <2>1. 0 \in Int /\ TPS * 0 < TPS * W + TPS
    BY <1>1, <1>3, <1>4 DEF tW
  <2>2. TPS * (-1) + TPS <= TPS * S
    BY <1>3, <1>4 DEF tS
  <2>3. 0 <= W
    BY <1>5, <2>1, SecondsApart
  <2>4. TPS * 0 < TPS * S + TPS
    <3>1. TPS # 0
      BY ClockAssumption
    <3>2. QED BY <1>3, <1>4, <3>1 DEF tS
  <2>5. 0 <= S
    BY <1>5, <2>1, <2>4, SecondsApart
  <2>6. QED BY <2>3, <2>5
<1>9. LET o == Bigger(E - G, 0) IN o <= W + S + 1 /\ o >= W - k
  <2>1. E - G \in Int /\ 0 \in Int
    BY <1>5
  <2>2. Bigger(E - G, 0) \in Int /\ Bigger(E - G, 0) >= E - G /\ (Bigger(E - G, 0) = E - G \/ Bigger(E - G, 0) = 0)
    BY <2>1, BiggerIs
  <2> DEFINE o == Bigger(E - G, 0)
  <2> HIDE DEF o
  <2>3. o <= W + S + 1 /\ o >= W - k
    BY <1>5, <1>6, <1>7, <1>8, <2>2 DEF o
  <2>4. QED BY <2>3 DEF o
<1>10. QED BY <1>9 DEF E, G, W, S

\* The round that closes an outage.
LEMMA ClosesKept ==
    ASSUME OcInv, WatchInv, GoUp
    PROVE  LET watched == Counted(closed', Cut \union book.kept)
           IN /\ closed'.observed <= watched + CeilSec(book.slept) + 1
              /\ closed'.observed >= watched - book.slices
<1>1. /\ lpc = "probe" /\ RoundDone /\ ~online
      /\ closed'.observed = Observed(ts) /\ closed'.from = since /\ closed'.to = ts.m /\ closed'.num = flips
  BY DEF GoUp, Up
<1>2. /\ check = ts /\ pauseAt = NoTime /\ Booked(book, NoTime, ts) /\ ts.m \in Int /\ since \in Int
      /\ since <= ts.m /\ Elapsed(ts) = ts.m - since
  BY <1>1, Closing
<1>3. Within(flips, book, ts.m) /\ Tallies(flips, book, ts.m, 0, 0) /\ book.downPausedAt = NoTime
  <2>1. Watched(book, ts.m)
    BY <1>1, <1>2 DEF WatchInv
  <2>2. book.downPausedAt = NoTime
    BY <1>2 DEF Booked
  <2>3. QED BY <2>1, <2>2 DEF Watched
<1> DEFINE S == CutOut(flips, book)  T == TicksOf(S)  c == Cardinality(T)  e == ts.m - since
           g == book.pausedGap  s == book.slept  k == book.slices
<1>4. S \subseteq Spans /\ IsFiniteSet(T) /\ c \in Nat
  BY <1>2, <1>3, CutOutIs
<1>5. T \subseteq since .. ts.m - 1
  <2>1. \A p \in S : since <= p.from /\ p.till <= ts.m
    BY <1>3 DEF Within, Stretch
  <2> HIDE DEF S
  <2>2. QED BY <1>2, <1>4, <2>1, TicksFinite
<1>6. OfOutage(flips, Cut \union book.kept) = S
  BY HeldIs DEF Cut, CutOut, Settled, SpansIn, OfOutage
<1>7. Uncovered(closed', S) = (since .. ts.m - 1) \ T
  <2> HIDE DEF S
  <2>1. ASSUME NEW t \in since .. ts.m - 1
        PROVE  t \in T <=> \E p \in S : p.from <= t /\ t < p.till /\ t < p.from + p.secs * TPS
    <3>1. ASSUME NEW p \in S
          PROVE  t \in Ticks(p) <=> p.from <= t /\ t < p.till /\ t < p.from + p.secs * TPS
      <4>1. p.from \in Int /\ p.till \in Int /\ t \in Int
        BY <1>2, <1>4 DEF Spans
      <4>2. t \in p.from .. p.till - 1 <=> p.from <= t /\ t < p.till
        BY <4>1
      <4>3. QED BY <4>2 DEF Ticks
    <3>2. QED BY <3>1 DEF TicksOf
  <2>2. Uncovered(closed', S) = {t \in since .. ts.m - 1 : ~\E p \in S :
           p.from <= t /\ t < p.till /\ t < p.from + p.secs * TPS}
    BY <1>1 DEF Uncovered
  <2> HIDE DEF T
  <2>3. QED BY <2>1, <2>2
<1>8. Cardinality((since .. ts.m - 1) \ T) = e - c /\ c <= e
  <2> DEFINE I == since .. ts.m - 1
  <2>1. IsFiniteSet(I) /\ Cardinality(I) = e
    <3>1. ts.m - 1 \in Int
      BY <1>2
    <3>2. IsFiniteSet(I) /\ Cardinality(I) = IF since > ts.m - 1 THEN 0 ELSE (ts.m - 1) - since + 1
      BY <1>2, <3>1, FS_Interval
    <3> HIDE DEF I
    <3>3. QED BY <1>2, <3>2
  <2> HIDE DEF I, T
  <2>2. T \subseteq I /\ I \cap T = T
    BY <1>5 DEF I
  <2>3. Cardinality(I \ T) = Cardinality(I) - Cardinality(I \cap T)
    BY <2>1, FS_Difference
  <2>4. Cardinality(T) <= Cardinality(I)
    BY <2>1, <2>2, FS_Subset
  <2>5. QED BY <2>1, <2>2, <2>3, <2>4 DEF I
<1>9. Counted(closed', Cut \union book.kept) = Sec(e - c)
  BY <1>1, <1>6, <1>7, <1>8 DEF Counted
<1>10. g \in Int /\ s \in Nat /\ k \in Nat /\ e \in Int /\ TPS * k \in Nat
  <2>1. book \in Books /\ TPS \in Nat
    BY ClockAssumption DEF OcInv, OcShape
  <2>2. g \in Int /\ s \in Nat /\ k \in Nat
    BY <2>1 DEF Books
  <2>3. QED BY <1>2, <2>1, <2>2
<1>11. c <= g + s /\ g <= c + TPS * k
  <2>1. Folded(book, ts.m) = 0 /\ Bigger(0, 0) = 0
    BY <1>3 DEF Folded, Bigger
  <2>2. c + 0 <= g + 0 + s /\ g + 0 <= c + 0 + TPS * k
    BY <1>3, <2>1 DEF Tallies
  <2> DEFINE tk == TPS * k
  <2> HIDE DEF c, g, s, tk
  <2>3. QED BY <1>4, <1>10, <2>2 DEF tk
<1>12. closed'.observed = Bigger(Sec(e) - Sec(g), 0)
  BY <1>1, <1>2 DEF Observed
<1> HIDE DEF c, e, g, s, k
<1>13. QED BY <1>4, <1>8, <1>9, <1>10, <1>11, <1>12, SecondsKept DEF s, k

\* In every behaviour an open outage is watched: the spans that are out of its
\* length stand for ticks of their own, and these are what its accumulator and the
\* fold of the open pause take off.
THEOREM OutageIsWatched == Spec => []WatchInv
<1>1. Init => WatchInv
  BY WatchInit
<1>2. OcInv /\ OcInv' /\ WatchInv /\ [Next]_vars => WatchInv'
  BY WatchStep
<1>3. QED BY <1>1, <1>2, OutageIsAccounted, PTL DEF Spec

\* The duration of a stored outage is the time that was watched of it, whatever was
\* suspended, paused, corrected, refused or dropped while it was open: no longer
\* but by the sleep in refused slices, no shorter but by what slices round.
THEOREM WatchedTimeIsKept == Spec => WatchedTimeKept
<1> DEFINE Fine == LET watched == Counted(closed', Cut \union book.kept)
                   IN /\ closed'.observed <= watched + CeilSec(book.slept) + 1
                      /\ closed'.observed >= watched - book.slices
<1>1. ASSUME OcInv, WatchInv, [Next]_vars, Closes PROVE Fine
  <2>1. closed' # closed /\ closed'.num # 0
    BY <1>1 DEF Closes
  <2>2. GoUp
    <3>1. ~UNCHANGED vars
      <4>1. UNCHANGED vars => UNCHANGED linkVars
        BY DEF vars
      <4>2. QED BY <2>1, <4>1 DEF linkVars
    <3>2. Next
      BY <1>1, <3>1
    <3>3. ~GoDown
      BY <2>1 DEF GoDown, Down, NoOutage
    <3>4. \A probing, lands : ~Start(probing, lands)
      BY <2>1 DEF Start, NoOutage
    <3>5. ~Pass /\ (\A d, e : ~Suspend(d, e)) /\ (\A d : ~Correct(d)) /\ (\A d : ~Die(d))
      BY <2>1 DEF Pass, Suspend, Correct, Die, linkVars
    <3>6. \A x : ~Probing(x) /\ ~Paused(x) /\ ~Round(x)
      BY <2>1 DEF Probing, Paused, Round
    <3>7. QED BY <3>2, <3>3, <3>4, <3>5, <3>6 DEF Next
  <2>3. QED BY <1>1, <2>2, ClosesKept
<1>2. OcInv /\ WatchInv /\ [Next]_vars => [Closes => Fine]_vars
  BY <1>1
<1>3. QED BY <1>2, OutageIsAccounted, OutageIsWatched, PTL DEF Spec, WatchedTimeKept
=============================================================================
