-------------------------- MODULE SampleBufferProofs --------------------------
(***************************************************************************)
(* Theorems about SampleBuffer for any number of goroutines, units and     *)
(* sizes: nothing is left behind or lost uncounted, nil is a promise that  *)
(* holds, and the recovery memo is sound.                                  *)
(***************************************************************************)
EXTENDS SampleBuffer, FiniteSetTheorems, WellFoundedInduction, TLAPS

-----------------------------------------------------------------------------
(* The inductive invariant                                                 *)

Writing == {"write", "landed", "deferred", "failed"}
Gated   == Writing \union {"take", "finish"}
Places  == Gated \union {"idle", "load", "quiet", "wait", "late", "after", "again",
                         "direct", "hold", "scan", "publish", "fired"}
Ops     == {"none", "read", "order", "age", "cap", "big", "stop"}
Memos   == [front : Nat, skip : SUBSET Units]
Locals  == [op : Ops, rows : Nat, every : BOOLEAN, batch : SUBSET Units,
            nil : BOOLEAN, purge : BOOLEAN, owed : SUBSET Units, since : Nat,
            safe : Nat, seen : Memos]

SbShape ==
    /\ buf \in SUBSET Units /\ disk \in SUBSET Units /\ gone \in SUBSET Units
    /\ waiting \in Nat /\ dropped \in Nat
    /\ due \in BOOLEAN /\ quiet \in BOOLEAN /\ failing \in BOOLEAN /\ missed \in BOOLEAN
    /\ closed \in BOOLEAN /\ writtenOff \in BOOLEAN
    /\ gate \in Procs \union {NoOne}
    /\ handed \in 0 .. MaxUnits /\ old \in 0 .. handed
    /\ size \in [Units -> Nat]
    /\ memo \in Memos /\ moved \in SUBSET Readers
    /\ pc \in [Procs -> Places] /\ my \in [Procs -> Locals]

\* The units inside a running save.
InSave == UNION {my[p].batch : p \in Procs}
Settled == disk \union gone

\* One save at a time, and only it holds units outside the buffer.
OneSave ==
    \A p \in Procs :
        /\ pc[p] \in Gated <=> gate = p
        /\ my[p].batch # {} <=> pc[p] \in Writing

\* What a goroutine carries between two steps.
CarriesOwn(p) ==
    /\ pc[p] = "idle" => my[p] = Blank
    /\ pc[p] \in {"hold", "again", "direct"} \/ my[p].op \in {"cap", "big"} => my[p].rows \in Sizes
    /\ pc[p] \in {"hold", "again"} \/ my[p].op = "cap" => my[p].rows <= Cap
    /\ my[p].op = "stop" => p = Closer /\ closed /\ ~writtenOff
    /\ my[p].op # "read" \/ pc[p] \in {"hold", "again", "fired"} => my[p].safe = 0

\* Five minutes are longer than any save or read.
Timely(p) ==
    /\ pc[p] # "idle" => old <= my[p].since
    /\ my[p].since <= handed /\ my[p].safe <= old
    /\ pc[p] \in Gated \ {"take"} => \A u \in buf : my[p].since < u

\* A unit is in one place.
Placed ==
    /\ 1 .. handed = Settled \union Held
    /\ buf \intersect (disk \union InSave) = {}
    /\ \A p \in Procs :
          /\ pc[p] = "landed" => my[p].batch \subseteq disk
          /\ pc[p] \in {"write", "deferred", "failed"} => my[p].batch \intersect disk = {}
    /\ ~writtenOff => gone \intersect (disk \union Held) = {}
    /\ writtenOff => closed /\ buf = {} /\ Held \subseteq gone

Counted ==
    /\ \A u \in 1 .. handed : size[u] \in Sizes
    /\ \A u \in Held : size[u] <= Cap
    /\ waiting = IF writtenOff THEN 0 ELSE Rows(Held)
    /\ dropped = Rows(gone)

\* What a writer waits for is settled when its save is, or in the rows it writes.
OwedMet(p) ==
    /\ my[p].owed \subseteq 1 .. handed
    /\ pc[p] \in {"write", "landed"} => my[p].owed \subseteq Settled \union my[p].batch
    /\ pc[p] = "finish" \/ (pc[p] = "after" /\ my[p].nil) => my[p].owed \subseteq Settled

\* A failed save leaves rows behind, and they are looked after.
Tended ==
    ~closed =>
        /\ failing => Held # {}
        /\ failing \/ buf # {} => due \/ \E p \in Procs : Coming(p)

\* A reader has everything it may remember, or it is on record that it has not.
ReadsWhole(p) ==
    pc[p] \in {"finish", "after", "scan"} => 1 .. my[p].safe \subseteq Settled \/ missed \/ failing

\* What a memo skipped is given up, or will be purged when it lands.
Purging == \E p \in Procs : pc[p] = "finish" /\ my[p].purge
Remembers(skip) ==
    writtenOff \/ Purging \/ \A u \in skip : u \in gone \ disk \/ ((missed \/ failing) /\ u \in Held)

Remembered(p) ==
    p \in Readers /\ pc[p] \in {"scan", "publish"} /\ p \notin moved => Remembers(my[p].seen.skip)

Control == SbShape /\ OneSave /\ (\A p \in Procs : CarriesOwn(p)) /\ (\A p \in Procs : Timely(p))
Stored  == Placed /\ Counted
Kept    == /\ \A p \in Procs : OwedMet(p)
           /\ \A p \in Procs : ReadsWhole(p)
           /\ Remembers(memo.skip) /\ \A p \in Procs : Remembered(p)

SbInv == Control /\ Stored /\ Tended /\ Kept

-----------------------------------------------------------------------------
(* Rows                                                                    *)

RowSet(sz, us) == UNION {{u} \X (1 .. sz[u]) : u \in us}
RowsIn(sz, us) == Cardinality(RowSet(sz, us))

\* Rows counts with the sizes as they are.
LEMMA RowsAreRowsIn == ASSUME NEW us PROVE Rows(us) = RowsIn(size, us)
  BY DEF Rows, RowsOf, RowsIn, RowSet

\* The rows of some units are finitely many.
LEMMA RowsFinite ==
    ASSUME NEW sz \in [Units -> Nat], NEW us \in SUBSET Units
    PROVE  IsFiniteSet(RowSet(sz, us)) /\ RowsIn(sz, us) \in Nat
<1> DEFINE all == {{u} \X (1 .. sz[u]) : u \in us}
           row == [u \in us |-> {u} \X (1 .. sz[u])]
<1>1. IsFiniteSet(us)
  <2>1. IsFiniteSet(Units)
    BY BoundAssumption, FS_Interval DEF Units
  <2>2. QED BY <2>1, FS_Subset
<1>2. IsFiniteSet(all)
  <2>1. row \in Surjection(us, all)
    BY DEF Surjection
  <2>2. QED BY <1>1, <2>1, FS_Surjection
<1>3. \A T \in all : IsFiniteSet(T)
  <2>1. ASSUME NEW u \in us PROVE IsFiniteSet({u} \X (1 .. sz[u]))
    <3>1. IsFiniteSet({u}) /\ IsFiniteSet(1 .. sz[u])
      <4>1. sz[u] \in Int /\ 1 \in Int
        OBVIOUS
      <4>2. QED BY <4>1, FS_Singleton, FS_Interval
    <3>2. QED BY <3>1, FS_Product
  <2>2. QED BY <2>1
<1>4. IsFiniteSet(UNION all)
  BY <1>2, <1>3, FS_UNION
<1>5. QED BY <1>4, FS_CardinalityType DEF RowSet, RowsIn

\* The rows of disjoint sets of units add up.
LEMMA RowsAdd ==
    ASSUME NEW sz \in [Units -> Nat], NEW us \in SUBSET Units, NEW vs \in SUBSET Units, us \intersect vs = {}
    PROVE  RowsIn(sz, us \union vs) = RowsIn(sz, us) + RowsIn(sz, vs)
<1>1. RowSet(sz, us \union vs) = RowSet(sz, us) \union RowSet(sz, vs)
  BY DEF RowSet
<1>2. RowSet(sz, us) \intersect RowSet(sz, vs) = {}
  BY DEF RowSet
<1>3. IsFiniteSet(RowSet(sz, us)) /\ IsFiniteSet(RowSet(sz, vs))
  BY RowsFinite
<1>4. Cardinality(RowSet(sz, us) \union RowSet(sz, vs)) =
      Cardinality(RowSet(sz, us)) + Cardinality(RowSet(sz, vs)) - Cardinality({})
  BY <1>2, <1>3, FS_Union
<1>5. Cardinality(RowSet(sz, us)) \in Nat /\ Cardinality(RowSet(sz, vs)) \in Nat /\ Cardinality({}) = 0
  BY <1>3, FS_CardinalityType, FS_EmptySet
<1>6. RowsIn(sz, us) + RowsIn(sz, vs) = Cardinality(RowSet(sz, us) \union RowSet(sz, vs))
  BY <1>4, <1>5 DEF RowsIn
<1>7. QED BY <1>1, <1>6 DEF RowsIn

\* The rows of one unit are its size.
LEMMA RowsOfOne ==
    ASSUME NEW sz \in [Units -> Nat], NEW u \in Units
    PROVE  RowsIn(sz, {u}) = sz[u]
<1>1. RowSet(sz, {u}) = {u} \X (1 .. sz[u])
  BY DEF RowSet
<1>2. /\ IsFiniteSet({u}) /\ Cardinality({u}) = 1
      /\ IsFiniteSet(1 .. sz[u]) /\ Cardinality(1 .. sz[u]) = sz[u]
  <2>1. sz[u] \in Nat /\ sz[u] \in Int /\ 1 \in Int
    OBVIOUS
  <2>2. IsFiniteSet(1 .. sz[u]) /\ Cardinality(1 .. sz[u]) = IF 1 > sz[u] THEN 0 ELSE sz[u] - 1 + 1
    BY <2>1, FS_Interval
  <2>3. Cardinality(1 .. sz[u]) = sz[u]
    BY <2>1, <2>2
  <2>4. QED BY <2>2, <2>3, FS_Singleton
<1>3. Cardinality({u} \X (1 .. sz[u])) = 1 * sz[u]
  <2>1. Cardinality({u} \X (1 .. sz[u])) = Cardinality({u}) * Cardinality(1 .. sz[u])
    BY <1>2, FS_Product
  <2>2. QED BY <1>2, <2>1
<1>4. sz[u] \in Nat
  OBVIOUS
<1>5. Cardinality({u} \X (1 .. sz[u])) = sz[u]
  BY <1>3, <1>4
<1>6. QED BY <1>1, <1>5 DEF RowsIn

\* Units have rows: only no units have none.
LEMMA RowsOfNone ==
    ASSUME NEW sz \in [Units -> Nat], NEW us \in SUBSET Units, \A u \in us : sz[u] \in Sizes
    PROVE  RowsIn(sz, us) = 0 <=> us = {}
<1>1. RowSet(sz, us) = {} <=> us = {}
  <2>1. ASSUME NEW u \in us PROVE <<u, 1>> \in RowSet(sz, us)
    <3>1. 1 \in 1 .. sz[u]
      BY SizesAssumption
    <3>2. <<u, 1>> \in {u} \X (1 .. sz[u])
      BY <3>1
    <3>3. QED BY <3>2 DEF RowSet
  <2>2. us = {} => RowSet(sz, us) = {}
    BY DEF RowSet
  <2>3. QED BY <2>1, <2>2
<1>2. QED BY <1>1, RowsFinite, FS_EmptySet DEF RowsIn

\* Where the sizes agree, so do the rows.
LEMMA RowsAgree ==
    ASSUME NEW sz, NEW tz, NEW us, \A u \in us : sz[u] = tz[u]
    PROVE  RowsIn(sz, us) = RowsIn(tz, us)
<1>1. RowSet(sz, us) = RowSet(tz, us)
  BY DEF RowSet
<1>2. QED BY <1>1 DEF RowsIn

\* dropOldest: what it drops comes from the units given, and a unit that fits
\* leaves the newest.
LEMMA OldestDrops == ASSUME NEW us, NEW keep PROVE Oldest(us, keep) \subseteq us
  BY DEF Oldest

\* As long as every unit fits alone, the newest stays.
LEMMA NewestStays ==
    ASSUME SbShape, NEW us \in SUBSET Units, us # {}, \A u \in us : size[u] <= Cap
    PROVE  us \ Oldest(us, Cap) # {}
<1> DEFINE below == {MaxUnits - u : u \in us}
<1>1. below \subseteq Nat /\ below # {}
  BY BoundAssumption DEF Units
<1>2. PICK x \in below : \A y \in below : ~(<<y, x>> \in OpToRel(<, Nat))
  BY <1>1, NatLessThanWellFounded, WFMin
<1>3. \A y \in below : x <= y
  <2>1. OpToRel(<, Nat) = {ss \in Nat \X Nat : ss[1] < ss[2]}
    BY DEF OpToRel
  <2> SUFFICES ASSUME NEW y \in below, y < x PROVE FALSE
    BY <1>1
  <2>2. <<y, x>> \in {ss \in Nat \X Nat : ss[1] < ss[2]}
    BY <1>1
  <2>3. QED BY <1>2, <2>1, <2>2
<1>4. PICK n \in us : x = MaxUnits - n
  BY <1>2
<1>5. \A v \in us : v <= n
  <2> SUFFICES ASSUME NEW v \in us PROVE v <= n
    OBVIOUS
  <2>1. MaxUnits - v \in below
    OBVIOUS
  <2>2. v \in Nat /\ n \in Nat /\ MaxUnits - n <= MaxUnits - v
    BY <1>3, <1>4, <2>1 DEF Units
  <2>3. QED BY <2>2, BoundAssumption
<1>6. {v \in us : v >= n} = {n}
  <2>1. \A v \in us : v \in Nat
    BY DEF Units
  <2>2. QED BY <1>5, <2>1
<1>7. Rows({n}) = size[n]
  BY RowsAreRowsIn, RowsOfOne DEF SbShape
<1>8. n \notin Oldest(us, Cap)
  <2>1. size[n] \in Nat /\ size[n] <= Cap /\ Cap \in Nat
    BY CapAssumption DEF SbShape
  <2>2. ~(Rows({v \in us : v >= n}) > Cap)
    BY <1>6, <1>7, <2>1
  <2>3. QED BY <2>2 DEF Oldest
<1>9. QED BY <1>8

-----------------------------------------------------------------------------
(* Init                                                                    *)

\* A buffer that opens is empty and owes nothing.
LEMMA SbInvInit == ASSUME Init PROVE SbInv
<1> USE DEF Init
<1>1. Blank \in Locals /\ Blank.batch = {} /\ Blank.op = "none" /\ Blank.safe = 0 /\ Blank.since = 0 /\ Blank.owed = {}
  BY DEF Blank, NoMemo, Locals, Memos, Ops
<1>2. \A p \in Procs : pc[p] = "idle" /\ my[p] = Blank
  OBVIOUS
<1>3. InSave = {} /\ Held = {} /\ Settled = {}
  BY <1>1, <1>2 DEF InSave, Held, Settled
<1>4. Control
  <2>1. SbShape
    <3>1. memo \in Memos
      BY DEF NoMemo, Memos
    <3>2. pc \in [Procs -> Places] /\ my \in [Procs -> Locals]
      BY <1>1 DEF Places
    <3>3. size \in [Units -> Nat]
      OBVIOUS
    <3>4. gate \in Procs \union {NoOne} /\ handed \in 0 .. MaxUnits /\ old \in 0 .. handed /\ moved \in SUBSET Readers
      BY BoundAssumption
    <3>5. /\ buf \in SUBSET Units /\ disk \in SUBSET Units /\ gone \in SUBSET Units
          /\ waiting \in Nat /\ dropped \in Nat
          /\ due \in BOOLEAN /\ quiet \in BOOLEAN /\ failing \in BOOLEAN /\ missed \in BOOLEAN
          /\ closed \in BOOLEAN /\ writtenOff \in BOOLEAN
      OBVIOUS
    <3>6. QED BY <3>1, <3>2, <3>3, <3>4, <3>5 DEF SbShape
  <2>2. OneSave
    BY <1>1, <1>2, ProcsAssumption DEF OneSave, Gated, Writing
  <2>3. \A p \in Procs : CarriesOwn(p)
    BY <1>1, <1>2 DEF CarriesOwn
  <2>4. \A p \in Procs : Timely(p)
    BY <1>1, <1>2 DEF Timely, Gated, Writing
  <2>5. QED BY <2>1, <2>2, <2>3, <2>4 DEF Control
<1>5. Stored
  <2>1. Placed
    BY <1>2, <1>3 DEF Placed
  <2>2. size \in [Units -> Nat] /\ {} \in SUBSET Units /\ Rows({}) = 0
    BY RowsAreRowsIn, RowsOfNone
  <2>3. Counted
    BY <1>3, <2>2 DEF Counted
  <2>4. QED BY <2>1, <2>3 DEF Stored
<1>6. Tended
  BY DEF Tended
<1>7. Kept
  <2>1. Remembers(memo.skip)
    BY DEF Remembers, NoMemo
  <2>2. QED BY <1>1, <1>2, <2>1 DEF Kept, OwedMet, ReadsWhole, Remembered
<1>8. QED BY <1>4, <1>5, <1>6, <1>7 DEF SbInv

-----------------------------------------------------------------------------
(* A step of one goroutine                                                 *)

Alone(p) == \A q \in Procs \ {p} : pc'[q] = pc[q] /\ my'[q] = my[q]

\* A step of one process leaves the others where they are.
LEMMA OneMoves ==
    ASSUME SbShape, NEW p \in Procs, NEW x \in Places, NEW r \in Locals,
           pc' = [pc EXCEPT ![p] = x], my' = [my EXCEPT ![p] = r]
    PROVE  /\ pc' \in [Procs -> Places] /\ my' \in [Procs -> Locals]
           /\ pc'[p] = x /\ my'[p] = r /\ Alone(p)
  BY DEF SbShape, Alone

\* What is held is what is buffered or in a save.
LEMMA HeldIs == Held = buf \union InSave /\ (Held = buf \union InSave)'
  BY DEF Held, InSave

\* What is in a save is carried by the one process past the gate.
LEMMA InSaveIs ==
    ASSUME SbShape, OneSave
    PROVE  /\ gate = NoOne => InSave = {}
           /\ \A p \in Procs : pc[p] \in Gated => InSave = my[p].batch
           /\ InSave \subseteq Units
  BY ProcsAssumption DEF SbShape, OneSave, InSave, Gated, Locals

\* So it is after a step of one process.
LEMMA InSaveNext ==
    ASSUME SbShape, OneSave, NEW p \in Procs, Alone(p)
    PROVE  /\ my'[p].batch = my[p].batch => InSave' = InSave
           /\ pc[p] \in Gated => InSave' = my'[p].batch
<1>1. \A q \in Procs \ {p} : my'[q].batch = my[q].batch
  BY DEF Alone
<1>2. my'[p].batch = my[p].batch => InSave' = InSave
  BY <1>1 DEF InSave
<1>3. ASSUME pc[p] \in Gated PROVE InSave' = my'[p].batch
  <2>1. \A q \in Procs \ {p} : my[q].batch = {}
    BY <1>3 DEF OneSave, Gated
  <2>2. QED BY <1>1, <2>1 DEF InSave
<1>4. QED BY <1>2, <1>3

\* What p may carry to the place x, where it runs no save, while it leaves the
\* units where they are.
MayCarry(p, x, r) ==
    /\ x = "idle" => r = Blank
    /\ x \in {"hold", "again", "direct"} \/ r.op \in {"cap", "big"} => r.rows \in Sizes
    /\ x \in {"hold", "again"} \/ r.op = "cap" => r.rows <= Cap
    /\ r.op = "stop" => p = Closer /\ closed' /\ ~writtenOff
    /\ r.op # "read" \/ x \in {"hold", "again", "fired"} => r.safe = 0
    /\ x # "idle" => old <= r.since
    /\ r.since <= handed /\ r.safe <= old
    /\ r.owed \subseteq 1 .. handed
    /\ x = "after" /\ r.nil => r.owed \subseteq Settled
    /\ x \in {"after", "scan"} => 1 .. r.safe \subseteq Settled \/ missed' \/ failing
    /\ p \in Readers /\ x \in {"scan", "publish"} /\ p \notin moved' => Remembers(r.seen.skip)

\* A step beside the units: what it must see to.
LEMMA Aside ==
    ASSUME SbInv, NEW p \in Procs, NEW x \in Places, NEW r \in Locals,
           pc' = [pc EXCEPT ![p] = x], my' = [my EXCEPT ![p] = r],
           UNCHANGED <<buf, waiting, writtenOff, failing, handed, size, disk, dropped, gone, old>>,
           due' \in BOOLEAN, quiet' \in BOOLEAN, missed' \in BOOLEAN, closed' \in BOOLEAN,
           missed => missed', closed => closed',
           memo' \in Memos, Remembers(memo'.skip),
           moved' \in SUBSET Readers, \A q \in moved : q # p => q \in moved',
           gate' \in Procs \union {NoOne}, gate' = p <=> x = "take", gate' = gate \/ {gate, gate'} = {p, NoOne},
           pc[p] \notin Writing \union {"finish"}, x \notin Writing \union {"finish"}, r.batch = {},
           MayCarry(p, x, r),
           due => due' \/ closed' \/ Coming(p)',
           Coming(p) => Coming(p)' \/ closed' \/ due' \/ (~failing /\ buf = {}) \/ \E q \in Procs \ {p} : Coming(q)
    PROVE  SbInv'
<1>1. /\ pc' \in [Procs -> Places] /\ my' \in [Procs -> Locals] /\ pc'[p] = x /\ my'[p] = r /\ Alone(p)
      /\ \A q \in Procs \ {p} : pc'[q] = pc[q] /\ my'[q] = my[q]
  BY OneMoves DEF SbInv, Control, Alone
<1>2. /\ SbShape /\ OneSave /\ (\A q \in Procs : CarriesOwn(q)) /\ (\A q \in Procs : Timely(q))
      /\ Placed /\ Counted /\ Tended /\ Kept
  BY DEF SbInv, Control, Stored
<1>3. my[p].batch = {}
  BY <1>2 DEF OneSave
<1>4. InSave' = InSave /\ Held' = Held /\ Settled' = Settled
  BY <1>1, <1>2, <1>3, HeldIs, InSaveNext DEF Settled
<1>5. SbShape'
  BY <1>1, <1>2 DEF SbShape
<1>6. OneSave'
  <2>1. x \in Gated <=> gate' = p
    BY DEF Gated, Writing
  <2>2. \A q \in Procs \ {p} : gate' = q <=> gate = q
    BY ProcsAssumption
  <2>3. x \notin Writing
    OBVIOUS
  <2>4. QED BY <1>1, <1>2, <2>1, <2>2, <2>3 DEF OneSave
<1>7. ASSUME NEW q \in Procs PROVE CarriesOwn(q)'
  <2>1. CASE q = p
    BY <1>1, <2>1 DEF MayCarry, CarriesOwn
  <2>2. CASE q # p
    BY <1>1, <1>2, <2>2 DEF CarriesOwn
  <2>3. QED BY <2>1, <2>2
<1>8. ASSUME NEW q \in Procs PROVE Timely(q)'
  <2>1. CASE q = p
    BY <1>1, <2>1 DEF MayCarry, Timely, Gated
  <2>2. CASE q # p
    BY <1>1, <1>2, <2>2 DEF Timely
  <2>3. QED BY <2>1, <2>2
<1>9. Placed'
  <2>1. \A q \in Procs :
          /\ pc'[q] = "landed" => my'[q].batch \subseteq disk
          /\ pc'[q] \in {"write", "deferred", "failed"} => my'[q].batch \intersect disk = {}
    BY <1>1, <1>2 DEF Placed, Writing
  <2>2. writtenOff => closed'
    BY <1>2 DEF Placed
  <2>3. QED BY <1>2, <1>4, <2>1, <2>2 DEF Placed
<1>10. Counted'
  BY <1>2, <1>4, RowsAreRowsIn DEF Counted, Rows, RowsOf
<1>11. \A q \in Procs \ {p} : Coming(q)' <=> Coming(q)
  BY <1>1 DEF Coming, Brief
<1>12. Tended'
  BY <1>2, <1>4, <1>11 DEF Tended
<1>13. \A skip : Remembers(skip) => Remembers(skip)'
  <2>1. Purging => Purging'
    BY <1>1 DEF Purging
  <2>2. QED BY <1>4, <2>1 DEF Remembers
<1>14. ASSUME NEW q \in Procs PROVE OwedMet(q)' /\ ReadsWhole(q)' /\ Remembered(q)'
  <2>1. CASE q = p
    <3>1. OwedMet(q)'
      BY <1>1, <1>4, <2>1 DEF MayCarry, OwedMet, Writing
    <3>2. ReadsWhole(q)'
      BY <1>1, <1>4, <2>1 DEF MayCarry, ReadsWhole
    <3>3. Remembered(q)'
      BY <1>1, <1>13, <2>1 DEF MayCarry, Remembered
    <3>4. QED BY <3>1, <3>2, <3>3
  <2>2. CASE q # p
    <3>1. OwedMet(q)'
      BY <1>1, <1>2, <1>4, <2>2 DEF Kept, OwedMet
    <3>2. ReadsWhole(q)'
      BY <1>1, <1>2, <1>4, <2>2 DEF Kept, ReadsWhole
    <3>3. Remembered(q)'
      BY <1>1, <1>2, <1>13, <2>2 DEF Kept, Remembered
    <3>4. QED BY <3>1, <3>2, <3>3
  <2>3. QED BY <2>1, <2>2
<1>15. Kept'
  BY <1>13, <1>14 DEF Kept
<1>16. QED BY <1>5, <1>6, <1>7, <1>8, <1>9, <1>10, <1>12, <1>15 DEF SbInv, Control, Stored

\* With nothing counted as waiting, everything handed over is settled.
LEMMA NoneWait ==
    ASSUME SbInv, NothingWaits
    PROVE  1 .. handed \subseteq Settled /\ (~closed => Held = {} /\ buf = {} /\ ~failing)
<1>1. SbShape /\ OneSave /\ Placed /\ Counted /\ Tended
  BY DEF SbInv, Control, Stored
<1>2. Held \in SUBSET Units /\ \A u \in Held : size[u] \in Sizes
  <2>1. Held \subseteq Units
    BY <1>1, HeldIs, InSaveIs DEF SbShape
  <2>2. Held \subseteq 1 .. handed
    BY <1>1 DEF Placed
  <2>3. QED BY <1>1, <2>1, <2>2 DEF Counted
<1>3. ~writtenOff => Held = {}
  <2>1. size \in [Units -> Nat]
    BY <1>1 DEF SbShape
  <2>2. ~writtenOff => RowsIn(size, Held) = 0
    BY <1>1, RowsAreRowsIn DEF Counted, NothingWaits
  <2>3. QED BY <1>2, <2>1, <2>2, RowsOfNone
<1>4. 1 .. handed \subseteq Settled
  <2>1. CASE writtenOff
    BY <1>1, <2>1 DEF Placed, Settled
  <2>2. CASE ~writtenOff
    BY <1>1, <1>3, <2>2 DEF Placed
  <2>3. QED BY <2>1, <2>2
<1>5. ~closed => Held = {} /\ buf = {} /\ ~failing
  BY <1>1, <1>3, HeldIs DEF Placed, Tended
<1>6. QED BY <1>4, <1>5

\* SaveBuffered returns without having saved.
LEMMA BackAside ==
    ASSUME SbInv, NEW p \in Procs, NEW nil \in BOOLEAN, NEW from \in {"load", "quiet", "late", "take"},
           Back(p, from, nil),
           UNCHANGED <<buf, waiting, writtenOff, failing, handed, size, disk, dropped, gone, old, memo, moved, closed>>,
           due' \in BOOLEAN, quiet' \in BOOLEAN, missed' \in BOOLEAN, missed => missed', due => due',
           nil => 1 .. handed \subseteq Settled,
           my[p].op = "read" => nil \/ missed',
           gate' = IF from = "take" THEN NoOne ELSE gate,
           Coming(p) => closed \/ due' \/ (~failing /\ buf = {}) \/ \E q \in Procs \ {p} : Coming(q)
    PROVE  SbInv'
<1>1. /\ SbShape /\ OneSave /\ CarriesOwn(p) /\ Timely(p) /\ OwedMet(p) /\ Kept
      /\ my[p] \in Locals /\ pc[p] = from
  BY DEF SbInv, Control, Stored, Kept, SbShape, Back, Return, Goto
<1>2. /\ gate' \in Procs \union {NoOne} /\ gate' # p
      /\ gate' = gate \/ {gate, gate'} = {p, NoOne}
      /\ my[p].batch = {}
  BY <1>1, ProcsAssumption DEF SbShape, OneSave, Gated, Writing
<1>3. memo' \in Memos /\ Remembers(memo'.skip) /\ moved' \in SUBSET Readers
  BY <1>1 DEF Kept, SbShape
<1>4. /\ closed' \in BOOLEAN /\ (closed => closed') /\ (due => due' \/ closed' \/ Coming(p)')
      /\ Coming(p) => Coming(p)' \/ closed' \/ due' \/ (~failing /\ buf = {}) \/ \E q \in Procs \ {p} : Coming(q)
      /\ \A q \in moved : q # p => q \in moved'
      /\ pc[p] \notin Writing \union {"finish"}
  BY <1>1 DEF SbShape, Writing
<1>5. CASE my[p].op = "age"
  <2>1. pc' = [pc EXCEPT ![p] = "idle"] /\ my' = [my EXCEPT ![p] = Blank]
    BY <1>5 DEF Back, Return, Goto
  <2>2. Blank \in Locals /\ Blank.batch = {} /\ Blank.op = "none" /\ Blank.safe = 0 /\ Blank.since = 0 /\ Blank.owed = {}
    BY DEF Blank, NoMemo, Locals, Memos, Ops
  <2>3. MayCarry(p, "idle", Blank)
    BY <1>1, <2>2 DEF MayCarry, SbShape
  <2>4. "idle" \in Places /\ "idle" \notin Writing \union {"finish"} /\ (gate' = p <=> "idle" = "take")
    BY <1>2 DEF Places, Writing
  <2>5. QED BY <1>2, <1>3, <1>4, <2>1, <2>2, <2>3, <2>4, Aside
<1>6. CASE my[p].op # "age"
  <2> DEFINE r == [my[p] EXCEPT !.batch = {}, !.purge = FALSE, !.nil = nil]
             x == IF my[p].op = "cap" THEN "again" ELSE IF my[p].op = "big" THEN "direct" ELSE "after"
  <2>1. pc' = [pc EXCEPT ![p] = x] /\ my' = [my EXCEPT ![p] = r]
    BY <1>6 DEF Back, Goto
  <2>2. /\ r \in Locals /\ r.batch = {} /\ r.nil = nil /\ r.op = my[p].op /\ r.rows = my[p].rows
        /\ r.owed = my[p].owed /\ r.since = my[p].since /\ r.safe = my[p].safe
    BY <1>1 DEF Locals
  <2>3. x \in {"again", "direct", "after"} /\ (x = "again" <=> my[p].op = "cap") /\ (x = "direct" <=> my[p].op = "big")
    OBVIOUS
  <2> HIDE DEF r, x
  <2>4. nil => r.owed \subseteq Settled
    BY <1>1, <2>2 DEF OwedMet
  <2>5. 1 .. r.safe \subseteq Settled \/ missed'
    <3>1. CASE my[p].op = "read" /\ ~missed'
      <4>1. r.safe <= handed /\ r.safe \in Nat /\ handed \in Nat
        BY <1>1, <2>2 DEF Timely, SbShape, Locals
      <4>2. QED BY <3>1, <4>1
    <3>2. CASE my[p].op # "read"
      BY <1>1, <2>2, <3>2 DEF CarriesOwn
    <3>3. QED BY <3>1, <3>2
  <2>6. MayCarry(p, x, r)
    <3>1. closed' = closed /\ pc[p] # "idle"
      BY <1>1
    <3>2. QED BY <1>1, <2>2, <2>3, <2>4, <2>5, <3>1 DEF MayCarry, CarriesOwn, Timely, OwedMet
  <2>7. x \in Places /\ x \notin Writing \union {"finish"} /\ (gate' = p <=> x = "take")
    BY <1>2, <2>3 DEF Places, Writing
  <2>8. QED BY <1>2, <1>3, <1>4, <2>1, <2>2, <2>6, <2>7, Aside
<1>7. QED BY <1>5, <1>6

\* A goroutine goes on with what it holds.
LEMMA MoveAside ==
    ASSUME SbInv, NEW p \in Procs, NEW from \in {"load", "quiet", "wait", "hold", "again"},
           NEW to \in {"wait", "take", "late", "direct"}, Goto(p, from, to),
           UNCHANGED <<my, buf, waiting, writtenOff, failing, handed, size, disk, dropped, gone, old, memo, moved,
                       closed, due, quiet>>,
           missed' \in BOOLEAN, missed => missed',
           to = "take" => gate = NoOne /\ gate' = p, to # "take" => gate' = gate,
           to = "direct" => from \in {"hold", "again"} /\ closed
    PROVE  SbInv'
<1>1. /\ SbShape /\ OneSave /\ CarriesOwn(p) /\ Timely(p) /\ OwedMet(p) /\ Kept
      /\ my[p] \in Locals /\ pc[p] = from
  BY DEF SbInv, Control, Stored, Kept, SbShape, Goto
<1>2. pc' = [pc EXCEPT ![p] = to] /\ my' = [my EXCEPT ![p] = my[p]]
  BY <1>1 DEF Goto, SbShape
<1>3. my[p].batch = {} /\ gate # p
  BY <1>1 DEF OneSave, Gated, Writing
<1>4. MayCarry(p, to, my[p])
  <2>1. closed' = closed
    OBVIOUS
  <2>2. QED BY <1>1, <2>1 DEF MayCarry, CarriesOwn, Timely, OwedMet
<1>5. memo' \in Memos /\ Remembers(memo'.skip) /\ moved' \in SUBSET Readers
  BY <1>1 DEF Kept, SbShape
<1>6. Coming(p) => Coming(p)' \/ closed'
  <2>1. pc'[p] = to
    BY <1>1, <1>2 DEF SbShape
  <2>2. QED BY <1>1, <2>1 DEF Coming, Brief
<1>7. /\ to \in Places /\ gate' \in Procs \union {NoOne} /\ (gate' = p <=> to = "take")
      /\ gate' = gate \/ {gate, gate'} = {p, NoOne}
      /\ due' \in BOOLEAN /\ quiet' \in BOOLEAN /\ closed' \in BOOLEAN /\ (due => due') /\ (closed => closed')
  BY <1>1, <1>3 DEF Places, Gated, Writing, SbShape
<1>8. pc[p] \notin Writing \union {"finish"} /\ to \notin Writing \union {"finish"}
  BY <1>1 DEF Writing
<1>9. QED BY <1>1, <1>2, <1>3, <1>4, <1>5, <1>6, <1>7, <1>8, Aside

\* A goroutine is through with its work.
LEMMA ReturnAside ==
    ASSUME SbInv, NEW p \in Procs, NEW from \in {"after", "publish", "fired", "direct"}, Return(p, from),
           UNCHANGED <<buf, waiting, writtenOff, failing, handed, size, disk, dropped, gone, old, closed, due, quiet,
                       missed, gate>>,
           memo' \in Memos, Remembers(memo'.skip), moved' \in SUBSET Readers, \A q \in moved : q # p => q \in moved'
    PROVE  SbInv'
<1>1. SbShape /\ OneSave /\ Timely(p) /\ pc[p] = from
  BY DEF SbInv, Control, Return, Goto
<1>2. pc' = [pc EXCEPT ![p] = "idle"] /\ my' = [my EXCEPT ![p] = Blank]
  BY DEF Return, Goto
<1>3. Blank \in Locals /\ Blank.batch = {} /\ Blank.op = "none" /\ Blank.safe = 0 /\ Blank.since = 0 /\ Blank.owed = {}
  BY DEF Blank, NoMemo, Locals, Memos, Ops
<1>4. MayCarry(p, "idle", Blank)
  BY <1>1, <1>3 DEF MayCarry, SbShape
<1>5. /\ due' \in BOOLEAN /\ quiet' \in BOOLEAN /\ missed' \in BOOLEAN /\ closed' \in BOOLEAN
      /\ gate' \in Procs \union {NoOne} /\ gate' # p /\ gate' = gate
  BY <1>1 DEF SbShape, OneSave, Gated, Writing
<1>6. /\ "idle" \in Places /\ "idle" \notin Writing \union {"finish"} /\ "idle" # "take"
      /\ pc[p] \notin Writing \union {"finish"} /\ ~Coming(p)
  BY <1>1 DEF Places, Writing, Coming
<1>7. (missed => missed') /\ (closed => closed') /\ (due => due')
  OBVIOUS
<1>8. QED BY <1>2, <1>3, <1>4, <1>5, <1>6, <1>7, Aside

\* A goroutine begins its work, or goes on to save on another's behalf.
LEMMA BeginAside ==
    ASSUME SbInv, NEW p \in Procs, NEW from \in {"idle", "hold", "fired"},
           NEW to \in {"direct", "wait", "hold", "after", "quiet", "fired", "load"}, NEW r \in Locals,
           Goto(p, from, to), my' = [my EXCEPT ![p] = r],
           UNCHANGED <<buf, waiting, writtenOff, failing, handed, size, disk, dropped, gone, old, memo, moved, quiet,
                       missed, gate>>,
           due' \in BOOLEAN, closed' \in BOOLEAN, closed => closed', due => due' \/ closed' \/ Coming(p)',
           r.batch = {}, MayCarry(p, to, r)
    PROVE  SbInv'
<1>1. SbShape /\ OneSave /\ Kept /\ pc[p] = from
  BY DEF SbInv, Control, Goto
<1>2. pc' = [pc EXCEPT ![p] = to]
  BY DEF Goto
<1>3. /\ quiet' \in BOOLEAN /\ missed' \in BOOLEAN
      /\ gate' \in Procs \union {NoOne} /\ gate' # p /\ gate' = gate /\ to # "take"
      /\ memo' \in Memos /\ Remembers(memo'.skip) /\ moved' \in SUBSET Readers
      /\ \A q \in moved : q # p => q \in moved'
  BY <1>1 DEF SbShape, OneSave, Kept, Gated, Writing
<1>4. /\ to \in Places /\ to \notin Writing \union {"finish"}
      /\ pc[p] \notin Writing \union {"finish"} /\ ~Coming(p)
  BY <1>1 DEF Places, Writing, Coming
<1>5. missed => missed'
  OBVIOUS
<1>6. QED BY <1>2, <1>3, <1>4, <1>5, Aside

-----------------------------------------------------------------------------
(* The steps beside the units                                              *)

\* SaveBuffered looks how many rows wait, and goes on or returns.
LEMMA LoadKeeps == ASSUME SbInv, NEW p \in Procs, LoadWaiting(p) PROVE SbInv'
<1>1. SbShape
  BY DEF SbInv, Control
<1>2. CASE NothingWaits
  <2>1. /\ Back(p, "load", TRUE)
        /\ UNCHANGED <<buf, waiting, timerVars, saysVars, closeVars, gate, unitVars, disk, lossVars, memoVars, old>>
    BY <1>2 DEF LoadWaiting
  <2>2. due' \in BOOLEAN /\ quiet' \in BOOLEAN /\ missed' \in BOOLEAN
    BY <1>1, <2>1 DEF SbShape, timerVars, saysVars
  <2>3. 1 .. handed \subseteq Settled /\ (closed \/ (~failing /\ buf = {}))
    BY <1>2, NoneWait
  <2>4. /\ UNCHANGED <<buf, waiting, writtenOff, failing, handed, size, disk, dropped, gone, old, memo, moved, closed>>
        /\ due' = due /\ missed' = missed /\ gate' = gate
    BY <2>1 DEF timerVars, saysVars, closeVars, unitVars, lossVars, memoVars
  <2>5. QED BY <2>1, <2>2, <2>3, <2>4, BackAside
<1>3. CASE ~NothingWaits
  <2>1. /\ Goto(p, "load", "wait") /\ UNCHANGED my
        /\ UNCHANGED <<buf, waiting, timerVars, saysVars, closeVars, gate, unitVars, disk, lossVars, memoVars, old>>
    BY <1>3 DEF LoadWaiting
  <2>2. /\ UNCHANGED <<my, buf, waiting, writtenOff, failing, handed, size, disk, dropped, gone, old, memo, moved,
                       closed, due, quiet>>
        /\ missed' = missed /\ gate' = gate /\ missed' \in BOOLEAN
    BY <1>1, <2>1 DEF SbShape, timerVars, saysVars, closeVars, unitVars, lossVars, memoVars
  <2>3. QED BY <2>1, <2>2, MoveAside
<1>4. QED BY <1>2, <1>3

\* It looks whether saves are put off, and goes on or returns.
LEMMA LookKeeps == ASSUME SbInv, NEW p \in Procs, LookQuiet(p) PROVE SbInv'
<1>1. SbShape
  BY DEF SbInv, Control
<1>2. /\ UNCHANGED <<buf, waiting, writtenOff, failing, handed, size, disk, dropped, gone, old, memo, moved, closed,
                     due, quiet, gate>>
      /\ missed' = (missed \/ quiet)
  BY DEF LookQuiet, timerVars, closeVars, unitVars, lossVars, memoVars
<1>3. missed' \in BOOLEAN /\ due' \in BOOLEAN /\ quiet' \in BOOLEAN
  <2>1. missed' \in BOOLEAN
    BY <1>2, Zenon
  <2>2. QED BY <1>1, <1>2, <2>1 DEF SbShape
<1>4. (missed => missed') /\ (quiet => missed')
  BY <1>2, Zenon
<1>5. CASE quiet
  <2>1. Back(p, "quiet", FALSE) /\ missed'
    BY <1>4, <1>5 DEF LookQuiet
  <2>2. pc[p] = "quiet" /\ ~Coming(p)
    BY <2>1 DEF Back, Return, Goto, Coming
  <2>3. QED BY <1>2, <1>3, <1>4, <2>1, <2>2, BackAside
<1>6. CASE ~quiet
  <2>1. Goto(p, "quiet", "wait") /\ UNCHANGED my
    BY <1>6 DEF LookQuiet
  <2>2. QED BY <1>2, <1>3, <1>4, <2>1, MoveAside
<1>7. QED BY <1>5, <1>6

\* The gate is taken or waited for too long; or a handover finds the store closed.
LEMMA GateKeeps == ASSUME SbInv, NEW p \in Procs, TakeGate(p) \/ TimeOut(p) \/ HoldClosed(p) PROVE SbInv'
<1>1. SbShape
  BY DEF SbInv, Control
<1>2. /\ UNCHANGED <<my, buf, waiting, writtenOff, failing, handed, size, disk, dropped, gone, old, memo, moved,
                     closed, due, quiet>>
      /\ missed' = missed /\ missed' \in BOOLEAN
  BY <1>1 DEF TakeGate, TimeOut, HoldClosed, SbShape, timerVars, saysVars, closeVars, unitVars, lossVars, memoVars
<1>3. CASE TakeGate(p)
  <2>1. Goto(p, "wait", "take") /\ gate = NoOne /\ gate' = p
    BY <1>3 DEF TakeGate
  <2>2. QED BY <1>2, <2>1, MoveAside
<1>4. CASE TimeOut(p)
  <2>1. Goto(p, "wait", "late") /\ gate' = gate
    BY <1>4 DEF TimeOut
  <2>2. QED BY <1>2, <2>1, MoveAside
<1>5. CASE HoldClosed(p)
  <2>1. Goto(p, pc[p], "direct") /\ gate' = gate /\ closed /\ pc[p] \in {"hold", "again"}
    BY <1>5 DEF HoldClosed
  <2>2. QED BY <1>2, <2>1, MoveAside
<1>6. QED BY <1>3, <1>4, <1>5

\* Who gives up waiting for the gate leaves the rows to a timer or a later save.
LEMMA GiveUpKeeps == ASSUME SbInv, NEW p \in Procs, GiveUp(p) PROVE SbInv'
<1>1. SbShape /\ OneSave /\ Tended
  BY DEF SbInv, Control
<1>2. /\ Back(p, "late", FALSE)
      /\ IF Brief(p) THEN ReaderGaveUp ELSE UNCHANGED <<quiet, missed>>
      /\ IF ~Brief(p) /\ ~closed /\ buf # {} /\ ~due THEN Arm(TRUE) ELSE UNCHANGED timerVars
      /\ UNCHANGED <<buf, waiting, writtenOff, failing, handed, size, disk, dropped, gone, old, memo, moved, closed, gate>>
  BY DEF GiveUp, closeVars, unitVars, lossVars, memoVars
<1>3. pc[p] = "late"
  BY <1>2 DEF Back, Return, Goto
<1>4. /\ missed' \in BOOLEAN /\ quiet' \in BOOLEAN /\ due' \in BOOLEAN /\ (missed => missed') /\ (due => due')
      /\ my[p].op = "read" => missed'
  <2>1. missed' \in BOOLEAN /\ quiet' \in BOOLEAN /\ (missed => missed') /\ (my[p].op = "read" => missed')
    BY <1>1, <1>2 DEF SbShape, ReaderGaveUp, Brief
  <2>2. due' \in BOOLEAN /\ (due => due')
    BY <1>1, <1>2 DEF SbShape, Arm, timerVars
  <2>3. QED BY <2>1, <2>2
<1>5. Coming(p) => closed \/ due' \/ (~failing /\ buf = {}) \/ \E q \in Procs \ {p} : Coming(q)
  <2> SUFFICES ASSUME Coming(p), ~closed, ~due' PROVE (~failing /\ buf = {}) \/ \E q \in Procs \ {p} : Coming(q)
    OBVIOUS
  <2>1. ~Brief(p)
    BY <1>3 DEF Coming
  <2>2. ~due /\ buf = {}
    BY <1>2, <1>4, <2>1 DEF Arm
  <2>3. CASE failing
    <3>1. InSave # {}
      BY <1>1, <2>2, <2>3, HeldIs DEF Tended
    <3>2. PICK q \in Procs : my[q].batch # {}
      BY <3>1 DEF InSave
    <3>3. pc[q] \in Writing
      BY <1>1, <3>2 DEF OneSave
    <3>4. q # p /\ Coming(q)
      BY <1>3, <3>3 DEF Writing, Coming
    <3>5. QED BY <3>4
  <2>4. QED BY <2>2, <2>3
<1>6. QED BY <1>2, <1>4, <1>5, BackAside

\* Past the gate there may be nothing to save, or a reason not to: it is freed.
LEMMA LeaveKeeps == ASSUME SbInv, NEW p \in Procs, LeaveRows(p) PROVE SbInv'
<1>1. SbShape /\ OneSave /\ Placed /\ Tended
  BY DEF SbInv, Control, Stored
<1>2. /\ buf = {} \/ (Brief(p) /\ quiet)
      /\ Back(p, "take", buf = {}) /\ gate' = NoOne
      /\ missed' = (missed \/ buf # {})
      /\ UNCHANGED <<buf, waiting, writtenOff, failing, handed, size, disk, dropped, gone, old, memo, moved, closed,
                     due, quiet>>
  BY DEF LeaveRows, timerVars, closeVars, unitVars, lossVars, memoVars
<1>3. pc[p] = "take"
  BY <1>2 DEF Back, Return, Goto
<1>4. InSave = {}
  BY <1>1, <1>3, InSaveIs DEF OneSave, Gated, Writing
<1>5. buf = {} => 1 .. handed \subseteq Settled /\ (closed \/ ~failing)
  BY <1>1, <1>4, HeldIs DEF Placed, Tended
<1>6. /\ missed' \in BOOLEAN /\ (missed => missed') /\ (buf = {} \/ missed') /\ (buf = {}) \in BOOLEAN
  BY <1>2, Zenon
<1>7. due' \in BOOLEAN /\ quiet' \in BOOLEAN
  BY <1>1, <1>2 DEF SbShape
<1>8. Coming(p) => buf = {}
  BY <1>2, <1>3 DEF Coming
<1>9. QED BY <1>2, <1>5, <1>6, <1>7, <1>8, BackAside

\* A read or a write that saved first is over.
LEMMA DoneKeeps == ASSUME SbInv, NEW p \in Procs, Done(p) PROVE SbInv'
<1>1. SbShape /\ Kept
  BY DEF SbInv, Control
<1>2. /\ Return(p, "after")
      /\ UNCHANGED <<buf, waiting, writtenOff, failing, handed, size, disk, dropped, gone, old, closed, due, quiet,
                     missed, gate, memo, moved>>
  BY DEF Done, timerVars, saysVars, closeVars, unitVars, lossVars, memoVars
<1>3. memo' \in Memos /\ Remembers(memo'.skip) /\ moved' \in SUBSET Readers /\ \A q \in moved : q # p => q \in moved'
  BY <1>1, <1>2 DEF Kept, SbShape
<1>4. QED BY <1>2, <1>3, ReturnAside

\* A goroutine that begins carries nothing yet.
LEMMA Fresh ==
    ASSUME SbInv, NEW p \in Procs, pc[p] = "idle"
    PROVE  /\ my[p] = Blank /\ Begun(p) \in Locals
           /\ Begun(p).op = "none" /\ Begun(p).batch = {} /\ Begun(p).owed = {} /\ Begun(p).safe = 0
           /\ Begun(p).since = handed /\ Begun(p).rows = 0 /\ Begun(p).nil = FALSE
           /\ handed \in Nat /\ old \in Nat /\ old <= handed /\ Held \subseteq 1 .. handed /\ Held \in SUBSET Units
           /\ (~closed => ~writtenOff)
<1>1. my[p] = Blank /\ handed \in Nat /\ old \in Nat /\ old <= handed /\ Held \subseteq 1 .. handed /\ (~closed => ~writtenOff)
  BY BoundAssumption DEF SbInv, Control, CarriesOwn, SbShape, Stored, Placed
<1>2. Begun(p) = [Blank EXCEPT !.since = handed]
  BY <1>1 DEF Begun
<1>3. Blank \in Locals /\ Blank.batch = {} /\ Blank.op = "none" /\ Blank.safe = 0 /\ Blank.owed = {} /\ Blank.rows = 0 /\ Blank.nil = FALSE
  BY DEF Blank, NoMemo, Locals, Memos, Ops
<1>4. Held \in SUBSET Units
  BY HeldIs, InSaveIs DEF SbInv, Control, SbShape
<1>5. QED BY <1>1, <1>2, <1>3, <1>4 DEF Locals

\* Choosing the way of a new unit moves no row.
LEMMA InsertKeeps == ASSUME SbInv, NEW p \in Procs, Insert(p) PROVE SbInv'
<1>1. PICK rows \in Sizes, batching \in BOOLEAN :
         LET unit   == [Begun(p) EXCEPT !.rows = rows, !.every = batching]
             direct == NothingWaits /\ (~batching \/ rows > Cap)
             behind == ~NothingWaits /\ rows > Cap
         IN /\ Goto(p, "idle", CASE direct -> "direct" [] behind -> "wait" [] OTHER -> "hold")
            /\ my' = [my EXCEPT ![p] = IF behind THEN [unit EXCEPT !.op = "big", !.owed = Held] ELSE unit]
  BY DEF Insert
<1> DEFINE unit   == [Begun(p) EXCEPT !.rows = rows, !.every = batching]
           direct == NothingWaits /\ (~batching \/ rows > Cap)
           behind == ~NothingWaits /\ rows > Cap
<1>2. /\ UNCHANGED <<buf, waiting, writtenOff, failing, handed, size, disk, dropped, gone, old, memo, moved, quiet,
                     missed, gate>>
      /\ due' = due /\ closed' = closed
  BY DEF Insert, timerVars, saysVars, closeVars, unitVars, lossVars, memoVars
<1>3. due' \in BOOLEAN /\ closed' \in BOOLEAN /\ SbShape
  BY <1>2 DEF SbInv, Control, SbShape
<1>4. pc[p] = "idle"
  BY <1>1 DEF Goto
<1>0. /\ handed \in Nat /\ old \in Nat /\ old <= handed /\ Held \subseteq 1 .. handed /\ (~closed => ~writtenOff)
  BY <1>4, Fresh
<1>5. rows \in Nat /\ Cap \in Nat
  BY SizesAssumption, CapAssumption
<1>6. /\ unit \in Locals /\ unit.op = "none" /\ unit.batch = {} /\ unit.owed = {} /\ unit.safe = 0
      /\ unit.since = handed /\ unit.rows = rows /\ unit.nil = FALSE
  BY <1>4, <1>5, Fresh DEF Locals
<1>7. CASE behind
  <2> DEFINE r == [unit EXCEPT !.op = "big", !.owed = Held]
  <2>1. Goto(p, "idle", "wait") /\ my' = [my EXCEPT ![p] = r]
    BY <1>1, <1>7
  <2>2. /\ r \in Locals /\ r.op = "big" /\ r.batch = {} /\ r.owed = Held /\ r.safe = 0 /\ r.since = handed /\ r.rows = rows
    BY <1>4, <1>6, Fresh DEF Locals, Ops
  <2> HIDE DEF r
  <2>3. MayCarry(p, "wait", r)
    BY <1>0, <1>5, <2>2 DEF MayCarry
  <2>4. QED BY <1>2, <1>3, <2>1, <2>2, <2>3, BeginAside
<1>8. CASE ~behind
  <2> DEFINE x == IF direct THEN "direct" ELSE "hold"
  <2>1. Goto(p, "idle", x) /\ my' = [my EXCEPT ![p] = unit]
    BY <1>1, <1>8
  <2>2. x \in {"direct", "hold"} /\ (x = "hold" => rows <= Cap)
    BY <1>5, <1>8
  <2> HIDE DEF x, unit
  <2>3. MayCarry(p, x, unit)
    BY <1>0, <1>5, <1>6, <2>2 DEF MayCarry
  <2>4. QED BY <1>2, <1>3, <1>6, <2>1, <2>2, <2>3, BeginAside
<1>9. QED BY <1>7, <1>8

\* A write that comes after the waiting rows is owed what is held.
LEMMA WriteKeeps == ASSUME SbInv, NEW p \in Procs, Write(p) PROVE SbInv'
<1> DEFINE r == [Begun(p) EXCEPT !.op = "order", !.owed = Held, !.nil = TRUE]
           x == IF NothingWaits THEN "after" ELSE "wait"
<1>1. Goto(p, "idle", x) /\ my' = [my EXCEPT ![p] = r] /\ ~closed
  BY DEF Write, EnterAt
<1>2. /\ UNCHANGED <<buf, waiting, writtenOff, failing, handed, size, disk, dropped, gone, old, memo, moved, quiet,
                     missed, gate>>
      /\ due' = due /\ closed' = closed
  BY DEF Write, timerVars, saysVars, closeVars, unitVars, lossVars, memoVars
<1>3. due' \in BOOLEAN /\ closed' \in BOOLEAN
  BY <1>2 DEF SbInv, Control, SbShape
<1>4. pc[p] = "idle"
  BY <1>1 DEF Goto
<1>0. /\ handed \in Nat /\ old \in Nat /\ old <= handed /\ Held \subseteq 1 .. handed /\ (~closed => ~writtenOff)
  BY <1>4, Fresh
<1>5. /\ r \in Locals /\ r.op = "order" /\ r.batch = {} /\ r.owed = Held /\ r.safe = 0 /\ r.since = handed
  BY <1>4, Fresh DEF Locals, Ops
<1>6. x \in {"after", "wait"} /\ (x = "after" => Held = {})
  BY <1>1, NoneWait
<1> HIDE DEF x, r
<1>7. MayCarry(p, x, r)
  BY <1>0, <1>5, <1>6 DEF MayCarry
<1>8. QED BY <1>1, <1>2, <1>3, <1>5, <1>6, <1>7, BeginAside

\* A read begins: what it may remember ends before it.
LEMMA ReadKeeps == ASSUME SbInv, NEW p \in Procs, Read(p) PROVE SbInv'
<1> DEFINE r == [Begun(p) EXCEPT !.op = "read", !.nil = TRUE, !.safe = old]
           x == IF NothingWaits THEN "after" ELSE "quiet"
<1>1. Goto(p, "idle", x) /\ my' = [my EXCEPT ![p] = r]
  BY DEF Read, EnterAt
<1>2. /\ UNCHANGED <<buf, waiting, writtenOff, failing, handed, size, disk, dropped, gone, old, memo, moved, quiet,
                     missed, gate>>
      /\ due' = due /\ closed' = closed
  BY DEF Read, timerVars, saysVars, closeVars, unitVars, lossVars, memoVars
<1>3. due' \in BOOLEAN /\ closed' \in BOOLEAN
  BY <1>2 DEF SbInv, Control, SbShape
<1>4. pc[p] = "idle"
  BY <1>1 DEF Goto
<1>0. /\ handed \in Nat /\ old \in Nat /\ old <= handed /\ Held \subseteq 1 .. handed /\ (~closed => ~writtenOff)
  BY <1>4, Fresh
<1>5. /\ r \in Locals /\ r.op = "read" /\ r.batch = {} /\ r.owed = {} /\ r.safe = old /\ r.since = handed
  BY <1>4, Fresh DEF Locals, Ops
<1>6. x \in {"after", "quiet"} /\ (x = "after" => 1 .. handed \subseteq Settled)
  BY NoneWait
<1>7. 1 .. old \subseteq 1 .. handed
  BY <1>0
<1> HIDE DEF x, r
<1>8. MayCarry(p, x, r)
  BY <1>0, <1>5, <1>6, <1>7 DEF MayCarry
<1>9. QED BY <1>1, <1>2, <1>3, <1>5, <1>6, <1>8, BeginAside

\* A timer that runs out becomes a goroutine that has yet to save.
LEMMA ExpireKeeps == ASSUME SbInv, NEW p \in Procs, Expire(p) PROVE SbInv'
<1>1. Goto(p, "idle", "fired") /\ my' = [my EXCEPT ![p] = Begun(p)]
  BY DEF Expire
<1>2. /\ UNCHANGED <<buf, waiting, writtenOff, failing, handed, size, disk, dropped, gone, old, memo, moved, quiet,
                     missed, gate>>
      /\ due' = due /\ closed' = closed
  BY DEF Expire, saysVars, closeVars, unitVars, lossVars, memoVars
<1>3. due' \in BOOLEAN /\ closed' \in BOOLEAN
  BY <1>2 DEF SbInv, Control, SbShape
<1>4. pc[p] = "idle"
  BY <1>1 DEF Goto
<1>5. /\ Begun(p) \in Locals /\ Begun(p).op = "none" /\ Begun(p).batch = {} /\ Begun(p).owed = {} /\ Begun(p).safe = 0
      /\ Begun(p).since = handed
      /\ handed \in Nat /\ old \in Nat /\ old <= handed
  BY <1>4, Fresh
<1>7. MayCarry(p, "fired", Begun(p))
  <2> DEFINE r == Begun(p)
  <2>1. r.op = "none" /\ r.batch = {} /\ r.owed = {} /\ r.safe = 0 /\ r.since = handed
    BY <1>5
  <2> HIDE DEF r
  <2>2. MayCarry(p, "fired", r)
    BY <1>5, <2>1 DEF MayCarry
  <2>3. QED BY <2>2 DEF r
<1>8. QED BY <1>1, <1>2, <1>3, <1>5, <1>7, BeginAside

\* From the close on nothing is held, and the closer saves what waits.
LEMMA CloseKeeps == ASSUME SbInv, Close(Closer) PROVE SbInv'
<1> DEFINE r == [Begun(Closer) EXCEPT !.op = "stop"]
<1>1. Goto(Closer, "idle", "load") /\ my' = [my EXCEPT ![Closer] = r] /\ ~closed /\ closed' /\ due' = FALSE /\ Closer \in Procs
  BY DEF Close, Disarm, Procs
<1>2. UNCHANGED <<buf, waiting, writtenOff, failing, handed, size, disk, dropped, gone, old, memo, moved, quiet, missed,
                  gate>>
  BY DEF Close, saysVars, unitVars, lossVars, memoVars
<1>3. due' \in BOOLEAN /\ closed' \in BOOLEAN
  BY DEF Close, Disarm
<1>4. pc[Closer] = "idle"
  BY <1>1 DEF Goto
<1>0. /\ handed \in Nat /\ old \in Nat /\ old <= handed /\ Held \subseteq 1 .. handed /\ (~closed => ~writtenOff)
  BY <1>1, <1>4, Fresh
<1>5. /\ r \in Locals /\ r.op = "stop" /\ r.batch = {} /\ r.owed = {} /\ r.safe = 0 /\ r.since = handed
  BY <1>1, <1>4, Fresh DEF Locals, Ops
<1> HIDE DEF r
<1>6. MayCarry(Closer, "load", r)
  BY <1>0, <1>1, <1>5 DEF MayCarry
<1>7. QED BY <1>1, <1>2, <1>3, <1>5, <1>6, BeginAside

\* A full buffer is saved before the unit is held.
LEMMA FullKeeps == ASSUME SbInv, NEW p \in Procs, HoldFull(p) PROVE SbInv'
<1> DEFINE r == [my[p] EXCEPT !.op = "cap"]
<1>1. Goto(p, "hold", "load") /\ my' = [my EXCEPT ![p] = r]
  BY DEF HoldFull
<1>2. /\ UNCHANGED <<buf, waiting, writtenOff, failing, handed, size, disk, dropped, gone, old, memo, moved, quiet,
                     missed, gate>>
      /\ due' = due /\ closed' = closed
  BY DEF HoldFull, timerVars, saysVars, closeVars, unitVars, lossVars, memoVars
<1>3. due' \in BOOLEAN /\ closed' \in BOOLEAN
  BY <1>2 DEF SbInv, Control, SbShape
<1>4. pc[p] = "hold" /\ CarriesOwn(p) /\ Timely(p) /\ OwedMet(p) /\ my[p] \in Locals /\ my[p].batch = {}
  BY <1>1 DEF Goto, SbInv, Control, Kept, SbShape, OneSave, Writing
<1>5. /\ r \in Locals /\ r.op = "cap" /\ r.batch = {} /\ r.owed = my[p].owed /\ r.safe = my[p].safe /\ r.since = my[p].since
      /\ r.rows = my[p].rows
  BY <1>4 DEF Locals, Ops
<1>6. my[p].safe = 0
  BY <1>4 DEF CarriesOwn
<1> HIDE DEF r
<1>7. MayCarry(p, "load", r)
  BY <1>4, <1>5, <1>6 DEF MayCarry, CarriesOwn, Timely, OwedMet
<1>8. QED BY <1>1, <1>2, <1>3, <1>5, <1>7, BeginAside

\* The timer's goroutine saves, unless its timer was stopped or replaced.
LEMMA TimedKeeps == ASSUME SbInv, NEW p \in Procs, TimedSave(p) PROVE SbInv'
<1>1. /\ UNCHANGED <<buf, waiting, writtenOff, failing, handed, size, disk, dropped, gone, old, memo, moved, quiet,
                     missed, gate>>
      /\ closed' = closed
  BY DEF TimedSave, saysVars, closeVars, unitVars, lossVars, memoVars
<1>2. closed' \in BOOLEAN /\ SbShape /\ Kept
  BY <1>1 DEF SbInv, Control, SbShape
<1>3. CASE mine = p
  <2> DEFINE r == [my[p] EXCEPT !.op = "age"]
  <2>1. Goto(p, "fired", "load") /\ my' = [my EXCEPT ![p] = r] /\ due' = FALSE
    BY <1>3 DEF TimedSave, Disarm
  <2>2. pc[p] = "fired" /\ CarriesOwn(p) /\ Timely(p) /\ OwedMet(p) /\ my[p] \in Locals /\ my[p].batch = {}
    BY <2>1 DEF Goto, SbInv, Control, Kept, SbShape, OneSave, Writing
  <2>3. /\ r \in Locals /\ r.op = "age" /\ r.batch = {} /\ r.owed = my[p].owed /\ r.safe = my[p].safe
        /\ r.since = my[p].since /\ my[p].safe = 0
    BY <2>2 DEF Locals, Ops, CarriesOwn
  <2> HIDE DEF r
  <2>4. MayCarry(p, "load", r)
    BY <2>2, <2>3 DEF MayCarry, CarriesOwn, Timely, OwedMet
  <2>5. Coming(p)' /\ due' \in BOOLEAN
    <3>1. pc'[p] = "load" /\ my'[p] = r
      BY <1>2, <2>1 DEF Goto, SbShape
    <3>2. QED BY <2>1, <2>3, <3>1 DEF Coming, Brief
  <2>6. QED BY <1>1, <1>2, <2>1, <2>3, <2>4, <2>5, BeginAside
<1>4. CASE mine # p
  <2>1. Return(p, "fired") /\ due' = due
    BY <1>4 DEF TimedSave, timerVars
  <2>2. memo' \in Memos /\ Remembers(memo'.skip) /\ moved' \in SUBSET Readers /\ \A q \in moved : q # p => q \in moved'
    BY <1>1, <1>2 DEF Kept, SbShape
  <2>3. QED BY <1>1, <2>1, <2>2, ReturnAside
<1>5. QED BY <1>3, <1>4

\* A reader takes the memo as it is, and sees from then on whether it is purged.
LEMMA MemoKeeps == ASSUME SbInv, NEW p \in Procs, ReadMemo(p) PROVE SbInv'
<1> DEFINE r == [my[p] EXCEPT !.seen = memo]
<1>1. pc[p] = "after" /\ pc' = [pc EXCEPT ![p] = "scan"] /\ my' = [my EXCEPT ![p] = r] /\ moved' = moved \ {p}
  BY DEF ReadMemo, Goto
<1>2. UNCHANGED <<buf, waiting, writtenOff, failing, handed, size, disk, dropped, gone, old, memo, closed, due, quiet,
                  missed, gate>>
  BY DEF ReadMemo, timerVars, saysVars, closeVars, unitVars, lossVars
<1>3. /\ SbShape /\ Kept /\ OneSave /\ CarriesOwn(p) /\ Timely(p) /\ OwedMet(p) /\ ReadsWhole(p)
      /\ my[p] \in Locals /\ my[p].batch = {} /\ memo \in Memos
  BY <1>1 DEF SbInv, Control, Kept, SbShape, OneSave, Writing
<1>4. /\ r \in Locals /\ r.op = my[p].op /\ r.batch = {} /\ r.owed = my[p].owed /\ r.safe = my[p].safe
      /\ r.since = my[p].since /\ r.rows = my[p].rows /\ r.seen = memo
  BY <1>3 DEF Locals
<1> HIDE DEF r
<1>5. MayCarry(p, "scan", r)
  <2>1. 1 .. r.safe \subseteq Settled \/ missed' \/ failing
    BY <1>1, <1>2, <1>3, <1>4 DEF ReadsWhole
  <2>2. Remembers(r.seen.skip)
    BY <1>3, <1>4 DEF Kept
  <2>3. QED BY <1>1, <1>2, <1>3, <1>4, <2>1, <2>2 DEF MayCarry, CarriesOwn, Timely, OwedMet
<1>6. /\ due' \in BOOLEAN /\ quiet' \in BOOLEAN /\ missed' \in BOOLEAN /\ closed' \in BOOLEAN
      /\ memo' \in Memos /\ Remembers(memo'.skip) /\ moved' \in SUBSET Readers /\ \A q \in moved : q # p => q \in moved'
      /\ gate' \in Procs \union {NoOne} /\ gate' # p /\ gate' = gate
  BY <1>1, <1>2, <1>3 DEF SbShape, Kept, OneSave, Gated, Writing
<1>7. /\ "scan" \in Places /\ "scan" \notin Writing \union {"finish"} /\ "scan" # "take"
      /\ pc[p] \notin Writing \union {"finish"} /\ ~Coming(p)
  BY <1>1 DEF Places, Writing, Coming
<1>8. (missed => missed') /\ (closed => closed') /\ (due => due')
  BY <1>2
<1>9. QED BY <1>1, <1>2, <1>4, <1>5, <1>6, <1>7, <1>8, Aside

\* A scan skips only units that are not in the database, or the caches go.
LEMMA ScanKeeps == ASSUME SbInv, NEW p \in Procs, Scan(p) PROVE SbInv'
<1> DEFINE seen == my[p].seen
           next == [front |-> my[p].safe, skip |-> seen.skip \union ((seen.front + 1 .. my[p].safe) \ disk)]
           r == [my[p] EXCEPT !.seen = next]
<1>1. pc[p] = "scan" /\ pc' = [pc EXCEPT ![p] = "publish"] /\ my' = [my EXCEPT ![p] = r]
  BY DEF Scan, Goto
<1>2. UNCHANGED <<buf, waiting, writtenOff, failing, handed, size, disk, dropped, gone, old, memo, moved, closed, due,
                  quiet, missed, gate>>
  BY DEF Scan, timerVars, saysVars, closeVars, unitVars, lossVars, memoVars
<1>3. /\ SbShape /\ Kept /\ OneSave /\ CarriesOwn(p) /\ Timely(p) /\ OwedMet(p) /\ ReadsWhole(p) /\ Remembered(p) /\ Placed
      /\ my[p] \in Locals /\ my[p].batch = {} /\ seen \in Memos
  BY <1>1 DEF SbInv, Control, Stored, Kept, SbShape, OneSave, Writing, Locals
<1>4. /\ my[p].safe \in Nat /\ seen.front \in Nat /\ seen.skip \in SUBSET Units /\ handed \in Nat /\ MaxUnits \in Nat
      /\ my[p].safe <= handed /\ handed <= MaxUnits
  BY <1>3, BoundAssumption DEF Locals, Memos, SbShape, Timely
<1>5. (seen.front + 1 .. my[p].safe) \subseteq 1 .. my[p].safe /\ 1 .. my[p].safe \subseteq 1 .. handed
      /\ 1 .. handed \subseteq Units
  BY <1>4 DEF Units
<1>6. next \in Memos /\ next.skip = seen.skip \union ((seen.front + 1 .. my[p].safe) \ disk)
  BY <1>4, <1>5 DEF Memos
<1>7. /\ r \in Locals /\ r.op = my[p].op /\ r.batch = {} /\ r.owed = my[p].owed /\ r.safe = my[p].safe
      /\ r.since = my[p].since /\ r.rows = my[p].rows /\ r.seen = next
  BY <1>3, <1>6 DEF Locals
<1>8. ASSUME Remembers(seen.skip) PROVE Remembers(next.skip)
  <2> SUFFICES ASSUME ~writtenOff, ~Purging, NEW u \in next.skip
               PROVE  u \in gone \ disk \/ ((missed \/ failing) /\ u \in Held)
    BY DEF Remembers
  <2>1. CASE u \in seen.skip
    BY <1>8, <2>1 DEF Remembers
  <2>2. CASE u \in (seen.front + 1 .. my[p].safe) \ disk
    <3>1. u \in 1 .. my[p].safe /\ u \in 1 .. handed /\ u \notin disk
      BY <1>5, <2>2
    <3>2. u \in Settled \/ u \in Held
      BY <1>3, <3>1 DEF Placed
    <3>3. u \in Settled \/ missed \/ failing
      BY <1>1, <1>3, <3>1 DEF ReadsWhole
    <3>4. QED BY <3>1, <3>2, <3>3 DEF Settled
  <2>3. QED BY <1>6, <2>1, <2>2
<1> HIDE DEF r, next, seen
<1>9. MayCarry(p, "publish", r)
  <2>1. p \in Readers /\ p \notin moved' => Remembers(r.seen.skip)
    BY <1>1, <1>2, <1>3, <1>7, <1>8 DEF Remembered, seen
  <2>2. QED BY <1>1, <1>2, <1>3, <1>7, <2>1 DEF MayCarry, CarriesOwn, Timely, OwedMet
<1>10. /\ due' \in BOOLEAN /\ quiet' \in BOOLEAN /\ missed' \in BOOLEAN /\ closed' \in BOOLEAN
       /\ memo' \in Memos /\ Remembers(memo'.skip) /\ moved' \in SUBSET Readers /\ \A q \in moved : q # p => q \in moved'
       /\ gate' \in Procs \union {NoOne} /\ gate' # p /\ gate' = gate
  BY <1>1, <1>2, <1>3 DEF SbShape, Kept, OneSave, Gated, Writing
<1>11. /\ "publish" \in Places /\ "publish" \notin Writing \union {"finish"} /\ "publish" # "take"
       /\ pc[p] \notin Writing \union {"finish"} /\ ~Coming(p)
  BY <1>1 DEF Places, Writing, Coming
<1>12. (missed => missed') /\ (closed => closed') /\ (due => due')
  BY <1>2
<1>13. QED BY <1>1, <1>2, <1>7, <1>9, <1>10, <1>11, <1>12, Aside

\* An answer is remembered only if the memo was not purged meanwhile.
LEMMA PublishKeeps == ASSUME SbInv, NEW p \in Procs, p \in Readers, Publish(p) PROVE SbInv'
<1>1. /\ Return(p, "publish")
      /\ memo' = IF p \in moved THEN memo ELSE my[p].seen
      /\ moved' = moved \union {p}
      /\ UNCHANGED <<buf, waiting, writtenOff, failing, handed, size, disk, dropped, gone, old, closed, due, quiet,
                     missed, gate>>
  BY DEF Publish, timerVars, saysVars, closeVars, unitVars, lossVars
<1>2. /\ pc[p] = "publish" /\ memo \in Memos /\ my[p].seen \in Memos /\ moved \in SUBSET Readers
      /\ Remembers(memo.skip) /\ Remembered(p)
  BY <1>1 DEF Return, Goto, SbInv, Control, SbShape, Kept, Locals
<1>3. memo' \in Memos /\ Remembers(memo'.skip)
  <2>1. CASE p \in moved
    BY <1>1, <1>2, <2>1
  <2>2. CASE p \notin moved
    BY <1>1, <1>2, <2>2 DEF Remembered
  <2>3. QED BY <2>1, <2>2
<1>4. moved' \in SUBSET Readers /\ \A q \in moved : q # p => q \in moved'
  BY <1>1, <1>2
<1>5. QED BY <1>1, <1>3, <1>4, ReturnAside

-----------------------------------------------------------------------------
(* The steps that move units                                               *)

\* The conjuncts of the invariant, for one process.
LEMMA Parts ==
    ASSUME SbInv, NEW p \in Procs
    PROVE  /\ SbShape /\ OneSave /\ CarriesOwn(p) /\ Timely(p) /\ Placed /\ Counted /\ Tended /\ Kept
           /\ OwedMet(p) /\ ReadsWhole(p) /\ my[p] \in Locals /\ my[p].batch \in SUBSET Units
           /\ Held = buf \union InSave /\ InSave \subseteq Units /\ Held \in SUBSET Units
           /\ handed \in Nat /\ 1 .. handed \subseteq Units /\ old <= handed /\ old \in Nat
<1>1. SbShape /\ OneSave /\ CarriesOwn(p) /\ Timely(p) /\ Placed /\ Counted /\ Tended /\ Kept /\ OwedMet(p) /\ ReadsWhole(p)
  BY DEF SbInv, Control, Stored, Kept
<1>2. my[p] \in Locals /\ my[p].batch \in SUBSET Units
  BY <1>1 DEF SbShape, Locals
<1>3. handed \in Nat /\ 1 .. handed \subseteq Units /\ old <= handed /\ old \in Nat
  BY <1>1, BoundAssumption DEF SbShape, Units
<1>4. Held = buf \union InSave /\ InSave \subseteq Units /\ Held \in SUBSET Units
  BY <1>1, HeldIs, InSaveIs DEF SbShape
<1>5. QED BY <1>1, <1>2, <1>3, <1>4

\* The goroutine that holds the gate.
LEMMA Holder ==
    ASSUME SbInv, NEW p \in Procs, pc[p] \in Gated
    PROVE  /\ gate = p /\ p # NoOne
           /\ \A q \in Procs \ {p} : pc[q] \notin Gated /\ my[q].batch = {}
           /\ InSave = my[p].batch /\ Held = buf \union my[p].batch
<1>1. SbShape /\ OneSave /\ Held = buf \union InSave
  BY Parts
<1>2. gate = p /\ p # NoOne /\ InSave = my[p].batch
  BY <1>1, InSaveIs, ProcsAssumption DEF OneSave
<1>3. \A q \in Procs \ {p} : pc[q] \notin Gated /\ my[q].batch = {}
  BY <1>1, <1>2 DEF OneSave, Gated
<1>4. QED BY <1>1, <1>2, <1>3

\* What keeps the control part: the gate is taken and left by one process, which
\* alone carries rows.
LEMMA ControlKept ==
    ASSUME SbInv, NEW p \in Procs, NEW x \in Places, NEW r \in Locals,
           pc' = [pc EXCEPT ![p] = x], my' = [my EXCEPT ![p] = r],
           buf' \in SUBSET Units, disk' \in SUBSET Units, gone' \in SUBSET Units, waiting' \in Nat, dropped' \in Nat,
           due' \in BOOLEAN, quiet' \in BOOLEAN, failing' \in BOOLEAN, missed' \in BOOLEAN, writtenOff' \in BOOLEAN,
           closed' = closed, writtenOff' => writtenOff \/ p = Closer,
           handed' \in 0 .. MaxUnits, handed <= handed', old' = old, size' \in [Units -> Nat],
           memo' \in Memos, moved' \in SUBSET Readers,
           gate' \in Procs \union {NoOne}, gate' = p <=> x \in Gated, gate' = gate \/ {gate, gate'} = {p, NoOne},
           r.batch # {} <=> x \in Writing,
           CarriesOwn(p)', Timely(p)',
           \A u \in buf' \ buf : handed < u \/ gate' = NoOne
    PROVE  Control' /\ pc'[p] = x /\ my'[p] = r /\ Alone(p) /\ SbShape'
<1>1. /\ SbShape /\ OneSave /\ (\A q \in Procs : CarriesOwn(q)) /\ (\A q \in Procs : Timely(q)) /\ handed \in Nat /\ old <= handed
      /\ old \in Nat
  BY Parts DEF SbInv, Control
<1>2. /\ pc' \in [Procs -> Places] /\ my' \in [Procs -> Locals] /\ pc'[p] = x /\ my'[p] = r /\ Alone(p)
      /\ \A q \in Procs \ {p} : pc'[q] = pc[q] /\ my'[q] = my[q]
  BY <1>1, OneMoves DEF Alone
<1>3. SbShape'
  <2>1. old' \in 0 .. handed'
    BY <1>1
  <2>2. QED BY <1>1, <1>2, <2>1 DEF SbShape
<1>4. \A q \in Procs \ {p} : gate' = q <=> gate = q
  BY ProcsAssumption
<1>5. OneSave'
  BY <1>1, <1>2, <1>4 DEF OneSave
<1>6. ASSUME NEW q \in Procs, q # p PROVE CarriesOwn(q)' /\ Timely(q)'
  <2>1. CarriesOwn(q)'
    BY <1>1, <1>2, <1>6 DEF CarriesOwn
  <2>2. pc'[q] = pc[q] /\ my'[q] = my[q] /\ my[q].since \in Nat /\ my[q].safe \in Nat
    BY <1>1, <1>2, <1>6 DEF SbShape, Locals
  <2>3. ASSUME pc'[q] \in Gated \ {"take"}, NEW u \in buf' PROVE my[q].since < u
    <3>1. gate = q /\ gate' # NoOne
      BY <1>1, <1>4, <1>6, <2>2, <2>3, ProcsAssumption DEF OneSave
    <3>2. CASE u \in buf
      BY <1>1, <2>2, <2>3, <3>2 DEF Timely
    <3>3. CASE u \notin buf
      <4>1. handed < u /\ my[q].since <= handed /\ u \in Nat
        BY <1>1, <2>3, <3>1, <3>3 DEF Timely, Units
      <4>2. QED BY <1>1, <2>2, <4>1
    <3>4. QED BY <3>2, <3>3
  <2>4. Timely(q)'
    <3>1. /\ pc[q] # "idle" => old <= my[q].since
          /\ my[q].since <= handed /\ my[q].safe <= old
      BY <1>1 DEF Timely
    <3>2. handed' \in Nat
      BY BoundAssumption
    <3>3. my[q].since <= handed'
      BY <1>1, <2>2, <3>1, <3>2
    <3>4. QED BY <2>2, <2>3, <3>1, <3>3 DEF Timely
  <2>5. QED BY <2>1, <2>4
<1>7. QED BY <1>2, <1>3, <1>5, <1>6 DEF Control

\* What keeps the promises: what is settled stays so, and who reads knows of it.
LEMMA KeptKept ==
    ASSUME SbInv, NEW p \in Procs, Alone(p), Settled \subseteq Settled', handed <= handed', handed' \in Nat, old' = old,
           Remembers(memo.skip)', moved \subseteq moved',
           \A skip : Remembers(skip) => Remembers(skip)',
           missed \/ failing => missed' \/ failing' \/ 1 .. old \subseteq Settled',
           OwedMet(p)', ReadsWhole(p)', Remembered(p)'
    PROVE  Kept'
<1>1. /\ \A q \in Procs : OwedMet(q) /\ ReadsWhole(q) /\ Remembered(q) /\ Timely(q) /\ my[q] \in Locals
      /\ handed \in Nat /\ old \in Nat
  BY Parts DEF SbInv, Control, Kept
<1>2. ASSUME NEW q \in Procs, q # p PROVE OwedMet(q)' /\ ReadsWhole(q)' /\ Remembered(q)'
  <2>1. pc'[q] = pc[q] /\ my'[q] = my[q]
    BY <1>2 DEF Alone
  <2>2. OwedMet(q)'
    <3>1. 1 .. handed \subseteq 1 .. handed'
      BY <1>1
    <3>2. QED BY <1>1, <2>1, <3>1 DEF OwedMet
  <2>3. ReadsWhole(q)'
    <3>1. 1 .. my[q].safe \subseteq 1 .. old
      <4>1. my[q].safe \in Nat /\ my[q].safe <= old
        BY <1>1 DEF Locals, Timely
      <4>2. QED BY <1>1, <4>1
    <3>2. QED BY <1>1, <2>1, <3>1 DEF ReadsWhole
  <2>4. Remembered(q)'
    BY <1>1, <2>1 DEF Remembered
  <2>5. QED BY <2>2, <2>3, <2>4
<1>3. QED BY <1>2 DEF Kept

\* What a save takes leaves the buffer and is in its hands.
LEMMA TakeKeeps == ASSUME SbInv, NEW p \in Procs, TakeRows(p) PROVE SbInv'
<1> DEFINE r == [my[p] EXCEPT !.batch = buf]
<1>1. /\ buf # {} /\ pc[p] = "take" /\ buf' = {}
      /\ pc' = [pc EXCEPT ![p] = "write"] /\ my' = [my EXCEPT ![p] = r]
  BY DEF TakeRows, Goto
<1>2. UNCHANGED <<waiting, writtenOff, failing, handed, size, disk, dropped, gone, old, memo, moved, closed, due, quiet,
                  missed, gate>>
  BY DEF TakeRows, timerVars, saysVars, closeVars, unitVars, lossVars, memoVars
<1>3. /\ SbShape /\ OneSave /\ CarriesOwn(p) /\ Timely(p) /\ Placed /\ Counted /\ Tended /\ Kept
      /\ OwedMet(p) /\ my[p] \in Locals /\ handed \in Nat
  BY Parts
<1>4. /\ gate = p /\ InSave = my[p].batch /\ \A q \in Procs \ {p} : pc[q] \notin Gated
  BY <1>1, Holder DEF Gated
<1>5. my[p].batch = {}
  BY <1>1, <1>3 DEF OneSave, Writing
<1>6. /\ r \in Locals /\ r.op = my[p].op /\ r.batch = buf /\ r.owed = my[p].owed /\ r.safe = my[p].safe
      /\ r.since = my[p].since /\ r.rows = my[p].rows
  BY <1>3 DEF Locals, SbShape
<1> HIDE DEF r
<1>7. pc'[p] = "write" /\ my'[p] = r /\ Alone(p)
  <2>1. "write" \in Places
    BY DEF Places, Gated, Writing
  <2>2. QED BY <1>1, <1>3, <1>6, <2>1, OneMoves
<1>8. CarriesOwn(p)' /\ Timely(p)'
  BY <1>1, <1>2, <1>3, <1>6, <1>7 DEF CarriesOwn, Timely
<1>9. Control' /\ SbShape'
  <2>1. /\ buf' \in SUBSET Units /\ disk' \in SUBSET Units /\ gone' \in SUBSET Units /\ waiting' \in Nat /\ dropped' \in Nat
        /\ due' \in BOOLEAN /\ quiet' \in BOOLEAN /\ failing' \in BOOLEAN /\ missed' \in BOOLEAN /\ writtenOff' \in BOOLEAN
        /\ handed' \in 0 .. MaxUnits /\ handed <= handed' /\ size' \in [Units -> Nat]
        /\ memo' \in Memos /\ moved' \in SUBSET Readers /\ gate' \in Procs \union {NoOne}
    BY <1>1, <1>2, <1>3 DEF SbShape
  <2>2. "write" \in Places /\ "write" \in Gated /\ "write" \in Writing /\ r.batch # {}
    BY <1>1, <1>6 DEF Places, Gated, Writing
  <2>3. QED BY <1>1, <1>2, <1>4, <1>6, <1>8, <2>1, <2>2, ControlKept
<1>10. Held' = Held /\ InSave' = buf /\ Settled' = Settled
  <2>1. InSave' = my'[p].batch
    BY <1>1, <1>3, <1>7, InSaveNext DEF Gated
  <2>2. Settled' = Settled
    BY <1>2 DEF Settled
  <2>3. QED BY <1>1, <1>4, <1>5, <1>6, <1>7, <2>1, <2>2, HeldIs
<1>11. Placed'
  <2>1. \A q \in Procs :
          /\ pc'[q] = "landed" => my'[q].batch \subseteq disk
          /\ pc'[q] \in {"write", "deferred", "failed"} => my'[q].batch \intersect disk = {}
    BY <1>3, <1>4, <1>6, <1>7 DEF Alone, Placed, Gated, Writing
  <2>2. QED BY <1>1, <1>2, <1>3, <1>10, <2>1 DEF Placed
<1>12. Counted'
  BY <1>2, <1>3, <1>10 DEF Counted, Rows, RowsOf
<1>13. Tended'
  <2>1. Coming(p)'
    BY <1>7 DEF Coming
  <2>2. QED BY <1>1, <1>2, <1>3, <1>10, <2>1 DEF Tended
<1>14. Kept'
  <2>1. \A skip : Remembers(skip) => Remembers(skip)'
    <3>1. ~Purging
      BY <1>1, <1>4 DEF Purging, Gated
    <3>2. QED BY <1>2, <1>10, <3>1 DEF Remembers
  <2>2. OwedMet(p)'
    <3>1. my[p].owed \subseteq Settled \union buf
      BY <1>3, <1>4, <1>5, HeldIs DEF OwedMet, Placed
    <3>2. QED BY <1>2, <1>3, <1>6, <1>7, <1>10, <3>1 DEF OwedMet
  <2>3. ReadsWhole(p)' /\ Remembered(p)'
    BY <1>7 DEF ReadsWhole, Remembered
  <2>4. Remembers(memo.skip)'
    BY <1>2, <1>3, <2>1 DEF Kept
  <2>5. handed <= handed' /\ handed' \in Nat
    BY <1>2, <1>3
  <2>6. QED BY <1>2, <1>7, <1>10, <2>1, <2>2, <2>3, <2>4, <2>5, KeptKept
<1>15. QED BY <1>9, <1>11, <1>12, <1>13, <1>14 DEF SbInv, Stored

\* A save's transaction stores all that it carries, or nothing.
LEMMA RunKeeps == ASSUME SbInv, NEW p \in Procs, RunSave(p) PROVE SbInv'
<1>1. PICK x \in {"landed", "deferred", "failed"} :
         /\ pc[p] = "write" /\ pc' = [pc EXCEPT ![p] = x]
         /\ x = "landed" => disk' = disk \union my[p].batch
         /\ x # "landed" => disk' = disk
  BY DEF RunSave, Goto
<1>2. UNCHANGED <<my, buf, waiting, writtenOff, failing, handed, size, dropped, gone, old, memo, moved, closed, due, quiet,
                  missed, gate>>
  BY DEF RunSave, timerVars, saysVars, closeVars, unitVars, lossVars, memoVars
<1>3. /\ SbShape /\ OneSave /\ CarriesOwn(p) /\ Timely(p) /\ Placed /\ Counted /\ Tended /\ Kept
      /\ OwedMet(p) /\ my[p] \in Locals /\ my[p].batch \in SUBSET Units /\ handed \in Nat
      /\ Held = buf \union InSave /\ (Held = buf \union InSave)'
  BY Parts, HeldIs
<1>4. /\ gate = p /\ InSave = my[p].batch /\ \A q \in Procs \ {p} : pc[q] \notin Gated
  BY <1>1, Holder DEF Gated, Writing
<1>5. x \in Places /\ x \in Gated /\ x \in Writing /\ my[p].batch # {} /\ my' = [my EXCEPT ![p] = my[p]]
  BY <1>1, <1>2, <1>3 DEF Places, Gated, Writing, OneSave, SbShape
<1>6. pc'[p] = x /\ my'[p] = my[p] /\ Alone(p)
  BY <1>1, <1>3, <1>5, OneMoves
<1>7. CarriesOwn(p)' /\ Timely(p)'
  <2>1. CarriesOwn(p)'
    BY <1>1, <1>2, <1>3, <1>6 DEF CarriesOwn
  <2>2. Timely(p)'
    BY <1>1, <1>2, <1>3, <1>6 DEF Timely, Gated, Writing
  <2>3. QED BY <2>1, <2>2
<1>8. Control' /\ SbShape'
  <2>1. /\ buf' \in SUBSET Units /\ disk' \in SUBSET Units /\ gone' \in SUBSET Units /\ waiting' \in Nat /\ dropped' \in Nat
        /\ due' \in BOOLEAN /\ quiet' \in BOOLEAN /\ failing' \in BOOLEAN /\ missed' \in BOOLEAN /\ writtenOff' \in BOOLEAN
        /\ handed' \in 0 .. MaxUnits /\ handed <= handed' /\ size' \in [Units -> Nat]
        /\ memo' \in Memos /\ moved' \in SUBSET Readers /\ gate' \in Procs \union {NoOne}
    BY <1>1, <1>2, <1>3 DEF SbShape
  <2>2. QED BY <1>1, <1>2, <1>3, <1>4, <1>5, <1>7, <2>1, ControlKept
<1>9. Held' = Held /\ InSave' = InSave /\ Settled \subseteq Settled' /\ Settled' \subseteq Settled \union Held
  <2>1. InSave' = InSave
    BY <1>3, <1>6, InSaveNext
  <2>2. Settled \subseteq Settled' /\ Settled' \subseteq Settled \union InSave
    BY <1>1, <1>2, <1>4 DEF Settled
  <2>3. QED BY <1>2, <1>3, <2>1, <2>2
<1>10. Placed'
  <2>1. \A q \in Procs :
          /\ pc'[q] = "landed" => my'[q].batch \subseteq disk'
          /\ pc'[q] \in {"write", "deferred", "failed"} => my'[q].batch \intersect disk' = {}
    BY <1>1, <1>3, <1>4, <1>6 DEF Alone, Placed, Gated, Writing
  <2>2. 1 .. handed = Settled' \union Held'
    BY <1>3, <1>9 DEF Placed
  <2>3. buf \intersect (disk' \union InSave') = {}
    BY <1>1, <1>3, <1>4, <1>9 DEF Placed
  <2>4. ~writtenOff => gone \intersect (disk' \union Held') = {}
    BY <1>1, <1>3, <1>4, <1>9 DEF Placed
  <2>5. QED BY <1>2, <1>3, <1>9, <2>1, <2>2, <2>3, <2>4 DEF Placed
<1>11. Counted'
  BY <1>2, <1>3, <1>9 DEF Counted, Rows, RowsOf
<1>12. Tended'
  <2>1. Coming(p)'
    BY <1>6 DEF Coming
  <2>2. QED BY <1>2, <1>3, <1>9, <2>1 DEF Tended
<1>13. Kept'
  <2>1. ASSUME NEW skip, Remembers(skip) PROVE Remembers(skip)'
    <3>1. ~Purging
      BY <1>1, <1>4 DEF Purging, Gated, Writing
    <3>2. CASE writtenOff
      BY <1>2, <3>2 DEF Remembers
    <3>3. CASE ~writtenOff
      <4>1. gone \ disk \subseteq gone \ disk'
        BY <1>1, <1>3, <1>4, <3>3 DEF Placed
      <4>2. QED BY <1>2, <1>9, <2>1, <3>1, <3>3, <4>1 DEF Remembers
    <3>4. QED BY <3>2, <3>3
  <2>2. OwedMet(p)'
    BY <1>1, <1>2, <1>3, <1>6, <1>9 DEF OwedMet
  <2>3. ReadsWhole(p)' /\ Remembered(p)'
    BY <1>1, <1>6 DEF ReadsWhole, Remembered
  <2>4. Remembers(memo.skip)'
    BY <1>2, <1>3, <2>1 DEF Kept
  <2>5. handed <= handed' /\ handed' \in Nat /\ (missed \/ failing => missed' \/ failing')
    BY <1>2, <1>3
  <2>6. QED BY <1>2, <1>6, <1>9, <2>1, <2>2, <2>3, <2>4, <2>5, KeptKept
<1>14. QED BY <1>8, <1>10, <1>11, <1>12, <1>13 DEF SbInv, Stored

\* What landed no longer waits; a deadline is set for what arrived meanwhile.
LEMMA LandedKeeps == ASSUME SbInv, NEW p \in Procs, Landed(p) PROVE SbInv'
<1> DEFINE purge == failing \/ missed
           r == [my[p] EXCEPT !.batch = {}, !.purge = purge]
<1>1. /\ pc[p] = "landed" /\ pc' = [pc EXCEPT ![p] = "finish"] /\ my' = [my EXCEPT ![p] = r]
      /\ waiting' = IF writtenOff THEN waiting ELSE waiting - Rows(my[p].batch)
      /\ quiet' = FALSE /\ failing' = FALSE /\ missed' = FALSE
      /\ IF buf # {} /\ ~closed THEN Arm(TRUE) ELSE Disarm
  BY DEF Landed, Goto
<1>2. UNCHANGED <<buf, disk, writtenOff, handed, size, dropped, gone, old, memo, moved, closed, gate>>
  BY DEF Landed, closeVars, unitVars, lossVars, memoVars
<1>3. /\ SbShape /\ OneSave /\ CarriesOwn(p) /\ Timely(p) /\ Placed /\ Counted /\ Tended /\ Kept
      /\ OwedMet(p) /\ my[p] \in Locals /\ my[p].batch \in SUBSET Units /\ handed \in Nat /\ old \in Nat /\ old <= handed
      /\ Held = buf \union InSave /\ (Held = buf \union InSave)'
  BY Parts, HeldIs
<1>4. /\ gate = p /\ InSave = my[p].batch /\ \A q \in Procs \ {p} : pc[q] \notin Gated
  BY <1>1, Holder DEF Gated, Writing
<1>5. due' \in BOOLEAN /\ (buf # {} /\ ~closed => due')
  BY <1>1 DEF Arm, Disarm
<1>6. purge \in BOOLEAN
  BY <1>3 DEF SbShape
<1>7. /\ r \in Locals /\ r.op = my[p].op /\ r.batch = {} /\ r.owed = my[p].owed /\ r.safe = my[p].safe
      /\ r.since = my[p].since /\ r.rows = my[p].rows /\ r.purge = purge
  BY <1>3, <1>6 DEF Locals
<1> HIDE DEF r, purge
<1>8. pc'[p] = "finish" /\ my'[p] = r /\ Alone(p)
  <2>1. "finish" \in Places
    BY DEF Places, Gated, Writing
  <2>2. QED BY <1>1, <1>3, <1>7, <2>1, OneMoves
<1>9. CarriesOwn(p)' /\ Timely(p)'
  <2>1. CarriesOwn(p)'
    BY <1>1, <1>2, <1>3, <1>7, <1>8 DEF CarriesOwn
  <2>2. Timely(p)'
    BY <1>1, <1>2, <1>3, <1>7, <1>8 DEF Timely, Gated, Writing
  <2>3. QED BY <2>1, <2>2
<1>10. InSave' = {} /\ Held' = buf /\ Settled' = Settled /\ my[p].batch \subseteq disk
  <2>1. InSave' = my'[p].batch
    BY <1>1, <1>3, <1>8, InSaveNext DEF Gated, Writing
  <2>2. Settled' = Settled
    BY <1>2 DEF Settled
  <2>3. my[p].batch \subseteq disk
    BY <1>1, <1>3 DEF Placed
  <2>4. QED BY <1>2, <1>3, <1>7, <1>8, <2>1, <2>2, <2>3
<1>11. waiting' \in Nat /\ waiting' = IF writtenOff THEN 0 ELSE Rows(buf)
  <2>1. size \in [Units -> Nat] /\ buf \in SUBSET Units /\ buf \intersect my[p].batch = {}
    BY <1>3, <1>4 DEF SbShape, Placed
  <2>2. /\ RowsIn(size, buf \union my[p].batch) = RowsIn(size, buf) + RowsIn(size, my[p].batch)
        /\ RowsIn(size, buf) \in Nat /\ RowsIn(size, my[p].batch) \in Nat
    BY <1>3, <2>1, RowsAdd, RowsFinite
  <2>3. ~writtenOff => waiting = RowsIn(size, buf \union my[p].batch)
    BY <1>3, <1>4, RowsAreRowsIn DEF Counted
  <2>4. waiting' = IF writtenOff THEN waiting ELSE waiting - RowsIn(size, my[p].batch)
    BY <1>1, RowsAreRowsIn
  <2>5. writtenOff => waiting = 0
    BY <1>3 DEF Counted
  <2>6. Rows(buf) = RowsIn(size, buf)
    BY RowsAreRowsIn
  <2>7. QED BY <2>2, <2>3, <2>4, <2>5, <2>6
<1>12. Control' /\ SbShape'
  <2>1. /\ buf' \in SUBSET Units /\ disk' \in SUBSET Units /\ gone' \in SUBSET Units /\ dropped' \in Nat
        /\ writtenOff' \in BOOLEAN
        /\ handed' \in 0 .. MaxUnits /\ handed <= handed' /\ size' \in [Units -> Nat]
        /\ memo' \in Memos /\ moved' \in SUBSET Readers /\ gate' \in Procs \union {NoOne}
    BY <1>2, <1>3 DEF SbShape
  <2>2. quiet' \in BOOLEAN /\ failing' \in BOOLEAN /\ missed' \in BOOLEAN
    BY <1>1
  <2>3. "finish" \in Places /\ "finish" \in Gated /\ "finish" \notin Writing
    BY DEF Places, Gated, Writing
  <2>4. QED BY <1>1, <1>2, <1>4, <1>5, <1>7, <1>9, <1>11, <2>1, <2>2, <2>3, ControlKept
<1>13. Placed'
  <2>1. \A q \in Procs :
          /\ pc'[q] = "landed" => my'[q].batch \subseteq disk
          /\ pc'[q] \in {"write", "deferred", "failed"} => my'[q].batch \intersect disk = {}
    BY <1>3, <1>4, <1>8 DEF Alone, Placed, Gated, Writing
  <2>2. 1 .. handed = Settled' \union Held'
    BY <1>3, <1>4, <1>10 DEF Placed, Settled
  <2>3. QED BY <1>2, <1>3, <1>10, <2>1, <2>2 DEF Placed
<1>14. Counted'
  <2>1. Rows(Held)' = Rows(buf) /\ Rows(gone)' = Rows(gone)
    BY <1>2, <1>10 DEF Rows, RowsOf
  <2>2. QED BY <1>2, <1>3, <1>10, <1>11, <2>1 DEF Counted
<1>15. Tended'
  BY <1>1, <1>2, <1>5 DEF Tended
<1>16. 1 .. old \subseteq Settled
  <2>1. ASSUME NEW u \in 1 .. old PROVE u \notin buf
    <3>1. u \in buf => my[p].since < u
      BY <1>1, <1>3 DEF Timely, Gated, Writing
    <3>2. old <= my[p].since /\ my[p].since \in Nat
      BY <1>1, <1>3 DEF Timely, Locals
    <3>3. QED BY <1>3, <3>1, <3>2
  <2>2. 1 .. old \subseteq 1 .. handed
    BY <1>3
  <2>3. QED BY <1>3, <1>4, <1>10, <2>1, <2>2 DEF Placed, Settled
<1>17. Kept'
  <2>1. ASSUME NEW skip, Remembers(skip) PROVE Remembers(skip)'
    <3>1. ~Purging
      BY <1>1, <1>4 DEF Purging, Gated, Writing
    <3>2. CASE purge
      <4>1. Purging'
        BY <1>7, <1>8, <3>2 DEF Purging
      <4>2. QED BY <4>1 DEF Remembers
    <3>3. CASE ~purge
      BY <1>2, <2>1, <3>1, <3>3 DEF Remembers, purge
    <3>4. QED BY <3>2, <3>3
  <2>2. OwedMet(p)'
    BY <1>1, <1>2, <1>3, <1>7, <1>8, <1>10 DEF OwedMet, Settled
  <2>3. ReadsWhole(p)' /\ Remembered(p)'
    <3>1. my[p].safe \in Nat /\ my[p].safe <= old
      BY <1>3 DEF Locals, Timely
    <3>2. 1 .. my[p].safe \subseteq Settled'
      BY <1>3, <1>10, <1>16, <3>1
    <3>3. QED BY <1>7, <1>8, <3>2 DEF ReadsWhole, Remembered
  <2>4. Remembers(memo.skip)'
    BY <1>2, <1>3, <2>1 DEF Kept
  <2>5. handed <= handed' /\ handed' \in Nat /\ 1 .. old \subseteq Settled'
    BY <1>2, <1>3, <1>10, <1>16
  <2>6. QED BY <1>2, <1>8, <1>10, <2>1, <2>2, <2>3, <2>4, <2>5, KeptKept
<1>18. QED BY <1>12, <1>13, <1>14, <1>15, <1>17 DEF SbInv, Stored

\* SaveBuffered returns from its save and leaves the gate.
LEMMA BackKept ==
    ASSUME SbInv, NEW p \in Procs, NEW nil \in BOOLEAN, NEW from \in {"deferred", "failed", "finish"},
           Back(p, from, nil), gate' = NoOne,
           UNCHANGED <<closed, writtenOff, handed, old, size>>,
           buf' \in SUBSET Units, disk' \in SUBSET Units, gone' \in SUBSET Units, waiting' \in Nat, dropped' \in Nat,
           due' \in BOOLEAN, quiet' \in BOOLEAN, failing' \in BOOLEAN, missed' \in BOOLEAN,
           memo' \in Memos, moved' \in SUBSET Readers,
           nil => my[p].owed \subseteq Settled',
           missed' \/ failing' \/ 1 .. my[p].safe \subseteq Settled'
    PROVE  /\ Control' /\ SbShape' /\ Alone(p)
           /\ pc'[p] \in {"idle", "again", "direct", "after"} /\ my'[p].batch = {}
           /\ OwedMet(p)' /\ ReadsWhole(p)' /\ Remembered(p)'
<1>1. /\ SbShape /\ OneSave /\ CarriesOwn(p) /\ Timely(p) /\ OwedMet(p) /\ my[p] \in Locals /\ pc[p] = from
      /\ handed \in Nat
  BY Parts DEF Back, Return, Goto
<1>2. gate = p /\ p # NoOne
  BY <1>1, Holder DEF Gated, Writing
<1>3. /\ writtenOff' \in BOOLEAN /\ handed' \in 0 .. MaxUnits /\ handed <= handed' /\ size' \in [Units -> Nat]
      /\ gate' \in Procs \union {NoOne} /\ gate' # p /\ {gate, gate'} = {p, NoOne}
  BY <1>1, <1>2 DEF SbShape
<1>4. CASE my[p].op = "age"
  <2>1. pc' = [pc EXCEPT ![p] = "idle"] /\ my' = [my EXCEPT ![p] = Blank]
    BY <1>4 DEF Back, Return, Goto
  <2>2. /\ Blank \in Locals /\ Blank.batch = {} /\ Blank.op = "none" /\ Blank.safe = 0 /\ Blank.since = 0
        /\ Blank.owed = {} /\ "idle" \in Places /\ "idle" \notin Gated /\ "idle" \notin Writing
    BY DEF Blank, NoMemo, Locals, Memos, Ops, Places, Gated, Writing
  <2>3. pc'[p] = "idle" /\ my'[p] = Blank
    BY <1>1, <2>1, <2>2, OneMoves
  <2>4. CarriesOwn(p)' /\ Timely(p)'
    BY <1>1, <2>2, <2>3 DEF CarriesOwn, Timely, SbShape
  <2>5. Control' /\ SbShape' /\ Alone(p)
    BY <1>3, <2>1, <2>2, <2>4, ControlKept
  <2>6. QED BY <2>2, <2>3, <2>5 DEF OwedMet, ReadsWhole, Remembered
<1>5. CASE my[p].op # "age"
  <2> DEFINE r == [my[p] EXCEPT !.batch = {}, !.purge = FALSE, !.nil = nil]
             x == IF my[p].op = "cap" THEN "again" ELSE IF my[p].op = "big" THEN "direct" ELSE "after"
  <2>1. pc' = [pc EXCEPT ![p] = x] /\ my' = [my EXCEPT ![p] = r]
    BY <1>5 DEF Back, Goto
  <2>2. /\ r \in Locals /\ r.batch = {} /\ r.nil = nil /\ r.op = my[p].op /\ r.rows = my[p].rows
        /\ r.owed = my[p].owed /\ r.since = my[p].since /\ r.safe = my[p].safe
    BY <1>1 DEF Locals
  <2>3. x \in {"again", "direct", "after"} /\ (x = "again" <=> my[p].op = "cap") /\ (x = "direct" <=> my[p].op = "big")
    OBVIOUS
  <2> HIDE DEF r, x
  <2>4. x \in Places /\ x \notin Gated /\ x \notin Writing
    BY <2>3 DEF Places, Gated, Writing
  <2>5. pc'[p] = x /\ my'[p] = r
    BY <1>1, <2>1, <2>2, <2>4, OneMoves
  <2>6. CarriesOwn(p)' /\ Timely(p)'
    <3>1. CarriesOwn(p)'
      BY <1>1, <2>2, <2>3, <2>5 DEF CarriesOwn
    <3>2. Timely(p)'
      BY <1>1, <2>2, <2>4, <2>5 DEF Timely
    <3>3. QED BY <3>1, <3>2
  <2>7. Control' /\ SbShape' /\ Alone(p)
    BY <1>3, <2>1, <2>2, <2>4, <2>6, ControlKept
  <2>8. OwedMet(p)'
    BY <1>1, <2>2, <2>3, <2>5 DEF OwedMet
  <2>9. ReadsWhole(p)' /\ Remembered(p)'
    BY <2>2, <2>3, <2>5 DEF ReadsWhole, Remembered
  <2>10. QED BY <2>2, <2>3, <2>5, <2>7, <2>8, <2>9
<1>6. QED BY <1>4, <1>5

\* What holds of the units once the holder of the gate has let go of its own.
LEMMA Released ==
    ASSUME SbInv, NEW p \in Procs, pc[p] \in Gated, Alone(p), my'[p].batch = {},
           pc'[p] \in {"idle", "again", "direct", "after"}
    PROVE  /\ InSave' = {} /\ Held' = buf'
           /\ ~Purging'
           /\ \A q \in Procs :
                 /\ pc'[q] = "landed" => my'[q].batch \subseteq disk'
                 /\ pc'[q] \in {"write", "deferred", "failed"} => my'[q].batch \intersect disk' = {}
<1>1. SbShape /\ OneSave
  BY Parts
<1>2. InSave' = {} /\ Held' = buf'
  BY <1>1, InSaveNext, HeldIs
<1>3. \A q \in Procs \ {p} : pc[q] \notin Gated
  BY Holder
<1>4. \A q \in Procs : pc'[q] \notin Gated
  BY <1>3 DEF Alone, Gated, Writing
<1>5. QED BY <1>2, <1>4 DEF Purging, Gated, Writing

\* A save that did not land puts its rows back, and the cap drops the oldest.
LEMMA PutBackKeeps ==
    ASSUME SbInv, NEW p \in Procs, NEW from \in {"deferred", "failed"},
           Back(p, from, FALSE), gate' = NoOne, PutBack(p),
           UNCHANGED <<closed, writtenOff, handed, size, disk, old, memo, moved>>,
           due' \in BOOLEAN, quiet' \in BOOLEAN, failing' \in BOOLEAN, missed' \in BOOLEAN,
           missed' \/ failing', closed \/ due'
    PROVE  SbInv'
<1> DEFINE all == buf \union my[p].batch
           drop == Oldest(all, Cap)
<1>1. /\ SbShape /\ OneSave /\ Placed /\ Counted /\ Tended /\ Kept
      /\ my[p].batch \in SUBSET Units /\ handed \in Nat /\ pc[p] = from
      /\ Held = buf \union InSave /\ Held \in SUBSET Units
  BY Parts DEF Back, Return, Goto
<1>2. gate = p /\ InSave = my[p].batch /\ Held = all
  BY <1>1, Holder DEF Gated, Writing
<1>3. drop \subseteq all
  BY OldestDrops
<1>4. my[p].batch # {} /\ my[p].batch \intersect disk = {}
  BY <1>1 DEF OneSave, Placed, Writing
<1>5. writtenOff => UNCHANGED <<buf, waiting, dropped, gone>>
  BY DEF PutBack, lossVars
<1>6. ~writtenOff => /\ gone' = gone \union drop /\ dropped' = dropped + Rows(drop)
                     /\ buf' = all \ drop /\ waiting' = waiting - Rows(drop)
  BY DEF PutBack, DropTo
<1> HIDE DEF drop, all
<1>7. buf' \in SUBSET Units /\ gone' \in SUBSET Units
  BY <1>1, <1>2, <1>3, <1>5, <1>6 DEF SbShape
<1>8. /\ waiting' \in Nat /\ waiting' = IF writtenOff THEN 0 ELSE Rows(buf')
      /\ dropped' \in Nat /\ dropped' = Rows(gone')
  <2>1. size \in [Units -> Nat] /\ drop \in SUBSET Units /\ all \in SUBSET Units /\ all \ drop \in SUBSET Units /\ gone \in SUBSET Units
    BY <1>1, <1>2, <1>3 DEF SbShape
  <2>2. CASE writtenOff
    BY <1>1, <1>5, <2>2 DEF Counted, SbShape
  <2>3. CASE ~writtenOff
    <3>1. all = (all \ drop) \union drop /\ (all \ drop) \intersect drop = {} /\ gone \intersect drop = {}
      BY <1>1, <1>2, <1>3, <2>3 DEF Placed
    <3>2. /\ RowsIn(size, all) = RowsIn(size, all \ drop) + RowsIn(size, drop)
          /\ RowsIn(size, gone \union drop) = RowsIn(size, gone) + RowsIn(size, drop)
      BY <2>1, <3>1, RowsAdd
    <3>3. RowsIn(size, all \ drop) \in Nat /\ RowsIn(size, drop) \in Nat /\ RowsIn(size, gone) \in Nat
      BY <2>1, RowsFinite
    <3>4. waiting = RowsIn(size, all) /\ dropped = RowsIn(size, gone)
      BY <1>1, <1>2, <2>3, RowsAreRowsIn DEF Counted
    <3>5. /\ waiting' = waiting - RowsIn(size, drop) /\ dropped' = dropped + RowsIn(size, drop)
          /\ Rows(buf') = RowsIn(size, all \ drop) /\ Rows(gone') = RowsIn(size, gone \union drop)
      BY <1>6, <2>3, RowsAreRowsIn
    <3>6. QED BY <2>3, <3>2, <3>3, <3>4, <3>5
  <2>4. QED BY <2>2, <2>3
<1>9. /\ Control' /\ SbShape' /\ Alone(p)
      /\ pc'[p] \in {"idle", "again", "direct", "after"} /\ my'[p].batch = {}
      /\ OwedMet(p)' /\ ReadsWhole(p)' /\ Remembered(p)'
  <2>1. disk' \in SUBSET Units /\ memo' \in Memos /\ moved' \in SUBSET Readers
    BY <1>1 DEF SbShape
  <2>2. QED BY <1>7, <1>8, <2>1, BackKept
<1>10. /\ InSave' = {} /\ Held' = buf' /\ ~Purging'
       /\ \A q \in Procs :
             /\ pc'[q] = "landed" => my'[q].batch \subseteq disk'
             /\ pc'[q] \in {"write", "deferred", "failed"} => my'[q].batch \intersect disk' = {}
  BY <1>1, <1>9, Released DEF Gated, Writing
<1>11. Settled' \union buf' = Settled \union Held /\ Settled \subseteq Settled'
  BY <1>1, <1>2, <1>3, <1>5, <1>6 DEF Placed, Settled
<1>12. Placed'
  <2>1. buf' \intersect disk = {}
    BY <1>1, <1>2, <1>4, <1>5, <1>6 DEF Placed, all
  <2>2. ~writtenOff => gone' \intersect (disk \union buf') = {}
    BY <1>1, <1>2, <1>3, <1>4, <1>6 DEF Placed, all
  <2>3. writtenOff => closed /\ buf' = {}
    BY <1>1, <1>5 DEF Placed
  <2>4. QED BY <1>1, <1>10, <1>11, <2>1, <2>2, <2>3 DEF Placed
<1>13. Counted'
  <2>1. Rows(Held)' = Rows(buf') /\ Rows(gone)' = Rows(gone')
    BY <1>10 DEF Rows, RowsOf
  <2>2. \A u \in buf' : size[u] <= Cap
    BY <1>1, <1>2, <1>5, <1>6 DEF Counted, all
  <2>3. QED BY <1>1, <1>8, <1>10, <2>1, <2>2 DEF Counted
<1>14. Tended'
  <2>1. ~closed => buf' # {}
    <3>1. all \in SUBSET Units /\ all # {} /\ \A u \in all : size[u] <= Cap
      BY <1>1, <1>2, <1>4 DEF Counted, all
    <3>2. all \ drop # {}
      BY <1>1, <3>1, NewestStays DEF drop
    <3>3. ~closed => ~writtenOff
      BY <1>1 DEF Placed
    <3>4. QED BY <1>6, <3>2, <3>3
  <2>2. QED BY <1>10, <2>1 DEF Tended
<1>15. Kept'
  <2>1. ASSUME NEW skip, Remembers(skip) PROVE Remembers(skip)'
    <3>1. ~Purging
      BY <1>1, Holder DEF Purging, Gated, Writing
    <3>2. CASE writtenOff
      BY <3>2 DEF Remembers
    <3>3. CASE ~writtenOff
      <4>1. ASSUME NEW u \in skip PROVE u \in gone' \ disk \/ u \in buf'
        <5>1. u \in gone \ disk \/ u \in Held
          BY <2>1, <3>1, <3>3 DEF Remembers
        <5>2. CASE u \in gone \ disk
          BY <1>6, <3>3, <5>2
        <5>3. CASE u \in Held
          <6>1. u \notin disk
            BY <1>1, <1>2, <1>4, <5>3 DEF Placed, all
          <6>2. QED BY <1>2, <1>6, <3>3, <5>3, <6>1
        <5>4. QED BY <5>1, <5>2, <5>3
      <4>2. QED BY <1>10, <4>1 DEF Remembers
    <3>4. QED BY <3>2, <3>3
  <2>2. Remembers(memo.skip)'
    BY <1>1, <2>1 DEF Kept
  <2>3. handed <= handed' /\ handed' \in Nat
    BY <1>1
  <2>4. QED BY <1>9, <1>11, <2>1, <2>2, <2>3, KeptKept
<1>16. QED BY <1>9, <1>12, <1>13, <1>14, <1>15 DEF SbInv, Stored

\* A save that found the writer taken sees to it that a timer is set.
LEMMA DeferredKeeps == ASSUME SbInv, NEW p \in Procs, Deferred(p) PROVE SbInv'
<1>1. /\ Back(p, "deferred", FALSE) /\ gate' = NoOne /\ PutBack(p)
      /\ quiet' = TRUE /\ missed' = TRUE
      /\ IF ~closed /\ ~due THEN Arm(FALSE) ELSE UNCHANGED timerVars
      /\ UNCHANGED <<failing, closed, writtenOff, handed, size, disk, old, memo, moved>>
  BY DEF Deferred, ReaderGaveUp, closeVars, unitVars, memoVars
<1>2. SbShape
  BY DEF SbInv, Control
<1>3. due' \in BOOLEAN /\ (closed \/ due')
  BY <1>1, <1>2 DEF Arm, timerVars, SbShape
<1>4. quiet' \in BOOLEAN /\ missed' \in BOOLEAN /\ failing' \in BOOLEAN
  BY <1>1, <1>2 DEF SbShape
<1>5. QED BY <1>1, <1>3, <1>4, PutBackKeeps

\* A save that failed is tried again by a timer; the miss is remembered.
LEMMA FailedKeeps == ASSUME SbInv, NEW p \in Procs, Failed(p) PROVE SbInv'
<1>1. /\ Back(p, "failed", FALSE) /\ gate' = NoOne /\ PutBack(p)
      /\ quiet' = TRUE /\ failing' = TRUE /\ missed' = (missed \/ Brief(p))
      /\ IF closed THEN UNCHANGED timerVars ELSE Arm(TRUE)
      /\ UNCHANGED <<closed, writtenOff, handed, size, disk, old, memo, moved>>
  BY DEF Failed, closeVars, unitVars, memoVars
<1>2. SbShape
  BY DEF SbInv, Control
<1>3. due' \in BOOLEAN /\ (closed \/ due')
  BY <1>1, <1>2 DEF Arm, timerVars, SbShape
<1>4. quiet' \in BOOLEAN /\ missed' \in BOOLEAN /\ failing' \in BOOLEAN
  <2>1. missed' \in BOOLEAN
    BY <1>1, Zenon
  <2>2. QED BY <1>1, <2>1
<1>5. QED BY <1>1, <1>3, <1>4, PutBackKeeps

\* The memo goes if a reader may have filled it without the rows; the gate is freed.
LEMMA FinishKeeps == ASSUME SbInv, NEW p \in Procs, Finish(p) PROVE SbInv'
<1>1. /\ Back(p, "finish", TRUE) /\ gate' = NoOne
      /\ memo' = IF my[p].purge THEN NoMemo ELSE memo
      /\ moved' = IF my[p].purge THEN Readers ELSE moved
      /\ UNCHANGED <<buf, waiting, due, quiet, failing, missed, closed, writtenOff, handed, size, disk, dropped, gone, old>>
  BY DEF Finish, timerVars, saysVars, closeVars, unitVars, lossVars
<1>2. /\ SbShape /\ OneSave /\ Placed /\ Counted /\ Tended /\ Kept /\ OwedMet(p) /\ ReadsWhole(p) /\ Timely(p)
      /\ my[p] \in Locals /\ handed \in Nat /\ pc[p] = "finish" /\ Held = buf \union InSave
  BY <1>1, Parts DEF Back, Return, Goto
<1>3. gate = p /\ InSave = {} /\ Settled' = Settled
  BY <1>1, <1>2, Holder DEF OneSave, Gated, Writing, Settled
<1>4. memo' \in Memos /\ moved' \in SUBSET Readers
  BY <1>1, <1>2 DEF SbShape, NoMemo, Memos
<1>5. /\ Control' /\ SbShape' /\ Alone(p)
      /\ pc'[p] \in {"idle", "again", "direct", "after"} /\ my'[p].batch = {}
      /\ OwedMet(p)' /\ ReadsWhole(p)' /\ Remembered(p)'
  <2>1. /\ buf' \in SUBSET Units /\ disk' \in SUBSET Units /\ gone' \in SUBSET Units /\ waiting' \in Nat /\ dropped' \in Nat
        /\ due' \in BOOLEAN /\ quiet' \in BOOLEAN /\ failing' \in BOOLEAN /\ missed' \in BOOLEAN
    BY <1>1, <1>2 DEF SbShape
  <2>2. my[p].owed \subseteq Settled'
    BY <1>2, <1>3 DEF OwedMet
  <2>3. missed' \/ failing' \/ 1 .. my[p].safe \subseteq Settled'
    BY <1>1, <1>2, <1>3 DEF ReadsWhole
  <2>4. QED BY <1>1, <1>4, <2>1, <2>2, <2>3, BackKept
<1>6. /\ InSave' = {} /\ Held' = buf' /\ Held' = Held /\ ~Purging'
      /\ \A q \in Procs :
            /\ pc'[q] = "landed" => my'[q].batch \subseteq disk'
            /\ pc'[q] \in {"write", "deferred", "failed"} => my'[q].batch \intersect disk' = {}
  BY <1>1, <1>2, <1>3, <1>5, Released DEF Gated
<1>7. Placed'
  BY <1>1, <1>2, <1>3, <1>6 DEF Placed
<1>8. Counted'
  BY <1>1, <1>2, <1>6 DEF Counted, Rows, RowsOf
<1>9. Tended'
  <2>1. \A q \in Procs : Coming(q) => Coming(q)'
    BY <1>2, <1>5 DEF Coming, Brief, Alone
  <2>2. QED BY <1>1, <1>2, <1>6, <2>1 DEF Tended
<1>10. Kept'
  <2>1. CASE my[p].purge
    <3>1. Remembers(memo.skip)' /\ \A q \in Procs : Remembered(q)'
      BY <1>1, <2>1 DEF Remembers, Remembered, NoMemo
    <3>2. ASSUME NEW q \in Procs, q # p PROVE OwedMet(q)' /\ ReadsWhole(q)'
      BY <1>1, <1>2, <1>3, <1>5, <3>2 DEF Kept, OwedMet, ReadsWhole, Alone
    <3>3. QED BY <1>5, <3>1, <3>2 DEF Kept
  <2>2. CASE ~my[p].purge
    <3>1. ~Purging
      BY <1>2, <2>2, Holder DEF Purging, Gated
    <3>2. \A skip : Remembers(skip) => Remembers(skip)'
      BY <1>1, <1>6, <3>1 DEF Remembers
    <3>3. memo' = memo /\ moved' = moved
      BY <1>1, <2>2
    <3>4. Remembers(memo.skip)'
      BY <1>2, <3>2, <3>3 DEF Kept
    <3>5. handed <= handed' /\ handed' \in Nat /\ (missed \/ failing => missed' \/ failing')
      BY <1>1, <1>2
    <3>6. QED BY <1>1, <1>3, <1>5, <3>2, <3>3, <3>4, <3>5, KeptKept
  <2>3. QED BY <2>1, <2>2
<1>11. QED BY <1>5, <1>7, <1>8, <1>9, <1>10 DEF SbInv, Stored

-----------------------------------------------------------------------------
(* Handing over a unit                                                     *)

\* hold: the rows of the new unit come on top of those that stay.
LEMMA PutCounts ==
    ASSUME SbInv, NEW p \in Procs, Put(p), ~closed, my[p].rows \in Sizes, my[p].rows <= Cap, InSave' = InSave,
           UNCHANGED <<writtenOff, disk>>
    PROVE  /\ handed + 1 \in Units /\ handed' = handed + 1 /\ ~writtenOff
           /\ \E drop \in SUBSET buf :
                 /\ buf' = (buf \ drop) \union {handed + 1} /\ gone' = gone \union drop
                 /\ Held' = (Held \ drop) \union {handed + 1}
           /\ size' \in [Units -> Nat] /\ waiting' \in Nat /\ dropped' \in Nat
           /\ Counted'
<1> DEFINE n == handed + 1
           drop == Oldest(buf, Cap - my[p].rows)
           rows == my[p].rows
<1>1. /\ SbShape /\ Placed /\ Counted /\ Held = buf \union InSave /\ Held \in SUBSET Units
      /\ handed \in Nat /\ 1 .. handed \subseteq Units /\ (Held = buf \union InSave)'
  BY Parts, HeldIs
<1>2. /\ handed < MaxUnits /\ handed' = n /\ size' = [size EXCEPT ![n] = rows]
      /\ gone' = gone \union drop /\ dropped' = dropped + Rows(drop)
      /\ buf' = (buf \ drop) \union {n} /\ waiting' = waiting - Rows(drop) + rows
  BY DEF Put, HandOver, DropTo
<1>3. drop \subseteq buf
  BY OldestDrops
<1>4. rows \in Nat /\ rows \in Sizes /\ rows <= Cap
  BY SizesAssumption
<1> HIDE DEF drop, rows
<1>5. n \in Units /\ n \notin 1 .. handed /\ 1 .. n = (1 .. handed) \union {n}
  BY <1>1, <1>2, BoundAssumption DEF Units
<1>6. ~writtenOff
  BY <1>1 DEF Placed
<1>7. /\ Held \subseteq 1 .. handed /\ gone \subseteq 1 .. handed /\ disk \subseteq 1 .. handed
      /\ gone \intersect Held = {} /\ buf \intersect InSave = {}
  BY <1>1, <1>6 DEF Placed, Settled
<1>8. Held' = (Held \ drop) \union {n}
  BY <1>1, <1>2, <1>3, <1>7
<1> DEFINE kept == Held \ drop
<1>9. /\ size \in [Units -> Nat] /\ size' \in [Units -> Nat] /\ size'[n] = rows
      /\ \A u \in 1 .. handed : size'[u] = size[u]
  BY <1>1, <1>2, <1>4, <1>5 DEF SbShape
<1>10. /\ drop \in SUBSET Units /\ kept \in SUBSET Units /\ gone \in SUBSET Units /\ {n} \in SUBSET Units
       /\ kept \intersect drop = {} /\ kept \union drop = Held /\ gone \intersect drop = {} /\ kept \intersect {n} = {}
       /\ kept \subseteq 1 .. handed /\ gone \union drop \subseteq 1 .. handed /\ gone \union drop \in SUBSET Units
  BY <1>1, <1>3, <1>5, <1>7
<1> HIDE DEF kept
<1>11. /\ RowsIn(size, Held) = RowsIn(size, kept) + RowsIn(size, drop)
       /\ RowsIn(size, gone \union drop) = RowsIn(size, gone) + RowsIn(size, drop)
       /\ RowsIn(size', kept \union {n}) = RowsIn(size', kept) + RowsIn(size', {n})
  <2>1. RowsIn(size, kept \union drop) = RowsIn(size, kept) + RowsIn(size, drop)
    BY <1>9, <1>10, RowsAdd
  <2>2. RowsIn(size, gone \union drop) = RowsIn(size, gone) + RowsIn(size, drop)
    BY <1>9, <1>10, RowsAdd
  <2>3. RowsIn(size', kept \union {n}) = RowsIn(size', kept) + RowsIn(size', {n})
    BY <1>9, <1>10, RowsAdd
  <2>4. QED BY <1>10, <2>1, <2>2, <2>3
<1>12. RowsIn(size', kept) = RowsIn(size, kept) /\ RowsIn(size', gone \union drop) = RowsIn(size, gone \union drop)
  <2>1. (\A u \in kept : size'[u] = size[u]) /\ \A u \in gone \union drop : size'[u] = size[u]
    BY <1>9, <1>10
  <2>2. QED BY <2>1, RowsAgree
<1>13. RowsIn(size', {n}) = rows
  BY <1>5, <1>9, RowsOfOne
<1>14. RowsIn(size, kept) \in Nat /\ RowsIn(size, drop) \in Nat /\ RowsIn(size, gone) \in Nat
  BY <1>9, <1>10, RowsFinite
<1>15. waiting = RowsIn(size, Held) /\ dropped = RowsIn(size, gone) /\ Rows(drop) = RowsIn(size, drop)
  BY <1>1, <1>6, RowsAreRowsIn DEF Counted
<1>16. /\ waiting' \in Nat /\ waiting' = RowsIn(size', kept \union {n})
       /\ dropped' \in Nat /\ dropped' = RowsIn(size', gone \union drop)
  BY <1>2, <1>4, <1>11, <1>12, <1>13, <1>14, <1>15
<1>17. Rows(Held)' = RowsIn(size', kept \union {n}) /\ Rows(gone)' = RowsIn(size', gone \union drop)
  BY <1>2, <1>8 DEF Rows, RowsOf, RowsIn, RowSet, kept
<1>18. Counted'
  <2>1. \A u \in 1 .. handed' : size'[u] \in Sizes
    BY <1>1, <1>2, <1>4, <1>5, <1>9 DEF Counted
  <2>2. \A u \in Held' : size'[u] <= Cap
    BY <1>1, <1>4, <1>7, <1>8, <1>9 DEF Counted
  <2>3. QED BY <1>6, <1>16, <1>17, <2>1, <2>2 DEF Counted
<1>19. QED BY <1>2, <1>3, <1>5, <1>6, <1>8, <1>9, <1>16, <1>18

\* A unit that is held is counted with those that stay.
LEMMA HoldKeeps == ASSUME SbInv, NEW p \in Procs, Hold(p) PROVE SbInv'
<1> DEFINE n == handed + 1
           every == my[p].every
           x == IF every THEN "idle" ELSE "load"
           r == IF every THEN Blank ELSE [my[p] EXCEPT !.op = "age", !.rows = 0]
<1>1. /\ SbShape /\ OneSave /\ CarriesOwn(p) /\ Timely(p) /\ Placed /\ Counted /\ Tended /\ Kept /\ OwedMet(p)
      /\ my[p] \in Locals /\ handed \in Nat /\ old \in Nat /\ old <= handed
      /\ Held = buf \union InSave /\ Held \in SUBSET Units /\ (Held = buf \union InSave)'
  BY Parts, HeldIs
<1>2. /\ ~closed /\ pc[p] \in {"hold", "again"} /\ Put(p)
      /\ UNCHANGED <<quiet, failing, missed, closed, writtenOff, gate, disk, memo, moved, old>>
  BY DEF Hold, saysVars, closeVars, memoVars
<1>3. pc' = [pc EXCEPT ![p] = x] /\ my' = [my EXCEPT ![p] = r]
  BY DEF Hold, Return, Goto
<1>4. /\ my[p].rows \in Sizes /\ my[p].rows <= Cap /\ my[p].safe = 0 /\ my[p].batch = {} /\ gate # p
      /\ old <= my[p].since /\ my[p].since <= handed
  BY <1>1, <1>2 DEF CarriesOwn, OneSave, Timely, Gated, Writing
<1>5. /\ r \in Locals /\ r.batch = {} /\ r.safe = 0 /\ r.op \in {"none", "age"} /\ r.owed \subseteq my[p].owed
      /\ x = "idle" => r = Blank
      /\ x # "idle" => r.since = my[p].since /\ r.op = "age"
      /\ r.since \in Nat /\ r.since <= handed
  <2>1. Blank \in Locals /\ Blank.batch = {} /\ Blank.op = "none" /\ Blank.safe = 0 /\ Blank.since = 0 /\ Blank.owed = {}
    BY DEF Blank, NoMemo, Locals, Memos, Ops
  <2>2. CASE every
    BY <1>1, <2>1, <2>2
  <2>3. CASE ~every
    BY <1>1, <1>4, <2>3 DEF Locals, Ops
  <2>4. QED BY <2>2, <2>3
<1>6. x \in {"idle", "load"} /\ x \in Places /\ x \notin Gated /\ x \notin Writing /\ (x = "idle" <=> every)
  BY DEF Places, Gated, Writing
<1> HIDE DEF r, x
<1>7. pc'[p] = x /\ my'[p] = r /\ Alone(p)
  BY <1>1, <1>3, <1>5, <1>6, OneMoves
<1>8. InSave' = InSave
  BY <1>1, <1>4, <1>5, <1>7, InSaveNext
<1>9. /\ n \in Units /\ handed' = n /\ ~writtenOff
      /\ \E drop \in SUBSET buf :
            /\ buf' = (buf \ drop) \union {n} /\ gone' = gone \union drop /\ Held' = (Held \ drop) \union {n}
      /\ size' \in [Units -> Nat] /\ waiting' \in Nat /\ dropped' \in Nat /\ Counted'
  BY <1>2, <1>4, <1>8, PutCounts
<1>10. PICK drop \in SUBSET buf :
         buf' = (buf \ drop) \union {n} /\ gone' = gone \union drop /\ Held' = (Held \ drop) \union {n}
  BY <1>9
<1>11. due' \in BOOLEAN /\ (due => due') /\ (every /\ ~failing => due')
  BY <1>1, <1>2 DEF Put, Arm, timerVars, SbShape
<1>12. CarriesOwn(p)' /\ Timely(p)'
  <2>1. CarriesOwn(p)'
    BY <1>5, <1>6, <1>7 DEF CarriesOwn
  <2>2. Timely(p)'
    BY <1>1, <1>2, <1>4, <1>5, <1>6, <1>7, <1>9 DEF Timely
  <2>3. QED BY <2>1, <2>2
<1>13. Control' /\ SbShape'
  <2>1. /\ buf' \in SUBSET Units /\ disk' \in SUBSET Units /\ gone' \in SUBSET Units
        /\ quiet' \in BOOLEAN /\ failing' \in BOOLEAN /\ missed' \in BOOLEAN /\ writtenOff' \in BOOLEAN
        /\ memo' \in Memos /\ moved' \in SUBSET Readers /\ gate' \in Procs \union {NoOne}
    BY <1>1, <1>2, <1>9, <1>10 DEF SbShape
  <2>2. handed' \in 0 .. MaxUnits /\ handed <= handed'
    BY <1>1, <1>9, BoundAssumption DEF Units
  <2>3. \A u \in buf' \ buf : handed < u \/ gate' = NoOne
    BY <1>1, <1>10
  <2>4. gate' = p <=> x \in Gated
    BY <1>2, <1>4, <1>6
  <2>5. gate' = gate \/ {gate, gate'} = {p, NoOne}
    BY <1>2
  <2>6. r.batch # {} <=> x \in Writing
    BY <1>5, <1>6
  <2>7. closed' = closed /\ old' = old /\ (writtenOff' => writtenOff \/ p = Closer)
    BY <1>2
  <2>8. QED BY <1>3, <1>5, <1>6, <1>9, <1>11, <1>12, <2>1, <2>2, <2>3, <2>4, <2>5, <2>6, <2>7, ControlKept
<1>14. /\ n \notin 1 .. handed /\ 1 .. n = (1 .. handed) \union {n}
       /\ Held \subseteq 1 .. handed /\ gone \subseteq 1 .. handed /\ disk \subseteq 1 .. handed
       /\ buf \intersect (disk \union InSave) = {} /\ gone \intersect (disk \union Held) = {}
  BY <1>1, <1>9 DEF Placed, Settled
<1>15. Settled \subseteq Settled' /\ Settled' = Settled \union drop
  BY <1>2, <1>10 DEF Settled
<1>16. Placed'
  <2>1. \A q \in Procs :
          /\ pc'[q] = "landed" => my'[q].batch \subseteq disk
          /\ pc'[q] \in {"write", "deferred", "failed"} => my'[q].batch \intersect disk = {}
    BY <1>1, <1>6, <1>7 DEF Alone, Placed, Writing
  <2>2. 1 .. handed' = Settled' \union Held'
    BY <1>1, <1>9, <1>10, <1>14, <1>15 DEF Placed
  <2>3. buf' \intersect (disk \union InSave') = {}
    BY <1>1, <1>8, <1>10, <1>14
  <2>4. gone' \intersect (disk \union Held') = {}
    BY <1>1, <1>10, <1>14
  <2>5. QED BY <1>2, <1>9, <2>1, <2>2, <2>3, <2>4 DEF Placed
<1>17. Tended'
  <2>1. CASE every
    <3>1. ~Coming(p) /\ \A q \in Procs \ {p} : Coming(q) => Coming(q)'
      BY <1>2, <1>7 DEF Coming, Brief, Alone
    <3>2. failing => due' \/ \E q \in Procs : Coming(q)'
      BY <1>1, <1>2, <1>11, <3>1 DEF Tended
    <3>3. QED BY <1>2, <1>10, <1>11, <2>1, <3>2 DEF Tended
  <2>2. CASE ~every
    <3>1. Coming(p)'
      BY <1>5, <1>6, <1>7, <2>2 DEF Coming, Brief
    <3>2. QED BY <1>10, <3>1 DEF Tended
  <2>3. QED BY <2>1, <2>2
<1>18. Kept'
  <2>1. ASSUME NEW skip, Remembers(skip) PROVE Remembers(skip)'
    <3>1. CASE Purging
      <4>1. Purging'
        BY <1>2, <1>7, <3>1 DEF Purging, Alone
      <4>2. QED BY <4>1 DEF Remembers
    <3>2. CASE ~Purging
      <4>1. ASSUME NEW u \in skip PROVE u \in gone' \ disk \/ ((missed \/ failing) /\ u \in Held')
        <5>1. u \in gone \ disk \/ ((missed \/ failing) /\ u \in Held)
          BY <1>9, <2>1, <3>2 DEF Remembers
        <5>2. u \in drop => u \in gone' \ disk
          BY <1>10, <1>14
        <5>3. QED BY <1>10, <5>1, <5>2
      <4>2. QED BY <1>2, <4>1 DEF Remembers
    <3>3. QED BY <3>1, <3>2
  <2>2. OwedMet(p)'
    BY <1>1, <1>5, <1>6, <1>7, <1>9, <1>14 DEF OwedMet, Writing
  <2>3. ReadsWhole(p)' /\ Remembered(p)'
    BY <1>6, <1>7 DEF ReadsWhole, Remembered
  <2>4. Remembers(memo.skip)'
    BY <1>1, <1>2, <2>1 DEF Kept
  <2>5. handed <= handed' /\ handed' \in Nat /\ old' = old /\ moved \subseteq moved'
    BY <1>1, <1>2, <1>9
  <2>6. missed \/ failing => missed' \/ failing'
    BY <1>2
  <2>7. QED BY <1>7, <1>15, <2>1, <2>2, <2>3, <2>4, <2>5, <2>6, KeptKept
<1>19. QED BY <1>9, <1>13, <1>16, <1>17, <1>18 DEF SbInv, Stored

\* A caller's own write stores the unit at once, or hands nothing over.
LEMMA DirectKeeps == ASSUME SbInv, NEW p \in Procs, WriteDirect(p) PROVE SbInv'
<1> DEFINE n == handed + 1
<1>1. /\ SbShape /\ OneSave /\ CarriesOwn(p) /\ Timely(p) /\ Placed /\ Counted /\ Tended /\ Kept
      /\ handed \in Nat /\ old <= handed /\ 1 .. handed \subseteq Units
      /\ Held = buf \union InSave /\ Held \in SUBSET Units /\ (Held = buf \union InSave)'
  BY Parts, HeldIs
<1>2. Return(p, "direct")
  BY DEF WriteDirect
<1>3. UNCHANGED <<buf, waiting, due, quiet, failing, missed, closed, writtenOff, gate, dropped, gone, memo, moved, old>>
  BY DEF WriteDirect, timerVars, saysVars, closeVars, lossVars, memoVars
<1>4. CASE UNCHANGED <<unitVars, disk>>
  <2>1. UNCHANGED <<handed, size, disk>> /\ memo' \in Memos /\ Remembers(memo'.skip) /\ moved' \in SUBSET Readers
    BY <1>1, <1>3, <1>4 DEF unitVars, SbShape, Kept
  <2>2. \A q \in moved : q # p => q \in moved'
    BY <1>3
  <2>3. QED BY <1>2, <1>3, <2>1, <2>2, ReturnAside
<1>5. CASE HandOver(p) /\ disk' = disk \union {n}
  <2>1. /\ handed' = n /\ handed < MaxUnits /\ size' = [size EXCEPT ![n] = my[p].rows] /\ disk' = disk \union {n}
        /\ pc[p] = "direct" /\ pc' = [pc EXCEPT ![p] = "idle"] /\ my' = [my EXCEPT ![p] = Blank]
        /\ my[p].rows \in Sizes
    BY <1>1, <1>2, <1>5 DEF HandOver, Return, Goto, CarriesOwn
  <2>2. /\ Blank \in Locals /\ Blank.batch = {} /\ Blank.op = "none" /\ Blank.safe = 0 /\ Blank.since = 0 /\ Blank.owed = {}
        /\ "idle" \in Places /\ "idle" \notin Gated /\ "idle" \notin Writing
    BY DEF Blank, NoMemo, Locals, Memos, Ops, Places, Gated, Writing
  <2>3. pc'[p] = "idle" /\ my'[p] = Blank /\ Alone(p) /\ my[p].batch = {} /\ gate # p
    BY <1>1, <2>1, <2>2, OneMoves DEF OneSave, Gated, Writing
  <2>4. InSave' = InSave /\ Held' = Held
    BY <1>1, <1>3, <2>2, <2>3, InSaveNext
  <2>5. n \in Units /\ n \notin 1 .. handed /\ 1 .. n = (1 .. handed) \union {n}
    BY <1>1, <2>1, BoundAssumption DEF Units
  <2>6. /\ size \in [Units -> Nat] /\ size' \in [Units -> Nat] /\ size'[n] = my[p].rows
        /\ \A u \in 1 .. handed : size'[u] = size[u]
    BY <1>1, <2>1, <2>5, SizesAssumption DEF SbShape
  <2>7. Held \subseteq 1 .. handed /\ gone \subseteq 1 .. handed /\ disk \subseteq 1 .. handed
    BY <1>1 DEF Placed, Settled
  <2>8. CarriesOwn(p)' /\ Timely(p)'
    BY <1>1, <1>3, <2>1, <2>2, <2>3 DEF CarriesOwn, Timely, SbShape
  <2>9. Control' /\ SbShape'
    <3>1. /\ buf' \in SUBSET Units /\ disk' \in SUBSET Units /\ gone' \in SUBSET Units /\ waiting' \in Nat
          /\ dropped' \in Nat /\ due' \in BOOLEAN
          /\ quiet' \in BOOLEAN /\ failing' \in BOOLEAN /\ missed' \in BOOLEAN /\ writtenOff' \in BOOLEAN
          /\ memo' \in Memos /\ moved' \in SUBSET Readers /\ gate' \in Procs \union {NoOne}
      BY <1>1, <1>3, <2>1, <2>5 DEF SbShape
    <3>2. handed' \in 0 .. MaxUnits /\ handed <= handed'
      BY <1>1, <2>1, BoundAssumption
    <3>3. gate' = p <=> "idle" \in Gated
      BY <1>3, <2>2, <2>3
    <3>4. gate' = gate \/ {gate, gate'} = {p, NoOne}
      BY <1>3
    <3>5. closed' = closed /\ old' = old /\ (writtenOff' => writtenOff \/ p = Closer) /\ buf' = buf
      BY <1>3
    <3>6. Blank.batch # {} <=> "idle" \in Writing
      BY <2>2
    <3>7. QED BY <2>1, <2>2, <2>6, <2>8, <3>1, <3>2, <3>3, <3>4, <3>5, <3>6, ControlKept
  <2>10. Settled \subseteq Settled' /\ Settled' = Settled \union {n}
    BY <1>3, <2>1 DEF Settled
  <2>11. Placed'
    <3>1. \A q \in Procs : my'[q].batch \subseteq InSave'
      BY DEF InSave
    <3>2. \A q \in Procs :
            /\ pc'[q] = "landed" => my'[q].batch \subseteq disk'
            /\ pc'[q] \in {"write", "deferred", "failed"} => my'[q].batch \intersect disk' = {}
      <4>1. InSave' \subseteq 1 .. handed
        BY <1>1, <2>4, <2>7
      <4>2. QED BY <1>1, <2>1, <2>3, <2>5, <3>1, <4>1 DEF Alone, Placed
    <3>3. 1 .. handed' = Settled' \union Held'
      BY <1>1, <2>1, <2>4, <2>5, <2>10 DEF Placed
    <3>4. buf' \intersect (disk' \union InSave') = {} /\ (~writtenOff => gone' \intersect (disk' \union Held') = {})
      BY <1>1, <1>3, <2>1, <2>4, <2>5, <2>7 DEF Placed
    <3>5. writtenOff => closed /\ buf = {} /\ Held \subseteq gone
      BY <1>1 DEF Placed
    <3>6. QED BY <1>3, <2>4, <3>2, <3>3, <3>4, <3>5 DEF Placed
  <2>12. Counted'
    <3>1. RowsIn(size', Held) = RowsIn(size, Held) /\ RowsIn(size', gone) = RowsIn(size, gone)
      <4>1. (\A u \in Held : size'[u] = size[u]) /\ \A u \in gone : size'[u] = size[u]
        BY <2>6, <2>7
      <4>2. QED BY <4>1, RowsAgree
    <3>2. Rows(Held)' = RowsIn(size', Held) /\ Rows(gone)' = RowsIn(size', gone)
      BY <1>3, <2>4 DEF Rows, RowsOf, RowsIn, RowSet
    <3>3. Rows(Held)' = Rows(Held) /\ Rows(gone)' = Rows(gone)
      BY <3>1, <3>2, RowsAreRowsIn
    <3>4. \A u \in 1 .. handed' : size'[u] \in Sizes
      BY <1>1, <2>1, <2>5, <2>6 DEF Counted
    <3>5. \A u \in Held' : size'[u] <= Cap
      BY <1>1, <2>4, <2>6, <2>7 DEF Counted
    <3>6. QED BY <1>1, <1>3, <3>3, <3>4, <3>5 DEF Counted
  <2>13. Tended'
    <3>1. ~Coming(p) /\ \A q \in Procs \ {p} : Coming(q) => Coming(q)'
      BY <2>1, <2>3 DEF Coming, Brief, Alone
    <3>2. QED BY <1>1, <1>3, <2>4, <3>1 DEF Tended
  <2>14. Kept'
    <3>1. \A skip : Remembers(skip) => Remembers(skip)'
      <4>1. Purging => Purging'
        BY <2>1, <2>3 DEF Purging, Alone
      <4>2. gone \ disk = gone' \ disk'
        BY <1>3, <2>1, <2>5, <2>7
      <4>3. QED BY <1>3, <2>4, <4>1, <4>2 DEF Remembers
    <3>2. OwedMet(p)' /\ ReadsWhole(p)' /\ Remembered(p)'
      BY <2>2, <2>3 DEF OwedMet, ReadsWhole, Remembered
    <3>3. Remembers(memo.skip)'
      BY <1>1, <1>3, <3>1 DEF Kept
    <3>4. handed <= handed' /\ handed' \in Nat /\ old' = old /\ moved \subseteq moved' /\ (missed \/ failing => missed' \/ failing')
      BY <1>1, <1>3, <2>1
    <3>5. QED BY <2>3, <2>10, <3>1, <3>2, <3>3, <3>4, KeptKept
  <2>15. QED BY <2>9, <2>11, <2>12, <2>13, <2>14 DEF SbInv, Stored
<1>6. QED BY <1>4, <1>5 DEF WriteDirect

\* The close gives up what is left, a save that is still running included.
LEMMA WriteOffKeeps == ASSUME SbInv, WriteOff(Closer) PROVE SbInv'
<1> DEFINE p == Closer
<1>1. p \in Procs
  BY DEF Procs
<1>2. /\ SbShape /\ OneSave /\ CarriesOwn(p) /\ Timely(p) /\ Placed /\ Counted /\ Kept
      /\ handed \in Nat /\ old <= handed
      /\ Held = buf \union InSave /\ InSave \subseteq Units /\ Held \in SUBSET Units /\ (Held = buf \union InSave)'
  BY <1>1, Parts, HeldIs
<1>3. /\ my[p].op = "stop" /\ pc[p] = "after" /\ pc' = [pc EXCEPT ![p] = "idle"] /\ my' = [my EXCEPT ![p] = Blank]
      /\ gone' = gone \union Held /\ dropped' = dropped + waiting /\ buf' = {} /\ waiting' = 0
      /\ writtenOff' = (waiting # Rows(buf))
  BY DEF WriteOff, Return, Goto
<1>4. UNCHANGED <<due, quiet, failing, missed, closed, gate, handed, size, disk, memo, moved, old>>
  BY DEF WriteOff, timerVars, saysVars, unitVars, memoVars
<1>5. closed /\ ~writtenOff
  BY <1>2, <1>3 DEF CarriesOwn
<1>6. /\ Blank \in Locals /\ Blank.batch = {} /\ Blank.op = "none" /\ Blank.safe = 0 /\ Blank.since = 0 /\ Blank.owed = {}
      /\ "idle" \in Places /\ "idle" \notin Gated /\ "idle" \notin Writing
  BY DEF Blank, NoMemo, Locals, Memos, Ops, Places, Gated, Writing
<1>7. pc'[p] = "idle" /\ my'[p] = Blank /\ Alone(p) /\ my[p].batch = {} /\ gate # p
  BY <1>1, <1>2, <1>3, <1>6, OneMoves DEF OneSave, Gated, Writing
<1>8. InSave' = InSave /\ Held' = InSave
  BY <1>1, <1>2, <1>3, <1>6, <1>7, InSaveNext
<1>9. gone \intersect (disk \union Held) = {} /\ buf \intersect (disk \union InSave) = {}
  BY <1>2, <1>5 DEF Placed
<1>10. /\ size \in [Units -> Nat] /\ buf \in SUBSET Units /\ gone \in SUBSET Units /\ InSave \in SUBSET Units
       /\ \A u \in InSave : size[u] \in Sizes
  BY <1>2 DEF SbShape, Placed, Counted
<1>11. /\ RowsIn(size, Held) = RowsIn(size, buf) + RowsIn(size, InSave)
       /\ RowsIn(size, gone \union Held) = RowsIn(size, gone) + RowsIn(size, Held)
  <2>1. RowsIn(size, buf \union InSave) = RowsIn(size, buf) + RowsIn(size, InSave)
    BY <1>9, <1>10, RowsAdd
  <2>2. RowsIn(size, gone \union Held) = RowsIn(size, gone) + RowsIn(size, Held)
    BY <1>2, <1>9, <1>10, RowsAdd
  <2>3. QED BY <1>2, <2>1, <2>2
<1>12. RowsIn(size, buf) \in Nat /\ RowsIn(size, InSave) \in Nat /\ RowsIn(size, gone) \in Nat /\ RowsIn(size, Held) \in Nat
  BY <1>2, <1>10, RowsFinite
<1>13. waiting = RowsIn(size, Held) /\ dropped = RowsIn(size, gone) /\ Rows(buf) = RowsIn(size, buf)
  BY <1>2, <1>5, RowsAreRowsIn DEF Counted
<1>14. ~writtenOff' => InSave = {}
  <2>1. ~writtenOff' => waiting = RowsIn(size, buf)
    BY <1>3, <1>13
  <2>2. ASSUME ~writtenOff' PROVE RowsIn(size, InSave) = 0
    <3>1. RowsIn(size, buf) = RowsIn(size, buf) + RowsIn(size, InSave)
      BY <1>11, <1>13, <2>1, <2>2
    <3>2. QED BY <1>12, <3>1
  <2>3. QED BY <1>10, <2>2, RowsOfNone
<1>15. dropped' \in Nat /\ dropped' = RowsIn(size, gone')
  BY <1>3, <1>11, <1>12, <1>13
<1>16. Settled \subseteq Settled' /\ Settled' = Settled \union Held
  BY <1>3, <1>4 DEF Settled
<1>17. CarriesOwn(p)' /\ Timely(p)'
  BY <1>2, <1>4, <1>6, <1>7 DEF CarriesOwn, Timely, SbShape
<1>18. Control' /\ SbShape'
  <2>1. /\ buf' \in SUBSET Units /\ disk' \in SUBSET Units /\ gone' \in SUBSET Units /\ waiting' \in Nat
        /\ due' \in BOOLEAN /\ quiet' \in BOOLEAN /\ failing' \in BOOLEAN /\ missed' \in BOOLEAN
        /\ handed' \in 0 .. MaxUnits /\ handed <= handed' /\ size' \in [Units -> Nat]
        /\ memo' \in Memos /\ moved' \in SUBSET Readers /\ gate' \in Procs \union {NoOne}
    BY <1>2, <1>3, <1>4 DEF SbShape
  <2>2. writtenOff' \in BOOLEAN
    BY <1>3
  <2>3. /\ gate' = p <=> "idle" \in Gated
        /\ gate' = gate
        /\ Blank.batch # {} <=> "idle" \in Writing
        /\ buf' \ buf = {} /\ p = Closer
    BY <1>3, <1>4, <1>6, <1>7
  <2>4. QED BY <1>1, <1>3, <1>4, <1>6, <1>15, <1>17, <2>1, <2>2, <2>3, ControlKept
<1>19. Placed'
  <2>1. \A q \in Procs :
          /\ pc'[q] = "landed" => my'[q].batch \subseteq disk
          /\ pc'[q] \in {"write", "deferred", "failed"} => my'[q].batch \intersect disk = {}
    BY <1>2, <1>7 DEF Alone, Placed
  <2>2. 1 .. handed = Settled' \union Held'
    BY <1>2, <1>8, <1>16 DEF Placed
  <2>3. ~writtenOff' => gone' \intersect (disk \union Held') = {}
    BY <1>2, <1>3, <1>8, <1>9, <1>14
  <2>4. QED BY <1>2, <1>3, <1>4, <1>5, <1>8, <2>1, <2>2, <2>3 DEF Placed
<1>20. Counted'
  <2>1. Rows(Held)' = RowsIn(size, InSave) /\ Rows(gone)' = RowsIn(size, gone')
    BY <1>4, <1>8 DEF Rows, RowsOf, RowsIn, RowSet
  <2>2. ~writtenOff' => RowsIn(size, InSave) = 0
    BY <1>10, <1>14, RowsOfNone
  <2>3. QED BY <1>2, <1>3, <1>4, <1>8, <1>15, <2>1, <2>2 DEF Counted
<1>21. Tended'
  BY <1>4, <1>5 DEF Tended
<1>22. Kept'
  <2>1. ASSUME NEW skip, Remembers(skip) PROVE Remembers(skip)'
    <3>1. CASE Purging
      <4>1. Purging'
        BY <1>3, <1>7, <3>1 DEF Purging, Alone
      <4>2. QED BY <4>1 DEF Remembers
    <3>2. CASE writtenOff'
      BY <3>2 DEF Remembers
    <3>3. CASE ~Purging /\ ~writtenOff'
      <4>1. \A u \in skip : u \in gone' \ disk
        BY <1>2, <1>3, <1>5, <1>9, <1>14, <2>1, <3>3 DEF Remembers
      <4>2. QED BY <1>4, <4>1 DEF Remembers
    <3>4. QED BY <3>1, <3>2, <3>3
  <2>2. OwedMet(p)' /\ ReadsWhole(p)' /\ Remembered(p)'
    BY <1>6, <1>7 DEF OwedMet, ReadsWhole, Remembered
  <2>3. Remembers(memo.skip)'
    BY <1>2, <1>4, <2>1 DEF Kept
  <2>4. handed <= handed' /\ handed' \in Nat /\ old' = old /\ moved \subseteq moved' /\ (missed \/ failing => missed' \/ failing')
    BY <1>2, <1>4
  <2>5. QED BY <1>1, <1>7, <1>16, <2>1, <2>2, <2>3, <2>4, KeptKept
<1>23. QED BY <1>18, <1>19, <1>20, <1>21, <1>22 DEF SbInv, Stored

-----------------------------------------------------------------------------
(* Time, and the theorems                                                  *)

\* A quiet spell ends, five minutes pass, or nothing happens.
LEMMA TimeKeeps ==
    ASSUME SbInv, quiet' \in BOOLEAN, old' \in 0 .. handed, \A p \in Procs : pc[p] # "idle" => old' <= my[p].since,
           old <= old',
           UNCHANGED <<buf, waiting, due, failing, missed, closed, writtenOff, gate, handed, size, disk, dropped, gone,
                       memo, moved, pc, my>>
    PROVE  SbInv'
<1>1. /\ SbShape /\ OneSave /\ (\A p \in Procs : CarriesOwn(p)) /\ (\A p \in Procs : Timely(p))
      /\ Placed /\ Counted /\ Tended /\ Kept
  BY DEF SbInv, Control, Stored
<1>2. InSave' = InSave /\ Held' = Held /\ Settled' = Settled
  BY DEF InSave, Held, Settled
<1>3. SbShape' /\ OneSave'
  BY <1>1 DEF SbShape, OneSave
<1>4. \A p \in Procs : CarriesOwn(p)'
  BY <1>1 DEF CarriesOwn
<1>5. ASSUME NEW p \in Procs PROVE Timely(p)'
  <2>1. my[p].safe <= old'
    <3>1. my[p].safe \in Nat /\ my[p].safe <= old /\ old \in Nat /\ old' \in Nat
      BY <1>1 DEF SbShape, Locals, Timely
    <3>2. QED BY <3>1
  <2>2. QED BY <1>1, <2>1 DEF Timely
<1>6. Placed' /\ Counted' /\ Tended'
  <2>1. Placed'
    BY <1>1, <1>2 DEF Placed
  <2>2. Counted'
    BY <1>1, <1>2 DEF Counted, Rows, RowsOf
  <2>3. Tended'
    BY <1>1, <1>2 DEF Tended, Coming, Brief
  <2>4. QED BY <2>1, <2>2, <2>3
<1>7. Kept'
  <2>1. \A skip : Remembers(skip) => Remembers(skip)'
    BY <1>2 DEF Remembers, Purging
  <2>2. \A p \in Procs : OwedMet(p)' /\ ReadsWhole(p)' /\ Remembered(p)'
    BY <1>1, <1>2, <2>1 DEF Kept, OwedMet, ReadsWhole, Remembered
  <2>3. QED BY <1>1, <2>1, <2>2 DEF Kept
<1>8. QED BY <1>3, <1>4, <1>5, <1>6, <1>7 DEF SbInv, Control, Stored

\* A goroutine's step, one case an action.
LEMMA SaveStepKeeps == ASSUME SbInv, NEW p \in Procs, SaveStep(p) PROVE SbInv'
<1>1. CASE LoadWaiting(p) BY <1>1, LoadKeeps
<1>2. CASE LookQuiet(p)   BY <1>2, LookKeeps
<1>3. CASE TakeGate(p)    BY <1>3, GateKeeps
<1>4. CASE TimeOut(p)     BY <1>4, GateKeeps
<1>5. CASE GiveUp(p)      BY <1>5, GiveUpKeeps
<1>6. CASE LeaveRows(p)   BY <1>6, LeaveKeeps
<1>7. CASE TakeRows(p)    BY <1>7, TakeKeeps
<1>8. CASE RunSave(p)     BY <1>8, RunKeeps
<1>9. CASE Landed(p)      BY <1>9, LandedKeeps
<1>10. CASE Deferred(p)   BY <1>10, DeferredKeeps
<1>11. CASE Failed(p)     BY <1>11, FailedKeeps
<1>12. CASE Finish(p)     BY <1>12, FinishKeeps
<1>13. QED BY <1>1, <1>2, <1>3, <1>4, <1>5, <1>6, <1>7, <1>8, <1>9, <1>10, <1>11, <1>12 DEF SaveStep

\* Every step of the buffer keeps its invariant.
LEMMA SbInvNext == ASSUME SbInv, [Next]_vars PROVE SbInv'
<1>1. SbShape /\ \A p \in Procs : Timely(p)
  BY DEF SbInv, Control
<1>2. ASSUME NEW p \in Procs, SaveStep(p) \/ Done(p) PROVE SbInv'
  BY <1>2, SaveStepKeeps, DoneKeeps
<1>3. ASSUME NEW p \in Inserters, Insert(p) \/ HoldClosed(p) \/ HoldFull(p) \/ Hold(p) \/ WriteDirect(p) PROVE SbInv'
  <2>1. p \in Procs
    BY DEF Procs
  <2>2. QED BY <1>3, <2>1, InsertKeeps, GateKeeps, FullKeeps, HoldKeeps, DirectKeeps
<1>4. ASSUME NEW p \in Writers, Write(p) PROVE SbInv'
  <2>1. p \in Procs
    BY DEF Procs
  <2>2. QED BY <1>4, <2>1, WriteKeeps
<1>5. ASSUME NEW p \in Readers, Read(p) \/ ReadMemo(p) \/ Scan(p) \/ Publish(p) PROVE SbInv'
  <2>1. p \in Procs
    BY DEF Procs
  <2>2. QED BY <1>5, <2>1, ReadKeeps, MemoKeeps, ScanKeeps, PublishKeeps
<1>6. ASSUME NEW t \in Timers, Expire(t) \/ TimedSave(t) PROVE SbInv'
  <2>1. t \in Procs
    BY DEF Procs
  <2>2. QED BY <1>6, <2>1, ExpireKeeps, TimedKeeps
<1>7. ASSUME Close(Closer) \/ WriteOff(Closer) PROVE SbInv'
  BY <1>7, CloseKeeps, WriteOffKeeps
<1>8. /\ quiet \in BOOLEAN /\ old \in 0 .. handed /\ old \in Nat /\ handed \in Nat
      /\ \A p \in Procs : my[p].since \in Nat /\ (pc[p] # "idle" => old <= my[p].since)
  BY <1>1, BoundAssumption DEF SbShape, Locals, Timely
<1>9. CASE QuietEnds
  <2>1. /\ quiet' \in BOOLEAN /\ old' = old
        /\ UNCHANGED <<buf, waiting, due, failing, missed, closed, writtenOff, gate, handed, size, disk, dropped, gone,
                       memo, moved, pc, my>>
    BY <1>9 DEF QuietEnds, timerVars, closeVars, unitVars, lossVars, memoVars
  <2>2. QED BY <1>8, <2>1, TimeKeeps
<1>10. CASE Age
  <2>1. /\ old < handed /\ old' = old + 1 /\ \A p \in Procs : pc[p] # "idle" => my[p].since > old
        /\ quiet' = quiet
        /\ UNCHANGED <<buf, waiting, due, failing, missed, closed, writtenOff, gate, handed, size, disk, dropped, gone,
                       memo, moved, pc, my>>
    BY <1>10 DEF Age, timerVars, saysVars, closeVars, unitVars, lossVars, memoVars
  <2>2. old' \in 0 .. handed /\ old <= old' /\ \A p \in Procs : pc[p] # "idle" => old' <= my[p].since
    BY <1>8, <2>1
  <2>3. QED BY <1>8, <2>1, <2>2, TimeKeeps
<1>11. CASE UNCHANGED vars
  <2>1. /\ quiet' = quiet /\ old' = old
        /\ UNCHANGED <<buf, waiting, due, failing, missed, closed, writtenOff, gate, handed, size, disk, dropped, gone,
                       memo, moved, pc, my>>
    BY <1>11 DEF vars, timerVars, saysVars, closeVars, unitVars, lossVars, memoVars
  <2>2. QED BY <1>8, <2>1, TimeKeeps
<1>12. QED BY <1>2, <1>3, <1>4, <1>5, <1>6, <1>7, <1>9, <1>10, <1>11 DEF Next

\* In every state each row is in one place and counted there, and every pending
\* answer speaks for what was handed over before it.
THEOREM SbInvHolds == Spec => []SbInv
<1>1. Init => SbInv
  BY SbInvInit
<1>2. SbInv /\ [Next]_vars => SbInv'
  BY SbInvNext
<1>3. QED BY <1>1, <1>2, PTL DEF Spec

\* Every reading is in the database, given up and counted, or still waiting, and
\* the counters waiting and dropped say how many rows: whatever interleaving of
\* saves, failures and the close.
THEOREM RowsAreAccounted == Spec => []Accounted
<1>1. SbInv => Accounted
  <2> SUFFICES ASSUME SbInv PROVE Accounted
    OBVIOUS
  <2>1. Placed /\ Counted
    BY DEF SbInv, Stored
  <2>2. QED BY <2>1 DEF Placed, Counted, Accounted, Settled
<1>2. QED BY <1>1, SbInvHolds, PTL

\* While the store is open no reading waits without a timer or a save that will
\* look after it (arm, putBack, readerGaveUp and the timer's own check).
THEOREM NothingIsStranded == Spec => []NotStranded
<1>1. SbInv => NotStranded
  BY DEF SbInv, Tended, NotStranded
<1>2. QED BY <1>1, SbInvHolds, PTL

\* SaveBuffered's nil keeps its promise to the writer that comes after it.
THEOREM NilIsKept == Spec => []NilMeansSaved
<1>1. SbInv => NilMeansSaved
  BY DEF SbInv, Kept, OwedMet, NilMeansSaved, Settled
<1>2. QED BY <1>1, SbInvHolds, PTL

\* firstQuorumRecovery's memo never outlives the rows its scan did not see.
THEOREM MemoIsSound == Spec => []MemoSound
<1>1. SbInv => MemoSound
  <2> SUFFICES ASSUME SbInv, gate = NoOne, ~writtenOff PROVE memo.skip \intersect disk = {}
    BY DEF MemoSound
  <2>1. SbShape /\ OneSave /\ Placed /\ Remembers(memo.skip) /\ Held = buf \union InSave
    BY HeldIs DEF SbInv, Control, Stored, Kept
  <2>2. InSave = {} /\ ~Purging
    BY <2>1, InSaveIs, ProcsAssumption DEF OneSave, Purging, Gated
  <2>3. \A u \in memo.skip : u \in gone \ disk \/ u \in buf
    BY <2>1, <2>2 DEF Remembers
  <2>4. QED BY <2>1, <2>3 DEF Placed
<1>2. QED BY <1>1, SbInvHolds, PTL
=============================================================================
