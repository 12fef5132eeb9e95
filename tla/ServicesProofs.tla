--------------------------- MODULE ServicesProofs ---------------------------
(***************************************************************************)
(* Theorems about the services around the monitor.  What the operator      *)
(* decides: whether anything is measured (QuickSetup), what the settings   *)
(* keep (Settings), who may reach the dashboard (SignIn, AccessScope).     *)
(* What happens around a change of network: the test after a reconnect     *)
(* (ReconnectGate), for any gaps, settle times and intervals, the lookups  *)
(* on the way meanwhile (DnsProbe), for any number of rounds and           *)
(* interruptions, and the connection details on show (NetinfoRefresh), for *)
(* any refreshers, refreshes and moves.  And the engine that measures the  *)
(* network: a server's verdicts (ServerHealth), for any number of strikes, *)
(* terms, memory and convictions, the transfers of a best-of run and its   *)
(* bytes (BestOf), for any number of runs, targets and attempts, and the   *)
(* server that automatic runs measure (ServerSeat), for any rates.         *)
(***************************************************************************)
EXTENDS QuickSetup, Settings, SignIn, AccessScope, ReconnectGate, DnsProbe, NetinfoRefresh, ServerHealth, BestOf,
        ServerSeat, SumTheorems, FiniteSetTheorems, SequenceTheorems, WellFoundedInduction, TLAPS

-----------------------------------------------------------------------------
(* QuickSetup: nothing is measured before its time                         *)

Disks == [done : BOOLEAN, offer : Nat, born : BOOLEAN, history : BOOLEAN, config : BOOLEAN, on : BOOLEAN]
Mems == [up : BOOLEAN, loaded : BOOLEAN, done : BOOLEAN, on : BOOLEAN, created : BOOLEAN, pending : BOOLEAN,
         latch : BOOLEAN, live : BOOLEAN]

QsShape ==
    /\ qsDisk \in Disks /\ qsMem \in Mems /\ qsNow \in Nat
    /\ qsWhy \in [consent : BOOLEAN, age : 0..Grace, voided : BOOLEAN]

\* Neither the store nor the process knows of a reason to measure.
Fresh(disk, mem) ==
    ~disk.done /\ ~disk.history /\ ~disk.config /\ ~mem.done /\ ~mem.latch /\ ~mem.live

MayMeasure == qsWhy.consent \/ qsWhy.age = Grace

\* Until there is one; and the offer looks no older than it is.
HeldUntil == ~MayMeasure => Fresh(qsDisk, qsMem) /\ (qsDisk.offer # 0 => qsNow - qsDisk.offer <= qsWhy.age)

\* A flag that consents does so at the first start, before anybody acts.
FlagCounted ==
    FlagConsent /\ ~qsWhy.consent => ~qsMem.up /\ qsStep = [hup |-> "idle", retry |-> "idle", import |-> "idle"]

QsInv == QsShape /\ HeldUntil /\ FlagCounted

\* What a step on the table and the controller may do while there is no reason.
Harmless(disk, mem, pair) ==
    /\ pair[1] \in Disks /\ pair[2] \in Mems
    /\ Fresh(disk, mem) => Fresh(pair[1], pair[2])

\* A stamp of the offer gives no reason to measure.
LEMMA StampedIs ==
    ASSUME NEW disk \in Disks, NEW mem \in Mems, NEW ok \in BOOLEAN
    PROVE  Harmless(disk, mem, Stamped(disk, mem, ok)) /\ Stamped(disk, mem, ok)[1].offer = disk.offer
<1> DEFINE born == [disk EXCEPT !.born = TRUE]
           settled == [mem EXCEPT !.pending = FALSE]
<1>1. born \in Disks /\ born.offer = disk.offer
  BY DEF Disks
<1>2. settled \in Mems
  BY DEF Mems
<1>3. Fresh(disk, mem) => Fresh(born, settled)
  BY DEF Disks, Mems, Fresh
<1>4. Stamped(disk, mem, ok) \in {<<born, settled>>, <<disk, mem>>}
  BY DEF Stamped
<1> HIDE DEF born, settled
<1>5. QED BY <1>1, <1>2, <1>3, <1>4 DEF Harmless

\* Nor does the marker of a new database, which leaves the offer alone.
LEMMA MarkerIs ==
    ASSUME NEW disk \in Disks, NEW mem \in Mems, NEW read, NEW ok \in BOOLEAN
    PROVE  /\ Harmless(disk, mem, EnsureBornMarker(disk, mem, read, ok))
           /\ EnsureBornMarker(disk, mem, read, ok)[1].offer = disk.offer
<1> DEFINE pending == [mem EXCEPT !.pending = TRUE]
           settled == [mem EXCEPT !.pending = FALSE]
<1>1. pending \in Mems /\ (Fresh(disk, mem) => Fresh(disk, pending))
  BY DEF Mems, Fresh
<1>2. settled \in Mems /\ (Fresh(disk, mem) => Fresh(disk, settled))
  BY DEF Mems, Fresh
<1>3. EnsureBornMarker(disk, mem, read, ok) \in
        {<<disk, settled>>, <<disk, mem>>, Stamped(disk, mem, ok), Stamped(disk, pending, ok)}
  BY DEF EnsureBornMarker, Disks, Mems
<1> HIDE DEF pending, settled
<1>4. /\ Harmless(disk, mem, <<disk, settled>>) /\ Harmless(disk, mem, <<disk, mem>>)
      /\ Harmless(disk, mem, Stamped(disk, mem, ok)) /\ Stamped(disk, mem, ok)[1].offer = disk.offer
  BY <1>2, StampedIs DEF Harmless
<1>5. Harmless(disk, mem, Stamped(disk, pending, ok)) /\ Stamped(disk, pending, ok)[1].offer = disk.offer
  BY <1>1, StampedIs DEF Harmless
<1>6. QED BY <1>3, <1>4, <1>5

\* Nor does a load of the settings.
LEMMA LoadIs ==
    ASSUME NEW disk \in Disks, NEW mem \in Mems, NEW read, NEW est, NEW ok \in BOOLEAN
    PROVE  /\ Harmless(disk, mem, Load(disk, mem, read, est, ok))
           /\ Load(disk, mem, read, est, ok)[1].offer = disk.offer
<1> DEFINE marked == EnsureBornMarker(disk, mem, est, ok)
           full == [marked[2] EXCEPT !.loaded = TRUE, !.done = disk.done, !.on = disk.on]
<1>1. Harmless(disk, mem, marked) /\ marked[1].offer = disk.offer
  BY MarkerIs
<1>2. Load(disk, mem, read, est, ok) \in {<<disk, mem>>, <<marked[1], full>>}
  BY DEF Load
<1> HIDE DEF marked
<1>3. full \in Mems /\ (Fresh(disk, mem) => Fresh(marked[1], full))
  BY <1>1 DEF Harmless, Fresh, Mems, Disks
<1> HIDE DEF full
<1>4. QED BY <1>1, <1>2, <1>3 DEF Harmless

\* Setup that is done leaves the offer where it was.
LEMMA DoneIs ==
    ASSUME NEW disk \in Disks, NEW mem \in Mems, NEW ok \in BOOLEAN
    PROVE  LET pair == SetQuickSetupDone(disk, mem, ok)
           IN  pair[1] \in Disks /\ pair[2] \in Mems /\ pair[1].offer = disk.offer
<1> DEFINE disk2 == [disk EXCEPT !.done = TRUE]
           mem2 == [mem EXCEPT !.done = TRUE]
           pair == SetQuickSetupDone(disk, mem, ok)
<1>1. disk2 \in Disks /\ disk2.offer = disk.offer
  BY DEF Disks
<1>2. mem2 \in Mems
  BY DEF Mems
<1>3. pair = <<disk2, mem2>> \/ pair = <<disk, mem>>
  BY DEF SetQuickSetupDone
<1> HIDE DEF disk2, mem2, pair
<1>4. pair[1] \in Disks /\ pair[2] \in Mems /\ pair[1].offer = disk.offer
  BY <1>1, <1>2, <1>3
<1>5. QED BY <1>4 DEF pair

\* The offer is made on a store that shows nothing, and its clock starts now.
LEMMA OfferIs ==
    ASSUME NEW disk \in Disks, NEW mem \in Mems, NEW read \in Reads, NEW ok \in BOOLEAN, qsNow \in Nat
    PROVE  /\ Harmless(disk, mem, EnsureQuickSetupOffer(disk, mem, read, ok))
           /\ EnsureQuickSetupOffer(disk, mem, read, ok)[1].offer \in {disk.offer, qsNow}
<1> DEFINE seeded == IF ok THEN SeedOfferClock(disk) ELSE disk
           offered == EnsureQuickSetupOffer(disk, mem, read, ok)
<1>1. seeded \in {disk, [disk EXCEPT !.offer = qsNow]}
  BY DEF SeedOfferClock
<1>2. seeded \in Disks /\ seeded.offer \in {disk.offer, qsNow} /\ (Fresh(disk, mem) => Fresh(seeded, mem))
  BY <1>1 DEF Disks, Fresh
<1>3. CASE mem.done \/ read = "fails"
  <2>1. offered = <<disk, mem>>
    BY <1>3 DEF EnsureQuickSetupOffer
  <2>2. QED BY <2>1 DEF Harmless
<1>4. CASE ~mem.done /\ read = "ok" /\ (disk.history \/ disk.config)
  <2>1. offered = SetQuickSetupDone(disk, mem, ok)
    BY <1>4 DEF EnsureQuickSetupOffer
  <2>2. ~Fresh(disk, mem)
    BY <1>4 DEF Fresh
  <2>3. QED BY <2>1, <2>2, DoneIs DEF Harmless
<1>5. CASE ~mem.done /\ read = "ok" /\ ~(disk.history \/ disk.config)
  <2>1. offered = <<seeded, mem>>
    BY <1>5 DEF EnsureQuickSetupOffer
  <2> HIDE DEF seeded
  <2>2. QED BY <1>2, <2>1 DEF Harmless
<1>6. QED BY <1>3, <1>4, <1>5 DEF Reads

\* Without the flag's consent, materializing the setup gives no reason to measure.
LEMMA MaterializeIs ==
    ASSUME NEW disk \in Disks, NEW mem \in Mems, NEW read \in Reads, NEW marks \in BOOLEAN, NEW ok \in BOOLEAN,
           qsNow \in Nat
    PROVE  LET pair == MaterializeQuickSetup(disk, mem, read, marks, ok)
           IN  /\ pair[1] \in Disks /\ pair[2] \in Mems
               /\ ~FlagConsent => Harmless(disk, mem, pair)
               /\ pair[1].offer \in {disk.offer, qsNow}
<1> DEFINE flagged == IF FlagConsent /\ ~mem.done THEN SetQuickSetupDone(disk, mem, marks) ELSE <<disk, mem>>
           pair == MaterializeQuickSetup(disk, mem, read, marks, ok)
<1>1. flagged[1] \in Disks /\ flagged[2] \in Mems /\ flagged[1].offer = disk.offer
  BY DoneIs
<1>2. ~FlagConsent => flagged[1] = disk /\ flagged[2] = mem
  OBVIOUS
<1>3. pair = EnsureQuickSetupOffer(flagged[1], flagged[2], read, ok)
  BY DEF MaterializeQuickSetup
<1> HIDE DEF flagged, pair
<1>4. Harmless(flagged[1], flagged[2], pair) /\ pair[1].offer \in {flagged[1].offer, qsNow}
  BY <1>1, <1>3, OfferIs
<1>5. /\ pair[1] \in Disks /\ pair[2] \in Mems
      /\ ~FlagConsent => Harmless(disk, mem, pair)
      /\ pair[1].offer \in {disk.offer, qsNow}
  BY <1>1, <1>2, <1>4 DEF Harmless
<1>6. QED BY <1>5 DEF pair

\* A step that gives the table and the controller what a harmless operator
\* returns keeps the hold; what it notes may only be a reason.
LEMMA HarmlessKeeps ==
    ASSUME QsInv, NEW pair, Becomes(pair), pair[1] \in Disks, pair[2] \in Mems,
           pair[1].offer \in {qsDisk.offer, qsNow},
           ~MayMeasure' => Fresh(pair[1], pair[2]),
           qsNow' = qsNow, qsWhy'.age = qsWhy.age,
           qsWhy' \in [consent : BOOLEAN, age : 0..Grace, voided : BOOLEAN],
           qsWhy.consent => qsWhy'.consent, FlagConsent => qsWhy'.consent
    PROVE  QsInv'
<1>1. qsDisk' = pair[1] /\ qsMem' = pair[2] /\ QsShape
  BY DEF Becomes, QsInv
<1>2. QsShape'
  BY <1>1 DEF QsShape
<1>3. ASSUME ~MayMeasure' PROVE Fresh(qsDisk', qsMem') /\ (qsDisk'.offer # 0 => qsNow - qsDisk'.offer <= qsWhy.age)
  <2>1. ~MayMeasure
    BY <1>3 DEF MayMeasure
  <2>2. qsDisk.offer # 0 => qsNow - qsDisk.offer <= qsWhy.age
    BY <2>1 DEF QsInv, HeldUntil
  <2>3. qsNow \in Nat /\ qsWhy.age \in Nat
    BY <1>1 DEF QsShape
  <2>4. qsNow - qsNow <= qsWhy.age
    BY <2>3
  <2>5. QED BY <1>1, <1>3, <2>2, <2>4
<1>4. HeldUntil'
  BY <1>3 DEF HeldUntil
<1>5. FlagCounted'
  BY DEF FlagCounted
<1>6. QED BY <1>2, <1>4, <1>5 DEF QsInv

-----------------------------------------------------------------------------
(* QuickSetup: the actions                                                 *)

\* An installation begins without a reason to measure.
LEMMA QsInvInit == ASSUME QsInit PROVE QsInv
<1>1. PICK old \in BOOLEAN, off \in BOOLEAN :
          /\ off => old
          /\ qsDisk = [done |-> FALSE, offer |-> 0, born |-> FALSE, history |-> old, config |-> off, on |-> ~off]
          /\ qsMem = [Unloaded(~old) EXCEPT !.up = FALSE]
          /\ qsWhy = [consent |-> old, age |-> 0, voided |-> FALSE]
  BY DEF QsInit
<1>2. qsStep = [hup |-> "idle", retry |-> "idle", import |-> "idle"] /\ qsNow = 1
  BY DEF QsInit
<1>3. (~old) \in BOOLEAN /\ (~off) \in BOOLEAN /\ 0 \in 0..Grace
  BY QuickSetupAssumption
<1>4. /\ qsMem = [up |-> FALSE, loaded |-> FALSE, done |-> FALSE, on |-> TRUE, created |-> ~old,
                  pending |-> FALSE, latch |-> FALSE, live |-> FALSE]
      /\ ~qsMem.up /\ ~qsMem.done /\ ~qsMem.latch /\ ~qsMem.live
  BY <1>1 DEF Unloaded
<1>5. qsMem \in Mems
  BY <1>3, <1>4 DEF Mems
<1>6. qsDisk \in Disks /\ qsDisk.offer = 0 /\ qsDisk.history = old /\ qsDisk.config = off /\ ~qsDisk.done
  BY <1>1, <1>3 DEF Disks
<1>7. qsWhy.consent = old /\ qsWhy \in [consent : BOOLEAN, age : 0..Grace, voided : BOOLEAN]
  BY <1>1, <1>3
<1>8. HeldUntil
  BY <1>1, <1>4, <1>6, <1>7 DEF HeldUntil, Fresh, MayMeasure
<1>9. QED BY <1>2, <1>4, <1>5, <1>6, <1>7, <1>8 DEF QsInv, QsShape, FlagCounted

\* The fields of the setup's state, spelled out.
LEMMA QsFields ==
    ASSUME QsInv
    PROVE  /\ qsDisk \in Disks /\ qsMem \in Mems /\ qsNow \in Nat /\ Grace \in Nat \ {0}
           /\ qsWhy \in [consent : BOOLEAN, age : 0..Grace, voided : BOOLEAN]
           /\ qsDisk.offer \in Nat /\ qsWhy.age \in Nat
           /\ ~MayMeasure => Fresh(qsDisk, qsMem)
           /\ FlagConsent /\ (qsMem.up \/ \E x : qsStep[x] \in {"seed", "reload", "decide", "land"} /\
                                x \in {"hup", "retry", "import"}) => qsWhy.consent
  BY QuickSetupAssumption DEF QsInv, QsShape, HeldUntil, FlagCounted, Disks

\* A boot gives no reason to measure but the consent its flag stands for.
LEMMA BootKeeps == ASSUME QsInv, Boot PROVE QsInv'
<1>1. PICK read \in Reads, est \in Reads, offer \in Reads, stamps \in BOOLEAN, marks \in BOOLEAN, seeds \in BOOLEAN :
          LET new  == Load(qsDisk, Unloaded(qsMem.created), read, est, stamps) IN
          IF read = "ok"
          THEN Becomes(MaterializeQuickSetup(new[1], new[2], offer, marks, seeds))
          ELSE Becomes(new)
  BY DEF Boot
<1> DEFINE mem == Unloaded(qsMem.created)
           new == Load(qsDisk, mem, read, est, stamps)
           pair == IF read = "ok" THEN MaterializeQuickSetup(new[1], new[2], offer, marks, seeds) ELSE new
<1>2. qsWhy' = [qsWhy EXCEPT !.consent = @ \/ FlagConsent, !.voided = FALSE] /\ qsNow' = qsNow
  BY DEF Boot, Noting
<1>3. /\ qsWhy' \in [consent : BOOLEAN, age : 0..Grace, voided : BOOLEAN] /\ qsWhy'.age = qsWhy.age
      /\ qsWhy'.consent = (qsWhy.consent \/ FlagConsent)
  <2>1. (qsWhy.consent \/ FlagConsent) \in BOOLEAN
    OBVIOUS
  <2> DEFINE consent == qsWhy.consent \/ FlagConsent
  <2>2. qsWhy' = [qsWhy EXCEPT !.consent = consent, !.voided = FALSE]
    BY <1>2
  <2> HIDE DEF consent
  <2>3. /\ consent \in BOOLEAN => qsWhy' \in [consent : BOOLEAN, age : 0..Grace, voided : BOOLEAN]
        /\ qsWhy'.age = qsWhy.age /\ qsWhy'.consent = consent
    BY <2>2, QsFields
  <2>4. QED BY <2>1, <2>3 DEF consent
<1>4. mem \in Mems
  BY QsFields DEF Unloaded, Mems
<1>5. Fresh(qsDisk, qsMem) => Fresh(qsDisk, mem)
  BY DEF Fresh, Unloaded
<1>6. Harmless(qsDisk, mem, new) /\ new[1].offer = qsDisk.offer
  BY <1>4, LoadIs, QsFields
<1>7. new[1] \in Disks /\ new[2] \in Mems /\ (Fresh(qsDisk, mem) => Fresh(new[1], new[2]))
  BY <1>6 DEF Harmless
<1>8. Becomes(pair)
  BY <1>1
<1> HIDE DEF new
<1>9. /\ pair[1] \in Disks /\ pair[2] \in Mems /\ pair[1].offer \in {qsDisk.offer, qsNow}
      /\ ~FlagConsent => (Fresh(new[1], new[2]) => Fresh(pair[1], pair[2]))
  <2>1. CASE read = "ok"
    <3> DEFINE told == MaterializeQuickSetup(new[1], new[2], offer, marks, seeds)
    <3>1. /\ told[1] \in Disks /\ told[2] \in Mems
          /\ ~FlagConsent => Harmless(new[1], new[2], told)
          /\ told[1].offer \in {new[1].offer, qsNow}
      BY <1>7, MaterializeIs, QsFields
    <3>2. pair = told
      BY <2>1
    <3> HIDE DEF told, pair
    <3>3. QED BY <1>6, <3>1, <3>2 DEF Harmless
  <2>2. CASE read # "ok"
    BY <1>6, <1>7, <2>2
  <2>3. QED BY <2>1, <2>2
<1> HIDE DEF pair, mem
<1>10. ~MayMeasure' => ~MayMeasure /\ ~FlagConsent
  BY <1>3 DEF MayMeasure
<1>11. ~MayMeasure' => Fresh(pair[1], pair[2])
  BY <1>5, <1>7, <1>9, <1>10, QsFields
<1>12. FlagConsent => qsWhy'.consent
  BY <1>3
<1>13. qsWhy.consent => qsWhy'.consent
  BY <1>3
<1>14. QED BY <1>2, <1>3, <1>8, <1>9, <1>11, <1>12, <1>13, HarmlessKeeps

\* A crash loses what is in memory, and nothing else.
LEMMA CrashKeeps == ASSUME QsInv, Crash PROVE QsInv'
<1>1. /\ qsMem' = [up |-> FALSE, loaded |-> FALSE, done |-> FALSE, on |-> TRUE, created |-> FALSE,
                   pending |-> FALSE, latch |-> FALSE, live |-> FALSE]
      /\ qsStep' = [hup |-> "idle", retry |-> "idle", import |-> "idle"] /\ UNCHANGED <<qsDisk, qsNow, qsWhy>>
  BY DEF Crash, Unloaded
<1>2. qsMem' \in Mems /\ (Fresh(qsDisk, qsMem) => Fresh(qsDisk', qsMem')) /\ ~qsMem'.up
  BY <1>1 DEF Mems, Fresh
<1>3. QED BY <1>1, <1>2 DEF QsInv, QsShape, HeldUntil, FlagCounted, MayMeasure

\* Only the steps of the actors change.
LEMMA StepKeeps == ASSUME QsInv, UNCHANGED <<qsDisk, qsMem, qsNow, qsWhy>>, FlagConsent => qsWhy.consent PROVE QsInv'
  BY DEF QsInv, QsShape, HeldUntil, FlagCounted, MayMeasure

\* A loader that comes before the settings are loaded may make the offer.
LEMMA SeedKeeps == ASSUME QsInv, NEW l \in Loaders, SeedEarly(l) PROVE QsInv'
<1>1. UNCHANGED <<qsNow, qsWhy>> /\ qsStep[l] = "seed"
  BY DEF SeedEarly
<1>2. FlagConsent => qsWhy.consent
  BY <1>1, QsFields DEF Loaders
<1>3. CASE UNCHANGED <<qsDisk, qsMem>>
  BY <1>1, <1>2, <1>3, StepKeeps
<1>4. CASE \E read \in Reads, ok \in BOOLEAN : Becomes(EnsureQuickSetupOffer(qsDisk, qsMem, read, ok))
  <2>1. PICK read \in Reads, ok \in BOOLEAN : Becomes(EnsureQuickSetupOffer(qsDisk, qsMem, read, ok))
    BY <1>4
  <2> DEFINE pair == EnsureQuickSetupOffer(qsDisk, qsMem, read, ok)
  <2>2. Harmless(qsDisk, qsMem, pair) /\ pair[1].offer \in {qsDisk.offer, qsNow} /\ Becomes(pair)
    BY <2>1, OfferIs, QsFields
  <2> HIDE DEF pair
  <2>3. ~MayMeasure' => Fresh(pair[1], pair[2])
    BY <1>1, <2>2, QsFields DEF Harmless, MayMeasure
  <2>4. pair[1] \in Disks /\ pair[2] \in Mems
    BY <2>2 DEF Harmless
  <2>5. QED BY <1>1, <1>2, <2>2, <2>3, <2>4, QsFields, HarmlessKeeps
<1>5. QED BY <1>3, <1>4 DEF SeedEarly

\* What is noted beside the reasons does not count as one.
LEMMA VoidedIs ==
    ASSUME QsInv, NEW voided \in BOOLEAN, qsWhy' = [qsWhy EXCEPT !.voided = voided]
    PROVE  /\ qsWhy' \in [consent : BOOLEAN, age : 0..Grace, voided : BOOLEAN]
           /\ qsWhy'.age = qsWhy.age /\ qsWhy'.consent = qsWhy.consent
  BY QsFields

\* A load by the signal, the retry loop or the import.
LEMMA LoadKeeps ==
    ASSUME QsInv, NEW read, NEW est, NEW ok \in BOOLEAN, NEW voided \in BOOLEAN,
           Becomes(Load(qsDisk, qsMem, read, est, ok)), qsWhy' = [qsWhy EXCEPT !.voided = voided],
           qsNow' = qsNow, FlagConsent => qsWhy.consent
    PROVE  QsInv'
<1> DEFINE pair == Load(qsDisk, qsMem, read, est, ok)
<1>1. Harmless(qsDisk, qsMem, pair) /\ pair[1].offer = qsDisk.offer /\ Becomes(pair)
  BY LoadIs, QsFields
<1> HIDE DEF pair
<1>2. ~MayMeasure' => Fresh(pair[1], pair[2])
  BY <1>1, VoidedIs, QsFields DEF Harmless, MayMeasure
<1>3. pair[1] \in Disks /\ pair[2] \in Mems
  BY <1>1 DEF Harmless
<1>4. QED BY <1>1, <1>2, <1>3, VoidedIs, QsFields, HarmlessKeeps

\* A reload by the signal or the retry loop.
LEMMA ReloadKeeps == ASSUME QsInv, NEW l \in Loaders, Reload(l) PROVE QsInv'
<1>1. qsNow' = qsNow /\ qsStep[l] = "reload"
  BY DEF Reload
<1>2. FlagConsent => qsWhy.consent
  BY <1>1, QsFields DEF Loaders
<1>3. PICK read \in Reads, est \in Reads, ok \in BOOLEAN :
          /\ Becomes(Load(qsDisk, qsMem, read, est, ok))
          /\ qsWhy' = [qsWhy EXCEPT !.voided = @ /\ ~(read = "ok" /\ est = "ok" /\ Judges(qsDisk, qsMem))]
  BY DEF Reload, Noting
<1> DEFINE voided == qsWhy.voided /\ ~(read = "ok" /\ est = "ok" /\ Judges(qsDisk, qsMem))
<1>4. voided \in BOOLEAN /\ qsWhy' = [qsWhy EXCEPT !.voided = voided]
  BY <1>3
<1> HIDE DEF voided
<1>5. QED BY <1>1, <1>2, <1>3, <1>4, LoadKeeps

\* The reload after an import.
LEMMA ImportReloadKeeps == ASSUME QsInv, ImportReload PROVE QsInv'
<1>1. qsNow' = qsNow /\ qsStep["import"] = "reload"
  BY DEF ImportReload
<1>2. FlagConsent => qsWhy.consent
  BY <1>1, QsFields
<1>3. PICK read \in Reads, est \in Reads, ok \in BOOLEAN :
          /\ Becomes(Load(qsDisk, qsMem, read, est, ok))
          /\ qsWhy' = [qsWhy EXCEPT !.voided = @ /\ ~(read = "ok" /\ est = "ok" /\ Judges(qsDisk, qsMem))]
  BY DEF ImportReload, Noting
<1> DEFINE voided == qsWhy.voided /\ ~(read = "ok" /\ est = "ok" /\ Judges(qsDisk, qsMem))
<1>4. voided \in BOOLEAN /\ qsWhy' = [qsWhy EXCEPT !.voided = voided]
  BY <1>3
<1> HIDE DEF voided
<1>5. QED BY <1>1, <1>2, <1>3, <1>4, LoadKeeps

\* The last step of a load materializes the setup.
LEMMA DecideKeeps == ASSUME QsInv, NEW l \in Loaders, Decide(l) PROVE QsInv'
<1>1. UNCHANGED <<qsNow, qsWhy>> /\ qsStep[l] = "decide"
  BY DEF Decide
<1>2. FlagConsent => qsWhy.consent
  BY <1>1, QsFields DEF Loaders
<1>3. PICK read \in Reads, marks \in BOOLEAN, ok \in BOOLEAN :
          Becomes(MaterializeQuickSetup(qsDisk, qsMem, read, marks, ok))
  BY DEF Decide
<1> DEFINE pair == MaterializeQuickSetup(qsDisk, qsMem, read, marks, ok)
<1>4. /\ pair[1] \in Disks /\ pair[2] \in Mems
      /\ ~FlagConsent => Harmless(qsDisk, qsMem, pair)
      /\ pair[1].offer \in {qsDisk.offer, qsNow} /\ Becomes(pair)
  BY <1>3, MaterializeIs, QsFields
<1> HIDE DEF pair
<1>5. ~MayMeasure' => Fresh(pair[1], pair[2])
  BY <1>1, <1>2, <1>4, QsFields DEF Harmless, MayMeasure
<1>6. QED BY <1>1, <1>2, <1>4, <1>5, QsFields, HarmlessKeeps

\* What the operator saves is a reason.
LEMMA SavedKeeps ==
    ASSUME QsInv, NEW disk \in Disks, NEW mem \in Mems, Saved(disk, mem), disk.offer = qsDisk.offer,
           qsWhy' = [qsWhy EXCEPT !.consent = TRUE]
    PROVE  QsInv'
<1>1. qsNow' = qsNow
  BY DEF Saved
<1>2. PICK ok \in BOOLEAN : Becomes(Stamped(disk, mem, ok))
  BY DEF Saved
<1> DEFINE pair == Stamped(disk, mem, ok)
<1>3. pair[1] \in Disks /\ pair[2] \in Mems /\ pair[1].offer = qsDisk.offer /\ Becomes(pair)
  BY <1>2, StampedIs DEF Harmless
<1> HIDE DEF pair
<1>4. /\ qsWhy' \in [consent : BOOLEAN, age : 0..Grace, voided : BOOLEAN]
      /\ qsWhy'.consent /\ qsWhy'.age = qsWhy.age
  BY QsFields
<1>5. MayMeasure'
  BY <1>4 DEF MayMeasure
<1>6. QED BY <1>1, <1>3, <1>4, <1>5, HarmlessKeeps

\* What the operator answers, dismisses, saves or switches.
LEMMA OperatorKeeps ==
    ASSUME QsInv, Answer \/ Dismiss \/ Save \/ \E on \in BOOLEAN : SetMonitoringAnsweringSetup(on)
    PROVE  QsInv'
<1>1. CASE Answer
  <2>1. /\ [qsDisk EXCEPT !.done = TRUE, !.on = TRUE, !.config = TRUE] \in Disks
        /\ [qsDisk EXCEPT !.done = TRUE, !.on = TRUE, !.config = TRUE].offer = qsDisk.offer
        /\ [qsMem EXCEPT !.done = TRUE, !.on = TRUE] \in Mems
    BY QsFields DEF Disks, Mems
  <2>2. QED BY <1>1, <2>1, SavedKeeps DEF Answer, Noting
<1>2. CASE Dismiss
  <2>1. /\ [qsDisk EXCEPT !.done = TRUE] \in Disks /\ [qsDisk EXCEPT !.done = TRUE].offer = qsDisk.offer
        /\ [qsMem EXCEPT !.done = TRUE] \in Mems
    BY QsFields DEF Disks, Mems
  <2>2. QED BY <1>2, <2>1, SavedKeeps DEF Dismiss, Noting
<1>3. CASE Save
  <2>1. /\ [qsDisk EXCEPT !.config = TRUE] \in Disks /\ [qsDisk EXCEPT !.config = TRUE].offer = qsDisk.offer
        /\ qsMem \in Mems
    BY QsFields DEF Disks
  <2>2. QED BY <1>3, <2>1, SavedKeeps DEF Save, Noting
<1>4. CASE \E on \in BOOLEAN : SetMonitoringAnsweringSetup(on)
  <2>1. PICK on \in BOOLEAN : SetMonitoringAnsweringSetup(on)
    BY <1>4
  <2> DEFINE disk == [qsDisk EXCEPT !.on = on, !.config = TRUE, !.done = @ \/ on]
             mem == [qsMem EXCEPT !.on = on, !.done = @ \/ on]
  <2>2. disk \in Disks /\ disk.offer = qsDisk.offer /\ mem \in Mems
    <3> DEFINE a == qsDisk.done \/ on
               b == qsMem.done \/ on
    <3>1. a \in BOOLEAN /\ b \in BOOLEAN
      OBVIOUS
    <3>2. disk = [qsDisk EXCEPT !.on = on, !.config = TRUE, !.done = a] /\ mem = [qsMem EXCEPT !.on = on, !.done = b]
      OBVIOUS
    <3> HIDE DEF a, b, disk, mem
    <3>3. QED BY <3>1, <3>2, QsFields DEF Disks, Mems
  <2>3. Saved(disk, mem) /\ qsWhy' = [qsWhy EXCEPT !.consent = TRUE]
    BY <2>1 DEF SetMonitoringAnsweringSetup, Noting
  <2> HIDE DEF disk, mem
  <2>4. QED BY <2>2, <2>3, SavedKeeps
<1>5. QED BY <1>1, <1>2, <1>3, <1>4

\* An import forgets that the store is known to be new.
LEMMA ImportStartKeeps == ASSUME QsInv, ImportStart PROVE QsInv'
<1>1. /\ qsMem.up /\ qsMem' = [qsMem EXCEPT !.pending = FALSE] /\ qsWhy' = [qsWhy EXCEPT !.voided = TRUE]
      /\ UNCHANGED <<qsDisk, qsNow>>
  BY DEF ImportStart, ForgetBirthWitness, Noting
<1>2. /\ qsWhy' \in [consent : BOOLEAN, age : 0..Grace, voided : BOOLEAN]
      /\ qsWhy'.age = qsWhy.age /\ qsWhy'.consent = qsWhy.consent
  BY <1>1, VoidedIs
<1>3. qsMem' \in Mems /\ (Fresh(qsDisk, qsMem) => Fresh(qsDisk', qsMem'))
  BY <1>1, QsFields DEF Mems, Fresh
<1>4. QED BY <1>1, <1>2, <1>3, QsFields DEF QsInv, QsShape, HeldUntil, FlagCounted, MayMeasure

\* What an import lands is a reason; nothing landed is none.
LEMMA ImportLandKeeps == ASSUME QsInv, ImportLand PROVE QsInv'
<1>1. PICK data \in BOOLEAN, config \in BOOLEAN :
          /\ \E on \in BOOLEAN :
                qsDisk' = [qsDisk EXCEPT !.history = @ \/ data, !.config = @ \/ config,
                                         !.on = IF config THEN on ELSE @]
          /\ qsWhy' = [qsWhy EXCEPT !.consent = @ \/ data \/ config]
  BY DEF ImportLand, Noting
<1>2. PICK on \in BOOLEAN :
          qsDisk' = [qsDisk EXCEPT !.history = @ \/ data, !.config = @ \/ config, !.on = IF config THEN on ELSE @]
  BY <1>1
<1>3. UNCHANGED <<qsMem, qsNow>> /\ (FlagConsent => qsWhy.consent)
  BY QsFields DEF ImportLand
<1> DEFINE history == qsDisk.history \/ data
           stored == qsDisk.config \/ config
           live == IF config THEN on ELSE qsDisk.on
           consent == qsWhy.consent \/ data \/ config
<1>4. history \in BOOLEAN /\ stored \in BOOLEAN /\ live \in BOOLEAN /\ consent \in BOOLEAN
  BY QsFields DEF Disks
<1>5. /\ qsDisk' = [qsDisk EXCEPT !.history = history, !.config = stored, !.on = live]
      /\ qsWhy' = [qsWhy EXCEPT !.consent = consent]
  BY <1>1, <1>2
<1>6. /\ qsWhy.consent => consent
      /\ ~consent => (history => qsDisk.history) /\ (stored => qsDisk.config)
  OBVIOUS
<1> HIDE DEF history, stored, live, consent
<1>7. /\ qsDisk' \in Disks /\ qsDisk'.offer = qsDisk.offer /\ qsDisk'.done = qsDisk.done
      /\ qsDisk'.history = history /\ qsDisk'.config = stored
  BY <1>4, <1>5, QsFields DEF Disks
<1>8. /\ qsWhy' \in [consent : BOOLEAN, age : 0..Grace, voided : BOOLEAN]
      /\ qsWhy'.age = qsWhy.age /\ qsWhy'.consent = consent
  BY <1>4, <1>5, QsFields
<1>9. QsShape'
  BY <1>3, <1>7, <1>8 DEF QsInv, QsShape
<1>10. HeldUntil'
  BY <1>3, <1>6, <1>7, <1>8 DEF QsInv, HeldUntil, MayMeasure, Fresh
<1>11. FlagCounted'
  BY <1>3, <1>6, <1>8 DEF FlagCounted
<1>12. QED BY <1>9, <1>10, <1>11 DEF QsInv

\* As long as there is no reason, whatever can be read holds.
LEMMA HoldStandsUntil ==
    ASSUME QsInv, ~MayMeasure, NEW read \in Reads, NEW est \in Reads
    PROVE  HoldState(read, est) = "held"
<1>1. Fresh(qsDisk, qsMem) /\ (qsDisk.offer # 0 => qsNow - qsDisk.offer <= qsWhy.age)
  BY DEF QsInv, HeldUntil
<1>2. ~Established /\ ~qsMem.done
  BY <1>1 DEF Established, Fresh
<1>3. qsWhy.age < Grace
  BY QsFields DEF MayMeasure
<1>4. qsDisk.offer # 0 => QuickSetupHold
  BY <1>1, <1>3, QsFields DEF QuickSetupHold
<1>5. QED BY <1>2, <1>4 DEF HoldState, Reads

\* Monitoring goes live only where the hold is released.
LEMMA MonitoringKeeps == ASSUME QsInv, MonitoringLive PROVE QsInv'
<1>1. PICK read \in Reads, est \in Reads :
          LET hold  == IF qsMem.latch THEN "released" ELSE HoldState(read, est)
              live  == hold # "held" /\ qsMem.on
          IN  /\ qsMem' = [qsMem EXCEPT !.latch = hold = "released", !.live = live]
              /\ qsDisk' = [qsDisk EXCEPT !.history = @ \/ live]
  BY DEF MonitoringLive
<1>2. UNCHANGED <<qsNow, qsWhy>> /\ qsMem.up
  BY DEF MonitoringLive
<1> DEFINE hold == IF qsMem.latch THEN "released" ELSE HoldState(read, est)
           live == hold # "held" /\ qsMem.on
           latch == hold = "released"
           history == qsDisk.history \/ live
<1>3. live \in BOOLEAN /\ latch \in BOOLEAN /\ history \in BOOLEAN
  OBVIOUS
<1>4. qsMem' = [qsMem EXCEPT !.latch = latch, !.live = live] /\ qsDisk' = [qsDisk EXCEPT !.history = history]
  BY <1>1
<1>5. ~MayMeasure => ~live /\ ~latch /\ ~history
  <2>1. SUFFICES ASSUME ~MayMeasure PROVE ~live /\ ~latch /\ ~history
    OBVIOUS
  <2>2. Fresh(qsDisk, qsMem) /\ HoldState(read, est) = "held"
    BY <2>1, QsFields, HoldStandsUntil
  <2>3. hold = "held"
    BY <2>2 DEF Fresh
  <2>4. QED BY <2>2, <2>3 DEF Fresh
<1> HIDE DEF hold, live, latch, history
<1>6. /\ qsMem' \in Mems /\ qsMem'.done = qsMem.done /\ qsMem'.latch = latch /\ qsMem'.live = live
      /\ qsMem'.up = qsMem.up
  BY <1>3, <1>4, QsFields DEF Mems
<1>7. /\ qsDisk' \in Disks /\ qsDisk'.offer = qsDisk.offer /\ qsDisk'.done = qsDisk.done
      /\ qsDisk'.history = history /\ qsDisk'.config = qsDisk.config
  BY <1>3, <1>4, QsFields DEF Disks
<1>8. QsShape'
  BY <1>2, <1>6, <1>7 DEF QsInv, QsShape
<1>9. HeldUntil'
  BY <1>2, <1>5, <1>6, <1>7 DEF QsInv, HeldUntil, MayMeasure, Fresh
<1>10. FlagCounted'
  BY <1>2, QsFields DEF FlagCounted
<1>11. QED BY <1>8, <1>9, <1>10 DEF QsInv

\* Time counts for the offer as long as it is on the table.
LEMMA TickKeeps == ASSUME QsInv, Tick PROVE QsInv'
<1> DEFINE age == IF qsDisk.offer # 0 /\ qsWhy.age < Grace THEN qsWhy.age + 1 ELSE qsWhy.age
<1>1. /\ qsNow' = qsNow + 1 /\ qsWhy' = [qsWhy EXCEPT !.age = age] /\ UNCHANGED <<qsDisk, qsMem, qsStep>>
  BY DEF Tick, Noting
<1>2. qsWhy.age \in 0..Grace /\ Grace \in Nat /\ qsDisk.offer \in Nat /\ qsNow \in Nat
  BY QsFields
<1>3. /\ age \in 0..Grace /\ (age # Grace => qsWhy.age # Grace)
      /\ age # Grace /\ qsDisk.offer # 0 => age = qsWhy.age + 1
  BY <1>2
<1> HIDE DEF age
<1>4. /\ qsWhy' \in [consent : BOOLEAN, age : 0..Grace, voided : BOOLEAN]
      /\ qsWhy'.age = age /\ qsWhy'.consent = qsWhy.consent
  BY <1>1, <1>3, QsFields
<1>5. QsShape'
  BY <1>1, <1>2, <1>4 DEF QsInv, QsShape
<1>6. ~MayMeasure' => ~MayMeasure /\ age # Grace
  BY <1>3, <1>4 DEF MayMeasure
<1>7. qsNow - qsDisk.offer <= qsWhy.age /\ age = qsWhy.age + 1 => qsNow' - qsDisk.offer <= age
  BY <1>1, <1>2
<1>8. HeldUntil'
  BY <1>1, <1>3, <1>4, <1>6, <1>7 DEF QsInv, HeldUntil, Fresh
<1>9. FlagCounted'
  BY <1>1, <1>4 DEF QsInv, FlagCounted
<1>10. QED BY <1>5, <1>8, <1>9 DEF QsInv

\* A clock that is set back makes no offer look older.
LEMMA ResetKeeps == ASSUME QsInv, ClockReset PROVE QsInv'
<1>1. qsNow > 1 /\ qsNow' = 1 /\ UNCHANGED <<qsDisk, qsMem, qsStep, qsWhy>>
  BY DEF ClockReset
<1>2. qsNow - qsDisk.offer <= qsWhy.age => qsNow' - qsDisk.offer <= qsWhy.age
  BY <1>1, QsFields
<1>3. QED BY <1>1, <1>2 DEF QsInv, QsShape, HeldUntil, FlagCounted, MayMeasure

\* Every step of the setup keeps its invariant.
LEMMA QsInvNext == ASSUME QsInv, [QsNext]_qsVars PROVE QsInv'
<1>1. CASE Boot BY <1>1, BootKeeps
<1>2. CASE Crash BY <1>2, CrashKeeps
<1>3. CASE Sighup
  <2>1. FlagConsent => qsWhy.consent
    BY <1>3, QsFields DEF Sighup
  <2>2. QED BY <1>3, <2>1, StepKeeps DEF Sighup
<1>4. CASE \E l \in Loaders : SeedEarly(l) \/ Reload(l) \/ Decide(l)
  BY <1>4, SeedKeeps, ReloadKeeps, DecideKeeps
<1>5. CASE Answer \/ Dismiss \/ Save \/ \E on \in BOOLEAN : SetMonitoringAnsweringSetup(on)
  BY <1>5, OperatorKeeps
<1>6. CASE ImportStart BY <1>6, ImportStartKeeps
<1>7. CASE ImportLand BY <1>7, ImportLandKeeps
<1>8. CASE ImportReload BY <1>8, ImportReloadKeeps
<1>9. CASE MonitoringLive BY <1>9, MonitoringKeeps
<1>10. CASE Tick BY <1>10, TickKeeps
<1>11. CASE ClockReset BY <1>11, ResetKeeps
<1>12. CASE UNCHANGED qsVars
  BY <1>12 DEF qsVars, QsInv, QsShape, HeldUntil, FlagCounted, MayMeasure
<1>13. QED
  BY <1>1, <1>2, <1>3, <1>4, <1>5, <1>6, <1>7, <1>8, <1>9, <1>10, <1>11, <1>12 DEF QsNext

\* Until somebody has answered or the offer has stood for its grace, the table
\* and the process know of nothing that would release the hold, and the offer
\* looks no older than it is.
THEOREM HoldIsKept == QsSpec => []QsInv
<1>1. QED BY QsInvInit, QsInvNext, PTL DEF QsSpec

\* A fresh install measures nothing before it may, for every grace and clock,
\* through failed reads, restarts, reloads and imports.
THEOREM NothingBeforeConsent == QsSpec => []MeasuresWithConsent
<1>1. QsInv => MeasuresWithConsent
  BY DEF QsInv, HeldUntil, Fresh, MayMeasure, MeasuresWithConsent
<1>2. QED BY <1>1, HoldIsKept, PTL

-----------------------------------------------------------------------------
(* Settings: what runs is what is stored, and no password is lost          *)

Tables == [form : Forms \cup {Unset}, servers : [Addrs -> DiskPasswords]]
Values == [loaded : BOOLEAN, form : Forms, servers : [Addrs -> MemPasswords], sealed : [Addrs -> Keys \cup {"blank"}]]
Loading == [step : {"apply"}, read : Tables]
Saving  == [step : {"write"}, stored : Forms \cup {Unset}, cur : Values]

StShape ==
    /\ stDisk \in Tables /\ stMem \in Values
    /\ stHost \in [up : BOOLEAN, flag : Forms, key : Keys \cup {NoKey}]
    /\ stAct \in [Callers -> {Idle} \cup Loading \cup Saving]
    /\ stDirty \in BOOLEAN /\ stNamed \subseteq Addrs
    /\ stAct["save"] \in {Idle} \cup Saving
    /\ \A c \in {"signal", "import"} : stAct[c] \in {Idle} \cup Loading

\* One caller is inside the controller at a time, of a process that runs.
OneInside ==
    /\ \A c, d \in Callers : stAct[c] # Idle /\ stAct[d] # Idle => c = d
    /\ \A c \in Callers : stAct[c] # Idle => stHost.up

\* What a load has read is what is stored, but for an import's rows, which hold
\* no ciphertext that was not there before.
ReadIsStored ==
    \A c \in {"signal", "import"} : stAct[c] # Idle =>
        /\ ~stDirty => stAct[c].read = stDisk
        /\ \A a \in Addrs : stDisk.servers[a] \in Keys => stAct[c].read.servers[a] = stDisk.servers[a]

\* A save works on the running values, and on the stored ones but for an import.
SaveIsCurrent ==
    stAct["save"] # Idle =>
        /\ stMem.loaded /\ stAct["save"].cur = stMem
        /\ ~stDirty => stAct["save"].stored = stDisk.form

\* Every ciphertext on disk that this process cannot open is remembered, and
\* reads as blank; what is remembered is of another key.
ForeignRemembered ==
    stHost.up /\ stMem.loaded => \A a \in Addrs :
        /\ stMem.sealed[a] \in (Keys \ {stHost.key}) \cup {"blank"}
        /\ stDisk.servers[a] \in Keys \ {stHost.key} =>
              stMem.sealed[a] = stDisk.servers[a] /\ stMem.servers[a] = "blank"

StInv == StShape /\ OneInside /\ ReadIsStored /\ SaveIsCurrent /\ ForeignRemembered /\ SavedIsRunning


\* What a load makes of a list: a password per address, and the ciphertexts of
\* other keys kept aside.
LEMMA UnsealedIs ==
  ASSUME NEW servers \in [Addrs -> DiskPasswords], NEW key \in Keys \cup {NoKey}
  PROVE  /\ Unseal(servers, key) \in [Addrs -> MemPasswords]
         /\ Remembered(servers, key) \in [Addrs -> (Keys \ {key}) \cup {"blank"}]
         /\ \A a \in Addrs : servers[a] \in Keys \ {key} =>
               Unseal(servers, key)[a] = "blank" /\ Remembered(servers, key)[a] = servers[a]
         /\ \A a \in Addrs : servers[a] \in MemPasswords => Unseal(servers, key)[a] = servers[a]
         /\ \A a \in Addrs : servers[a] = key => Unseal(servers, key)[a] = "clear"
<1>1. \A a \in Addrs : servers[a] \in DiskPasswords
  OBVIOUS
<1>2. key \notin MemPasswords /\ \A k \in Keys : k \notin MemPasswords /\ k # NoKey
  BY SettingsAssumption DEF NoKey, MemPasswords
<1>3. Unseal(servers, key) \in [Addrs -> MemPasswords]
  BY <1>1 DEF Unseal, MemPasswords
<1>4. Remembered(servers, key) \in [Addrs -> (Keys \ {key}) \cup {"blank"}]
  BY <1>1 DEF Remembered
<1>5. ASSUME NEW a \in Addrs, servers[a] \in Keys \ {key}
      PROVE  Unseal(servers, key)[a] = "blank" /\ Remembered(servers, key)[a] = servers[a]
  BY <1>2, <1>5 DEF Unseal, Remembered
<1>6. ASSUME NEW a \in Addrs, servers[a] \in MemPasswords PROVE Unseal(servers, key)[a] = servers[a]
  BY <1>2, <1>6 DEF Unseal
<1>7. ASSUME NEW a \in Addrs, servers[a] = key PROVE Unseal(servers, key)[a] = "clear"
  BY <1>2, <1>7 DEF Unseal
<1>8. QED BY <1>3, <1>4, <1>5, <1>6, <1>7

\* What a save makes of the running list: it reads back as that list, what was
\* kept aside is back in its place, and nothing is in the clear under a key.
LEMMA SealedIs ==
  ASSUME NEW servers \in [Addrs -> MemPasswords], NEW key \in Keys \cup {NoKey},
         NEW sealed \in [Addrs -> (Keys \ {key}) \cup {"blank"}],
         NEW out, out = SealServers(RestoreSealed(servers, sealed), key)
  PROVE  /\ out \in [Addrs -> DiskPasswords]
         /\ Unseal(out, key) = servers
         /\ \A a \in Addrs : out[a] \in Keys \ {key} => servers[a] = "blank" /\ sealed[a] = out[a]
         /\ \A a \in Addrs : servers[a] = "blank" => out[a] = sealed[a]
         /\ key # NoKey => \A a \in Addrs : out[a] # "clear"
<1>1. key \notin MemPasswords /\ \A k \in Keys : k \notin MemPasswords /\ k # NoKey
  BY SettingsAssumption DEF NoKey, MemPasswords
<1>2. out = [a \in Addrs |-> IF RestoreSealed(servers, sealed)[a] = "clear" /\ key # NoKey
                             THEN key ELSE RestoreSealed(servers, sealed)[a]]
  BY DEF SealServers
<1>3. ASSUME NEW a \in Addrs
      PROVE  /\ servers[a] = "absent" => out[a] = "absent"
             /\ servers[a] = "clear" => out[a] = IF key # NoKey THEN key ELSE "clear"
             /\ servers[a] = "blank" => out[a] = sealed[a]
             /\ servers[a] \in MemPasswords /\ sealed[a] \in (Keys \ {key}) \cup {"blank"}
  <2>1. RestoreSealed(servers, sealed)[a] = IF servers[a] = "blank" THEN sealed[a] ELSE servers[a]
    BY DEF RestoreSealed
  <2>2. sealed[a] # "clear"
    BY <1>1 DEF MemPasswords
  <2>3. QED BY <1>2, <2>1, <2>2
<1>4. out \in [Addrs -> DiskPasswords]
  <2>1. ASSUME NEW a \in Addrs PROVE out[a] \in DiskPasswords
    BY <1>3 DEF MemPasswords, DiskPasswords
  <2>2. QED BY <1>2, <2>1
<1>5. ASSUME NEW a \in Addrs PROVE Unseal(out, key)[a] = servers[a]
  <2>1. /\ out[a] \in MemPasswords => Unseal(out, key)[a] = out[a]
        /\ out[a] = key => Unseal(out, key)[a] = "clear"
        /\ out[a] \in Keys \ {key} => Unseal(out, key)[a] = "blank"
    BY <1>4, UnsealedIs
  <2>2. QED BY <1>1, <1>3, <2>1 DEF MemPasswords
<1>6. Unseal(out, key) = servers
  BY <1>5 DEF Unseal
<1>7. ASSUME NEW a \in Addrs, out[a] \in Keys \ {key} PROVE servers[a] = "blank" /\ sealed[a] = out[a]
  BY <1>1, <1>3, <1>7 DEF MemPasswords
<1>8. ASSUME NEW a \in Addrs, key # NoKey PROVE out[a] # "clear"
  BY <1>1, <1>3, <1>8 DEF MemPasswords
<1>9. QED BY <1>3, <1>4, <1>6, <1>7, <1>8

\* At first nothing is set, and no daemon is up.
LEMMA StInvInit == ASSUME StInit PROVE StInv
<1>1. stDisk \in Tables /\ stMem \in Values
  BY SettingsAssumption DEF StInit, Tables, Values, Unset, Shipped, DiskPasswords, MemPasswords
<1>2. stHost \in [up : BOOLEAN, flag : Forms, key : Keys \cup {NoKey}] /\ ~stHost.up
  BY SettingsAssumption DEF StInit, Shipped
<1>3. stAct = [c \in Callers |-> Idle] /\ stDirty \in BOOLEAN /\ stNamed \subseteq Addrs
  BY DEF StInit
<1>4. \A c \in Callers : stAct[c] = Idle
  BY <1>3
<1>5. "save" \in Callers /\ {"signal", "import"} \subseteq Callers
  BY DEF Callers
<1>6. StShape
  BY <1>1, <1>2, <1>3, <1>4, <1>5 DEF StShape
<1>7. QED
  BY <1>2, <1>4, <1>5, <1>6
     DEF StInv, OneInside, ReadIsStored, SaveIsCurrent, ForeignRemembered, SavedIsRunning


\* The table after a load, which seals the list it met in the clear.
Resealed(read, disk, mem, key, ok) ==
    IF ok /\ Legacy(read.servers, key)
    THEN [disk EXCEPT !.servers = SealServers(RestoreSealed(mem.servers, mem.sealed), key)]
    ELSE disk

\* A load and the sealing that may follow it.
LEMMA LoadIsTrue ==
  ASSUME NEW read \in Tables, NEW disk \in Tables, NEW key \in Keys \cup {NoKey}, NEW flag \in Forms, NEW ok \in BOOLEAN,
         \A a \in Addrs : disk.servers[a] \in Keys => read.servers[a] = disk.servers[a],
         NEW mem, mem = Loaded(read, key, flag),
         NEW after, after = Resealed(read, disk, mem, key, ok)
  PROVE  /\ mem \in Values /\ mem.loaded /\ after \in Tables
         /\ read = disk => mem.form = Overlay(after, flag) /\ mem.servers = Unseal(after.servers, key)
         /\ \A a \in Addrs :
              /\ mem.sealed[a] \in (Keys \ {key}) \cup {"blank"}
              /\ after.servers[a] \in Keys \ {key} => mem.sealed[a] = after.servers[a] /\ mem.servers[a] = "blank"
              /\ disk.servers[a] \in Keys \ {key} => after.servers[a] = disk.servers[a]
              /\ after.servers[a] = "clear" => disk.servers[a] = "clear"
<1>1. /\ read.servers \in [Addrs -> DiskPasswords] /\ disk.servers \in [Addrs -> DiskPasswords]
      /\ read.form \in Forms \cup {Unset} /\ disk.form \in Forms \cup {Unset}
  BY DEF Tables
<1>2. /\ mem.loaded = TRUE /\ mem.form = Overlay(read, flag) /\ mem.servers = Unseal(read.servers, key)
      /\ mem.sealed = Remembered(read.servers, key)
  BY DEF Loaded
<1>3. mem.servers \in [Addrs -> MemPasswords] /\ mem.sealed \in [Addrs -> (Keys \ {key}) \cup {"blank"}]
  BY <1>1, <1>2, UnsealedIs
<1>4. mem.sealed \in [Addrs -> Keys \cup {"blank"}] /\ \A a \in Addrs : mem.sealed[a] \in (Keys \ {key}) \cup {"blank"}
  BY <1>3
<1>5. mem \in Values
  <2>1. mem.form \in Forms
    BY <1>1, <1>2 DEF Overlay
  <2>2. QED BY <1>2, <1>3, <1>4, <2>1 DEF Loaded, Values
<1>6. ASSUME NEW a \in Addrs, disk.servers[a] \in Keys \ {key}
      PROVE  mem.sealed[a] = disk.servers[a] /\ mem.servers[a] = "blank"
  <2>1. read.servers[a] \in Keys \ {key} /\ read.servers[a] = disk.servers[a]
    BY <1>6
  <2>2. QED BY <1>1, <1>2, <2>1, UnsealedIs
<1>7. CASE ok /\ Legacy(read.servers, key)
  <2> DEFINE out == SealServers(RestoreSealed(mem.servers, mem.sealed), key)
  <2>1. after = [disk EXCEPT !.servers = out] /\ key # NoKey
    BY <1>7 DEF Legacy, Resealed
  <2>2. after.form = disk.form /\ after.servers = out
    BY <2>1 DEF Tables
  <2>3. /\ out \in [Addrs -> DiskPasswords]
        /\ Unseal(out, key) = mem.servers
        /\ \A a \in Addrs : out[a] \in Keys \ {key} => mem.servers[a] = "blank" /\ mem.sealed[a] = out[a]
        /\ \A a \in Addrs : mem.servers[a] = "blank" => out[a] = mem.sealed[a]
        /\ \A a \in Addrs : out[a] # "clear"
    BY <1>3, <2>1, SealedIs
  <2> HIDE DEF out
  <2>4. after \in Tables
    BY <2>1, <2>3 DEF Tables
  <2>5. mem.form = Overlay(disk, flag) => mem.form = Overlay(after, flag)
    BY <2>2 DEF Overlay
  <2>6. QED BY <1>2, <1>4, <1>5, <1>6, <2>2, <2>3, <2>4, <2>5
<1>8. CASE ~(ok /\ Legacy(read.servers, key))
  <2>1. after = disk
    BY <1>8 DEF Resealed
  <2>2. QED BY <1>2, <1>4, <1>5, <1>6, <2>1
<1>9. QED BY <1>7, <1>8

\* A step by which the table, the values and the process fit, with nobody inside.
LEMMA RestIsGood ==
  ASSUME stDisk' \in Tables, stMem' \in Values, stHost' \in [up : BOOLEAN, flag : Forms, key : Keys \cup {NoKey}],
         stAct' = [c \in Callers |-> Idle], stDirty' \in BOOLEAN, stNamed' \subseteq Addrs, ForeignRemembered', SavedIsRunning'
  PROVE  StInv'
<1>1. "save" \in Callers /\ {"signal", "import"} \subseteq Callers
  BY DEF Callers
<1>2. \A c \in Callers : stAct'[c] = Idle
  OBVIOUS
<1>3. stAct' \in [Callers -> {Idle} \cup Loading \cup Saving]
  OBVIOUS
<1>4. StShape'
  BY <1>1, <1>2, <1>3 DEF StShape
<1>5. OneInside' /\ ReadIsStored' /\ SaveIsCurrent'
  BY <1>1, <1>2 DEF OneInside, ReadIsStored, SaveIsCurrent
<1>6. QED BY <1>4, <1>5 DEF StInv

\* What SecretsKept says of one step.
SecretsStep ==
    \A a \in Addrs :
        /\ stDisk.servers[a] \in Keys \ {stHost.key} /\ stHost.up
              /\ stDisk'.servers[a] # stDisk.servers[a] => a \in stNamed'
        /\ stDisk'.servers[a] = "clear" /\ stDisk.servers[a] # "clear"
              => stHost.key = NoKey \/ stDirty'

\* With the lock free, or no daemon, no caller is at a step of its own.
LEMMA NobodyInside ==
  ASSUME StInv, Free \/ ~stHost.up
  PROVE  stAct = [c \in Callers |-> Idle] /\ \A c \in Callers : stAct[c] = Idle
<1>1. \A c \in Callers : stAct[c] = Idle
  BY DEF StInv, OneInside, Free
<1>2. stAct \in [Callers -> {Idle} \cup Loading \cup Saving]
  BY DEF StInv, StShape
<1>3. QED BY <1>1, <1>2

\* A boot runs with what is stored and the flags it was given.
LEMMA StBootKeeps == ASSUME StInv, StBoot PROVE StInv' /\ SecretsStep
<1>1. PICK flag \in Forms, key \in Keys \cup {NoKey}, reads \in BOOLEAN, ok \in BOOLEAN :
        /\ stHost' = [up |-> TRUE, flag |-> flag, key |-> key]
        /\ IF reads
           THEN /\ stMem' = Loaded(stDisk, key, flag)
                /\ Reseal(stDisk, stMem', key, ok)
           ELSE /\ stMem' = [stMem EXCEPT !.loaded = FALSE, !.form = flag,
                                          !.servers = [a \in Addrs |-> "absent"],
                                          !.sealed  = [a \in Addrs |-> "blank"]]
                /\ UNCHANGED stDisk
  BY DEF StBoot
<1>2. ~stHost.up /\ stDirty' = FALSE /\ stNamed' = {} /\ stAct' = stAct
  BY DEF StBoot
<1>3. stAct' = [c \in Callers |-> Idle]
  BY <1>2, NobodyInside
<1>4. stHost'.up /\ stHost'.key = key /\ stHost'.flag = flag
      /\ stHost' \in [up : BOOLEAN, flag : Forms, key : Keys \cup {NoKey}]
  BY <1>1
<1>5. CASE reads
  <2>1. stMem' = Loaded(stDisk, key, flag) /\ stDisk' = Resealed(stDisk, stDisk, stMem', key, ok)
    BY <1>1, <1>5 DEF Reseal, Resealed
  <2>2. stDisk \in Tables
    BY DEF StInv, StShape
  <2>3. /\ stMem' \in Values /\ stMem'.loaded /\ stDisk' \in Tables
        /\ stMem'.form = Overlay(stDisk', flag) /\ stMem'.servers = Unseal(stDisk'.servers, key)
        /\ \A a \in Addrs :
             /\ stMem'.sealed[a] \in (Keys \ {key}) \cup {"blank"}
             /\ stDisk'.servers[a] \in Keys \ {key} =>
                   stMem'.sealed[a] = stDisk'.servers[a] /\ stMem'.servers[a] = "blank"
             /\ stDisk'.servers[a] = "clear" => stDisk.servers[a] = "clear"
    BY <2>1, <2>2, LoadIsTrue
  <2>4. ForeignRemembered' /\ SavedIsRunning'
    BY <1>4, <2>3 DEF ForeignRemembered, SavedIsRunning
  <2>5. StInv'
    BY <1>2, <1>3, <1>4, <2>3, <2>4, RestIsGood
  <2>6. QED BY <1>2, <2>3, <2>5 DEF SecretsStep
<1>6. CASE ~reads
  <2>1. /\ stMem' = [stMem EXCEPT !.loaded = FALSE, !.form = flag, !.servers = [a \in Addrs |-> "absent"],
                                  !.sealed  = [a \in Addrs |-> "blank"]]
        /\ stDisk' = stDisk
    BY <1>1, <1>6
  <2>2. stMem' = [loaded |-> FALSE, form |-> flag, servers |-> [a \in Addrs |-> "absent"],
                  sealed |-> [a \in Addrs |-> "blank"]]
    BY <2>1 DEF StInv, StShape, Values
  <2>3. stMem' \in Values /\ ~stMem'.loaded
    BY <2>2 DEF Values, MemPasswords
  <2>4. ForeignRemembered' /\ SavedIsRunning' /\ stDisk' \in Tables
    BY <2>1, <2>3 DEF ForeignRemembered, SavedIsRunning, StInv, StShape
  <2>5. StInv'
    BY <1>2, <1>3, <1>4, <2>3, <2>4, RestIsGood
  <2>6. QED BY <2>1, <2>5 DEF SecretsStep
<1>7. QED BY <1>5, <1>6

\* A stop leaves the table as it is.
LEMMA StStopKeeps == ASSUME StInv, StStop PROVE StInv' /\ SecretsStep
<1>1. /\ stHost' = [stHost EXCEPT !.up = FALSE] /\ stMem' = [stMem EXCEPT !.loaded = FALSE]
      /\ stAct' = [c \in Callers |-> Idle] /\ stDirty' = FALSE /\ stNamed' = {} /\ stDisk' = stDisk
  BY DEF StStop
<1>2. stHost' \in [up : BOOLEAN, flag : Forms, key : Keys \cup {NoKey}] /\ ~stHost'.up
  BY <1>1 DEF StInv, StShape
<1>3. stMem' \in Values /\ stDisk' \in Tables
  BY <1>1 DEF StInv, StShape, Values
<1>4. ForeignRemembered' /\ SavedIsRunning'
  BY <1>2 DEF ForeignRemembered, SavedIsRunning
<1>5. StInv'
  BY <1>1, <1>2, <1>3, <1>4, RestIsGood
<1>6. QED BY <1>1, <1>5 DEF SecretsStep

\* A reload reads the table under the lock.
LEMMA ReloadReadKeeps ==
  ASSUME StInv, NEW c \in {"signal", "import"}, ReloadRead(c)
  PROVE  StInv' /\ SecretsStep
<1>1. /\ stHost.up /\ Free /\ stAct' = [stAct EXCEPT ![c] = [step |-> "apply", read |-> stDisk]]
      /\ stNamed' = {} /\ UNCHANGED <<stDisk, stMem, stHost, stDirty>>
  BY DEF ReloadRead
<1>2. \A d \in Callers : stAct[d] = Idle
  BY <1>1, NobodyInside
<1>3. c \in Callers /\ "save" \in Callers /\ c # "save" /\ {"signal", "import"} \subseteq Callers
  BY DEF Callers
<1>4. [step |-> "apply", read |-> stDisk] \in Loading
  BY DEF StInv, StShape, Loading
<1>5. stAct \in [Callers -> {Idle} \cup Loading \cup Saving]
  BY DEF StInv, StShape
<1>6. stAct'[c].read = stDisk /\ stAct'[c] \in Loading /\ \A d \in Callers \ {c} : stAct'[d] = Idle
  BY <1>1, <1>2, <1>3, <1>4, <1>5
<1>7. stAct' \in [Callers -> {Idle} \cup Loading \cup Saving]
  BY <1>1, <1>4, <1>5
<1>8. StShape'
  BY <1>1, <1>3, <1>6, <1>7 DEF StInv, StShape
<1>9. OneInside' /\ ReadIsStored' /\ SaveIsCurrent'
  BY <1>1, <1>3, <1>6 DEF OneInside, ReadIsStored, SaveIsCurrent
<1>10. ForeignRemembered' /\ SavedIsRunning'
  BY <1>1 DEF StInv, ForeignRemembered, SavedIsRunning
<1>11. QED BY <1>1, <1>8, <1>9, <1>10 DEF StInv, SecretsStep

\* A reload applies what it read, which is what is stored but for an import.
LEMMA ReloadApplyKeeps ==
  ASSUME StInv, NEW c \in {"signal", "import"}, ReloadApply(c)
  PROVE  StInv' /\ SecretsStep
<1> DEFINE read == stAct[c].read
<1>1. PICK ok \in BOOLEAN : Reseal(read, stMem', stHost.key, ok)
  BY DEF ReloadApply
<1>2. /\ stAct[c].step = "apply" /\ stMem' = Loaded(read, stHost.key, stHost.flag)
      /\ stDirty' = (stDirty /\ read # stDisk) /\ stAct' = [stAct EXCEPT ![c] = Idle]
      /\ stNamed' = {} /\ stHost' = stHost
  BY DEF ReloadApply
<1>3. c \in Callers /\ stAct[c] # Idle
  BY <1>2 DEF Callers, Idle
<1>4. /\ stHost.up /\ stAct[c] \in Loading
      /\ ~stDirty => read = stDisk
      /\ \A a \in Addrs : stDisk.servers[a] \in Keys => read.servers[a] = stDisk.servers[a]
  BY <1>3 DEF StInv, StShape, OneInside, ReadIsStored
<1>5. read \in Tables /\ stDisk \in Tables /\ stHost.key \in Keys \cup {NoKey} /\ stHost.flag \in Forms
  BY <1>4 DEF StInv, StShape, Loading
<1>6. stAct' = [d \in Callers |-> Idle]
  <2>1. stAct \in [Callers -> {Idle} \cup Loading \cup Saving]
    BY DEF StInv, StShape
  <2>2. \A d \in Callers : d # c => stAct[d] = Idle
    BY <1>3 DEF StInv, OneInside
  <2>3. QED BY <1>2, <2>1, <2>2
<1> HIDE DEF read
<1>7. stDisk' = Resealed(read, stDisk, stMem', stHost.key, ok)
  BY <1>1 DEF Reseal, Resealed
<1>8. /\ stMem' \in Values /\ stMem'.loaded /\ stDisk' \in Tables
      /\ read = stDisk => stMem'.form = Overlay(stDisk', stHost.flag)
                          /\ stMem'.servers = Unseal(stDisk'.servers, stHost.key)
      /\ \A a \in Addrs :
           /\ stMem'.sealed[a] \in (Keys \ {stHost.key}) \cup {"blank"}
           /\ stDisk'.servers[a] \in Keys \ {stHost.key} =>
                 stMem'.sealed[a] = stDisk'.servers[a] /\ stMem'.servers[a] = "blank"
           /\ stDisk.servers[a] \in Keys \ {stHost.key} => stDisk'.servers[a] = stDisk.servers[a]
           /\ stDisk'.servers[a] = "clear" => stDisk.servers[a] = "clear"
  BY <1>2, <1>4, <1>5, <1>7, LoadIsTrue
<1>9. ~stDirty' => read = stDisk
  BY <1>2, <1>4
<1>10. stDirty' \in BOOLEAN
  BY <1>2
<1>11. ForeignRemembered' /\ SavedIsRunning'
  BY <1>2, <1>8, <1>9 DEF ForeignRemembered, SavedIsRunning
<1>12. stHost' \in [up : BOOLEAN, flag : Forms, key : Keys \cup {NoKey}]
  BY <1>2 DEF StInv, StShape
<1>13. StInv'
  BY <1>2, <1>6, <1>8, <1>10, <1>11, <1>12, RestIsGood
<1>14. QED BY <1>8, <1>13 DEF SecretsStep

\* A save reads the stored form under the lock before it merges.
LEMMA UpdateReadKeeps == ASSUME StInv, UpdateRead PROVE StInv' /\ SecretsStep
<1>1. /\ stHost.up /\ stMem.loaded /\ Free
      /\ stAct' = [stAct EXCEPT !["save"] = [step |-> "write", stored |-> stDisk.form, cur |-> stMem]]
      /\ stNamed' = {} /\ UNCHANGED <<stDisk, stMem, stHost, stDirty>>
  BY DEF UpdateRead
<1>2. \A d \in Callers : stAct[d] = Idle
  BY <1>1, NobodyInside
<1>3. "save" \in Callers /\ {"signal", "import"} \subseteq Callers /\ "save" \notin {"signal", "import"}
  BY DEF Callers
<1>4. [step |-> "write", stored |-> stDisk.form, cur |-> stMem] \in Saving
  BY DEF StInv, StShape, Saving, Tables
<1>5. stAct \in [Callers -> {Idle} \cup Loading \cup Saving]
  BY DEF StInv, StShape
<1>6. /\ stAct'["save"] = [step |-> "write", stored |-> stDisk.form, cur |-> stMem]
      /\ \A d \in Callers \ {"save"} : stAct'[d] = Idle
  BY <1>1, <1>2, <1>3, <1>5
<1>7. stAct' \in [Callers -> {Idle} \cup Loading \cup Saving]
  BY <1>1, <1>4, <1>5
<1>8. StShape'
  BY <1>1, <1>3, <1>4, <1>6, <1>7 DEF StInv, StShape
<1>9. OneInside' /\ ReadIsStored' /\ SaveIsCurrent'
  BY <1>1, <1>3, <1>6 DEF OneInside, ReadIsStored, SaveIsCurrent
<1>10. ForeignRemembered' /\ SavedIsRunning'
  BY <1>1 DEF StInv, ForeignRemembered, SavedIsRunning
<1>11. QED BY <1>1, <1>8, <1>9, <1>10 DEF StInv, SecretsStep

\* Where a save stands when it writes.
LEMMA SaveStands ==
  ASSUME StInv, stAct["save"].step = "write"
  PROVE  /\ stHost.up /\ stMem.loaded /\ stAct["save"].cur = stMem
         /\ stAct["save"].stored \in Forms \cup {Unset}
         /\ ~stDirty => stAct["save"].stored = stDisk.form
         /\ [stAct EXCEPT !["save"] = Idle] = [c \in Callers |-> Idle]
<1>1. "save" \in Callers /\ stAct["save"] # Idle
  BY DEF Callers, Idle
<1>2. stAct["save"] \in Saving
  BY <1>1 DEF StInv, StShape
<1>3. stAct \in [Callers -> {Idle} \cup Loading \cup Saving] /\ \A d \in Callers : d # "save" => stAct[d] = Idle
  BY <1>1 DEF StInv, StShape, OneInside
<1>4. [stAct EXCEPT !["save"] = Idle] = [c \in Callers |-> Idle]
  BY <1>3
<1>5. QED BY <1>1, <1>2, <1>4 DEF StInv, OneInside, SaveIsCurrent, Saving

\* A save that fails changes neither the table nor what runs.
LEMMA UpdateFailsKeeps == ASSUME StInv, UpdateFails PROVE StInv' /\ SecretsStep
<1>1. /\ stAct["save"].step = "write" /\ stAct' = [stAct EXCEPT !["save"] = Idle]
      /\ stNamed' = {} /\ UNCHANGED <<stDisk, stMem, stHost, stDirty>>
  BY DEF UpdateFails
<1>2. stAct' = [c \in Callers |-> Idle]
  BY <1>1, SaveStands
<1>3. ForeignRemembered' /\ SavedIsRunning'
  BY <1>1 DEF StInv, ForeignRemembered, SavedIsRunning
<1>4. StInv'
  BY <1>1, <1>2, <1>3, RestIsGood DEF StInv, StShape
<1>5. QED BY <1>1, <1>4 DEF SecretsStep

\* The list a form's list becomes: what stays blank was not in the clear.
LEMMA MergedIs ==
  ASSUME NEW list \in [Addrs -> MemPasswords], NEW stored \in [Addrs -> MemPasswords]
  PROVE  /\ MergeIperfPasswords(list, stored) \in [Addrs -> MemPasswords]
         /\ \A a \in Addrs : list[a] = "blank" /\ stored[a] = "blank" => MergeIperfPasswords(list, stored)[a] = "blank"
  BY DEF MergeIperfPasswords, MemPasswords

\* A save that is written runs, and keeps the secrets it was not given.
LEMMA UpdateWriteKeeps == ASSUME StInv, UpdateWrite PROVE StInv' /\ SecretsStep
<1> DEFINE act == stAct["save"]
<1>1. PICK form \in Forms \cup {Unset}, submits \in BOOLEAN, list \in [Addrs -> MemPasswords] :
        LET servers == IF submits THEN MergeIperfPasswords(list, act.cur.servers) ELSE act.cur.servers
            value   == IF form = Unset THEN act.cur.form ELSE form
        IN  /\ stMem' = [act.cur EXCEPT !.form = value, !.servers = servers]
            /\ stDisk' = [form |-> IF form # Unset /\ FormWritten(form, act.stored, act.cur.form)
                                   THEN form ELSE stDisk.form,
                          servers |-> IF servers # act.cur.servers
                                      THEN ToDisk(servers, act.cur) ELSE stDisk.servers]
            /\ stNamed' = IF submits THEN {a \in Addrs : list[a] # "blank"} ELSE {}
  BY DEF UpdateWrite
<1>2. act.step = "write" /\ stAct' = [stAct EXCEPT !["save"] = Idle] /\ stHost' = stHost /\ stDirty' = stDirty
  BY DEF UpdateWrite
<1>3. /\ stHost.up /\ stMem.loaded /\ act.cur = stMem /\ act.stored \in Forms \cup {Unset}
      /\ ~stDirty => act.stored = stDisk.form
      /\ stAct' = [c \in Callers |-> Idle]
  BY <1>2, SaveStands
<1> HIDE DEF act
<1> DEFINE servers == IF submits THEN MergeIperfPasswords(list, stMem.servers) ELSE stMem.servers
           value   == IF form = Unset THEN stMem.form ELSE form
           kept    == IF form # Unset /\ FormWritten(form, act.stored, stMem.form) THEN form ELSE stDisk.form
           out     == SealServers(RestoreSealed(servers, stMem.sealed), stHost.key)
           table   == IF servers # stMem.servers THEN out ELSE stDisk.servers
<1>4. /\ stMem' = [stMem EXCEPT !.form = value, !.servers = servers]
      /\ stDisk' = [form |-> kept, servers |-> table]
      /\ stNamed' = IF submits THEN {a \in Addrs : list[a] # "blank"} ELSE {}
  BY <1>1, <1>3 DEF ToDisk
<1>5. /\ stMem \in Values /\ stMem.servers \in [Addrs -> MemPasswords] /\ stMem.form \in Forms
      /\ stDisk.form \in Forms \cup {Unset} /\ stDisk.servers \in [Addrs -> DiskPasswords]
      /\ stHost.key \in Keys \cup {NoKey}
  BY DEF StInv, StShape, Values, Tables
<1>6. stMem.sealed \in [Addrs -> (Keys \ {stHost.key}) \cup {"blank"}]
  <2>1. \A a \in Addrs : stMem.sealed[a] \in (Keys \ {stHost.key}) \cup {"blank"}
    BY <1>3 DEF StInv, ForeignRemembered
  <2>2. stMem.sealed \in [Addrs -> Keys \cup {"blank"}]
    BY <1>5 DEF Values
  <2>3. QED BY <2>1, <2>2
<1>7. servers \in [Addrs -> MemPasswords] /\ value \in Forms /\ kept \in Forms \cup {Unset}
  BY <1>5, MergedIs
<1>8. /\ out \in [Addrs -> DiskPasswords] /\ Unseal(out, stHost.key) = servers
      /\ \A a \in Addrs : out[a] \in Keys \ {stHost.key} => servers[a] = "blank" /\ stMem.sealed[a] = out[a]
      /\ \A a \in Addrs : servers[a] = "blank" => out[a] = stMem.sealed[a]
      /\ stHost.key # NoKey => \A a \in Addrs : out[a] # "clear"
  <2> HIDE DEF servers
  <2>1. out = SealServers(RestoreSealed(servers, stMem.sealed), stHost.key)
    OBVIOUS
  <2> DEFINE sealed == stMem.sealed
             key    == stHost.key
  <2>2. /\ servers \in [Addrs -> MemPasswords] /\ key \in Keys \cup {NoKey}
        /\ sealed \in [Addrs -> (Keys \ {key}) \cup {"blank"}]
        /\ out = SealServers(RestoreSealed(servers, sealed), key)
    BY <1>5, <1>6, <1>7, <2>1
  <2> HIDE DEF out, sealed, key
  <2>3. /\ out \in [Addrs -> DiskPasswords] /\ Unseal(out, key) = servers
        /\ \A a \in Addrs : out[a] \in Keys \ {key} => servers[a] = "blank" /\ sealed[a] = out[a]
        /\ \A a \in Addrs : servers[a] = "blank" => out[a] = sealed[a]
        /\ key # NoKey => \A a \in Addrs : out[a] # "clear"
    BY <2>2, SealedIs, Z3
  <2>4. QED BY <2>3 DEF sealed, key
<1>9. ASSUME ~stDirty PROVE value = Overlay([form |-> kept, servers |-> table], stHost.flag)
  <2>1. stMem.form = Overlay(stDisk, stHost.flag) /\ act.stored = stDisk.form
    BY <1>3, <1>9 DEF StInv, SavedIsRunning
  <2>2. QED BY <1>5, <2>1 DEF Overlay, FormWritten
<1>10. ASSUME NEW a \in Addrs, stDisk.servers[a] \in Keys \ {stHost.key}
       PROVE  stMem.sealed[a] = stDisk.servers[a] /\ stMem.servers[a] = "blank"
  BY <1>3, <1>10 DEF StInv, ForeignRemembered
<1>11. ASSUME ~stDirty PROVE servers = Unseal(table, stHost.key)
  BY <1>3, <1>8, <1>11 DEF StInv, SavedIsRunning
<1>12. ASSUME NEW a \in Addrs, table[a] \in Keys \ {stHost.key}
       PROVE  stMem.sealed[a] = table[a] /\ servers[a] = "blank"
  BY <1>8, <1>10, <1>12
<1>13. ASSUME NEW a \in Addrs, stDisk.servers[a] \in Keys \ {stHost.key}, table[a] # stDisk.servers[a]
       PROVE  a \in stNamed'
  <2>1. submits /\ servers # stMem.servers
    BY <1>13
  <2>2. ASSUME list[a] = "blank" PROVE FALSE
    <3>1. servers[a] = "blank"
      BY <1>5, <1>10, <1>13, <2>1, <2>2, MergedIs
    <3>2. QED BY <1>8, <1>10, <1>13, <3>1
  <2>3. QED BY <1>4, <2>1, <2>2
<1>14. ASSUME NEW a \in Addrs, table[a] = "clear", stDisk.servers[a] # "clear" PROVE stHost.key = NoKey
  BY <1>8, <1>14
<1>15. table \in [Addrs -> DiskPasswords]
  BY <1>5, <1>8
<1>16. stNamed' \subseteq Addrs
  BY <1>4
<1> HIDE DEF servers, value, kept, out, table
<1>17. stMem' \in Values /\ stMem'.form = value /\ stMem'.servers = servers /\ stMem'.sealed = stMem.sealed
  BY <1>4, <1>5, <1>7 DEF Values
<1>18. stDisk' \in Tables /\ stDisk'.servers = table
  BY <1>4, <1>7, <1>15 DEF Tables
<1>19. SavedIsRunning'
  BY <1>2, <1>4, <1>9, <1>11, <1>17, <1>18 DEF SavedIsRunning
<1>20. ForeignRemembered'
  BY <1>2, <1>6, <1>12, <1>17, <1>18 DEF ForeignRemembered
<1>21. StInv'
  BY <1>2, <1>3, <1>16, <1>17, <1>18, <1>19, <1>20, RestIsGood DEF StInv, StShape
<1>22. QED BY <1>13, <1>14, <1>18, <1>21 DEF SecretsStep

\* An import writes its rows to the table, past the lock of the controller.
LEMMA ImportRowsKeeps == ASSUME StInv, ImportRows PROVE StInv' /\ SecretsStep
<1>1. PICK form \in Forms, list \in [Addrs -> MemPasswords] :
        stDisk' = [form |-> form, servers |-> MergeImported(list, stDisk.servers)]
  BY DEF ImportRows
<1>2. /\ stHost.up /\ stMem.loaded /\ stDirty' = TRUE /\ stNamed' = Addrs /\ UNCHANGED <<stMem, stHost, stAct>>
  BY DEF ImportRows
<1>3. stDisk.servers \in [Addrs -> DiskPasswords] /\ stDisk'.servers = MergeImported(list, stDisk.servers)
  BY <1>1 DEF StInv, StShape, Tables
<1>4. ASSUME NEW a \in Addrs
      PROVE  /\ stDisk'.servers[a] \in DiskPasswords
             /\ stDisk'.servers[a] \in Keys => stDisk'.servers[a] = stDisk.servers[a]
  <2>1. \A k \in Keys : k \notin MemPasswords
    BY SettingsAssumption DEF MemPasswords
  <2>2. QED BY <1>3, <2>1 DEF MergeImported, DiskPasswords, MemPasswords
<1>5. stDisk'.servers \in [Addrs -> DiskPasswords]
  BY <1>3, <1>4 DEF MergeImported
<1>6. stDisk' \in Tables
  BY <1>1, <1>3, <1>5 DEF Tables
<1>7. StShape'
  BY <1>2, <1>6 DEF StInv, StShape
<1>8. OneInside' /\ SaveIsCurrent' /\ SavedIsRunning'
  BY <1>2 DEF StInv, OneInside, SaveIsCurrent, SavedIsRunning
<1>9. ReadIsStored'
  BY <1>2, <1>4 DEF StInv, ReadIsStored
<1>10. ForeignRemembered'
  BY <1>2, <1>4 DEF StInv, ForeignRemembered
<1>11. QED BY <1>2, <1>7, <1>8, <1>9, <1>10 DEF StInv, SecretsStep

\* A step of nothing keeps the invariant.
LEMMA StStutters == ASSUME StInv, UNCHANGED stVars PROVE StInv'
  BY DEF stVars, StInv, StShape, OneInside, ReadIsStored, SaveIsCurrent, ForeignRemembered, SavedIsRunning

\* Every step of the settings keeps their invariant, and the secrets.
LEMMA StStep == ASSUME StInv, StNext PROVE StInv' /\ SecretsStep
  BY StBootKeeps, StStopKeeps, ReloadReadKeeps, ReloadApplyKeeps, UpdateReadKeeps, UpdateWriteKeeps, UpdateFailsKeeps,
     ImportRowsKeeps DEF StNext

\* The invariant of the settings holds in every state.
LEMMA StInvHolds == StSpec => []StInv
<1>1. StInv /\ [StNext]_stVars => StInv'
  BY StStep, StStutters
<1>2. QED BY <1>1, StInvInit, PTL DEF StSpec

\* The table, the values in memory and what each caller has read keep their
\* types.
THEOREM StTypeCorrect == StSpec => []StTypeOK
<1>1. StInv => StTypeOK
  BY DEF StInv, StShape, Tables, Values, StTypeOK
<1>2. QED BY <1>1, StInvHolds, PTL

\* What runs is what a restart with the same flags would load, whatever saves,
\* loads and failures came before, but for an import not loaded yet.
THEOREM WhatRunsIsSaved == StSpec => []SavedIsRunning
<1>1. StInv => SavedIsRunning
  BY DEF StInv
<1>2. QED BY <1>1, StInvHolds, PTL

\* No step loses a password this process cannot open, nor writes one in the
\* clear under a key, save for what the operator or an import replaced.
THEOREM SecretsAreKept == StSpec => SecretsKept
<1>1. StInv /\ [StNext]_stVars => [SecretsStep]_stVars
  BY StStep
<1>2. [SecretsStep]_stVars =>
        [\A a \in Addrs :
            /\ stDisk.servers[a] \in Keys \ {stHost.key} /\ stHost.up
                  /\ stDisk'.servers[a] # stDisk.servers[a] => a \in stNamed'
            /\ stDisk'.servers[a] = "clear" /\ stDisk.servers[a] # "clear"
                  => stHost.key = NoKey \/ stDirty']_stVars
  BY DEF SecretsStep
<1>3. QED BY <1>1, <1>2, StInvHolds, PTL DEF StSpec, SecretsKept

-----------------------------------------------------------------------------
(* SignIn: the budget of failures, and what a session was given for        *)

LimitStates == [known : BOOLEAN, count : Nat, pending : Nat, age : Nat]
CheckStates == {NoCheck} \cup [kind : Kinds \cup {"mint"}, guess : 0..MaxCred, cred : Creds]
TokenStates == [cred : Creds, epoch : 0..MaxEpoch, proved : Creds]

SiShape ==
    /\ siCred \in Creds /\ siGood \in 0..MaxCred
    /\ siLimit \in LimitStates /\ siLimit.age \in 0..PruneAfter + 1
    /\ siCheck \in [Workers -> CheckStates]
    /\ siEpoch \in [mem : 0..MaxEpoch, disk : 0..MaxEpoch]
    /\ siTokens \subseteq TokenStates /\ siRevoked \subseteq siTokens
    /\ siStarted \in Nat

\* A check in flight and a failure on record each hold a place of the budget:
\* what was admitted since the last grant holds one.
PlacesHeld ==
    /\ siStarted <= siLimit.count + siLimit.pending /\ siStarted <= MaxFails
    /\ ~siLimit.known => siLimit = NoEntry

\* Only checks that run are pending.
Running == {w \in Workers : siCheck[w].kind \in Kinds}
PendingRuns == siLimit.pending <= Cardinality(Running)

\* What was proved is what the token is minted for.
MintsProved ==
    /\ \A w \in Workers : siCheck[w].kind = "mint" => siCheck[w].guess = siCheck[w].cred
    /\ \A t \in siTokens : t.proved = t.cred

\* A sign-out is behind the epoch in memory.
RevokedBehind == \A t \in siRevoked : t.epoch < siEpoch.mem

SiInv == SiShape /\ PlacesHeld /\ PendingRuns /\ MintsProved /\ RevokedBehind

\* Nobody is signed in before the first check.
LEMMA SiInvInit == ASSUME SiInit PROVE SiInv
<1> USE SignInAssumption DEF SiInit, NoEntry
<1>1. SiShape
  <2>1. siLimit \in LimitStates /\ siLimit.age \in 0..PruneAfter + 1
    BY DEF LimitStates
  <2>2. siCheck \in [Workers -> CheckStates]
    BY DEF CheckStates
  <2>3. QED BY <2>1, <2>2 DEF SiShape, Creds
<1>2. PlacesHeld /\ MintsProved /\ RevokedBehind
  BY DEF PlacesHeld, MintsProved, RevokedBehind, NoCheck
<1>3. Running = {}
  BY DEF Running, NoCheck, Kinds
<1>4. QED BY <1>1, <1>2, <1>3, FS_EmptySet DEF SiInv, PendingRuns

-----------------------------------------------------------------------------
(* Lemmas                                                                  *)

\* The entry a check is weighed by: pruned, and with its cool-down served.
LEMMA EntryWeighed ==
    ASSUME SiShape, PlacesHeld, PendingRuns
    PROVE  /\ Granted(Pruned) \in LimitStates
           /\ Granted(Pruned).age \in 0..PruneAfter + 1
           /\ Granted(Pruned).pending <= siLimit.pending
           /\ ~Granted(Pruned).known => Granted(Pruned) = NoEntry
<1>1. NoEntry \in LimitStates /\ NoEntry.age = 0 /\ NoEntry.pending = 0 /\ NoEntry.count = 0
  BY DEF NoEntry, LimitStates
<1>2. /\ Pruned \in LimitStates /\ Pruned.age \in 0..PruneAfter + 1 /\ Pruned.pending <= siLimit.pending
      /\ ~Pruned.known => Pruned = NoEntry
  <2>1. CASE Pruned = NoEntry
    BY <1>1, <2>1, SignInAssumption DEF SiShape, LimitStates
  <2>2. CASE Pruned = siLimit
    BY <2>2 DEF SiShape, LimitStates, PlacesHeld
  <2>3. QED BY <2>1, <2>2 DEF Pruned
<1>3. CASE Granted(Pruned) = Pruned
  BY <1>2, <1>3
<1>4. CASE Pruned.count >= MaxFails /\ Granted(Pruned) = [Pruned EXCEPT !.count = 0]
  <2>1. Granted(Pruned) \in LimitStates
    BY <1>2, <1>4 DEF LimitStates
  <2>2. Granted(Pruned).age = Pruned.age /\ Granted(Pruned).pending = Pruned.pending
        /\ Granted(Pruned).known = Pruned.known
    BY <1>2, <1>4 DEF LimitStates
  <2>3. Pruned.known
    BY <1>1, <1>2, <1>4, SignInAssumption
  <2>4. QED BY <1>2, <2>1, <2>2, <2>3
<1>5. QED BY <1>3, <1>4 DEF Granted

\* A check that starts is one more that runs.
LEMMA RunningMore ==
    ASSUME NEW w \in Workers, NEW c, siCheck \in [Workers -> CheckStates], siCheck[w] = NoCheck, c.kind \in Kinds,
           siCheck' = [siCheck EXCEPT ![w] = c]
    PROVE  Cardinality(Running') = Cardinality(Running) + 1 /\ Cardinality(Running) \in Nat
<1>1. Running' = Running \cup {w} /\ w \notin Running
  BY DEF Running, NoCheck, Kinds
<1>2. IsFiniteSet(Running)
  BY FS_Subset, SignInAssumption DEF Running
<1>3. QED BY <1>1, <1>2, FS_AddElement, FS_CardinalityType

\* A check that ends is one fewer.
LEMMA RunningLess ==
    ASSUME NEW w \in Workers, siCheck \in [Workers -> CheckStates], siCheck[w].kind \in Kinds,
           siCheck' = [siCheck EXCEPT ![w] = NoCheck]
    PROVE  Cardinality(Running') = Cardinality(Running) - 1 /\ Cardinality(Running) \in Nat
<1>1. Running' = Running \ {w} /\ w \in Running
  BY DEF Running, NoCheck, Kinds
<1>2. IsFiniteSet(Running)
  BY FS_Subset, SignInAssumption DEF Running
<1>3. QED BY <1>1, <1>2, FS_RemoveElement, FS_CardinalityType

\* The checks that run can be counted.
LEMMA RunningFinite == IsFiniteSet(Running') /\ Cardinality(Running') \in Nat
  BY FS_Subset, FS_CardinalityType, SignInAssumption DEF Running

\* A success, a change of the password and a restart drop the entry.
LEMMA EntryDropped ==
    ASSUME siLimit' = NoEntry, siStarted' = 0
    PROVE  PlacesHeld' /\ PendingRuns' /\ siLimit' \in LimitStates /\ siLimit'.age \in 0..PruneAfter + 1
  BY SignInAssumption, RunningFinite DEF PlacesHeld, PendingRuns, NoEntry, LimitStates

-----------------------------------------------------------------------------
(* Steps                                                                   *)

\* A check that is admitted takes a place: of the budget it was weighed by,
\* which is the one on record or, where that was dropped or granted anew, a
\* fresh one.
LEMMA SiAttemptStep ==
    ASSUME SiInv, NEW w \in Workers, NEW kind \in Kinds, NEW guess \in 0..MaxCred, Attempt(w, kind, guess)
    PROVE  SiInv'
<1> DEFINE e == Granted(Pruned)
           c == [kind |-> kind, guess |-> guess, cred |-> siCred]
<1>1. /\ siCheck[w] = NoCheck /\ e.count + e.pending < MaxFails
      /\ siLimit' = [e EXCEPT !.known = TRUE, !.pending = @ + 1, !.age = 0]
      /\ siStarted' = IF e = siLimit THEN siStarted + 1 ELSE 1
      /\ siCheck' = [siCheck EXCEPT ![w] = c]
      /\ UNCHANGED <<siCred, siGood, siEpoch, siTokens, siRevoked>>
  BY DEF Attempt, Admits
<1>2. e \in LimitStates /\ e.pending <= siLimit.pending
  BY EntryWeighed DEF SiInv
<1> HIDE DEF e
<1>3. /\ siLimit' \in LimitStates /\ siLimit'.age = 0 /\ siLimit'.known = TRUE
      /\ siLimit'.pending = e.pending + 1 /\ siLimit'.count = e.count
  <2>1. siLimit' = [known |-> TRUE, count |-> e.count, pending |-> e.pending + 1, age |-> 0]
    BY <1>1, <1>2 DEF LimitStates
  <2>2. e.pending + 1 \in Nat /\ e.count \in Nat
    BY <1>2 DEF LimitStates
  <2>3. QED BY <2>1, <2>2 DEF LimitStates
<1>4. c \in CheckStates /\ c.kind = kind
  BY DEF CheckStates, SiInv, SiShape, Kinds
<1>5. SiShape'
  <2>1. siCheck' \in [Workers -> CheckStates]
    BY <1>1, <1>4 DEF SiInv, SiShape
  <2>2. siStarted' \in Nat
    BY <1>1 DEF SiInv, SiShape
  <2>3. siLimit'.age \in 0..PruneAfter + 1
    BY <1>3, SignInAssumption
  <2>4. QED BY <1>1, <1>3, <2>1, <2>2, <2>3 DEF SiInv, SiShape
<1>6. PlacesHeld'
  <2>1. CASE e = siLimit
    BY <1>1, <1>2, <1>3, <2>1, SignInAssumption DEF SiInv, SiShape, PlacesHeld, LimitStates
  <2>2. CASE e # siLimit
    BY <1>1, <1>2, <1>3, <2>2, SignInAssumption DEF LimitStates, PlacesHeld
  <2>3. QED BY <2>1, <2>2
<1>7. PendingRuns'
  <2>1. Cardinality(Running') = Cardinality(Running) + 1 /\ Cardinality(Running) \in Nat
    BY <1>1, <1>4, RunningMore DEF SiInv, SiShape
  <2>2. QED BY <1>2, <1>3, <2>1 DEF SiInv, SiShape, PendingRuns, LimitStates
<1>8. MintsProved' /\ RevokedBehind'
  BY <1>1, <1>4 DEF SiInv, SiShape, MintsProved, RevokedBehind, Kinds
<1>9. QED BY <1>5, <1>6, <1>7, <1>8 DEF SiInv

\* A guess over the budget starts no check, and may pass only on a known password.
LEMMA SiOverBudgetStep == ASSUME SiInv, NEW guess \in Creds, OverBudget(guess) PROVE SiInv'
<1> DEFINE e == Granted(Pruned)
<1>1. /\ siLimit' = e /\ siStarted' = (IF e = siLimit THEN siStarted ELSE 0)
      /\ siTokens' = IF KnownGood(guess) THEN siTokens \cup {Token(guess, guess)} ELSE siTokens
      /\ UNCHANGED <<siCred, siCheck, siGood, siEpoch, siRevoked>>
  BY DEF OverBudget
<1>2. /\ e \in LimitStates /\ e.age \in 0..PruneAfter + 1 /\ e.pending <= siLimit.pending
      /\ ~e.known => e = NoEntry
  BY EntryWeighed DEF SiInv
<1> HIDE DEF e
<1>3. Token(guess, guess) \in TokenStates /\ Token(guess, guess).proved = Token(guess, guess).cred
  BY DEF Token, TokenStates, SiInv, SiShape
<1>4. SiShape'
  BY <1>1, <1>2, <1>3 DEF SiInv, SiShape
<1>5. PlacesHeld'
  BY <1>1, <1>2, SignInAssumption DEF SiInv, SiShape, PlacesHeld, LimitStates
<1>6. Running' = Running
  BY <1>1 DEF Running
<1>7. PendingRuns'
  BY <1>1, <1>2, <1>6, RunningFinite DEF SiInv, SiShape, PendingRuns, LimitStates
<1>8. MintsProved' /\ RevokedBehind'
  BY <1>1, <1>3 DEF SiInv, MintsProved, RevokedBehind
<1>9. QED BY <1>4, <1>5, <1>7, <1>8 DEF SiInv

\* A check that passes does so on the password it was begun with.
LEMMA SiPassStep == ASSUME SiInv, NEW w \in Workers, CheckPasses(w) PROVE SiInv'
<1> DEFINE c == IF siCheck[w].kind = "basic" THEN NoCheck ELSE [siCheck[w] EXCEPT !.kind = "mint"]
<1>1. /\ siCheck[w].kind \in {"login", "basic"} /\ siCheck[w].guess = siCheck[w].cred
      /\ siLimit' = NoEntry /\ siStarted' = 0 /\ siGood' = siCheck[w].cred
      /\ siCheck' = [siCheck EXCEPT ![w] = c]
      /\ UNCHANGED <<siCred, siEpoch, siTokens, siRevoked>>
  BY DEF CheckPasses, Passes
<1>2. siCheck[w] \in [kind : Kinds \cup {"mint"}, guess : 0..MaxCred, cred : Creds]
  BY <1>1 DEF SiInv, SiShape, CheckStates, NoCheck
<1>3. c \in CheckStates /\ (c.kind = "mint" => c.guess = c.cred)
  BY <1>1, <1>2 DEF CheckStates, NoCheck
<1> HIDE DEF c
<1>4. PlacesHeld' /\ PendingRuns' /\ siLimit' \in LimitStates /\ siLimit'.age \in 0..PruneAfter + 1
  BY <1>1, EntryDropped
<1>5. siGood' \in 0..MaxCred
  BY <1>1, <1>2, SignInAssumption DEF Creds
<1>6. SiShape'
  BY <1>1, <1>3, <1>4, <1>5 DEF SiInv, SiShape
<1>7. MintsProved' /\ RevokedBehind'
  BY <1>1, <1>3 DEF SiInv, SiShape, MintsProved, RevokedBehind
<1>8. QED BY <1>4, <1>6, <1>7 DEF SiInv

\* A token is minted for a check that passed.
LEMMA SiMintStep == ASSUME SiInv, NEW w \in Workers, Mint(w) PROVE SiInv'
<1> DEFINE t == Token(siCheck[w].cred, siCheck[w].guess)
<1>1. /\ siCheck[w].kind = "mint" /\ siTokens' = siTokens \cup {t} /\ siCheck' = [siCheck EXCEPT ![w] = NoCheck]
      /\ UNCHANGED <<siCred, siLimit, siGood, siEpoch, siRevoked, siStarted>>
  BY DEF Mint, MintedFor
<1>2. siCheck[w] \in [kind : Kinds \cup {"mint"}, guess : 0..MaxCred, cred : Creds]
      /\ siCheck[w].guess = siCheck[w].cred
  BY <1>1 DEF SiInv, SiShape, CheckStates, NoCheck, MintsProved
<1>3. t \in TokenStates /\ t.proved = t.cred
  BY <1>2 DEF Token, TokenStates, SiInv, SiShape
<1> HIDE DEF t
<1>4. SiShape'
  BY <1>1, <1>3 DEF SiInv, SiShape, CheckStates
<1>5. Running' = Running
  BY <1>1 DEF Running, NoCheck, Kinds, SiInv, SiShape
<1>6. QED
  BY <1>1, <1>3, <1>4, <1>5 DEF SiInv, SiShape, PlacesHeld, PendingRuns, MintsProved, RevokedBehind, NoCheck

\* A failure stays on record in the place its check gives up.
LEMMA SiFailStep == ASSUME SiInv, NEW w \in Workers, CheckFails(w) PROVE SiInv'
<1>1. /\ siCheck[w].kind \in Kinds /\ siCheck' = [siCheck EXCEPT ![w] = NoCheck]
      /\ UNCHANGED <<siCred, siGood, siEpoch, siTokens, siRevoked, siStarted>>
  BY DEF CheckFails
<1>2. Cardinality(Running') = Cardinality(Running) - 1 /\ Cardinality(Running) \in Nat
  BY <1>1, RunningLess DEF SiInv, SiShape
<1>3. /\ siLimit' \in LimitStates /\ siLimit'.age \in 0..PruneAfter + 1
      /\ siLimit'.count + siLimit'.pending >= siLimit.count + siLimit.pending
      /\ siLimit'.pending <= (IF siLimit.pending > 0 THEN siLimit.pending - 1 ELSE 0)
      /\ ~siLimit'.known => siLimit' = NoEntry
  <2>1. CASE siLimit.known
    <3>1. siLimit' = [siLimit EXCEPT !.count = siLimit.count + 1, !.age = 0,
                                     !.pending = IF siLimit.pending > 0 THEN siLimit.pending - 1 ELSE 0]
      BY <2>1 DEF CheckFails, ReleaseFail
    <3> DEFINE p == IF siLimit.pending > 0 THEN siLimit.pending - 1 ELSE 0
    <3>2. siLimit' = [known |-> TRUE, count |-> siLimit.count + 1, pending |-> p, age |-> 0]
      BY <2>1, <3>1 DEF SiInv, SiShape, LimitStates
    <3>3. p \in Nat /\ siLimit.count + 1 \in Nat /\ p + 1 >= siLimit.pending /\ siLimit.count \in Nat /\ siLimit.pending \in Nat
      BY DEF SiInv, SiShape, LimitStates
    <3> HIDE DEF p
    <3>4. /\ siLimit'.known = TRUE /\ siLimit'.count = siLimit.count + 1 /\ siLimit'.age = 0
          /\ siLimit'.pending = p /\ siLimit' \in LimitStates
      BY <3>2, <3>3 DEF LimitStates
    <3>5. QED BY <3>3, <3>4, SignInAssumption DEF p
  <2>2. CASE ~siLimit.known
    <3>1. siLimit' = siLimit /\ siLimit = NoEntry
      BY <2>2 DEF CheckFails, ReleaseFail, SiInv, PlacesHeld
    <3>2. QED BY <3>1 DEF SiInv, SiShape, LimitStates, NoEntry
  <2>3. QED BY <2>1, <2>2
<1>4. SiShape'
  BY <1>1, <1>3 DEF SiInv, SiShape, CheckStates
<1>5. PlacesHeld'
  BY <1>1, <1>3, <1>4 DEF SiInv, SiShape, PlacesHeld, LimitStates
<1>6. PendingRuns'
  BY <1>2, <1>3, <1>4, RunningFinite DEF SiInv, SiShape, PendingRuns, LimitStates
<1>7. MintsProved' /\ RevokedBehind'
  BY <1>1 DEF SiInv, SiShape, MintsProved, RevokedBehind, NoCheck
<1>8. QED BY <1>4, <1>5, <1>6, <1>7 DEF SiInv

\* A new password revokes the sessions of the old.
LEMMA SiChangeStep == ASSUME SiInv, NEW w \in Workers, ChangePassword(w) PROVE SiInv'
<1> DEFINE t == Token(siCred + 1, siCred + 1)
<1>1. /\ siCred < MaxCred /\ siCred' = siCred + 1 /\ siLimit' = NoEntry /\ siStarted' = 0
      /\ siGood' = siCred + 1 /\ siTokens' = siTokens \cup {t} /\ siCheck' = [siCheck EXCEPT ![w] = NoCheck]
      /\ UNCHANGED <<siEpoch, siRevoked>>
  BY DEF ChangePassword
<1>2. siCred + 1 \in Creds /\ siCred + 1 \in 0..MaxCred
  BY <1>1, SignInAssumption DEF SiInv, SiShape, Creds
<1>3. t \in TokenStates /\ t.proved = t.cred
  BY <1>2 DEF Token, TokenStates, SiInv, SiShape
<1> HIDE DEF t
<1>4. PlacesHeld' /\ PendingRuns' /\ siLimit' \in LimitStates /\ siLimit'.age \in 0..PruneAfter + 1
  BY <1>1, EntryDropped
<1>5. SiShape'
  BY <1>1, <1>2, <1>3, <1>4 DEF SiInv, SiShape, CheckStates
<1>6. MintsProved' /\ RevokedBehind'
  BY <1>1, <1>3 DEF SiInv, SiShape, MintsProved, RevokedBehind, NoCheck
<1>7. QED BY <1>4, <1>5, <1>6 DEF SiInv

\* The epoch only moves back over sign-outs that were not written, which the
\* restart forgets.
LEMMA SiSessionStep == ASSUME SiInv, Logout \/ SettingsReload \/ WebRestart PROVE SiInv'
<1>1. CASE Logout
  <2>1. /\ siEpoch.mem < MaxEpoch
        /\ \E ok \in BOOLEAN : siEpoch' = [mem |-> siEpoch.mem + 1,
                                           disk |-> IF ok THEN siEpoch.mem + 1 ELSE siEpoch.disk]
        /\ siRevoked' = siRevoked \cup {t \in siTokens : t.epoch <= siEpoch.mem}
        /\ UNCHANGED <<siCred, siLimit, siCheck, siGood, siTokens, siStarted>>
    BY <1>1 DEF Logout
  <2>2. siEpoch' \in [mem : 0..MaxEpoch, disk : 0..MaxEpoch] /\ siEpoch'.mem = siEpoch.mem + 1
    BY <2>1, SignInAssumption DEF SiInv, SiShape
  <2>3. SiShape' /\ Running' = Running
    BY <2>1, <2>2 DEF SiInv, SiShape, Running
  <2>4. RevokedBehind'
    BY <2>1, <2>2, SignInAssumption DEF SiInv, SiShape, RevokedBehind, TokenStates
  <2>5. QED BY <2>1, <2>3, <2>4 DEF SiInv, PlacesHeld, PendingRuns, MintsProved
<1>2. CASE SettingsReload
  <2>1. /\ siEpoch' = [siEpoch EXCEPT !.mem = SeedSessionEpoch(siEpoch.mem, siEpoch.disk)]
        /\ UNCHANGED <<siCred, siLimit, siCheck, siGood, siTokens, siRevoked, siStarted>>
    BY <1>2 DEF SettingsReload
  <2>2. siEpoch' \in [mem : 0..MaxEpoch, disk : 0..MaxEpoch] /\ siEpoch'.mem >= siEpoch.mem
    BY <2>1, SignInAssumption DEF SiInv, SiShape, SeedSessionEpoch
  <2>3. SiShape' /\ Running' = Running
    BY <2>1, <2>2 DEF SiInv, SiShape, Running
  <2>4. RevokedBehind'
    BY <2>1, <2>2, SignInAssumption DEF SiInv, SiShape, RevokedBehind, TokenStates
  <2>5. QED BY <2>1, <2>3, <2>4 DEF SiInv, PlacesHeld, PendingRuns, MintsProved
<1>3. CASE WebRestart
  <2>1. /\ siEpoch' = [siEpoch EXCEPT !.mem = SeedSessionEpoch(0, siEpoch.disk)]
        /\ siRevoked' = {t \in siRevoked : t.epoch < siEpoch.disk}
        /\ siLimit' = NoEntry /\ siStarted' = 0 /\ siGood' = 0
        /\ siCheck' = [w \in Workers |-> NoCheck] /\ UNCHANGED <<siCred, siTokens>>
    BY <1>3 DEF WebRestart
  <2>2. siEpoch' \in [mem : 0..MaxEpoch, disk : 0..MaxEpoch] /\ siEpoch'.mem = siEpoch.disk
    BY <2>1, SignInAssumption DEF SiInv, SiShape, SeedSessionEpoch
  <2>3. PlacesHeld' /\ PendingRuns' /\ siLimit' \in LimitStates /\ siLimit'.age \in 0..PruneAfter + 1
    BY <2>1, EntryDropped
  <2>4. SiShape'
    BY <2>1, <2>2, <2>3, SignInAssumption DEF SiInv, SiShape, CheckStates
  <2>5. MintsProved' /\ RevokedBehind'
    BY <2>1, <2>2 DEF SiInv, MintsProved, RevokedBehind, NoCheck
  <2>6. QED BY <2>3, <2>4, <2>5 DEF SiInv
<1>4. QED BY <1>1, <1>2, <1>3

\* Time on the limiter lets nothing in by itself.
LEMMA SiAgeStep == ASSUME SiInv, LimitAges \/ UNCHANGED siVars PROVE SiInv'
<1>1. CASE LimitAges
  <2>1. /\ siLimit.known /\ siLimit.age <= PruneAfter /\ siLimit' = [siLimit EXCEPT !.age = siLimit.age + 1]
        /\ UNCHANGED <<siCred, siCheck, siGood, siEpoch, siTokens, siRevoked, siStarted>>
    BY <1>1 DEF LimitAges
  <2>2. /\ siLimit' \in LimitStates /\ siLimit'.age \in 0..PruneAfter + 1
        /\ siLimit'.known = siLimit.known /\ siLimit'.count = siLimit.count /\ siLimit'.pending = siLimit.pending
    <3>1. siLimit' = [known |-> siLimit.known, count |-> siLimit.count, pending |-> siLimit.pending,
                      age |-> siLimit.age + 1]
      BY <2>1 DEF SiInv, SiShape, LimitStates
    <3>2. siLimit.age + 1 \in 0..PruneAfter + 1 /\ siLimit.age + 1 \in Nat
      BY <2>1, SignInAssumption DEF SiInv, SiShape
    <3>3. QED BY <3>1, <3>2 DEF SiInv, SiShape, LimitStates
  <2>3. SiShape' /\ Running' = Running
    BY <2>1, <2>2 DEF SiInv, SiShape, Running
  <2>4. QED BY <2>1, <2>2, <2>3 DEF SiInv, PlacesHeld, PendingRuns, MintsProved, RevokedBehind
<1>2. CASE UNCHANGED siVars
  BY <1>2 DEF siVars, SiInv, SiShape, PlacesHeld, PendingRuns, Running, MintsProved, RevokedBehind
<1>3. QED BY <1>1, <1>2

\* Every step of the sign-in keeps its invariant.
LEMMA SiInvStep == ASSUME SiInv, [SiNext]_siVars PROVE SiInv'
  BY SiAttemptStep, SiOverBudgetStep, SiPassStep, SiMintStep, SiFailStep, SiChangeStep, SiSessionStep, SiAgeStep
     DEF SiNext

\* The invariant of the sign-in holds in every state.
LEMMA SiInvHolds == SiSpec => []SiInv
  BY SiInvInit, SiInvStep, PTL DEF SiSpec

-----------------------------------------------------------------------------
(* Theorems                                                                *)

\* The variables keep their types, and no more checks are pending than run.
THEOREM SiTypeCorrect == SiSpec => []SiTypeOK
<1>1. ASSUME SiInv PROVE SiTypeOK
  <2>1. Running \subseteq Workers /\ IsFiniteSet(Workers)
    BY SignInAssumption DEF Running
  <2>2. Cardinality(Running) <= Cardinality(Workers) /\ Cardinality(Workers) \in Nat /\ Cardinality(Running) \in Nat
    BY <2>1, FS_Subset, FS_CardinalityType
  <2>3. QED BY <1>1, <2>2 DEF SiInv, SiShape, PendingRuns, LimitStates, SiTypeOK
<1>2. QED BY <1>1, SiInvHolds, PTL

\* A client has at most its budget of checks between two grants, however many
\* requests it has on the way and however they overlap.
THEOREM BudgetIsHeld == SiSpec => []BudgetHeld
<1>1. SiInv => BudgetHeld
  BY DEF SiInv, PlacesHeld, BudgetHeld
<1>2. QED BY <1>1, SiInvHolds, PTL

\* A session that verifies was earned with the live password and not revoked.
THEOREM SessionsAreEarned == SiSpec => []SessionsEarned
<1>1. ASSUME SiInv PROVE SessionsEarned
  <2> SUFFICES ASSUME NEW t \in siTokens, Verifies(t) PROVE t.proved = siCred /\ t \notin siRevoked
    BY DEF SessionsEarned
  <2>1. t.proved = siCred
    BY <1>1 DEF SiInv, MintsProved, Verifies
  <2>2. ~(t.epoch < siEpoch.mem)
    BY <1>1 DEF SiInv, SiShape, Verifies
  <2>3. QED BY <1>1, <2>1, <2>2 DEF SiInv, RevokedBehind
<1>2. QED BY <1>1, SiInvHolds, PTL

-----------------------------------------------------------------------------
(* AccessScope: who may reach the dashboard is the operator's choice       *)

Names == {"", "mine", "theirs"}
AcDisks == [user : Names, enabled : BOOLEAN, pass : BOOLEAN, local : {"unset", "yes", "no"}, hold : BOOLEAN]
AcMems == [up : BOOLEAN, loaded : BOOLEAN, user : Names, enabled : BOOLEAN, pass : BOOLEAN,
           local : BOOLEAN, seeded : BOOLEAN, hold : {"none", "rebuilt", "unread"}, released : BOOLEAN]
AcSteps == [signal : {"idle", "hook"},
            import : {"idle", "rows", "load", "hook", "again", "last", "user", "login", "disable", "scope"}]
AcPres == [user : Names, enabled : BOOLEAN, pass : BOOLEAN, local : BOOLEAN]
AcChoices == [login : BOOLEAN, network : BOOLEAN, failed : BOOLEAN]

AcShape ==
    /\ acDisk \in AcDisks /\ acMem \in AcMems /\ acFlag \in Flags
    /\ acStep \in AcSteps /\ acPre \in AcPres /\ acChosen \in AcChoices

\* A record of the right shape with these fields; a name is no matter.
DiskIs(disk, enabled, pass, local, hold) ==
    disk \in AcDisks /\ disk.enabled = enabled /\ disk.pass = pass /\ disk.local = local /\ disk.hold = hold
MemIs(mem, up, loaded, enabled, pass, local, seeded, hold, released) ==
    /\ mem \in AcMems /\ mem.up = up /\ mem.loaded = loaded /\ mem.enabled = enabled /\ mem.pass = pass
    /\ mem.local = local /\ mem.seeded = seeded /\ mem.hold = hold /\ mem.released = released
ChosenIs(chosen, login, network, failed) ==
    chosen \in AcChoices /\ chosen.login = login /\ chosen.network = network /\ chosen.failed = failed
StepIs(step, signal, import) == step \in AcSteps /\ step.signal = signal /\ step.import = import

\* Between the backup's rows and the repairs: the login on disk may be the backup's.
Landed == {"load", "hook", "user", "login"}

LocalFrom(disk, mem) == IF disk.local = "unset" THEN mem.seeded ELSE disk.local = "yes"

\* What the process and the table agree on, whatever has failed.
Agreed ==
    /\ ~acMem.up => ~acMem.loaded /\ acStep = Resting
    /\ acMem.loaded =>
          /\ acMem.up /\ acMem.pass = acDisk.pass /\ acMem.local = LocalFrom(acDisk, acMem)
          /\ (acStep.import # "load" /\ ~acChosen.failed => acMem.enabled = acDisk.enabled)
    /\ acStep # Resting => acMem.loaded
    /\ ~acMem.seeded => acFlag = "network"
    /\ acMem.released => ~acDisk.hold /\ acMem.loaded
    /\ acStep.import # "idle" => acPre.pass = acDisk.pass

\* The login an operator relies on is on disk, or remembered by the import that lost it.
LoginRemembered ==
    acChosen.login =>
        /\ acDisk.pass
        /\ acStep.import \notin Landed => acDisk.enabled
        /\ acStep.import # "idle" => acPre.enabled /\ acPre.pass

\* A login asks whoever comes, or will once the import has put it back.
Guarded ==
    /\ acDisk.pass
    /\ acDisk.enabled \/ (acStep.import \in Landed /\ acPre.enabled /\ acPre.pass)

\* A network scope, on disk or in force, is chosen, held, or behind a login.
ScopeAccounted ==
    /\ acDisk.local = "no" => acChosen.network \/ acDisk.hold \/ Guarded
    /\ acMem.loaded /\ ~acMem.local => acChosen.network \/ Held \/ Guarded
    /\ acMem.up /\ ~acMem.loaded /\ acMem.hold = "none" =>
          ~acDisk.hold /\ (acMem.seeded \/ acChosen.network)

\* Where an import has changed nothing yet, or put everything back.
PutBackWhole ==
    /\ acStep.import \in {"rows", "again", "last"} => acDisk.enabled = acPre.enabled
    /\ acStep.import \in {"again", "last"} /\ ~acMem.local => acChosen.network

AcSafe == LoginRemembered /\ ScopeAccounted /\ PutBackWhole
AcInv == AcShape /\ Agreed /\ (acChosen.failed \/ AcSafe)

\* What a load makes of a controller.
LEMMA LoadedIs ==
    ASSUME NEW disk \in AcDisks, NEW mem \in AcMems
    PROVE  MemIs(LoadedFrom(disk, mem), mem.up, TRUE, disk.enabled, disk.pass, LocalFrom(disk, mem),
                 mem.seeded, mem.hold, mem.released)
BY DEF MemIs, AcDisks, AcMems, Names, LoadedFrom, LocalFrom

\* The hook of a load moves the scope when the flag says otherwise ...
Moves(disk, mem, flag, read) == FlagInForce(disk, flag, read) /\ mem.local # (flag = "local")
HoldSeen(disk, mem, flag, read) ==
    IF read = "fails" THEN "unread"
    ELSE IF HoldStands(disk) /\ (flag = "network" \/ ~mem.local) THEN "rebuilt" ELSE "none"

\* ... and records the hold it has read.
LEMMA JudgedIs ==
    ASSUME NEW mem \in AcMems, NEW disk \in AcDisks, NEW flag \in Flags, NEW read \in {"ok", "fails"}
    PROVE  MemIs(Judged(mem, disk, flag, read), mem.up, mem.loaded, mem.enabled, mem.pass, mem.local,
                 mem.seeded, HoldSeen(disk, mem, flag, read), mem.released)
<1>1. Judged(mem, disk, flag, read) = [mem EXCEPT !.hold = HoldSeen(disk, mem, flag, read)]
  BY DEF Judged, HoldSeen, Withheld
<1>2. HoldSeen(disk, mem, flag, read) \in {"none", "rebuilt", "unread"}
  BY DEF HoldSeen
<1>3. QED BY <1>1, <1>2 DEF MemIs, AcMems

\* Reading the hold releases it where a login stands.
LEMMA HoldReadIs ==
    ASSUME NEW disk \in AcDisks
    PROVE  DiskIs(HoldRead(disk), disk.enabled, disk.pass, disk.local, HoldStands(disk))
BY DEF DiskIs, AcDisks, HoldRead, HoldStands

\* A scope is stored on disk and in the process alike.
LEMMA SetLocalIs ==
    ASSUME NEW disk \in AcDisks, NEW mem \in AcMems, NEW local \in BOOLEAN
    PROVE  /\ DiskIs(SetLocal(<<disk, mem>>, local)[1], disk.enabled, disk.pass,
                     IF local THEN "yes" ELSE "no", disk.hold)
           /\ MemIs(SetLocal(<<disk, mem>>, local)[2], mem.up, mem.loaded, mem.enabled, mem.pass, local,
                    mem.seeded, mem.hold, mem.released)
<1>1. DiskIs([disk EXCEPT !.local = IF local THEN "yes" ELSE "no"], disk.enabled, disk.pass,
                     IF local THEN "yes" ELSE "no", disk.hold)
  BY DEF DiskIs, AcDisks
<1>2. MemIs([mem EXCEPT !.local = local], mem.up, mem.loaded, mem.enabled, mem.pass, local,
                    mem.seeded, mem.hold, mem.released)
  BY DEF MemIs, AcMems
<1>3. QED BY <1>1, <1>2 DEF SetLocal

\* What the hook leaves: the scope the flag asks for, unless the hold stands or the save fails.
LEMMA HookIs ==
    ASSUME NEW disk \in AcDisks, NEW mem \in AcMems, NEW flag \in Flags, NEW read \in {"ok", "fails"},
           NEW ok \in BOOLEAN
    PROVE  LET after == ApplyExplicitAccess(disk, mem, flag, read, ok)
               moved == Moves(disk, mem, flag, read) /\ ok
           IN  /\ DiskIs(after[1], disk.enabled, disk.pass,
                         IF moved THEN IF flag = "local" THEN "yes" ELSE "no" ELSE disk.local,
                         IF read = "ok" THEN HoldStands(disk) ELSE disk.hold)
               /\ MemIs(after[2], mem.up, mem.loaded, mem.enabled, mem.pass,
                        IF moved THEN flag = "local" ELSE mem.local, mem.seeded,
                        HoldSeen(disk, mem, flag, read), mem.released)
<1> DEFINE judged == Judged(mem, disk, flag, read)
           known == IF read = "ok" THEN HoldRead(disk) ELSE disk
           moved == Moves(disk, mem, flag, read) /\ ok
           after == ApplyExplicitAccess(disk, mem, flag, read, ok)
           wants == flag = "local"
<1>1. MemIs(judged, mem.up, mem.loaded, mem.enabled, mem.pass, mem.local,
                 mem.seeded, HoldSeen(disk, mem, flag, read), mem.released)
  BY JudgedIs
<1>2. DiskIs(known, disk.enabled, disk.pass, disk.local, IF read = "ok" THEN HoldStands(disk) ELSE disk.hold)
  BY HoldReadIs DEF DiskIs
<1>3. after = IF moved THEN SetLocal(<<known, judged>>, wants) ELSE <<known, judged>>
  BY <1>1 DEF ApplyExplicitAccess, Moves, MemIs
<1>4. wants \in BOOLEAN
  OBVIOUS
<1> HIDE DEF judged, known, wants
<1>5. CASE ~moved
  BY <1>1, <1>2, <1>3, <1>5
<1>6. CASE moved
  <2>1. judged \in AcMems /\ known \in AcDisks
    BY <1>1, <1>2 DEF MemIs, DiskIs
  <2>2. /\ DiskIs(after[1], known.enabled, known.pass, IF wants THEN "yes" ELSE "no", known.hold)
        /\ MemIs(after[2], judged.up, judged.loaded, judged.enabled, judged.pass, wants,
                    judged.seeded, judged.hold, judged.released)
    BY <1>3, <1>4, <1>6, <2>1, SetLocalIs
  <2>3. QED BY <1>1, <1>2, <1>6, <2>2 DEF MemIs, DiskIs, wants
<1>7. QED BY <1>5, <1>6

\* A flag in force is a choice; one that could not be stored is a failure.
LEMMA FlagChoiceIs ==
    ASSUME acChosen \in AcChoices, NEW disk \in AcDisks, NEW mem \in AcMems, NEW flag \in Flags,
           NEW read \in {"ok", "fails"}, NEW ok \in BOOLEAN
    PROVE  ChosenIs(ChosenByFlag(disk, mem, flag, read, ok), acChosen.login,
                    IF FlagInForce(disk, flag, read) THEN flag = "network" ELSE acChosen.network,
                    acChosen.failed \/ (Moves(disk, mem, flag, read) /\ ~ok))
<1>1. CASE FlagInForce(disk, flag, read)
  <2> DEFINE failed == acChosen.failed \/ (~ok /\ mem.local # (flag = "local"))
             network == flag = "network"
  <2>1. ChosenByFlag(disk, mem, flag, read, ok) = [acChosen EXCEPT !.network = network, !.failed = failed]
    BY <1>1 DEF ChosenByFlag
  <2>2. failed \in BOOLEAN /\ network \in BOOLEAN /\ (failed <=> acChosen.failed \/ (Moves(disk, mem, flag, read) /\ ~ok))
    BY <1>1 DEF Moves
  <2> HIDE DEF failed
  <2>3. ChosenIs([acChosen EXCEPT !.network = network, !.failed = failed], acChosen.login, network, failed)
    BY <2>2 DEF ChosenIs, AcChoices
  <2>4. failed = (acChosen.failed \/ (Moves(disk, mem, flag, read) /\ ~ok))
    BY <2>2
  <2>5. QED BY <1>1, <2>1, <2>3, <2>4
<1>2. CASE ~FlagInForce(disk, flag, read)
  BY <1>2 DEF ChosenByFlag, ChosenIs, AcChoices, Moves
<1>3. QED BY <1>1, <1>2

\* A boot loads what the last process left.
LEMMA AccessBootKeeps == ASSUME AcInv, AcBoot PROVE AcInv'
<1>1. PICK flag \in Flags, seed, load, read \in {"ok", "fails"}, ok \in BOOLEAN :
          LET mem   == Seeded(flag, seed)
              disk  == IF seed = "ok" THEN HoldRead(acDisk) ELSE acDisk
              full  == LoadedFrom(disk, mem)
              after == ApplyExplicitAccess(disk, full, flag, read, ok)
              open  == [acChosen EXCEPT !.network = @ \/ (flag = "network" /\ mem.hold = "none")]
          IN  /\ acFlag' = flag
              /\ acDisk' = IF load = "ok" THEN after[1] ELSE disk
              /\ acMem'  = IF load = "ok" THEN after[2] ELSE [mem EXCEPT !.local = mem.seeded]
              /\ acChosen' = IF load = "ok" THEN ChosenByFlag(disk, full, flag, read, ok) ELSE open
  BY DEF AcBoot
<1> DEFINE mem   == Seeded(flag, seed)
           disk  == IF seed = "ok" THEN HoldRead(acDisk) ELSE acDisk
           full  == LoadedFrom(disk, mem)
           after == ApplyExplicitAccess(disk, full, flag, read, ok)
           hold == IF seed = "fails" THEN "unread" ELSE IF HoldStands(acDisk) THEN "rebuilt" ELSE "none"
           seeded == ~(flag = "network" /\ (seed = "fails" \/ ~HoldStands(acDisk)))
           network == acChosen.network \/ (flag = "network" /\ hold = "none")
<1>2. /\ acStep' = Resting /\ acPre' = NoPre /\ acFlag' = flag
      /\ AcShape /\ Agreed /\ (acChosen.failed \/ AcSafe) /\ ~acMem.up
  BY <1>1 DEF AcBoot, AcInv
<1>3. MemIs(mem, TRUE, FALSE, FALSE, FALSE, TRUE, seeded, hold, FALSE)
  BY DEF MemIs, Seeded, Stopped, AcMems, Names
<1>4. DiskIs(disk, acDisk.enabled, acDisk.pass, acDisk.local, IF seed = "ok" THEN HoldStands(acDisk) ELSE acDisk.hold)
  BY <1>2, HoldReadIs DEF AcShape, DiskIs
<1>5. MemIs(full, TRUE, TRUE, disk.enabled, disk.pass, LocalFrom(disk, mem), seeded, hold, FALSE)
  BY <1>3, <1>4, LoadedIs DEF MemIs, DiskIs
<1>6. StepIs(acStep', "idle", "idle") /\ acPre' \in AcPres
  BY <1>2 DEF StepIs, AcSteps, Resting, NoPre, AcPres, Names
<1>7. CASE load = "ok"
  <2>1. /\ DiskIs(acDisk', disk.enabled, disk.pass,
                         IF Moves(disk, full, flag, read) /\ ok THEN IF flag = "local" THEN "yes" ELSE "no" ELSE disk.local,
                         IF read = "ok" THEN HoldStands(disk) ELSE disk.hold)
        /\ MemIs(acMem', full.up, full.loaded, full.enabled, full.pass,
                        IF Moves(disk, full, flag, read) /\ ok THEN flag = "local" ELSE full.local, full.seeded,
                        HoldSeen(disk, full, flag, read), full.released)
    BY <1>1, <1>4, <1>5, <1>7, HookIs DEF MemIs, DiskIs
  <2>2. ChosenIs(acChosen', acChosen.login,
                    IF FlagInForce(disk, flag, read) THEN flag = "network" ELSE acChosen.network,
                    acChosen.failed \/ (Moves(disk, full, flag, read) /\ ~ok))
    BY <1>1, <1>2, <1>4, <1>5, <1>7, FlagChoiceIs DEF MemIs, DiskIs, AcShape
  <2> HIDE DEF mem, disk, full, after
  <2>3. AcShape'
    BY <1>2, <1>6, <2>1, <2>2 DEF AcShape, DiskIs, MemIs, ChosenIs, StepIs
  <2>4. Agreed'
    BY <1>2, <1>3, <1>4, <1>5, <1>6, <2>1, <2>2 DEF DiskIs, MemIs, ChosenIs, StepIs, Agreed, Moves, FlagInForce, LocalFrom
  <2>5. ASSUME ~acChosen'.failed PROVE LoginRemembered'
    BY <1>2, <1>4, <1>6, <2>1, <2>2, <2>5 DEF DiskIs, MemIs, ChosenIs, StepIs, AcSafe, LoginRemembered, Agreed, Resting
  <2>6. ASSUME ~acChosen'.failed PROVE ScopeAccounted'
    <3>1. acStep.import = "idle" /\ acStep'.import = "idle"
      BY <1>2, <1>6 DEF Agreed, Resting, StepIs
    <3>2. /\ acDisk'.enabled = acDisk.enabled /\ acDisk'.pass = acDisk.pass
          /\ disk.enabled = acDisk.enabled /\ disk.pass = acDisk.pass
          /\ disk.local = acDisk.local /\ ~acChosen.failed /\ AcSafe
          /\ ~Moves(disk, full, flag, read) \/ ok
      BY <1>2, <1>4, <2>1, <2>2, <2>6 DEF DiskIs, ChosenIs
    <3>3. acDisk.hold => acDisk'.hold \/ (acDisk.pass /\ acDisk.enabled)
      BY <1>4, <2>1 DEF DiskIs, HoldStands
    <3>4. CASE FlagInForce(disk, flag, read)
      <4>1. CASE flag = "network"
        BY <1>5, <2>1, <2>2, <3>4, <4>1 DEF MemIs, ChosenIs, ScopeAccounted
      <4>2. CASE flag = "local"
        <5>1. acMem'.local /\ (disk.local = "no" => acDisk'.local = "yes")
          BY <1>5, <2>1, <3>2, <3>4, <4>2 DEF DiskIs, MemIs, Moves, LocalFrom
        <5>2. acDisk'.local # "no"
          BY <2>1, <4>2, <5>1 DEF DiskIs
        <5>3. QED BY <1>5, <2>1, <5>1, <5>2 DEF ScopeAccounted, MemIs
      <4>3. QED BY <3>4, <4>1, <4>2 DEF FlagInForce, Flags
    <3>5. CASE ~FlagInForce(disk, flag, read)
      <4>1. /\ acDisk'.local = acDisk.local /\ acMem'.local = LocalFrom(disk, mem)
            /\ acMem'.hold = HoldSeen(disk, full, flag, read) /\ acMem'.loaded /\ ~acMem'.released
            /\ acMem'.up /\ acChosen'.network = acChosen.network
        BY <1>4, <1>5, <2>1, <2>2, <3>2, <3>5 DEF DiskIs, MemIs, ChosenIs, Moves
      <4>2. acDisk'.local = "no" => acChosen'.network \/ acDisk'.hold \/ Guarded'
        BY <3>1, <3>2, <3>3, <4>1 DEF AcSafe, ScopeAccounted, Guarded, Landed
      <4>3. ASSUME ~acMem'.local, acMem'.hold = "none" PROVE acDisk.local = "no" /\ ~HoldStands(disk)
        BY <1>3, <1>4, <1>5, <3>2, <3>5, <4>1, <4>3
           DEF HoldSeen, FlagInForce, LocalFrom, MemIs, DiskIs, AcDisks, Flags
      <4>4. ~acMem'.local => acChosen'.network \/ Held' \/ Guarded'
        BY <2>1, <3>1, <3>2, <3>3, <4>1, <4>2, <4>3 DEF Held, HoldStands, Guarded, DiskIs, MemIs, AcMems
      <4>5. QED BY <4>1, <4>2, <4>4 DEF ScopeAccounted
    <3>6. QED BY <3>4, <3>5
  <2>7. PutBackWhole'
    BY <1>6 DEF PutBackWhole, StepIs
  <2>8. QED BY <2>3, <2>4, <2>5, <2>6, <2>7 DEF AcInv, AcSafe
<1>8. CASE load = "fails"
  <2>1. DiskIs(acDisk', disk.enabled, disk.pass, disk.local, disk.hold)
    BY <1>1, <1>4, <1>8 DEF DiskIs
  <2>2. MemIs(acMem', TRUE, FALSE, FALSE, FALSE, seeded, seeded, hold, FALSE)
    BY <1>1, <1>3, <1>8 DEF MemIs, AcMems
  <2>3. ChosenIs(acChosen', acChosen.login, network, acChosen.failed)
    BY <1>1, <1>2, <1>3, <1>8 DEF MemIs, ChosenIs, AcChoices, AcShape
  <2> HIDE DEF mem, disk, full, after
  <2>4. AcShape'
    BY <1>2, <1>6, <2>1, <2>2, <2>3 DEF AcShape, DiskIs, MemIs, ChosenIs, StepIs
  <2>5. Agreed'
    BY <1>2, <1>6, <2>1, <2>2 DEF DiskIs, MemIs, StepIs, Agreed, Resting
  <2>6. ASSUME ~acChosen'.failed PROVE AcSafe'
    <3>1. acStep.import = "idle" /\ acStep'.import = "idle"
      BY <1>2, <1>6 DEF Agreed, Resting, StepIs
    <3>2. /\ acDisk'.enabled = acDisk.enabled /\ acDisk'.pass = acDisk.pass /\ acDisk'.local = acDisk.local
          /\ acDisk'.hold => acDisk.hold
          /\ acChosen'.login = acChosen.login /\ ~acChosen.failed /\ AcSafe
          /\ acChosen.network => acChosen'.network
      BY <1>2, <1>4, <2>1, <2>3, <2>6 DEF DiskIs, ChosenIs, HoldStands
    <3>3. acDisk.hold => acDisk'.hold \/ (acDisk.pass /\ acDisk.enabled)
      BY <1>4, <2>1 DEF DiskIs, HoldStands
    <3>4. LoginRemembered' /\ PutBackWhole'
      BY <3>1, <3>2 DEF AcSafe, LoginRemembered, PutBackWhole, Landed
    <3>5. acDisk'.local = "no" => acChosen'.network \/ acDisk'.hold \/ Guarded'
      BY <3>1, <3>2, <3>3 DEF AcSafe, ScopeAccounted, Guarded, Landed
    <3>6. acMem'.hold = "none" => ~acDisk'.hold /\ (acMem'.seeded \/ acChosen'.network)
      BY <1>4, <2>1, <2>2, <2>3 DEF DiskIs, MemIs, ChosenIs
    <3>7. QED BY <2>2, <3>4, <3>5, <3>6 DEF AcSafe, ScopeAccounted, MemIs
  <2>7. QED BY <2>4, <2>5, <2>6 DEF AcInv
<1>9. QED BY <1>7, <1>8

\* An import that goes from step to step, or stays where it is.
Further(import) ==
    /\ import # "idle" => acStep.import # "idle"
    /\ import \in Landed <=> acStep.import \in Landed
    /\ import \in {"again", "last"} => acStep.import \in {"again", "last"}
    /\ import = "rows" => acStep.import = "rows"

\* The fields every step starts from.
LEMMA AcTyped ==
    ASSUME AcInv
    PROVE  /\ DiskIs(acDisk, acDisk.enabled, acDisk.pass, acDisk.local, acDisk.hold)
           /\ acDisk.local \in {"unset", "yes", "no"}
           /\ MemIs(acMem, acMem.up, acMem.loaded, acMem.enabled, acMem.pass, acMem.local, acMem.seeded,
                    acMem.hold, acMem.released)
           /\ ChosenIs(acChosen, acChosen.login, acChosen.network, acChosen.failed)
           /\ StepIs(acStep, acStep.signal, acStep.import)
           /\ acPre \in AcPres /\ acFlag \in Flags
BY DEF AcInv, AcShape, DiskIs, MemIs, ChosenIs, StepIs, AcDisks

\* A load publishes what is on disk.
LEMMA AccessLoadKeeps ==
    ASSUME AcInv, NEW c \in {"signal", "import"}, NEW next, LoadAs(c, next), acMem.up,
           StepIs(acStep', acStep'.signal, acStep'.import), Further(acStep'.import)
    PROVE  AcInv'
<1>1. AcShape /\ Agreed /\ (acChosen.failed \/ AcSafe)
  BY DEF AcInv
<1>2. UNCHANGED <<acDisk, acFlag, acPre, acChosen>>
  BY DEF LoadAs
<1>3. MemIs(acMem', acMem.up, TRUE, acDisk.enabled, acDisk.pass, LocalFrom(acDisk, acMem),
                 acMem.seeded, acMem.hold, acMem.released)
  BY <1>1, LoadedIs DEF LoadAs, AcShape
<1>4. AcShape'
  BY <1>1, <1>2, <1>3 DEF AcShape, MemIs, StepIs
<1>5. Agreed'
  BY <1>1, <1>2, <1>3 DEF Agreed, MemIs, LocalFrom, Further
<1>6. ASSUME ~acChosen.failed PROVE AcSafe'
  <2>1. AcSafe
    BY <1>1, <1>6
  <2>2. LoginRemembered'
    BY <1>2, <2>1 DEF AcSafe, LoginRemembered, Further
  <2>3. Guarded => Guarded'
    BY <1>2, <2>1 DEF Guarded, Further
  <2>4. acDisk'.local = "no" => acChosen'.network \/ acDisk'.hold \/ Guarded'
    BY <1>2, <2>1, <2>3 DEF AcSafe, ScopeAccounted
  <2>5. CASE acMem.loaded
    <3>1. acMem'.local = acMem.local /\ (Held => Held')
      BY <1>1, <1>3, <2>5 DEF MemIs, Agreed, Held
    <3>2. ScopeAccounted'
      BY <1>2, <1>3, <2>1, <2>3, <2>4, <2>5, <3>1 DEF AcSafe, ScopeAccounted, MemIs
    <3>3. PutBackWhole'
      BY <1>2, <2>1, <3>1 DEF AcSafe, PutBackWhole, Further
    <3>4. QED BY <2>2, <3>2, <3>3 DEF AcSafe
  <2>6. CASE ~acMem.loaded
    <3>1. acMem'.loaded /\ acMem'.hold = acMem.hold /\ ~acMem'.released
      BY <1>1, <1>3, <2>6 DEF MemIs, Agreed
    <3>2. acMem.hold # "none" => Held'
      BY <1>1, <3>1 DEF Held, AcShape, AcMems
    <3>3. acMem.hold = "none" /\ ~acMem'.local => acChosen.network \/ Guarded'
      BY <1>1, <1>2, <1>3, <2>1, <2>3, <2>4, <2>6 DEF AcSafe, ScopeAccounted, MemIs, LocalFrom, AcShape, AcDisks
    <3>4. ScopeAccounted'
      BY <1>2, <2>4, <3>1, <3>2, <3>3 DEF ScopeAccounted
    <3>5. acStep.import = "idle"
      BY <1>1, <2>6 DEF Agreed, Resting
    <3>6. PutBackWhole'
      BY <3>5 DEF PutBackWhole, Further
    <3>7. QED BY <2>2, <3>4, <3>6 DEF AcSafe
  <2>7. QED BY <2>5, <2>6
<1>7. QED BY <1>2, <1>4, <1>5, <1>6 DEF AcInv

\* The hook judges the hold and follows the flag.
LEMMA AccessHookKeeps ==
    ASSUME AcInv, NEW c \in {"signal", "import"}, NEW next, HookAs(c, next), acMem.loaded,
           StepIs(acStep', acStep'.signal, acStep'.import), Further(acStep'.import),
           acStep'.import # "load" => acStep.import # "load"
    PROVE  AcInv'
<1>1. AcShape /\ Agreed /\ (acChosen.failed \/ AcSafe) /\ acMem.up
  BY DEF AcInv, Agreed
<1>2. UNCHANGED <<acFlag, acPre>>
  BY DEF HookAs
<1>3. PICK read \in {"ok", "fails"}, ok \in BOOLEAN :
          LET after == ApplyExplicitAccess(acDisk, acMem, acFlag, read, ok) IN
          /\ acDisk' = after[1] /\ acMem' = after[2]
          /\ acChosen' = ChosenByFlag(acDisk, acMem, acFlag, read, ok)
  BY DEF HookAs
<1> DEFINE moves == Moves(acDisk, acMem, acFlag, read)
<1>4. /\ DiskIs(acDisk', acDisk.enabled, acDisk.pass,
                IF moves /\ ok THEN IF acFlag = "local" THEN "yes" ELSE "no" ELSE acDisk.local,
                IF read = "ok" THEN HoldStands(acDisk) ELSE acDisk.hold)
      /\ MemIs(acMem', acMem.up, acMem.loaded, acMem.enabled, acMem.pass,
               IF moves /\ ok THEN acFlag = "local" ELSE acMem.local, acMem.seeded,
               HoldSeen(acDisk, acMem, acFlag, read), acMem.released)
  BY <1>1, <1>3, HookIs DEF AcShape
<1>5. ChosenIs(acChosen', acChosen.login,
               IF FlagInForce(acDisk, acFlag, read) THEN acFlag = "network" ELSE acChosen.network,
               acChosen.failed \/ (moves /\ ~ok))
  BY <1>1, <1>3, FlagChoiceIs DEF AcShape
<1>6. AcShape'
  BY <1>1, <1>2, <1>4, <1>5 DEF AcShape, DiskIs, MemIs, ChosenIs, StepIs
<1>7. Agreed'
  BY <1>1, <1>2, <1>4, <1>5 DEF DiskIs, MemIs, ChosenIs, Agreed, Moves, LocalFrom, HoldStands, Further
<1>8. ASSUME ~acChosen'.failed PROVE AcSafe'
  <2>1. /\ acDisk'.enabled = acDisk.enabled /\ acDisk'.pass = acDisk.pass
        /\ ~acChosen.failed /\ AcSafe /\ acChosen'.login = acChosen.login
        /\ ~moves \/ ok
    BY <1>1, <1>4, <1>5, <1>8 DEF DiskIs, ChosenIs
  <2>2. Guarded => Guarded'
    BY <1>2, <2>1 DEF Guarded, Further
  <2>3. acDisk.pass /\ acDisk.enabled => Guarded'
    BY <2>1 DEF Guarded
  <2>4. acDisk.hold => acDisk'.hold \/ Guarded'
    BY <1>4, <2>3 DEF DiskIs, HoldStands
  <2>5. LoginRemembered'
    BY <1>2, <2>1 DEF AcSafe, LoginRemembered, Further
  <2>6. CASE FlagInForce(acDisk, acFlag, read)
    <3>1. CASE acFlag = "network"
      <4>1. acChosen'.network
        BY <1>5, <2>6, <3>1 DEF ChosenIs
      <4>2. ScopeAccounted' /\ PutBackWhole'
        BY <1>2, <1>4, <2>1, <4>1 DEF MemIs, ScopeAccounted, PutBackWhole, AcSafe, Further
      <4>3. QED BY <2>5, <4>2 DEF AcSafe
    <3>2. CASE acFlag = "local"
      <4>1. acMem'.local /\ (acDisk.local = "no" => acDisk'.local = "yes")
        BY <1>1, <1>4, <2>1, <2>6, <3>2 DEF DiskIs, MemIs, Moves, LocalFrom, Agreed
      <4>2. acDisk'.local # "no"
        BY <1>4, <3>2, <4>1 DEF DiskIs
      <4>3. ScopeAccounted' /\ PutBackWhole'
        BY <1>2, <1>4, <2>1, <4>1, <4>2 DEF ScopeAccounted, MemIs, PutBackWhole, AcSafe, Further
      <4>4. QED BY <2>5, <4>3 DEF AcSafe
    <3>3. QED BY <1>1, <2>6, <3>1, <3>2 DEF AcShape, FlagInForce, Flags
  <2>7. CASE ~FlagInForce(acDisk, acFlag, read)
    <3>1. /\ acDisk'.local = acDisk.local /\ acMem'.local = acMem.local
          /\ acMem'.hold = HoldSeen(acDisk, acMem, acFlag, read) /\ acMem'.loaded
          /\ acMem'.released = acMem.released /\ acChosen'.network = acChosen.network
      BY <1>4, <1>5, <2>1, <2>7 DEF DiskIs, MemIs, ChosenIs, Moves
    <3>2. acDisk'.local = "no" => acChosen'.network \/ acDisk'.hold \/ Guarded'
      BY <2>1, <2>2, <2>4, <3>1 DEF AcSafe, ScopeAccounted
    <3>3. PutBackWhole'
      BY <1>2, <2>1, <3>1 DEF AcSafe, PutBackWhole, Further
    <3>4. ASSUME ~acMem.local, HoldSeen(acDisk, acMem, acFlag, read) = "none"
          PROVE  acDisk.local = "no" /\ ~HoldStands(acDisk)
      BY <1>1, <2>7, <3>4 DEF HoldSeen, FlagInForce, LocalFrom, Agreed, AcShape, AcDisks, Flags
    <3>5. CASE acMem.released
      <4>1. ~acDisk.hold
        BY <1>1, <3>5 DEF Agreed
      <4>2. ~acMem.local => acChosen.network \/ Guarded
        BY <1>1, <2>1, <3>5, <4>1 DEF AcSafe, ScopeAccounted, Held
      <4>3. QED BY <2>2, <2>5, <3>1, <3>2, <3>3, <4>2 DEF ScopeAccounted, AcSafe
    <3>6. CASE ~acMem.released
      <4>1. ~acMem'.local /\ acMem'.hold # "none" => Held'
        BY <1>4, <3>1, <3>6 DEF Held, MemIs, AcMems
      <4>2. ~acMem'.local => acChosen'.network \/ Held' \/ Guarded'
        BY <1>4, <2>1, <2>3, <3>1, <3>2, <3>4, <4>1 DEF DiskIs, HoldStands
      <4>3. QED BY <2>5, <3>1, <3>2, <3>3, <4>2 DEF ScopeAccounted, AcSafe
    <3>7. QED BY <3>5, <3>6
  <2>8. QED BY <2>6, <2>7
<1>9. QED BY <1>6, <1>7, <1>8 DEF AcInv

\* What an act of the operator leaves: a choice made, and a table the process agrees with.
LEMMA OperatesKeeps ==
    ASSUME AcInv, NEW enabled, NEW pass, NEW local, NEW hold, NEW scope, NEW released, NEW shown,
           acChosen.failed \/ shown = enabled,
           DiskIs(acDisk', enabled, pass, scope, hold),
           MemIs(acMem', TRUE, TRUE, shown, pass, local, acMem.seeded, acMem.hold, released),
           Operates(acDisk', acMem'),
           local = (IF scope = "unset" THEN acMem.seeded ELSE scope = "yes"),
           hold => acDisk.hold /\ ~released,
           released => ~hold,
           scope = "no" => ~local
    PROVE  AcInv'
<1>1. AcShape /\ Agreed /\ acMem.up /\ acMem.loaded /\ acStep.import = "idle"
  BY DEF AcInv, Operates, Reconciling
<1>2. /\ acChosen' = [acChosen EXCEPT !.login = AuthActive(acMem'), !.network = ~(acMem'.local)]
      /\ UNCHANGED <<acFlag, acStep, acPre>>
  BY DEF Operates
<1>3. ChosenIs(acChosen', shown /\ pass, ~local, acChosen.failed)
  BY <1>1, <1>2 DEF ChosenIs, AuthActive, AcShape, AcChoices, MemIs, AcMems
<1>4. AcShape'
  BY <1>1, <1>2, <1>3 DEF AcShape, DiskIs, MemIs, ChosenIs
<1>5. Agreed'
  BY <1>1, <1>2, <1>3 DEF Agreed, DiskIs, MemIs, ChosenIs, LocalFrom
<1>6. acChosen'.failed \/ AcSafe'
  BY <1>1, <1>2, <1>3 DEF DiskIs, MemIs, ChosenIs, AcSafe, LoginRemembered, ScopeAccounted, Guarded, PutBackWhole
<1>7. QED BY <1>4, <1>5, <1>6 DEF AcInv

\* A password set at this machine switches the login on.
LEMMA PasswordKeeps == ASSUME AcInv, SetAuthPassword PROVE AcInv'
<1>1. AcShape /\ Agreed /\ acMem.up /\ acMem.loaded
  BY DEF AcInv, SetAuthPassword, Operates
<1>2. DiskIs(acDisk', TRUE, TRUE, acDisk.local, acDisk.hold)
  BY <1>1 DEF SetAuthPassword, Operates, DiskIs, AcShape, AcDisks, Names
<1>3. MemIs(acMem', TRUE, TRUE, TRUE, TRUE, acMem.local, acMem.seeded, acMem.hold, acMem.released)
  BY <1>1 DEF SetAuthPassword, Operates, MemIs, AcShape, AcMems, Names
<1>4. Operates(acDisk', acMem')
  BY DEF SetAuthPassword, Operates
<1>5. /\ acMem.local = LocalFrom(acDisk, acMem)
      /\ acMem.released => ~acDisk.hold
      /\ acMem.released \in BOOLEAN /\ acDisk.hold \in BOOLEAN
  BY <1>1 DEF Agreed, AcShape, AcMems, AcDisks
<1>6. QED BY <1>2, <1>3, <1>4, <1>5, OperatesKeeps DEF LocalFrom

\* So does the switch, or off.
LEMMA EnabledKeeps == ASSUME AcInv, NEW on \in BOOLEAN, SetAuthEnabled(on) PROVE AcInv'
<1>1. AcShape /\ Agreed /\ acMem.up /\ acMem.loaded
  BY DEF AcInv, SetAuthEnabled, Operates
<1>2. DiskIs(acDisk', on, acDisk.pass, acDisk.local, acDisk.hold)
  BY <1>1 DEF SetAuthEnabled, Operates, DiskIs, AcShape, AcDisks
<1>3. MemIs(acMem', TRUE, TRUE, on, acDisk.pass, acMem.local, acMem.seeded, acMem.hold, acMem.released)
  BY <1>1 DEF SetAuthEnabled, Operates, MemIs, AcShape, AcMems, Agreed
<1>4. Operates(acDisk', acMem')
  BY DEF SetAuthEnabled, Operates
<1>5. /\ acMem.local = LocalFrom(acDisk, acMem)
      /\ acMem.released => ~acDisk.hold
      /\ acMem.released \in BOOLEAN /\ acDisk.hold \in BOOLEAN
  BY <1>1 DEF Agreed, AcShape, AcMems, AcDisks
<1>6. QED BY <1>2, <1>3, <1>4, <1>5, OperatesKeeps DEF LocalFrom

\* Switching the network on releases the hold, on disk and in the process.
LEMMA ScopeKeeps == ASSUME AcInv, NEW local \in BOOLEAN, SaveLocalOnly(local) PROVE AcInv'
<1>1. PICK ok \in BOOLEAN :
       LET shown    == acMem.local \/ (acMem.hold # "none" /\ ~acMem.released)
           releases == ~local /\ shown /\ ok
           disk     == [acDisk EXCEPT !.local = IF local THEN "yes" ELSE "no",
                                      !.hold = @ /\ ~releases]
       IN  Operates(disk, [acMem EXCEPT !.local = local, !.released = @ \/ releases])
  BY DEF SaveLocalOnly
<1> DEFINE releases == ~local /\ (acMem.local \/ (acMem.hold # "none" /\ ~acMem.released)) /\ ok
           scope == IF local THEN "yes" ELSE "no"
<1>2. /\ acDisk' = [acDisk EXCEPT !.local = scope, !.hold = acDisk.hold /\ ~releases]
      /\ acMem' = [acMem EXCEPT !.local = local, !.released = acMem.released \/ releases]
      /\ Operates(acDisk', acMem')
  BY <1>1 DEF Operates
<1>3. AcShape /\ Agreed /\ acMem.up /\ acMem.loaded
  BY <1>2 DEF AcInv, Operates
<1>4. releases \in BOOLEAN
  OBVIOUS
<1> HIDE DEF releases
<1>5. DiskIs(acDisk', acDisk.enabled, acDisk.pass, scope, acDisk.hold /\ ~releases)
  BY <1>2, <1>3 DEF DiskIs, AcShape, AcDisks
<1>6. MemIs(acMem', TRUE, TRUE, acMem.enabled, acDisk.pass, local, acMem.seeded, acMem.hold,
            acMem.released \/ releases)
  BY <1>2, <1>3 DEF MemIs, AcShape, AcMems, Agreed
<1>7. acChosen.failed \/ acMem.enabled = acDisk.enabled
  BY <1>2, <1>3 DEF Agreed, Operates, Reconciling
<1>8. acMem.released => ~acDisk.hold
  BY <1>3 DEF Agreed
<1>9. acMem.released \in BOOLEAN /\ acDisk.hold \in BOOLEAN
  BY <1>3 DEF AcShape, AcMems, AcDisks
<1>10. /\ acDisk.hold /\ ~releases => acDisk.hold /\ ~(acMem.released \/ releases)
       /\ acMem.released \/ releases => ~(acDisk.hold /\ ~releases)
       /\ local = (IF scope = "unset" THEN acMem.seeded ELSE scope = "yes")
       /\ (scope = "no" => ~local)
  BY <1>8, <1>9
<1> HIDE DEF scope
<1>11. QED BY <1>2, <1>5, <1>6, <1>7, <1>10, OperatesKeeps

\* An import begins with the login that is in force.
LEMMA ImportKeeps == ASSUME AcInv, ImportConfig PROVE AcInv'
<1>1. /\ AcShape /\ Agreed /\ (acChosen.failed \/ AcSafe) /\ acMem.loaded /\ acStep.import = "idle"
      /\ acStep' = [acStep EXCEPT !.import = "rows"]
      /\ UNCHANGED <<acDisk, acMem, acFlag, acChosen>>
  BY DEF AcInv, ImportConfig, Reconciling
<1>2. StepIs(acStep', acStep.signal, "rows")
  BY <1>1 DEF AcShape, AcSteps, StepIs
<1>3. acPre' \in AcPres /\ acPre'.enabled = acMem.enabled /\ acPre'.pass = acMem.pass
  BY <1>1 DEF ImportConfig, AcShape, AcMems, AcPres
<1>4. acMem.pass = acDisk.pass /\ (~acChosen.failed => acMem.enabled = acDisk.enabled)
  BY <1>1 DEF Agreed
<1>5. AcShape'
  BY <1>1, <1>2, <1>3 DEF AcShape, StepIs
<1>6. Agreed'
  BY <1>1, <1>2, <1>3, <1>4 DEF Agreed, StepIs, LocalFrom
<1>7. acChosen.failed \/ AcSafe'
  BY <1>1, <1>2, <1>3, <1>4 DEF StepIs, AcSafe, LoginRemembered, ScopeAccounted, Guarded, Held, PutBackWhole, Landed
<1>8. QED BY <1>1, <1>5, <1>6, <1>7 DEF AcInv

\* The backup's login lands; what it replaces is remembered.
LEMMA LandKeeps == ASSUME AcInv, LandLogin PROVE AcInv'
<1>1. /\ AcShape /\ Agreed /\ (acChosen.failed \/ AcSafe) /\ acMem.loaded /\ acStep.import = "rows"
      /\ acStep' = [acStep EXCEPT !.import = "load"]
      /\ UNCHANGED <<acMem, acFlag, acPre, acChosen>>
  BY DEF AcInv, LandLogin, Agreed, Resting
<1>2. StepIs(acStep', acStep.signal, "load")
  BY <1>1 DEF AcShape, AcSteps, StepIs
<1>3. PICK user \in {acDisk.user, "theirs"}, enabled \in BOOLEAN :
          acDisk' = [acDisk EXCEPT !.user = user, !.enabled = enabled]
  BY DEF LandLogin
<1>4. DiskIs(acDisk', enabled, acDisk.pass, acDisk.local, acDisk.hold)
  BY <1>1, <1>3 DEF AcShape, DiskIs, AcDisks, Names
<1>5. AcShape'
  BY <1>1, <1>2, <1>4 DEF AcShape, StepIs, DiskIs
<1>6. Agreed'
  BY <1>1, <1>2, <1>4 DEF Agreed, StepIs, DiskIs, LocalFrom, Resting
<1>7. ASSUME AcSafe PROVE AcSafe'
  <2>1. acPre.enabled = acDisk.enabled /\ acPre.pass = acDisk.pass
    BY <1>1, <1>7 DEF AcSafe, PutBackWhole, Agreed
  <2>2. Guarded => Guarded'
    BY <1>1, <1>2, <1>4, <2>1 DEF Guarded, StepIs, DiskIs, Landed
  <2>3. QED BY <1>1, <1>2, <1>4, <1>7, <2>1, <2>2
            DEF StepIs, DiskIs, AcSafe, LoginRemembered, ScopeAccounted, Held, PutBackWhole, Landed
<1>8. QED BY <1>1, <1>5, <1>6, <1>7 DEF AcInv

\* The remembered login and scope go back, or the import reports that they did not.
LEMMA PutBackKeeps == ASSUME AcInv, PutBack PROVE AcInv'
<1> DEFINE Ours(r) == [r EXCEPT !.user = IF acPre.user = "" THEN @ ELSE acPre.user, !.enabled = acPre.enabled]
           Back == SetLocal(<<Ours(acDisk), Ours(acMem)>>, acPre.local)
<1>1. /\ AcShape /\ Agreed /\ (acChosen.failed \/ AcSafe) /\ acMem.loaded /\ acStep.import = "load"
      /\ UNCHANGED <<acFlag, acPre>>
  BY DEF AcInv, PutBack, Agreed, Resting
<1>2. PICK ok \in BOOLEAN :
         /\ acDisk' = IF ok THEN Back[1] ELSE acDisk
         /\ acMem' = IF ok THEN Back[2] ELSE acMem
         /\ acChosen' = [acChosen EXCEPT !.failed = @ \/ ~ok, !.network = IF ok THEN ~acPre.local ELSE @]
         /\ acStep' = [acStep EXCEPT !.import = IF ok THEN "again" ELSE "idle"]
  BY DEF PutBack
<1>3. StepIs(acStep', acStep.signal, IF ok THEN "again" ELSE "idle")
  BY <1>1, <1>2 DEF AcShape, AcSteps, StepIs
<1>4. ChosenIs(acChosen', acChosen.login, IF ok THEN ~acPre.local ELSE acChosen.network, acChosen.failed \/ ~ok)
  BY <1>1, <1>2 DEF AcShape, AcChoices, AcPres, ChosenIs
<1>5. CASE ~ok
  <2>1. UNCHANGED <<acDisk, acMem>> /\ acChosen'.failed
    BY <1>2, <1>4, <1>5 DEF ChosenIs
  <2>2. AcShape'
    BY <1>1, <1>3, <1>4, <2>1 DEF AcShape, StepIs, ChosenIs
  <2>3. Agreed'
    BY <1>1, <1>3, <1>5, <2>1 DEF Agreed, StepIs, LocalFrom
  <2>4. QED BY <2>1, <2>2, <2>3 DEF AcInv
<1>6. CASE ok
  <2>1. DiskIs(Ours(acDisk), acPre.enabled, acDisk.pass, acDisk.local, acDisk.hold)
    BY <1>1 DEF AcShape, DiskIs, AcDisks, AcPres
  <2>2. MemIs(Ours(acMem), acMem.up, acMem.loaded, acPre.enabled, acMem.pass, acMem.local, acMem.seeded,
              acMem.hold, acMem.released)
    BY <1>1 DEF AcShape, MemIs, AcMems, AcPres
  <2> HIDE DEF Ours
  <2>3. acPre.local \in BOOLEAN
    BY <1>1 DEF AcShape, AcPres
  <2>4. /\ DiskIs(acDisk', acPre.enabled, acDisk.pass, IF acPre.local THEN "yes" ELSE "no", acDisk.hold)
        /\ MemIs(acMem', acMem.up, acMem.loaded, acPre.enabled, acMem.pass, acPre.local, acMem.seeded,
                 acMem.hold, acMem.released)
    BY <1>2, <1>6, <2>1, <2>2, <2>3, SetLocalIs DEF DiskIs, MemIs
  <2>5. AcShape'
    BY <1>1, <1>3, <1>4, <2>4 DEF AcShape, StepIs, ChosenIs, DiskIs, MemIs
  <2>6. Agreed'
    BY <1>1, <1>3, <1>6, <2>3, <2>4 DEF Agreed, StepIs, DiskIs, MemIs, LocalFrom, Resting
  <2>7. acPre.local => acDisk'.local = "yes" /\ acMem'.local
    BY <2>4 DEF DiskIs, MemIs
  <2>8. ~acPre.local => acChosen'.network
    BY <1>4, <1>6 DEF ChosenIs
  <2>9. acChosen.failed \/ AcSafe'
    BY <1>1, <1>3, <1>4, <1>6, <2>4, <2>7, <2>8 DEF StepIs, ChosenIs, DiskIs, MemIs, AcSafe, LoginRemembered, ScopeAccounted,
       PutBackWhole, Landed
  <2>10. QED BY <1>4, <1>6, <2>5, <2>6, <2>9 DEF AcInv, ChosenIs
<1>7. QED BY <1>5, <1>6

\* What is put back stays, whether the last load is tried or not.
LEMMA GiveUpKeeps == ASSUME AcInv, GiveUp PROVE AcInv'
<1>1. /\ AcShape /\ Agreed /\ (acChosen.failed \/ AcSafe) /\ acMem.loaded /\ acStep.import = "again"
      /\ UNCHANGED <<acDisk, acMem, acFlag, acPre, acChosen>>
  BY DEF AcInv, GiveUp, Agreed, Resting
<1>2. StepIs(acStep', acStep.signal, "idle")
  BY <1>1 DEF GiveUp, AcShape, AcSteps, StepIs
<1>3. AcShape' /\ Agreed'
  BY <1>1, <1>2 DEF AcShape, StepIs, Agreed, LocalFrom
<1>4. acChosen.failed \/ AcSafe'
  BY <1>1, <1>2 DEF StepIs, AcSafe, LoginRemembered, ScopeAccounted, Guarded, Held, PutBackWhole, Landed
<1>5. QED BY <1>1, <1>3, <1>4 DEF AcInv

\* What a repair leaves: the save made, not needed, or failed and reported.
LEMMA RepairIs ==
    ASSUME AcInv, NEW at \in {"user", "login", "disable", "scope"},
           NEW next \in {"login", "disable", "scope", "idle"}, NEW needed, NEW disk, NEW mem,
           Repair(at, next, needed, disk, mem)
    PROVE  /\ AcShape /\ Agreed /\ (acChosen.failed \/ AcSafe) /\ acMem.loaded /\ acStep.import = at
           /\ UNCHANGED <<acFlag, acPre>>
           /\ StepIs(acStep', acStep.signal, next)
           /\ \/ needed /\ acDisk' = disk /\ acMem' = mem /\ acChosen' = acChosen
              \/ ~needed /\ UNCHANGED <<acDisk, acMem, acChosen>>
              \/ /\ UNCHANGED <<acDisk, acMem>>
                 /\ ChosenIs(acChosen', acChosen.login, acChosen.network, TRUE)
<1>1. AcShape /\ Agreed /\ (acChosen.failed \/ AcSafe) /\ acMem.loaded /\ acStep.import = at
  BY DEF AcInv, Repair, Agreed, Resting
<1>2. StepIs(acStep', acStep.signal, next) /\ UNCHANGED <<acFlag, acPre>>
  BY <1>1 DEF Repair, AcShape, AcSteps, StepIs
<1>3. PICK ok \in BOOLEAN :
          /\ acDisk' = IF needed /\ ok THEN disk ELSE acDisk
          /\ acMem' = IF needed /\ ok THEN mem ELSE acMem
          /\ acChosen' = [acChosen EXCEPT !.failed = @ \/ (needed /\ ~ok)]
  BY DEF Repair
<1>4. CASE needed /\ ~ok
  BY <1>1, <1>2, <1>3, <1>4 DEF AcShape, AcChoices, ChosenIs
<1>5. CASE ~(needed /\ ~ok)
  <2>1. acChosen' = acChosen
    BY <1>1, <1>3, <1>5 DEF AcShape, AcChoices
  <2>2. QED BY <1>1, <1>2, <1>3, <1>5, <2>1
<1>6. QED BY <1>4, <1>5

\* A repair that failed is reported, and leaves the process and the table agreed.
LEMMA FailedRepairKeeps ==
    ASSUME AcShape, Agreed, acMem.loaded, UNCHANGED <<acFlag, acPre, acDisk, acMem>>, NEW next,
           StepIs(acStep', acStep.signal, next), acStep.import # "idle",
           ChosenIs(acChosen', acChosen.login, acChosen.network, TRUE)
    PROVE  AcInv'
<1>1. AcShape'
  BY DEF AcShape, StepIs, ChosenIs
<1>2. Agreed'
  BY DEF Agreed, StepIs, ChosenIs, LocalFrom
<1>3. QED BY <1>1, <1>2 DEF AcInv, ChosenIs

\* The name goes back to the password's owner.
LEMMA KeepUserKeeps == ASSUME AcInv, KeepUser PROVE AcInv'
<1> DEFINE needed == acPre.pass /\ acMem.user # acPre.user
           disk == [acDisk EXCEPT !.user = acPre.user]
           mem == [acMem EXCEPT !.user = acPre.user]
<1>1. Repair("user", "login", needed, disk, mem)
  BY DEF KeepUser
<1> HIDE DEF needed, disk, mem
<1>2. /\ AcShape /\ Agreed /\ (acChosen.failed \/ AcSafe) /\ acMem.loaded /\ acStep.import = "user"
      /\ UNCHANGED <<acFlag, acPre>>
      /\ StepIs(acStep', acStep.signal, "login")
      /\ \/ needed /\ acDisk' = disk /\ acMem' = mem /\ acChosen' = acChosen
         \/ ~needed /\ UNCHANGED <<acDisk, acMem, acChosen>>
         \/ UNCHANGED <<acDisk, acMem>> /\ ChosenIs(acChosen', acChosen.login, acChosen.network, TRUE)
  BY <1>1, RepairIs
<1>3. DiskIs(disk, acDisk.enabled, acDisk.pass, acDisk.local, acDisk.hold)
  BY <1>2 DEF AcShape, AcPres, AcDisks, DiskIs, disk
<1>4. MemIs(mem, acMem.up, acMem.loaded, acMem.enabled, acMem.pass, acMem.local, acMem.seeded, acMem.hold,
            acMem.released)
  BY <1>2 DEF AcShape, AcPres, AcMems, MemIs, mem
<1>5. CASE acChosen' = acChosen
  <2>1. /\ DiskIs(acDisk', acDisk.enabled, acDisk.pass, acDisk.local, acDisk.hold)
        /\ MemIs(acMem', acMem.up, acMem.loaded, acMem.enabled, acMem.pass, acMem.local, acMem.seeded, acMem.hold,
            acMem.released)
    BY <1>2, <1>3, <1>4, <1>5, AcTyped DEF ChosenIs
  <2>2. AcShape' /\ Agreed'
    BY <1>2, <1>5, <2>1 DEF AcShape, Agreed, StepIs, DiskIs, MemIs, LocalFrom
  <2>3. acChosen.failed \/ AcSafe'
    BY <1>2, <1>5, <2>1 DEF StepIs, DiskIs, MemIs, AcSafe, LoginRemembered, ScopeAccounted, Guarded, Held,
       PutBackWhole, Landed
  <2>4. QED BY <1>5, <2>2, <2>3 DEF AcInv
<1>6. CASE UNCHANGED <<acDisk, acMem>> /\ ChosenIs(acChosen', acChosen.login, acChosen.network, TRUE)
  BY <1>2, <1>6, FailedRepairKeeps
<1>7. QED BY <1>2, <1>5, <1>6

\* A login that protected this machine still does.
LEMMA KeepLoginKeeps == ASSUME AcInv, KeepLogin PROVE AcInv'
<1> DEFINE needed == WasActive /\ ~AuthActive(acMem)
           disk == [acDisk EXCEPT !.enabled = TRUE]
           mem == [acMem EXCEPT !.enabled = TRUE]
<1>1. Repair("login", "disable", needed, disk, mem)
  BY DEF KeepLogin
<1> HIDE DEF needed, disk, mem
<1>2. /\ AcShape /\ Agreed /\ (acChosen.failed \/ AcSafe) /\ acMem.loaded /\ acStep.import = "login"
      /\ UNCHANGED <<acFlag, acPre>>
      /\ StepIs(acStep', acStep.signal, "disable")
      /\ \/ needed /\ acDisk' = disk /\ acMem' = mem /\ acChosen' = acChosen
         \/ ~needed /\ UNCHANGED <<acDisk, acMem, acChosen>>
         \/ UNCHANGED <<acDisk, acMem>> /\ ChosenIs(acChosen', acChosen.login, acChosen.network, TRUE)
  BY <1>1, RepairIs
<1>3. DiskIs(disk, TRUE, acDisk.pass, acDisk.local, acDisk.hold)
  BY <1>2 DEF AcShape, AcDisks, DiskIs, disk
<1>4. MemIs(mem, acMem.up, acMem.loaded, TRUE, acMem.pass, acMem.local, acMem.seeded, acMem.hold,
            acMem.released)
  BY <1>2 DEF AcShape, AcMems, MemIs, mem
<1>5. CASE needed /\ acDisk' = disk /\ acMem' = mem /\ acChosen' = acChosen
  <2>1. AcShape' /\ Agreed'
    BY <1>2, <1>3, <1>4, <1>5 DEF AcShape, Agreed, StepIs, DiskIs, MemIs, LocalFrom
  <2>2. acChosen.failed \/ AcSafe'
    BY <1>2, <1>3, <1>4, <1>5 DEF StepIs, DiskIs, MemIs, AcSafe, LoginRemembered, ScopeAccounted, Guarded, Held,
       PutBackWhole, Landed
  <2>3. QED BY <1>5, <2>1, <2>2 DEF AcInv
<1>6. CASE ~needed /\ UNCHANGED <<acDisk, acMem, acChosen>>
  <2>1. AcShape' /\ Agreed'
    BY <1>2, <1>6 DEF AcShape, Agreed, StepIs, LocalFrom
  <2>2. ASSUME ~acChosen.failed PROVE AcSafe'
    <3>1. AcSafe /\ acMem.enabled = acDisk.enabled /\ acMem.pass = acDisk.pass
      BY <1>2, <2>2 DEF Agreed
    <3>2. acPre.enabled /\ acPre.pass => acDisk.enabled
      BY <1>6, <3>1 DEF needed, WasActive, AuthActive
    <3>3. QED BY <1>2, <1>6, <3>1, <3>2
              DEF StepIs, AcSafe, LoginRemembered, ScopeAccounted, Guarded, Held, PutBackWhole, Landed
  <2>3. QED BY <1>6, <2>1, <2>2 DEF AcInv
<1>7. CASE UNCHANGED <<acDisk, acMem>> /\ ChosenIs(acChosen', acChosen.login, acChosen.network, TRUE)
  BY <1>2, <1>7, FailedRepairKeeps
<1>8. QED BY <1>2, <1>5, <1>6, <1>7

\* A login without a password protects nobody, so nobody misses it.
LEMMA DisableKeeps == ASSUME AcInv, DisableLogin PROVE AcInv'
<1> DEFINE next == IF Unenforceable THEN "scope" ELSE "idle"
           disk == [acDisk EXCEPT !.enabled = FALSE]
           mem == [acMem EXCEPT !.enabled = FALSE]
<1>1. Repair("disable", next, Unenforceable, disk, mem) /\ next \in {"scope", "idle"}
  BY DEF DisableLogin
<1> HIDE DEF next, disk, mem
<1>2. /\ AcShape /\ Agreed /\ (acChosen.failed \/ AcSafe) /\ acMem.loaded /\ acStep.import = "disable"
      /\ UNCHANGED <<acFlag, acPre>>
      /\ StepIs(acStep', acStep.signal, next)
      /\ \/ Unenforceable /\ acDisk' = disk /\ acMem' = mem /\ acChosen' = acChosen
         \/ ~Unenforceable /\ UNCHANGED <<acDisk, acMem, acChosen>>
         \/ UNCHANGED <<acDisk, acMem>> /\ ChosenIs(acChosen', acChosen.login, acChosen.network, TRUE)
  BY <1>1, RepairIs
<1>3. DiskIs(disk, FALSE, acDisk.pass, acDisk.local, acDisk.hold)
  BY <1>2 DEF AcShape, AcDisks, DiskIs, disk
<1>4. MemIs(mem, acMem.up, acMem.loaded, FALSE, acMem.pass, acMem.local, acMem.seeded, acMem.hold,
            acMem.released)
  BY <1>2 DEF AcShape, AcMems, MemIs, mem
<1>5. CASE Unenforceable /\ acDisk' = disk /\ acMem' = mem /\ acChosen' = acChosen
  <2>1. ~acDisk.pass
    BY <1>2, <1>5 DEF Unenforceable, Agreed
  <2>2. AcShape' /\ Agreed'
    BY <1>2, <1>3, <1>4, <1>5 DEF AcShape, Agreed, StepIs, DiskIs, MemIs, LocalFrom
  <2>3. acChosen.failed \/ AcSafe'
    BY <1>1, <1>2, <1>3, <1>4, <1>5, <2>1 DEF StepIs, DiskIs, MemIs, AcSafe, LoginRemembered, ScopeAccounted, Guarded,
       Held, PutBackWhole, Landed
  <2>4. QED BY <1>5, <2>2, <2>3 DEF AcInv
<1>6. CASE ~Unenforceable /\ UNCHANGED <<acDisk, acMem, acChosen>>
  <2>1. AcShape' /\ Agreed'
    BY <1>2, <1>6 DEF AcShape, Agreed, StepIs, LocalFrom
  <2>2. acChosen.failed \/ AcSafe'
    BY <1>1, <1>2, <1>6 DEF StepIs, AcSafe, LoginRemembered, ScopeAccounted, Guarded, Held, PutBackWhole, Landed
  <2>3. QED BY <1>6, <2>1, <2>2 DEF AcInv
<1>7. CASE UNCHANGED <<acDisk, acMem>> /\ ChosenIs(acChosen', acChosen.login, acChosen.network, TRUE)
  BY <1>2, <1>7, FailedRepairKeeps
<1>8. QED BY <1>2, <1>5, <1>6, <1>7

\* Behind no login, this machine alone.
LEMMA ForceLocalKeeps == ASSUME AcInv, ForceLocalOnly PROVE AcInv'
<1> DEFINE local == SetLocal(<<acDisk, acMem>>, TRUE)
<1>1. Repair("scope", "idle", ~acMem.local, local[1], local[2])
  BY DEF ForceLocalOnly
<1> HIDE DEF local
<1>2. /\ AcShape /\ Agreed /\ (acChosen.failed \/ AcSafe) /\ acMem.loaded /\ acStep.import = "scope"
      /\ UNCHANGED <<acFlag, acPre>>
      /\ StepIs(acStep', acStep.signal, "idle")
      /\ \/ ~acMem.local /\ acDisk' = local[1] /\ acMem' = local[2] /\ acChosen' = acChosen
         \/ ~~acMem.local /\ UNCHANGED <<acDisk, acMem, acChosen>>
         \/ UNCHANGED <<acDisk, acMem>> /\ ChosenIs(acChosen', acChosen.login, acChosen.network, TRUE)
  BY <1>1, RepairIs
<1>3. /\ DiskIs(local[1], acDisk.enabled, acDisk.pass, "yes", acDisk.hold)
      /\ MemIs(local[2], acMem.up, acMem.loaded, acMem.enabled, acMem.pass, TRUE, acMem.seeded, acMem.hold,
               acMem.released)
  BY <1>2, SetLocalIs DEF AcShape, local, DiskIs, MemIs
<1>4. CASE acDisk' = local[1] /\ acMem' = local[2] /\ acChosen' = acChosen
  <2>1. AcShape' /\ Agreed'
    BY <1>2, <1>3, <1>4 DEF AcShape, Agreed, StepIs, DiskIs, MemIs, LocalFrom
  <2>2. acChosen.failed \/ AcSafe'
    BY <1>2, <1>3, <1>4 DEF StepIs, DiskIs, MemIs, AcSafe, LoginRemembered, ScopeAccounted, Guarded,
       PutBackWhole, Landed
  <2>3. QED BY <1>4, <2>1, <2>2 DEF AcInv
<1>5. CASE UNCHANGED <<acDisk, acMem, acChosen>>
  <2>1. AcShape' /\ Agreed'
    BY <1>2, <1>5 DEF AcShape, Agreed, StepIs, LocalFrom
  <2>2. acChosen.failed \/ AcSafe'
    BY <1>2, <1>5 DEF StepIs, AcSafe, LoginRemembered, ScopeAccounted, Guarded, Held, PutBackWhole, Landed
  <2>3. QED BY <1>5, <2>1, <2>2 DEF AcInv
<1>6. CASE UNCHANGED <<acDisk, acMem>> /\ ChosenIs(acChosen', acChosen.login, acChosen.network, TRUE)
  BY <1>2, <1>6, FailedRepairKeeps
<1>7. QED BY <1>2, <1>4, <1>5, <1>6

\* A crash forgets what the import remembered, and nobody reports it.
LEMMA AccessCrashKeeps == ASSUME AcInv, AcCrash PROVE AcInv'
<1>1. AcShape /\ Agreed /\ (acChosen.failed \/ AcSafe) /\ UNCHANGED <<acDisk, acFlag>>
  BY DEF AcInv, AcCrash
<1>2. MemIs(acMem', FALSE, FALSE, FALSE, FALSE, TRUE, TRUE, "none", FALSE)
  BY DEF AcCrash, Stopped, MemIs, AcMems, Names
<1>3. StepIs(acStep', "idle", "idle") /\ acStep' = Resting /\ acPre' \in AcPres
  BY DEF AcCrash, Resting, StepIs, AcSteps, NoPre, AcPres, Names
<1>4. ChosenIs(acChosen', acChosen.login, acChosen.network,
               acChosen.failed \/ acStep.import \notin {"idle", "rows"})
  BY <1>1 DEF AcCrash, AcShape, AcChoices, ChosenIs
<1>5. AcShape' /\ Agreed'
  BY <1>1, <1>2, <1>3, <1>4 DEF AcShape, Agreed, MemIs, StepIs, ChosenIs
<1>6. ASSUME ~acChosen'.failed PROVE AcSafe'
  <2>1. AcSafe /\ acStep.import \in {"idle", "rows"}
    BY <1>1, <1>4, <1>6 DEF ChosenIs
  <2>2. Guarded => Guarded'
    BY <1>1, <1>3, <2>1 DEF Guarded, StepIs, Landed
  <2>3. QED BY <1>1, <1>2, <1>3, <1>4, <2>1, <2>2
            DEF MemIs, StepIs, ChosenIs, AcSafe, LoginRemembered, ScopeAccounted, PutBackWhole, Landed
<1>7. QED BY <1>5, <1>6 DEF AcInv

\* What happens to the store between two processes.
LEMMA AccessStoreKeeps == ASSUME AcInv, Rebuild \/ OldRelease PROVE AcInv'
<1>1. /\ AcShape /\ Agreed /\ (acChosen.failed \/ AcSafe) /\ ~acMem.up
      /\ UNCHANGED <<acMem, acFlag, acStep, acPre>>
  BY DEF AcInv, Rebuild, OldRelease
<1>2. ~acMem.loaded /\ acStep = Resting /\ acStep.import = "idle" /\ ~acMem.released
  BY <1>1 DEF Agreed, Resting
<1>3. CASE Rebuild
  <2>1. DiskIs(acDisk', FALSE, FALSE, "unset", TRUE) /\ ChosenIs(acChosen', FALSE, FALSE, FALSE)
    BY <1>3 DEF Rebuild, DiskIs, AcDisks, Names, ChosenIs, AcChoices
  <2>2. AcShape' /\ Agreed'
    BY <1>1, <1>2, <2>1 DEF AcShape, Agreed, DiskIs, ChosenIs, Resting
  <2>3. AcSafe'
    BY <1>1, <1>2, <2>1 DEF DiskIs, ChosenIs, AcSafe, LoginRemembered, ScopeAccounted, PutBackWhole
  <2>4. QED BY <2>2, <2>3 DEF AcInv
<1>4. CASE OldRelease
  <2>1. /\ DiskIs(acDisk', acDisk.enabled, acDisk.pass, "no", acDisk.hold)
        /\ acDisk.hold /\ acChosen' = acChosen
    BY <1>1, <1>4 DEF OldRelease, AcShape, DiskIs, AcDisks
  <2>2. AcShape' /\ Agreed'
    BY <1>1, <1>2, <2>1 DEF AcShape, Agreed, DiskIs, Resting
  <2>3. acChosen.failed \/ AcSafe'
    BY <1>1, <1>2, <2>1 DEF DiskIs, AcSafe, LoginRemembered, ScopeAccounted, PutBackWhole
  <2>4. QED BY <2>1, <2>2, <2>3 DEF AcInv
<1>5. QED BY <1>3, <1>4

\* Who may reach the dashboard, and with what, is the operator's choice: a
\* login that is relied on asks whoever comes over the network, and the network
\* is let in without one only where the operator or the flag let it in.
THEOREM AccessIsByChoice == AcSpec => []AccessByChoice
<1>1. AcInit => AcInv
  <2> SUFFICES ASSUME AcInit PROVE AcInv
    OBVIOUS
  <2>1. PICK local \in {"unset", "yes", "no"}, enabled, pass \in BOOLEAN :
          /\ acDisk = [user |-> IF pass THEN "mine" ELSE "", enabled |-> enabled,
                       pass |-> pass, local |-> local, hold |-> FALSE]
          /\ acChosen = [login |-> enabled /\ pass, network |-> local = "no", failed |-> FALSE]
    BY DEF AcInit
  <2>2. DiskIs(acDisk, enabled, pass, local, FALSE) /\ ChosenIs(acChosen, enabled /\ pass, local = "no", FALSE)
    BY <2>1 DEF DiskIs, AcDisks, Names, ChosenIs, AcChoices
  <2>3. MemIs(acMem, FALSE, FALSE, FALSE, FALSE, TRUE, TRUE, "none", FALSE)
    BY DEF AcInit, Stopped, MemIs, AcMems, Names
  <2>4. StepIs(acStep, "idle", "idle") /\ acStep = Resting /\ acPre \in AcPres /\ acFlag = "none"
    BY DEF AcInit, Resting, StepIs, AcSteps, NoPre, AcPres, Names
  <2>5. AcShape /\ Agreed
    BY <2>2, <2>3, <2>4 DEF AcShape, Agreed, DiskIs, MemIs, ChosenIs, StepIs, Flags
  <2>6. AcSafe
    BY <2>2, <2>3, <2>4 DEF DiskIs, MemIs, ChosenIs, StepIs, AcSafe, LoginRemembered, ScopeAccounted, PutBackWhole
  <2>7. QED BY <2>5, <2>6 DEF AcInv
<1>2. AcInv /\ [AcNext]_acVars => AcInv'
  <2> SUFFICES ASSUME AcInv, [AcNext]_acVars PROVE AcInv'
    OBVIOUS
  <2>1. AcShape /\ Agreed
    BY DEF AcInv
  <2>2. CASE SignalReload
    <3>1. StepIs(acStep', "hook", acStep.import)
      BY <2>1, <2>2 DEF SignalReload, LoadAs, AcShape, AcSteps, StepIs
    <3>2. Further(acStep'.import)
      BY <3>1 DEF Further, StepIs
    <3>3. QED BY <2>2, <3>1, <3>2, AccessLoadKeeps DEF SignalReload, StepIs
  <2>3. CASE SignalHook
    <3>1. StepIs(acStep', "idle", acStep.import) /\ acMem.loaded
      BY <2>1, <2>3 DEF SignalHook, HookAs, AcShape, AcSteps, StepIs, Agreed, Resting
    <3>2. Further(acStep'.import)
      BY <3>1 DEF Further, StepIs
    <3>3. QED BY <2>3, <3>1, <3>2, AccessHookKeeps DEF SignalHook, StepIs
  <2>4. CASE ImportLoads
    <3>1. StepIs(acStep', acStep.signal, "hook") /\ acMem.up
      BY <2>1, <2>4 DEF ImportLoads, LoadAs, AcShape, AcSteps, StepIs, Agreed, Resting
    <3>2. Further(acStep'.import)
      BY <2>4, <3>1 DEF ImportLoads, Further, StepIs, Landed
    <3>3. QED BY <2>4, <3>1, <3>2, AccessLoadKeeps DEF ImportLoads, StepIs
  <2>5. CASE ImportHook
    <3>1. StepIs(acStep', acStep.signal, "user") /\ acMem.loaded
      BY <2>1, <2>5 DEF ImportHook, HookAs, AcShape, AcSteps, StepIs, Agreed, Resting
    <3>2. Further(acStep'.import)
      BY <2>5, <3>1 DEF ImportHook, Further, StepIs, Landed
    <3>3. QED BY <2>5, <3>1, <3>2, AccessHookKeeps DEF ImportHook, StepIs
  <2>6. CASE LoadAgain
    <3>1. StepIs(acStep', acStep.signal, "last") /\ acMem.up
      BY <2>1, <2>6 DEF LoadAgain, LoadAs, AcShape, AcSteps, StepIs, Agreed, Resting
    <3>2. Further(acStep'.import)
      BY <2>6, <3>1 DEF LoadAgain, Further, StepIs, Landed
    <3>3. QED BY <2>6, <3>1, <3>2, AccessLoadKeeps DEF LoadAgain, StepIs
  <2>7. CASE LastHook
    <3>1. StepIs(acStep', acStep.signal, "idle") /\ acMem.loaded
      BY <2>1, <2>7 DEF LastHook, HookAs, AcShape, AcSteps, StepIs, Agreed, Resting
    <3>2. Further(acStep'.import)
      BY <2>7, <3>1 DEF LastHook, Further, StepIs, Landed
    <3>3. QED BY <2>7, <3>1, <3>2, AccessHookKeeps DEF LastHook, StepIs
  <2>8. CASE UNCHANGED acVars
    BY <2>8 DEF acVars, AcInv, AcShape, Agreed, AcSafe, LocalFrom, LoginRemembered, ScopeAccounted, Guarded, Held,
       PutBackWhole
  <2>9. QED
    BY <2>2, <2>3, <2>4, <2>5, <2>6, <2>7, <2>8, AccessBootKeeps, AccessCrashKeeps, AccessStoreKeeps, PasswordKeeps, EnabledKeeps,
       ScopeKeeps, ImportKeeps, LandKeeps, PutBackKeeps, GiveUpKeeps, KeepUserKeeps, KeepLoginKeeps,
       DisableKeeps, ForceLocalKeeps DEF AcNext
<1>3. AcInv => AccessByChoice
  <2> SUFFICES ASSUME AcInv, acMem.up, acStep.import = "idle", acMem.loaded, ~acMem.local, ~Held, ~acChosen.failed
               PROVE  (acChosen.login => AuthActive(acMem)) /\ (acChosen.network \/ AuthActive(acMem))
    BY DEF AccessByChoice, LoginKept, OpenedByChoice, OpenToAll, NetworkServed, Reconciling
  <2>1. AcSafe /\ acMem.enabled = acDisk.enabled /\ acMem.pass = acDisk.pass
    BY DEF AcInv, Agreed
  <2>2. QED BY <2>1 DEF AcSafe, LoginRemembered, ScopeAccounted, Guarded, AuthActive, Landed
<1>4. QED BY <1>1, <1>2, <1>3, PTL DEF AcSpec

-----------------------------------------------------------------------------
(* The gap between two tests                                               *)

\* Max of two integers is one of them, and below neither.
LEMMA MaxOfTwo ==
    ASSUME NEW a \in Int, NEW b \in Int
    PROVE  Max({a, b}) \in {a, b} /\ Max({a, b}) >= a /\ Max({a, b}) >= b
<1>1. \E m \in {a, b} : \A n \in {a, b} : m >= n
  <2>1. CASE a >= b BY <2>1
  <2>2. CASE b >= a BY <2>2
  <2>3. QED BY <2>1, <2>2
<1>2. QED BY <1>1 DEF Max

\* The spacing of dispatched tests is at least its floor.
LEMMA GapAtLeastFloor ==
    ASSUME rgInterval \in Intervals
    PROVE  SpeedGap \in Nat /\ SpeedGap >= SpeedGapFloor
  BY MaxOfTwo, GateAssumption DEF SpeedGap

-----------------------------------------------------------------------------
(* ReconnectGate: every window was earned                                  *)

Reserved == {d.window : d \in rgWaiting}
Windows == rgMeasured \cup Reserved

\* The link went down in the past, and so did every window open.
RgClockOK ==
    /\ rgNow \in 1..LastMinute /\ rgLink \in 0..rgNow /\ rgInterval \in Intervals
    /\ rgLast \in [netinfo : 0..rgNow, speed : 0..rgNow]
    /\ rgTaken \in BOOLEAN
    /\ rgWaiting \subseteq [window : 1..rgNow, until : Nat, settled : BOOLEAN]
    /\ rgMeasured \subseteq 1..rgNow

\* A window belongs to one dispatch, and once its test ran to none.
OneOwner ==
    /\ \A d, e \in rgWaiting : d.window = e.window => d = e
    /\ \A d \in rgWaiting : d.window \notin rgMeasured

\* Not only the windows that were used: all that may still be are spaced.
Spaced == \A m, n \in Windows : m < n => n - m >= SpeedGapFloor

\* What the gate remembers is the newest window.  It forgets it only when that
\* came to nothing, and the others are the floor behind by then.
GateTrue ==
    IF rgLast.speed = 0 THEN \A m \in Windows : rgNow - m >= SpeedGapFloor
    ELSE rgLast.speed \in Windows /\ \A m \in Windows : m <= rgLast.speed

RgInv == RgClockOK /\ OneOwner /\ Spaced /\ GateTrue

\* No window is owned before the first recovery.
LEMMA RgInvInit == ASSUME RgInit PROVE RgInv
<1> USE GateAssumption DEF RgInit
<1>1. RgClockOK
  <2>1. rgNow \in 1..LastMinute /\ rgLink \in 0..rgNow
    OBVIOUS
  <2>2. rgLast \in [netinfo : 0..rgNow, speed : 0..rgNow]
    OBVIOUS
  <2>3. QED BY <2>1, <2>2 DEF RgClockOK
<1>2. Windows = {}
  BY DEF Windows, Reserved
<1>3. QED BY <1>1, <1>2 DEF RgInv, OneOwner, Spaced, GateTrue

\* A step of time, of the operator or of another run leaves the windows alone.
LEMMA RgQuietStep ==
    ASSUME RgInv, WentDown \/ SlotTurns \/ IntervalSet \/ MinutePasses \/ UNCHANGED rgVars
    PROVE  RgInv'
<1> USE GateAssumption DEF RgInv, RgClockOK, OneOwner, Spaced, GateTrue, Windows, Reserved
<1>1. CASE WentDown BY <1>1 DEF WentDown
<1>2. CASE SlotTurns BY <1>2 DEF SlotTurns
<1>3. CASE IntervalSet BY <1>3 DEF IntervalSet
<1>4. CASE MinutePasses BY <1>4 DEF MinutePasses
<1>5. CASE UNCHANGED rgVars BY <1>5 DEF rgVars
<1>6. QED BY <1>1, <1>2, <1>3, <1>4, <1>5

\* A dispatch that is over, measured or not, takes its window with it.
LEMMA RgOverStep ==
    ASSUME RgInv, NEW d \in rgWaiting, Settled(d) \/ TestRuns(d) \/ Bounced(d)
    PROVE  RgInv'
<1> USE GateAssumption DEF RgInv, RgClockOK, OneOwner, Spaced, GateTrue, Windows, Reserved
<1>1. CASE rgWaiting' = rgWaiting \ {d} /\ rgLast' = ReleasedBy(d)
           /\ UNCHANGED <<rgNow, rgLink, rgInterval, rgMeasured>> /\ rgTaken' \in BOOLEAN
  <2>1. Reserved' = Reserved \ {d.window}
    BY <1>1
  <2>2. RgClockOK' /\ OneOwner'
    BY <1>1 DEF ReleasedBy
  <2>3. Spaced'
    BY <1>1, <2>1
  <2>4. GateTrue'
    BY <1>1, <2>1 DEF ReleasedBy
  <2>5. QED BY <2>2, <2>3, <2>4
<1>2. CASE rgLink = 0 /\ Settled(d)
  <2> DEFINE e == [d EXCEPT !.settled = TRUE]
  <2>1. rgWaiting' = (rgWaiting \ {d}) \cup {e} /\ UNCHANGED <<rgNow, rgLink, rgLast, rgInterval, rgTaken, rgMeasured>>
    BY <1>2 DEF Settled
  <2>2. e \in [window : 1..rgNow, until : Nat, settled : BOOLEAN] /\ e.window = d.window
    OBVIOUS
  <2> HIDE DEF e
  <2>3. Reserved' = Reserved
    BY <2>1, <2>2
  <2>4. RgClockOK' /\ OneOwner'
    BY <2>1, <2>2
  <2>5. QED BY <2>1, <2>3, <2>4
<1>3. CASE TestRuns(d)
  <2>1. Windows' = Windows
    BY <1>3 DEF TestRuns
  <2>2. RgClockOK' /\ OneOwner'
    BY <1>3 DEF TestRuns
  <2>3. QED BY <1>3, <2>1, <2>2 DEF TestRuns
<1>4. QED BY <1>1, <1>2, <1>3 DEF Settled, Bounced

\* A reconnect that dispatches a test does so the floor after every window that
\* was, or may still be, used.
LEMMA RgReconnectStep == ASSUME RgInv, Reconnected PROVE RgInv'
<1> USE GateAssumption DEF RgInv, RgClockOK, OneOwner, Spaced, GateTrue, Windows, Reserved
<1> PICK wanted \in BOOLEAN :
        LET runs == wanted /\ Allows(rgLast.speed, SpeedGap)
            settle == IF rgNow - rgLink >= SettleAfter THEN Settle ELSE 0
        IN  /\ rgLast' = [netinfo |-> IF Allows(rgLast.netinfo, NetinfoGap) THEN rgNow ELSE rgLast.netinfo,
                          speed |-> IF runs THEN rgNow ELSE rgLast.speed]
            /\ rgWaiting' = IF runs THEN rgWaiting \cup {[window |-> rgNow, until |-> rgNow + settle,
                                                           settled |-> FALSE]}
                            ELSE rgWaiting
  BY DEF Reconnected
<1>0. UNCHANGED <<rgNow, rgInterval, rgTaken, rgMeasured>> /\ rgLink' = 0
  BY DEF Reconnected
<1>1. CASE ~(wanted /\ Allows(rgLast.speed, SpeedGap))
  <2>1. UNCHANGED <<rgWaiting, rgLast.speed>> /\ rgLast' \in [netinfo : 0..rgNow, speed : 0..rgNow]
    BY <1>1
  <2>2. QED BY <1>0, <2>1
<1>2. CASE wanted /\ Allows(rgLast.speed, SpeedGap)
  <2> DEFINE d == [window |-> rgNow, until |-> rgNow + (IF rgNow - rgLink >= SettleAfter THEN Settle ELSE 0),
                   settled |-> FALSE]
  <2>1. rgLast'.speed = rgNow /\ rgWaiting' = rgWaiting \cup {d} /\ rgLast' \in [netinfo : 0..rgNow, speed : 0..rgNow]
    BY <1>2
  <2>2. \A m \in Windows : rgNow - m >= SpeedGapFloor
    BY <1>2, GapAtLeastFloor DEF Allows
  <2>3. rgNow \notin Windows
    BY <2>2
  <2>4. d \in [window : 1..rgNow, until : Nat, settled : BOOLEAN] /\ d.window = rgNow
    OBVIOUS
  <2> HIDE DEF d
  <2>9. Windows' = Windows \cup {rgNow}
    BY <1>0, <2>1, <2>4
  <2>5. RgClockOK'
    BY <1>0, <2>1, <2>4
  <2>6. OneOwner'
    BY <1>0, <2>1, <2>3, <2>4
  <2>7. Spaced' /\ GateTrue'
    BY <1>0, <2>1, <2>2, <2>3, <2>9
  <2>8. QED BY <2>5, <2>6, <2>7
<1>3. QED BY <1>1, <1>2

\* Every step of the gate keeps its invariant.
LEMMA RgInvStep == ASSUME RgInv, [RgNext]_rgVars PROVE RgInv'
  BY RgQuietStep, RgOverStep, RgReconnectStep DEF RgNext

\* The invariant of the gate holds in every state.
LEMMA RgInvHolds == RgSpec => []RgInv
  BY RgInvInit, RgInvStep, PTL DEF RgSpec

-----------------------------------------------------------------------------
(* ReconnectGate: theorems                                                 *)

\* The variables keep their types, for any bound on time.
THEOREM GateTypeCorrect == RgSpec => []RgTypeOK
<1>1. ASSUME RgClockOK PROVE RgTypeOK
  <2>1. 0..rgNow \subseteq 0..LastMinute /\ 1..rgNow \subseteq 1..LastMinute
    BY <1>1, GateAssumption DEF RgClockOK
  <2>2. rgLast.netinfo \in 0..rgNow /\ rgLast.speed \in 0..rgNow
        /\ rgLast = [netinfo |-> rgLast.netinfo, speed |-> rgLast.speed]
    BY <1>1 DEF RgClockOK
  <2>3. rgLast \in [netinfo : 0..LastMinute, speed : 0..LastMinute]
    BY <2>1, <2>2
  <2>4. QED BY <1>1, <2>1, <2>3 DEF RgClockOK, RgTypeOK
<1>2. QED BY <1>1, RgInvHolds, PTL DEF RgInv

\* A closed window is earned and two that ran are the floor apart, for all
\* gaps, settle times and intervals, and however often the link flaps.
THEOREM GateIsEarned == RgSpec => []WindowEarned
<1>1. RgInv => WindowEarned
  BY DEF RgInv, Spaced, GateTrue, Windows, Reserved, WindowEarned
<1>2. QED BY <1>1, RgInvHolds, PTL

\* No two tests share a window, and each that runs had one of its own.
THEOREM OneTestPerWindow == RgSpec => []OneOwner
<1>1. RgInv => OneOwner
  BY DEF RgInv
<1>2. QED BY <1>1, RgInvHolds, PTL

-----------------------------------------------------------------------------
(* DnsProbe: a lookup belongs to the round that asked                      *)

InFlight == dnProbe.at # "free"

\* Before a round's own lookup, everything on record is of an earlier round.
RoundIsNew ==
    /\ dnVoid \cup dnStored \subseteq 1..dnRounds
    /\ InFlight => dnProbe.of \in 1..dnRounds
    /\ dnLoop.at \in {"probe", "tail"} =>
          /\ 1 <= dnRounds /\ dnRounds \notin dnVoid \cup dnStored
          /\ InFlight => dnProbe.of # dnRounds

\* A lookup that was called off before it published is of an earlier
\* generation; one that has published was not called off.
CalledOffIsOld ==
    /\ dnProbe.gen <= dnGen
    /\ dnProbe.at \in Unpublished /\ dnProbe.of \in dnVoid => dnProbe.gen # dnGen
    /\ dnProbe.at = "publish" => dnProbe.of \notin dnVoid

\* A row is written once.
StoredOnce == InFlight => dnProbe.of \notin dnStored

\* Only an answer that nobody has judged yet may be one the shutdown cut short,
\* and it says so by failing.
CutIsFailure ==
    /\ dnProbe.cut => dnProbe.at = "answered" /\ dnStop /\ ~dnProbe.ok

\* The log and the reading move together.
SaidIsReading ==
    IF dnReading.seen THEN dnSaid = "down" <=> ~dnReading.ok ELSE dnSaid = "nothing"

ReadingAskedFor ==
    /\ dnStored \cap dnVoid = {}
    /\ dnReading.seen => dnReading.of \notin dnVoid

DnInv ==
    /\ DnTypeOK /\ RoundIsNew /\ CalledOffIsOld /\ StoredOnce
    /\ CutIsFailure /\ SaidIsReading /\ ReadingAskedFor

\* No lookup is out before the first round.
LEMMA DnInvInit == ASSUME DnInit PROVE DnInv
<1> USE DnsAssumption DEF DnInit, NoReading, NoLookup
<1>1. DnTypeOK
  <2>1. dnSwitch \in [probing : BOOLEAN, dns : BOOLEAN]
    BY Zenon
  <2>2. /\ dnReading \in [seen : BOOLEAN, ok : BOOLEAN, of : 0..MaxRounds]
        /\ dnLoop \in [at : {"top", "probe", "tail", "returned"}, paused : BOOLEAN, was : BOOLEAN]
    OBVIOUS
  <2>3. dnProbe \in [at : Unpublished \cup {"free", "publish"}, gen : 0..MaxInterruptions, of : 0..MaxRounds,
                    ok : BOOLEAN, cut : BOOLEAN]
    BY DEF Unpublished
  <2>4. dnGen \in 0..MaxInterruptions /\ dnRounds \in 0..MaxRounds /\ dnVoid \cup dnStored \subseteq 1..MaxRounds
    OBVIOUS
  <2>5. dnStop \in BOOLEAN /\ dnSaid \in {"nothing", "down", "recovered"}
    BY Zenon
  <2>6. QED BY <2>1, <2>2, <2>3, <2>4, <2>5 DEF DnTypeOK
<1>2. QED BY <1>1 DEF DnInv, RoundIsNew, CalledOffIsOld, StoredOnce, CutIsFailure, SaidIsReading, ReadingAskedFor, InFlight, Unpublished

-----------------------------------------------------------------------------
(* DnsProbe: its steps                                                     *)

\* The parts that only look at the lookup, the reading and their records.
LEMMA DnDropStep ==
    ASSUME DnInv, ReadingDropped, dnGen < MaxInterruptions, UNCHANGED <<dnProbe, dnStored, dnRounds, dnStop>>,
           dnLoop'.at \in {"probe", "tail"} => dnLoop.at \in {"probe", "tail"},
           dnSwitch' = dnSwitch, dnLoop' \in [at : {"top", "probe", "tail", "returned"}, paused : BOOLEAN, was : BOOLEAN]
    PROVE  DnInv'
<1> USE DnsAssumption DEF DnInv, ReadingDropped, InFlight
<1>1. dnVoid' \subseteq 1..dnRounds
  BY DEF RoundIsNew, Unpublished
<1>2. DnTypeOK'
  BY <1>1 DEF DnTypeOK, NoReading
<1>3. RoundIsNew'
  BY <1>1 DEF RoundIsNew, Unpublished, DnTypeOK
<1>4. CalledOffIsOld'
  BY DEF CalledOffIsOld, Unpublished, DnTypeOK
<1>5. ReadingAskedFor'
  BY DEF ReadingAskedFor, StoredOnce, Unpublished, NoReading
<1>6. QED BY <1>2, <1>3, <1>4, <1>5 DEF StoredOnce, CutIsFailure, SaidIsReading, NoReading

\* The loop, the gates and the shutdown.
LEMMA DnLoopStep ==
    ASSUME DnInv, GateMoves \/ ShutDown \/ ResumeNoticed \/ RoundBegins \/ RoundProbed \/ RunReturns \/ UNCHANGED dnVars
    PROVE  DnInv'
<1> USE DnsAssumption DEF DnInv, DnTypeOK, InFlight, RoundIsNew, CalledOffIsOld, StoredOnce, CutIsFailure, SaidIsReading,
        ReadingAskedFor, Kept
<1>1. CASE GateMoves
  <2>1. dnSwitch' \in [probing : BOOLEAN, dns : BOOLEAN]
    BY <1>1 DEF GateMoves
  <2>2. QED BY <1>1, <2>1 DEF GateMoves
<1>2. CASE ShutDown BY <1>2 DEF ShutDown
<1>3. CASE ResumeNoticed BY <1>3 DEF ResumeNoticed
<1>4. CASE RoundBegins BY <1>4 DEF RoundBegins
<1>5. CASE RoundProbed BY <1>5 DEF RoundProbed
<1>6. CASE RunReturns BY <1>6 DEF RunReturns
<1>7. CASE UNCHANGED dnVars BY <1>7 DEF dnVars
<1>8. QED BY <1>1, <1>2, <1>3, <1>4, <1>5, <1>6, <1>7

\* A pause calls off the lookups that are out.
LEMMA DnPauseStep == ASSUME DnInv, PauseNoticed PROVE DnInv'
  BY DnDropStep DEF PauseNoticed, DnInv, DnTypeOK

\* The round's own lookup starts when none is in flight, so that it meets no
\* record of its round; where the switch went off, none starts.
LEMMA DnLookUpStep == ASSUME DnInv, RoundLooksUp PROVE DnInv'
<1>0. /\ dnLoop' \in [at : {"top", "probe", "tail", "returned"}, paused : BOOLEAN, was : BOOLEAN]
      /\ dnLoop'.at = "top"
      /\ UNCHANGED <<dnSwitch, dnStop, dnRounds, dnStored>>
  BY DEF DnInv, DnTypeOK, RoundLooksUp
<1>1. CASE ~dnSwitch.dns /\ dnLoop.was
  BY <1>0, <1>1, DnDropStep DEF RoundLooksUp
<1>2. CASE ~(~dnSwitch.dns /\ dnLoop.was)
  <2>0. UNCHANGED <<dnGen, dnReading, dnSaid, dnVoid>>
    BY <1>2 DEF RoundLooksUp, Kept
  <2>1. CASE ~(dnSwitch.dns /\ dnProbe.at = "free")
    <3>1. dnProbe' = dnProbe
      BY <2>1 DEF RoundLooksUp
    <3>2. DnTypeOK'
      BY <1>0, <2>0, <3>1 DEF DnInv, DnTypeOK
    <3>3. RoundIsNew'
      BY <1>0, <2>0, <3>1 DEF DnInv, RoundIsNew, InFlight
    <3>4. CalledOffIsOld' /\ StoredOnce' /\ ReadingAskedFor'
      BY <1>0, <2>0, <3>1 DEF DnInv, CalledOffIsOld, StoredOnce, ReadingAskedFor, InFlight
    <3>5. CutIsFailure' /\ SaidIsReading'
      BY <1>0, <2>0, <3>1 DEF DnInv, CutIsFailure, SaidIsReading
    <3>6. QED BY <3>2, <3>3, <3>4, <3>5 DEF DnInv
  <2>2. CASE dnSwitch.dns /\ dnProbe.at = "free"
    <3>1. dnProbe' = [at |-> "lookup", gen |-> dnGen, of |-> dnRounds, ok |-> FALSE, cut |-> FALSE]
      BY <2>2 DEF RoundLooksUp, NoLookup
    <3>2. dnRounds \in 1..MaxRounds /\ dnRounds \notin dnVoid \cup dnStored /\ dnGen \in 0..MaxInterruptions
      BY DnsAssumption DEF DnInv, DnTypeOK, RoundIsNew, RoundLooksUp
    <3>3. /\ dnProbe'.at = "lookup" /\ dnProbe'.gen = dnGen /\ dnProbe'.of = dnRounds
          /\ dnProbe'.ok = FALSE /\ dnProbe'.cut = FALSE
      BY <3>1
    <3>4. dnProbe' \in [at : Unpublished \cup {"free", "publish"}, gen : 0..MaxInterruptions,
                        of : 0..MaxRounds, ok : BOOLEAN, cut : BOOLEAN]
      BY <3>1, <3>2 DEF Unpublished
    <3>5. DnTypeOK'
      BY <1>0, <2>0, <3>2, <3>4 DEF DnInv, DnTypeOK
    <3>6. RoundIsNew'
      BY <1>0, <2>0, <3>2, <3>3 DEF DnInv, DnTypeOK, RoundIsNew, InFlight
    <3>7. CalledOffIsOld' /\ StoredOnce'
      BY <1>0, <2>0, <3>2, <3>3 DEF DnInv, CalledOffIsOld, StoredOnce, InFlight, Unpublished
    <3>8. CutIsFailure'
      BY <3>3 DEF CutIsFailure
    <3>9. SaidIsReading' /\ ReadingAskedFor'
      BY <1>0, <2>0 DEF DnInv, SaidIsReading, ReadingAskedFor
    <3>10. QED BY <3>5, <3>6, <3>7, <3>8, <3>9 DEF DnInv
  <2>3. QED BY <2>1, <2>2
<1>3. QED BY <1>1, <1>2

\* The lookup's goroutine: its answer is compared with the generation twice.
LEMMA DnLookupStep ==
    ASSUME DnInv, Answers \/ AnswerJudged \/ Publishes \/ Stores
    PROVE  DnInv'
<1> USE DnsAssumption DEF Kept, Mine
<1>1. CASE Answers
  <2>1. PICK ok \in BOOLEAN, cut \in BOOLEAN :
            /\ cut => dnStop /\ ~ok
            /\ dnProbe' = [dnProbe EXCEPT !.at = "answered", !.ok = ok, !.cut = cut]
    BY <1>1 DEF Answers
  <2>2. /\ dnProbe.at = "lookup" /\ dnProbe'.at = "answered" /\ dnProbe'.gen = dnProbe.gen
        /\ dnProbe'.of = dnProbe.of /\ dnProbe'.ok = ok /\ dnProbe'.cut = cut
    BY <1>1, <2>1 DEF DnInv, DnTypeOK, Answers
  <2>3. DnTypeOK'
    BY <1>1, <2>1 DEF DnInv, DnTypeOK, Answers, Unpublished
  <2>4. UNCHANGED <<dnSwitch, dnLoop, dnStop, dnRounds, dnStored, dnGen, dnReading, dnSaid, dnVoid>>
    BY <1>1 DEF Answers
  <2>5. RoundIsNew' /\ CalledOffIsOld' /\ StoredOnce'
    BY <2>2, <2>4 DEF DnInv, InFlight, RoundIsNew, CalledOffIsOld, StoredOnce, Unpublished
  <2>6. CutIsFailure'
    BY <2>1, <2>2, <2>4 DEF CutIsFailure
  <2>7. SaidIsReading' /\ ReadingAskedFor'
    BY <2>4 DEF DnInv, SaidIsReading, ReadingAskedFor
  <2>8. QED BY <2>3, <2>5, <2>6, <2>7 DEF DnInv
<1>2. CASE dnProbe' = NoLookup /\ UNCHANGED <<dnGen, dnReading, dnSaid, dnVoid, dnSwitch, dnLoop, dnStop, dnRounds>>
           /\ (dnStored' = dnStored \/ (dnProbe.at = "publish" /\ dnStored' = dnStored \cup {dnProbe.of}))
  <2>1. dnStored' \subseteq 1..dnRounds /\ dnStored' \subseteq 1..MaxRounds
    BY <1>2 DEF DnInv, DnTypeOK, RoundIsNew, InFlight
  <2>2. DnTypeOK'
    BY <1>2, <2>1 DEF DnInv, DnTypeOK, NoLookup
  <2>3. dnLoop.at \in {"probe", "tail"} => dnRounds \notin dnStored'
    BY <1>2 DEF DnInv, RoundIsNew, InFlight
  <2>4. RoundIsNew'
    BY <1>2, <2>1, <2>3 DEF DnInv, RoundIsNew, InFlight, NoLookup
  <2>5. CalledOffIsOld' /\ StoredOnce' /\ CutIsFailure' /\ SaidIsReading'
    BY <1>2 DEF DnInv, DnTypeOK, CalledOffIsOld, StoredOnce, CutIsFailure, SaidIsReading, InFlight, NoLookup, Unpublished
  <2>6. ReadingAskedFor'
    BY <1>2 DEF DnInv, CalledOffIsOld, ReadingAskedFor
  <2>7. QED BY <2>2, <2>4, <2>5, <2>6 DEF DnInv
<1>3. CASE AnswerJudged
  <2>1. CASE dnGen # dnProbe.gen \/ (~dnProbe.ok /\ dnStop)
    BY <1>2, <1>3, <2>1 DEF AnswerJudged, Over
  <2>2. CASE ~(dnGen # dnProbe.gen \/ (~dnProbe.ok /\ dnStop))
    <3>1. dnProbe' = [dnProbe EXCEPT !.at = "judged"] /\ dnProbe.at = "answered"
      BY <1>3, <2>2 DEF AnswerJudged, Goes
    <3>2. /\ dnProbe'.at = "judged" /\ dnProbe'.gen = dnProbe.gen /\ dnProbe'.of = dnProbe.of
          /\ dnProbe'.ok = dnProbe.ok /\ dnProbe'.cut = dnProbe.cut
      BY <3>1 DEF DnInv, DnTypeOK
    <3>3. DnTypeOK'
      BY <1>3, <3>1 DEF DnInv, DnTypeOK, AnswerJudged, Unpublished
    <3>4. QED
      BY <1>3, <2>2, <3>1, <3>2, <3>3 DEF AnswerJudged, DnInv, InFlight, RoundIsNew, CalledOffIsOld, StoredOnce,
         CutIsFailure, SaidIsReading, ReadingAskedFor, Unpublished
  <2>3. QED BY <2>1, <2>2
<1>4. CASE Publishes
  <2>1. CASE dnGen # dnProbe.gen
    BY <1>2, <1>4, <2>1 DEF Publishes, Over
  <2>2. CASE dnGen = dnProbe.gen
    <3>1. /\ dnProbe.at = "judged" /\ dnProbe' = [dnProbe EXCEPT !.at = "publish"]
          /\ dnReading' = [seen |-> TRUE, ok |-> dnProbe.ok, of |-> dnProbe.of]
      BY <1>4, <2>2 DEF Publishes, ReadingPublished, Goes
    <3>2. /\ dnProbe'.at = "publish" /\ dnProbe'.gen = dnProbe.gen /\ dnProbe'.of = dnProbe.of
          /\ dnProbe'.ok = dnProbe.ok /\ dnProbe'.cut = dnProbe.cut
          /\ dnReading'.seen /\ dnReading'.ok = dnProbe.ok /\ dnReading'.of = dnProbe.of
      BY <3>1 DEF DnInv, DnTypeOK
    <3>3. UNCHANGED <<dnSwitch, dnLoop, dnStop, dnRounds, dnStored, dnGen, dnVoid>>
      BY <1>4, <2>2 DEF Publishes, ReadingPublished
    <3>4. dnSaid' \in {"nothing", "down", "recovered"} /\ SaidIsReading'
      BY <1>4, <2>2, <3>2 DEF Publishes, ReadingPublished, DnInv, DnTypeOK, SaidIsReading
    <3>5. dnProbe.of \notin dnVoid
      BY <2>2, <3>1 DEF DnInv, CalledOffIsOld, Unpublished
    <3>6. DnTypeOK'
      BY <3>1, <3>3, <3>4 DEF DnInv, DnTypeOK, Unpublished
    <3>7. QED
      BY <3>1, <3>2, <3>3, <3>4, <3>5, <3>6 DEF DnInv, InFlight, RoundIsNew, CalledOffIsOld, StoredOnce,
         CutIsFailure, ReadingAskedFor, Unpublished
  <2>3. QED BY <2>1, <2>2
<1>5. CASE Stores
  BY <1>2, <1>5 DEF Stores, Over
<1>6. QED BY <1>1, <1>3, <1>4, <1>5

\* Every step of the probe keeps its invariant.
LEMMA DnInvStep == ASSUME DnInv, [DnNext]_dnVars PROVE DnInv'
  BY DnLoopStep, DnPauseStep, DnLookUpStep, DnLookupStep DEF DnNext

\* The invariant of the probe holds in every state.
LEMMA DnInvHolds == DnSpec => []DnInv
  BY DnInvInit, DnInvStep, PTL DEF DnSpec

-----------------------------------------------------------------------------
(* DnsProbe: theorems                                                      *)

\* The variables keep their types, for any bounds.
THEOREM DnTypeCorrect == DnSpec => []DnTypeOK
<1>1. DnInv => DnTypeOK
  BY DEF DnInv
<1>2. QED BY <1>1, DnInvHolds, PTL

\* The reading, the log and the rows come from lookups nobody had called off,
\* however many rounds and interruptions a lookup outlasts.
THEOREM ReadingIsLive == DnSpec => []ReadingsLive
<1>1. DnInv => ReadingsLive
  BY DEF DnInv, ReadingAskedFor, CutIsFailure, SaidIsReading, ReadingsLive
<1>2. QED BY <1>1, DnInvHolds, PTL

\* No lookup is stored twice.
THEOREM RowWrittenOnce == DnSpec => []StoredOnce
<1>1. DnInv => StoredOnce
  BY DEF DnInv
<1>2. QED BY <1>1, DnInvHolds, PTL

-----------------------------------------------------------------------------
(* NetinfoRefresh: the router on show is the network's                     *)

Places == {"idle", "forced", "fetch", "claim", "publish", "bust", "exit", "trace", "patch", "done"}
Refreshes ==
    [at : Places, gen : Nat, known : Nat, prev : Nat, ip : Nat, found : {"none", "v4", "v6", "nothing"},
     startGen : Nat, net : Nat, exit : Nat, retry : BOOLEAN]
Panels == [ip : Nat, exit : Nat, carried : BOOLEAN, gen : Nat]

NiShape ==
    /\ niNet \in 1..(MaxMoves + 1) /\ niGen \in 0..MaxRefreshes /\ niPublished \in Nat /\ niLastIPv4 \in Nat
    /\ niInfo \in Panels /\ niCache \in [exit : Nat, fresh : BOOLEAN] /\ niTraceGen \in Nat
    /\ niTracing \in Refreshers \cup {NoTracer}
    /\ niRefresh \in [Refreshers -> Refreshes] /\ niMissed \in BOOLEAN

\* Nothing is of a network the host has not been on, a refresh that has not
\* begun or a bust that has not been.
NothingAhead ==
    /\ niPublished <= niGen /\ niInfo.gen <= niPublished /\ niLastIPv4 <= niNet
    /\ \A w \in Refreshers :
          /\ niRefresh[w].gen <= niGen /\ niRefresh[w].known <= niNet /\ niRefresh[w].ip <= niNet
          /\ niRefresh[w].startGen <= niTraceGen

\* The address on record is the last IPv4 there was, or none.
RecordIsLast == niInfo.ip \in {NoIPv4, niLastIPv4}

Begun(w) == niRefresh[w].at \notin {"idle", "forced"}

GensDiffer ==
    \A v, w \in Refreshers : v # w /\ Begun(v) /\ Begun(w) => niRefresh[v].gen # niRefresh[w].gen

\* What a refresh has found, by where it is.
FoundIs ==
    \A w \in Refreshers : LET me == niRefresh[w] IN
        /\ me.prev \in {NoIPv4, me.known}
        /\ me.at \in {"claim", "publish"} /\ me.found = "v4" => me.ip # NoIPv4
        /\ me.at \in {"claim", "publish"} => me.found \in {"v4", "v6", "nothing"}
        /\ me.at = "publish" => me.gen <= niPublished
        /\ me.at = "publish" /\ me.found = "v6" => me.ip = NoIPv4
        /\ me.at = "publish" /\ me.found = "nothing" => me.ip = me.prev

Follows(w) == niRefresh[w].at \in {"bust", "exit", "trace", "patch"}

\* What follows a publish belongs to a refresh that had its turn; while none
\* began to publish since, the panel shows that one.
ShowsTheNewest ==
    \A w \in Refreshers : Follows(w) =>
        /\ niRefresh[w].gen <= niPublished
        /\ niRefresh[w].gen = niPublished =>
              niInfo.gen = niPublished /\ niInfo.ip = niRefresh[w].ip /\ niInfo.ip # NoIPv4

\* Somebody knows the network the host is on by its address.
Known == niLastIPv4 = niNet \/ \E w \in Refreshers : niRefresh[w].known = niNet

\* What is cached, or will be, is of this network.
CacheIsHere ==
    /\ niCache.exit \in {NoExit, niNet}
    /\ \A w \in Refreshers : niRefresh[w].at = "trace" =>
          niRefresh[w].startGen # niTraceGen \/ niRefresh[w].net = niNet

Busting == \E w \in Refreshers : niRefresh[w].at = "bust" /\ niRefresh[w].gen = niPublished

KnownIsClean == Known => CacheIsHere \/ Busting

\* Before there was an address, nothing was traced.
NothingTraced ==
    niLastIPv4 = NoIPv4 => niCache.exit = NoExit /\ \A w \in Refreshers : niRefresh[w].at # "trace"

\* What the newest refresh is about to patch in, and what is on show.
PatchIsHere ==
    \A w \in Refreshers : niRefresh[w].at = "patch" /\ niRefresh[w].gen = niPublished /\ niRefresh[w].ip = niNet
        => niRefresh[w].exit \in {NoExit, niNet}
ShownIsHere == niInfo.ip = niNet => niInfo.exit \in {NoExit, niNet}

Bookkeeping == NothingAhead /\ RecordIsLast /\ GensDiffer /\ FoundIs /\ ShowsTheNewest
RouterKept == KnownIsClean /\ NothingTraced /\ PatchIsHere /\ ShownIsHere

NiInv == NiShape /\ Bookkeeping /\ (~niMissed => RouterKept)

\* No network is known before the first refresh.
LEMMA NiInvInit == ASSUME NiInit PROVE NiInv
<1>1. NotRefreshing \in Refreshes
  BY DEF NotRefreshing, Refreshes, Places, NoIPv4, NoExit
<1>2. niNet = 1 /\ niGen = 0 /\ niPublished = 0 /\ niLastIPv4 = 0 /\ niTraceGen = 0 /\ niMissed = FALSE
  BY DEF NiInit, NoIPv4
<1>3. niInfo = [ip |-> 0, exit |-> 0, carried |-> FALSE, gen |-> 0] /\ niCache = [exit |-> 0, fresh |-> FALSE]
  BY DEF NiInit, NoIPv4, NoExit
<1>4. NiShape
  <2>1. niRefresh \in [Refreshers -> Refreshes] /\ niTracing \in Refreshers \cup {NoTracer}
    BY <1>1 DEF NiInit
  <2>2. niInfo \in Panels /\ niCache \in [exit : Nat, fresh : BOOLEAN]
    BY <1>3 DEF Panels
  <2>3. niNet \in 1..(MaxMoves + 1) /\ niGen \in 0..MaxRefreshes
    BY <1>2, NetinfoAssumption
  <2>4. QED BY <1>2, <2>1, <2>2, <2>3 DEF NiShape
<1>5. \A w \in Refreshers : niRefresh[w] = NotRefreshing /\ niRefresh[w].at = "idle" /\ niRefresh[w].gen = 0
        /\ niRefresh[w].known = 0 /\ niRefresh[w].ip = 0 /\ niRefresh[w].startGen = 0 /\ niRefresh[w].prev = 0
  BY DEF NiInit, NotRefreshing, NoIPv4
<1>6. Bookkeeping
  BY <1>2, <1>3, <1>5 DEF Bookkeeping, NothingAhead, RecordIsLast, GensDiffer, Begun, FoundIs, ShowsTheNewest,
     Follows, NoIPv4
<1>7. RouterKept
  BY <1>2, <1>3, <1>5 DEF RouterKept, KnownIsClean, Known, CacheIsHere, NothingTraced, PatchIsHere, ShownIsHere, NoExit
<1>8. QED BY <1>4, <1>6, <1>7 DEF NiInv

\* One refresh's turn leaves the others as they are.
LEMMA TurnIs ==
  ASSUME NiShape, NEW w \in Refreshers, NEW r \in Refreshes, niRefresh' = [niRefresh EXCEPT ![w] = r]
  PROVE  /\ niRefresh' \in [Refreshers -> Refreshes] /\ niRefresh'[w] = r
         /\ \A v \in Refreshers \ {w} : niRefresh'[v] = niRefresh[v]
         /\ \A v \in Refreshers : niRefresh[v] \in Refreshes
  BY DEF NiShape

\* What follows a publish keeps the books.
LEMMA LaterKeepsBooks ==
  ASSUME NiShape, Bookkeeping, NEW w \in Refreshers, NEW r \in Refreshes, niRefresh' = [niRefresh EXCEPT ![w] = r],
         Follows(w), r.at \in {"exit", "trace", "patch", "done"},
         r.gen = niRefresh[w].gen, r.known = niRefresh[w].known, r.prev = niRefresh[w].prev,
         r.ip = niRefresh[w].ip, r.found = niRefresh[w].found,
         niTraceGen' \in Nat, niTraceGen <= niTraceGen', r.startGen <= niTraceGen',
         niNet' = niNet, niGen' = niGen, niPublished' = niPublished, niLastIPv4' = niLastIPv4,
         niInfo'.ip = niInfo.ip, niInfo'.gen = niInfo.gen
  PROVE  Bookkeeping'
<1>1. \A v \in Refreshers \ {w} : niRefresh'[v] = niRefresh[v]
  BY TurnIs
<1>2. niRefresh'[w] = r /\ \A v \in Refreshers : niRefresh[v] \in Refreshes
  BY TurnIs
<1>3. niRefresh[w].at \in {"bust", "exit", "trace", "patch"}
  BY DEF Follows
<1>4. NothingAhead'
  BY <1>1, <1>2 DEF Bookkeeping, NothingAhead, NiShape, Refreshes
<1>5. RecordIsLast'
  BY DEF Bookkeeping, RecordIsLast
<1>6. GensDiffer'
  BY <1>1, <1>2, <1>3 DEF Bookkeeping, GensDiffer, Begun
<1>7. FoundIs'
  BY <1>1, <1>2, <1>3 DEF Bookkeeping, FoundIs
<1>8. ShowsTheNewest'
  BY <1>1, <1>2, <1>3 DEF Bookkeeping, ShowsTheNewest, Follows
<1>9. QED BY <1>4, <1>5, <1>6, <1>7, <1>8 DEF Bookkeeping

\* The address that is known is the last one published.
LEMMA KnownIs == ASSUME NiShape, Bookkeeping PROVE KnownIPv4 = niLastIPv4
  BY DEF Bookkeeping, RecordIsLast, KnownIPv4, NoIPv4

\* A refresh that shows the network the host is on, and is the newest, has
\* nobody left to clear the cache for it.
LEMMA NewestIsClean ==
  ASSUME NiShape, Bookkeeping, RouterKept, NEW w \in Refreshers, Follows(w), niRefresh[w].at # "bust",
         niRefresh[w].gen = niPublished, niRefresh[w].ip = niNet
  PROVE  CacheIsHere
<1>1. niInfo.ip = niNet /\ niNet # NoIPv4
  BY DEF Bookkeeping, ShowsTheNewest, NiShape, NoIPv4
<1>2. Known
  BY <1>1 DEF Bookkeeping, RecordIsLast, Known
<1>3. ~Busting
  BY DEF Busting, Bookkeeping, GensDiffer, Begun, Follows
<1>4. QED BY <1>2, <1>3 DEF RouterKept, KnownIsClean

-----------------------------------------------------------------------------
\* From the exit a refresh takes to the panel it patches.

\* A served exit, and one taken when a wait for another's trace is cut.
LEMMA ExitTakenKeeps == ASSUME NiInv, NEW w \in Refreshers, ExitServed(w) \/ WaitCut(w) PROVE NiInv'
<1> DEFINE me == niRefresh[w]
           r == [me EXCEPT !.at = "patch", !.exit = niCache.exit]
<1>1. niRefresh' = [niRefresh EXCEPT ![w] = r] /\ me.at = "exit"
  BY DEF ExitServed, WaitCut
<1>2. niNet' = niNet /\ niGen' = niGen /\ niPublished' = niPublished /\ niInfo' = niInfo /\ niLastIPv4' = niLastIPv4
      /\ niCache' = niCache /\ niTraceGen' = niTraceGen /\ niTracing' = niTracing /\ niMissed' = niMissed
  BY DEF ExitServed, WaitCut, niPanel, niTrace
<1>3. me \in Refreshes /\ r \in Refreshes
  BY DEF NiInv, NiShape, Refreshes, Places
<1>4. /\ r.at = "patch" /\ r.exit = niCache.exit /\ r.gen = me.gen /\ r.known = me.known
      /\ r.prev = me.prev /\ r.ip = me.ip /\ r.found = me.found /\ r.startGen = me.startGen
  BY <1>3 DEF Refreshes
<1> HIDE DEF r
<1>5. NiShape /\ Bookkeeping
  BY DEF NiInv
<1>6. niRefresh' \in [Refreshers -> Refreshes] /\ niRefresh'[w] = r
      /\ \A v \in Refreshers \ {w} : niRefresh'[v] = niRefresh[v]
  BY <1>1, <1>3, <1>5, TurnIs
<1>7. NiShape'
  BY <1>2, <1>5, <1>6 DEF NiShape
<1>8. Bookkeeping'
  <2>1. niTraceGen' \in Nat /\ niTraceGen <= niTraceGen' /\ r.startGen <= niTraceGen' /\ Follows(w)
    BY <1>1, <1>2, <1>4, <1>5 DEF NiShape, Bookkeeping, NothingAhead, Follows
  <2>2. QED BY <1>1, <1>2, <1>3, <1>4, <1>5, <2>1, LaterKeepsBooks
<1>9. ASSUME ~niMissed' PROVE RouterKept'
  <2>1. RouterKept
    BY <1>2, <1>9 DEF NiInv
  <2>2. CacheIsHere => CacheIsHere'
    BY <1>2, <1>4, <1>6 DEF CacheIsHere
  <2>3. Busting => Busting'
    BY <1>1, <1>2, <1>6 DEF Busting
  <2>4. Known' => Known
    BY <1>2, <1>4, <1>6 DEF Known
  <2>5. KnownIsClean'
    BY <2>1, <2>2, <2>3, <2>4 DEF RouterKept, KnownIsClean
  <2>6. NothingTraced'
    BY <1>2, <1>4, <1>6, <2>1 DEF RouterKept, NothingTraced
  <2>7. me.gen = niPublished /\ me.ip = niNet => niCache.exit \in {NoExit, niNet}
    BY <1>1, <1>5, <2>1, NewestIsClean DEF Follows, CacheIsHere
  <2>8. PatchIsHere'
    BY <1>2, <1>4, <1>6, <2>1, <2>7 DEF RouterKept, PatchIsHere
  <2>9. ShownIsHere'
    BY <1>2, <2>1 DEF RouterKept, ShownIsHere
  <2>10. QED BY <2>5, <2>6, <2>8, <2>9 DEF RouterKept
<1>10. QED BY <1>7, <1>8, <1>9 DEF NiInv

\* A trace begins on the network the host is on.
LEMMA TraceStartsKeeps == ASSUME NiInv, NEW w \in Refreshers, TraceStarts(w) PROVE NiInv'
<1> DEFINE me == niRefresh[w]
           r == [me EXCEPT !.at = "trace", !.startGen = niTraceGen, !.net = niNet]
<1>1. niRefresh' = [niRefresh EXCEPT ![w] = r] /\ me.at = "exit" /\ niTracing' = w
  BY DEF TraceStarts
<1>2. niNet' = niNet /\ niGen' = niGen /\ niPublished' = niPublished /\ niInfo' = niInfo /\ niLastIPv4' = niLastIPv4
      /\ niCache' = niCache /\ niTraceGen' = niTraceGen /\ niMissed' = (niMissed \/ KnownIPv4 = NoIPv4)
  BY DEF TraceStarts, niPanel
<1>3. me \in Refreshes /\ r \in Refreshes
  <2>1. me \in Refreshes /\ niTraceGen \in Nat /\ niNet \in Nat
    BY DEF NiInv, NiShape
  <2>2. QED BY <2>1 DEF Refreshes, Places
<1>4. /\ r.at = "trace" /\ r.startGen = niTraceGen /\ r.net = niNet /\ r.gen = me.gen /\ r.known = me.known
      /\ r.prev = me.prev /\ r.ip = me.ip /\ r.found = me.found
  BY <1>3 DEF Refreshes
<1> HIDE DEF r
<1>5. NiShape /\ Bookkeeping
  BY DEF NiInv
<1>6. niRefresh' \in [Refreshers -> Refreshes] /\ niRefresh'[w] = r
      /\ \A v \in Refreshers \ {w} : niRefresh'[v] = niRefresh[v]
  BY <1>1, <1>3, <1>5, TurnIs
<1>7. NiShape'
  BY <1>1, <1>2, <1>5, <1>6 DEF NiShape
<1>8. Bookkeeping'
  <2>1. niTraceGen' \in Nat /\ niTraceGen <= niTraceGen' /\ r.startGen <= niTraceGen' /\ Follows(w)
    BY <1>1, <1>2, <1>4, <1>5 DEF NiShape, Bookkeeping, NothingAhead, Follows
  <2>2. QED BY <1>1, <1>2, <1>3, <1>4, <1>5, <2>1, LaterKeepsBooks
<1>9. ASSUME ~niMissed' PROVE RouterKept'
  <2>1. RouterKept /\ niLastIPv4 # NoIPv4
    BY <1>2, <1>5, <1>9, KnownIs DEF NiInv
  <2>2. CacheIsHere => CacheIsHere'
    BY <1>2, <1>4, <1>6 DEF CacheIsHere
  <2>3. Busting => Busting'
    BY <1>1, <1>2, <1>6 DEF Busting
  <2>4. Known' => Known
    BY <1>2, <1>4, <1>6 DEF Known
  <2>5. KnownIsClean'
    BY <2>1, <2>2, <2>3, <2>4 DEF RouterKept, KnownIsClean
  <2>6. NothingTraced'
    BY <1>2, <2>1 DEF NothingTraced
  <2>7. PatchIsHere'
    BY <1>2, <1>4, <1>6, <2>1 DEF RouterKept, PatchIsHere
  <2>8. ShownIsHere'
    BY <1>2, <2>1 DEF RouterKept, ShownIsHere
  <2>9. QED BY <2>5, <2>6, <2>7, <2>8 DEF RouterKept
<1>10. QED BY <1>7, <1>8, <1>9 DEF NiInv

\* A trace that was not overtaken by a bust answers for the network the host is
\* on, wherever that network is known.
LEMMA TraceEndsKeeps == ASSUME NiInv, NEW w \in Refreshers, TraceEnds(w) PROVE NiInv'
<1> DEFINE me == niRefresh[w]
           r == [me EXCEPT !.at = "patch", !.exit = niCache'.exit]
<1>1. niRefresh' = [niRefresh EXCEPT ![w] = r] /\ me.at = "trace" /\ niTracing' = NoTracer
  BY DEF TraceEnds
<1>2. niNet' = niNet /\ niGen' = niGen /\ niPublished' = niPublished /\ niInfo' = niInfo /\ niLastIPv4' = niLastIPv4
      /\ niTraceGen' = niTraceGen /\ niMissed' = niMissed
  BY DEF TraceEnds, niPanel
<1>3. me \in Refreshes
  BY DEF NiInv, NiShape
<1>4. /\ niCache' \in [exit : Nat, fresh : BOOLEAN]
      /\ niTraceGen # me.startGen => niCache' = niCache
      /\ niCache'.exit \in {me.net, niNet, NoExit, niCache.exit}
  <2>1. PICK end \in {"found", "failed", "dropped", "cancelled"}, on \in {me.net, niNet} :
              niCache' = IF niTraceGen # me.startGen THEN niCache
                         ELSE [exit |-> CASE end = "found" -> on [] end = "dropped" -> NoExit [] OTHER -> niCache.exit,
                               fresh |-> end # "cancelled" \/ niCache.fresh]
    BY DEF TraceEnds
  <2> DEFINE exit == CASE end = "found" -> on [] end = "dropped" -> NoExit [] OTHER -> niCache.exit
  <2>2. exit \in {me.net, niNet, NoExit, niCache.exit}
    OBVIOUS
  <2>3. niCache \in [exit : Nat, fresh : BOOLEAN] /\ niNet \in Nat /\ me.net \in Nat /\ NoExit \in Nat
    BY <1>3 DEF NiInv, NiShape, Refreshes, NoExit
  <2>4. exit \in Nat
    BY <2>2, <2>3
  <2> HIDE DEF exit
  <2>5. CASE niTraceGen # me.startGen
    BY <2>1, <2>3, <2>5
  <2>6. CASE niTraceGen = me.startGen
    <3>1. niCache' = [exit |-> exit, fresh |-> end # "cancelled" \/ niCache.fresh]
      BY <2>1, <2>6 DEF exit
    <3>2. (end # "cancelled" \/ niCache.fresh) \in BOOLEAN
      BY <2>3
    <3>3. QED BY <2>2, <2>4, <2>6, <3>1, <3>2
  <2>7. QED BY <2>5, <2>6
<1>5. r \in Refreshes
  <2>1. niCache'.exit \in Nat
    BY <1>4
  <2>2. QED BY <1>3, <2>1 DEF Refreshes, Places
<1>6. /\ r.at = "patch" /\ r.exit = niCache'.exit /\ r.gen = me.gen /\ r.known = me.known
      /\ r.prev = me.prev /\ r.ip = me.ip /\ r.found = me.found /\ r.startGen = me.startGen
  BY <1>3 DEF Refreshes
<1> HIDE DEF r
<1>7. NiShape /\ Bookkeeping
  BY DEF NiInv
<1>8. niRefresh' \in [Refreshers -> Refreshes] /\ niRefresh'[w] = r
      /\ \A v \in Refreshers \ {w} : niRefresh'[v] = niRefresh[v]
  BY <1>1, <1>5, <1>7, TurnIs
<1>9. NiShape'
  BY <1>1, <1>2, <1>4, <1>7, <1>8 DEF NiShape
<1>10. Bookkeeping'
  <2>1. niTraceGen' \in Nat /\ niTraceGen <= niTraceGen' /\ r.startGen <= niTraceGen' /\ Follows(w)
    BY <1>1, <1>2, <1>6, <1>7 DEF NiShape, Bookkeeping, NothingAhead, Follows
  <2>2. QED BY <1>1, <1>2, <1>5, <1>6, <1>7, <2>1, LaterKeepsBooks
<1>11. ASSUME ~niMissed' PROVE RouterKept'
  <2>1. RouterKept
    BY <1>2, <1>11 DEF NiInv
  <2>2. CacheIsHere => CacheIsHere'
    <3>1. CacheIsHere => niCache'.exit \in {NoExit, niNet}
      BY <1>1, <1>4 DEF CacheIsHere
    <3>2. QED BY <1>2, <1>6, <1>8, <3>1 DEF CacheIsHere
  <2>3. Busting => Busting'
    BY <1>1, <1>2, <1>8 DEF Busting
  <2>4. Known' => Known
    BY <1>2, <1>6, <1>8 DEF Known
  <2>5. KnownIsClean'
    BY <2>1, <2>2, <2>3, <2>4 DEF RouterKept, KnownIsClean
  <2>6. NothingTraced'
    BY <1>1, <1>2, <2>1 DEF RouterKept, NothingTraced
  <2>7. me.gen = niPublished /\ me.ip = niNet => niCache'.exit \in {NoExit, niNet}
    <3>1. me.gen = niPublished /\ me.ip = niNet => CacheIsHere
      BY <1>1, <1>7, <2>1, NewestIsClean DEF Follows
    <3>2. QED BY <1>2, <2>2, <3>1 DEF CacheIsHere
  <2>8. PatchIsHere'
    BY <1>2, <1>6, <1>8, <2>1, <2>7 DEF RouterKept, PatchIsHere
  <2>9. ShownIsHere'
    BY <1>2, <2>1 DEF RouterKept, ShownIsHere
  <2>10. QED BY <2>5, <2>6, <2>8, <2>9 DEF RouterKept
<1>12. QED BY <1>9, <1>10, <1>11 DEF NiInv

\* What the newest refresh patches in is of the network on show.
LEMMA ExitPatchedKeeps == ASSUME NiInv, NEW w \in Refreshers, ExitPatched(w) PROVE NiInv'
<1> DEFINE me == niRefresh[w]
           r == [me EXCEPT !.at = "done"]
<1>1. niRefresh' = [niRefresh EXCEPT ![w] = r] /\ me.at = "patch"
  BY DEF ExitPatched, Step
<1>2. niNet' = niNet /\ niGen' = niGen /\ niPublished' = niPublished /\ niLastIPv4' = niLastIPv4
      /\ niCache' = niCache /\ niTraceGen' = niTraceGen /\ niTracing' = niTracing /\ niMissed' = niMissed
  BY DEF ExitPatched, niTrace
<1>3. me \in Refreshes /\ r \in Refreshes
  BY DEF NiInv, NiShape, Refreshes, Places
<1>4. /\ r.at = "done" /\ r.gen = me.gen /\ r.known = me.known
      /\ r.prev = me.prev /\ r.ip = me.ip /\ r.found = me.found /\ r.startGen = me.startGen
  BY <1>3 DEF Refreshes
<1> HIDE DEF r
<1>5. NiShape /\ Bookkeeping
  BY DEF NiInv
<1>6. niRefresh' \in [Refreshers -> Refreshes] /\ niRefresh'[w] = r
      /\ \A v \in Refreshers \ {w} : niRefresh'[v] = niRefresh[v]
  BY <1>1, <1>3, <1>5, TurnIs
<1>7. /\ niInfo' \in Panels /\ niInfo'.ip = niInfo.ip /\ niInfo'.gen = niInfo.gen
      /\ niInfo'.exit # niInfo.exit => niPublished = me.gen /\ niInfo'.exit = me.exit
  BY <1>3, <1>5 DEF ExitPatched, NiShape, Panels, Refreshes
<1>8. NiShape'
  BY <1>2, <1>5, <1>6, <1>7 DEF NiShape
<1>9. Bookkeeping'
  <2>1. niTraceGen' \in Nat /\ niTraceGen <= niTraceGen' /\ r.startGen <= niTraceGen' /\ Follows(w)
    BY <1>1, <1>2, <1>4, <1>5 DEF NiShape, Bookkeeping, NothingAhead, Follows
  <2>2. QED BY <1>1, <1>2, <1>3, <1>4, <1>5, <1>7, <2>1, LaterKeepsBooks
<1>10. ASSUME ~niMissed' PROVE RouterKept'
  <2>1. RouterKept
    BY <1>2, <1>10 DEF NiInv
  <2>2. CacheIsHere => CacheIsHere'
    BY <1>2, <1>4, <1>6 DEF CacheIsHere
  <2>3. Busting => Busting'
    BY <1>1, <1>2, <1>6 DEF Busting
  <2>4. Known' => Known
    BY <1>2, <1>4, <1>6 DEF Known
  <2>5. KnownIsClean'
    BY <2>1, <2>2, <2>3, <2>4 DEF RouterKept, KnownIsClean
  <2>6. NothingTraced'
    BY <1>2, <1>4, <1>6, <2>1 DEF RouterKept, NothingTraced
  <2>7. PatchIsHere'
    BY <1>2, <1>4, <1>6, <2>1 DEF RouterKept, PatchIsHere
  <2>8. ShownIsHere'
    <3>1. niPublished = me.gen => niInfo.ip = me.ip
      BY <1>1, <1>5 DEF Bookkeeping, ShowsTheNewest, Follows
    <3>2. QED BY <1>1, <1>2, <1>7, <2>1, <3>1 DEF RouterKept, ShownIsHere, PatchIsHere
  <2>9. QED BY <2>5, <2>6, <2>7, <2>8 DEF RouterKept
<1>11. QED BY <1>8, <1>9, <1>10 DEF NiInv

\* The newest refresh's bust clears the cache, and dates every trace under way;
\* a refresh that is not the newest was not the one to do it.
LEMMA BustedKeeps == ASSUME NiInv, NEW w \in Refreshers, Busted(w) PROVE NiInv'
<1> DEFINE me == niRefresh[w]
           r == [me EXCEPT !.at = "exit"]
<1>1. niRefresh' = [niRefresh EXCEPT ![w] = r] /\ me.at = "bust"
  BY DEF Busted, Step
<1>2. niNet' = niNet /\ niGen' = niGen /\ niPublished' = niPublished /\ niInfo' = niInfo /\ niLastIPv4' = niLastIPv4
      /\ niTracing' = niTracing /\ niMissed' = niMissed
  BY DEF Busted, niPanel
<1>3. me \in Refreshes /\ r \in Refreshes
  BY DEF NiInv, NiShape, Refreshes, Places
<1>4. /\ r.at = "exit" /\ r.gen = me.gen /\ r.known = me.known
      /\ r.prev = me.prev /\ r.ip = me.ip /\ r.found = me.found /\ r.startGen = me.startGen
  BY <1>3 DEF Refreshes
<1> HIDE DEF r
<1>5. NiShape /\ Bookkeeping
  BY DEF NiInv
<1>6. niRefresh' \in [Refreshers -> Refreshes] /\ niRefresh'[w] = r
      /\ \A v \in Refreshers \ {w} : niRefresh'[v] = niRefresh[v]
  BY <1>1, <1>3, <1>5, TurnIs
<1>7. /\ niCache' \in [exit : Nat, fresh : BOOLEAN] /\ niTraceGen' \in Nat /\ niTraceGen <= niTraceGen'
      /\ niPublished = me.gen => niCache'.exit = NoExit /\ niTraceGen' = niTraceGen + 1
      /\ niPublished # me.gen => niCache' = niCache /\ niTraceGen' = niTraceGen
  <2>1. niCache \in [exit : Nat, fresh : BOOLEAN] /\ niTraceGen \in Nat /\ NoExit \in Nat
    BY <1>5 DEF NiShape, NoExit
  <2>2. CASE niPublished = me.gen
    <3>1. niCache' = [niCache EXCEPT !.exit = NoExit, !.fresh = FALSE] /\ niTraceGen' = niTraceGen + 1
      BY <2>2 DEF Busted
    <3>2. niCache' \in [exit : Nat, fresh : BOOLEAN] /\ niCache'.exit = NoExit
      BY <2>1, <3>1
    <3>3. niTraceGen' \in Nat /\ niTraceGen <= niTraceGen'
      BY <2>1, <3>1
    <3>4. QED BY <2>2, <3>1, <3>2, <3>3
  <2>3. CASE niPublished # me.gen
    <3>1. niCache' = niCache /\ niTraceGen' = niTraceGen
      BY <2>3 DEF Busted
    <3>2. QED BY <2>1, <2>3, <3>1
  <2>4. QED BY <2>2, <2>3
<1>8. NiShape'
  BY <1>2, <1>5, <1>6, <1>7 DEF NiShape
<1>9. Bookkeeping'
  <2>1. r.startGen <= niTraceGen' /\ Follows(w)
    BY <1>1, <1>3, <1>4, <1>5, <1>7 DEF NiShape, Bookkeeping, NothingAhead, Follows, Refreshes
  <2>2. QED BY <1>1, <1>2, <1>3, <1>4, <1>5, <1>7, <2>1, LaterKeepsBooks
<1>10. ASSUME ~niMissed' PROVE RouterKept'
  <2>1. RouterKept
    BY <1>2, <1>10 DEF NiInv
  <2>2. KnownIsClean'
    <3>1. CASE niPublished = me.gen
      <4>1. \A v \in Refreshers : niRefresh'[v].startGen \in Nat /\ niRefresh'[v].startGen <= niTraceGen
        BY <1>3, <1>4, <1>5, <1>6 DEF NiShape, Refreshes, Bookkeeping, NothingAhead
      <4>2. \A v \in Refreshers : niRefresh'[v].startGen # niTraceGen'
        BY <1>5, <1>7, <3>1, <4>1 DEF NiShape
      <4>3. CacheIsHere'
        BY <1>7, <3>1, <4>2 DEF CacheIsHere
      <4>4. QED BY <4>3 DEF KnownIsClean
    <3>2. CASE niPublished # me.gen
      <4>1. CacheIsHere => CacheIsHere'
        BY <1>2, <1>4, <1>6, <1>7, <3>2 DEF CacheIsHere
      <4>2. Busting => Busting'
        BY <1>1, <1>2, <1>6, <3>2 DEF Busting
      <4>3. Known' => Known
        BY <1>2, <1>4, <1>6 DEF Known
      <4>4. QED BY <2>1, <4>1, <4>2, <4>3 DEF RouterKept, KnownIsClean
    <3>3. QED BY <3>1, <3>2
  <2>3. NothingTraced'
    BY <1>2, <1>4, <1>6, <1>7, <2>1 DEF RouterKept, NothingTraced
  <2>4. PatchIsHere'
    BY <1>2, <1>4, <1>6, <2>1 DEF RouterKept, PatchIsHere
  <2>5. ShownIsHere'
    BY <1>2, <2>1 DEF RouterKept, ShownIsHere
  <2>6. QED BY <2>2, <2>3, <2>4, <2>5 DEF RouterKept
<1>11. QED BY <1>8, <1>9, <1>10 DEF NiInv

-----------------------------------------------------------------------------
\* From the operator's button to the publish.

\* A button, or its repeat, makes what is traced next be traced again.
LEMMA AskedKeeps == ASSUME NiInv, NEW w \in Refreshers, RefreshAsked(w) \/ RefreshRetried(w) PROVE NiInv'
<1>1. PICK r \in Refreshes :
        /\ niRefresh' = [niRefresh EXCEPT ![w] = r] /\ r.at \in {"idle", "forced"}
        /\ r.gen = 0 /\ r.known = 0 /\ r.prev = 0 /\ r.ip = 0 /\ r.startGen = 0
  <2> DEFINE a == [NotRefreshing EXCEPT !.at = "forced", !.retry = TRUE]
             b == [NotRefreshing EXCEPT !.at = "forced"]
  <2>1. \A r \in {a, b, NotRefreshing} : r \in Refreshes /\ r.at \in {"idle", "forced"}
                /\ r.gen = 0 /\ r.known = 0 /\ r.prev = 0 /\ r.ip = 0 /\ r.startGen = 0
    <3>1. /\ NotRefreshing \in Refreshes /\ NotRefreshing.at = "idle" /\ NotRefreshing.gen = 0 /\ NotRefreshing.known = 0
          /\ NotRefreshing.prev = 0 /\ NotRefreshing.ip = 0 /\ NotRefreshing.startGen = 0 /\ "forced" \in Places
      BY DEF NotRefreshing, Refreshes, Places, NoIPv4, NoExit
    <3>2. /\ b \in Refreshes /\ b.at = "forced" /\ b.gen = 0 /\ b.known = 0
          /\ b.prev = 0 /\ b.ip = 0 /\ b.startGen = 0
      BY <3>1 DEF Refreshes
    <3>3. /\ a \in Refreshes /\ a.at = "forced" /\ a.gen = 0 /\ a.known = 0
          /\ a.prev = 0 /\ a.ip = 0 /\ a.startGen = 0
      BY <3>1 DEF Refreshes
    <3> HIDE DEF a, b
    <3>4. QED BY <3>1, <3>2, <3>3
  <2>2. \E r \in {a, b, NotRefreshing} : niRefresh' = [niRefresh EXCEPT ![w] = r]
    BY DEF RefreshAsked, RefreshRetried
  <2> HIDE DEF a, b
  <2>3. QED BY <2>1, <2>2
<1>2. niNet' = niNet /\ niGen' = niGen /\ niPublished' = niPublished /\ niInfo' = niInfo /\ niLastIPv4' = niLastIPv4
      /\ niTracing' = niTracing /\ niMissed' = niMissed /\ niRefresh[w].at \in {"idle", "done"}
  BY DEF RefreshAsked, RefreshRetried, niPanel
<1>3. NiShape /\ Bookkeeping
  BY DEF NiInv
<1>4. /\ niCache' \in [exit : Nat, fresh : BOOLEAN] /\ niCache'.exit = niCache.exit
      /\ niTraceGen' = niTraceGen \/ niTraceGen' = niTraceGen + 1
  BY <1>3 DEF RefreshAsked, RefreshRetried, ForceTrace, NiShape
<1>5. niRefresh' \in [Refreshers -> Refreshes] /\ niRefresh'[w] = r
      /\ \A v \in Refreshers \ {w} : niRefresh'[v] = niRefresh[v]
  BY <1>1, <1>3, TurnIs
<1>6. niTraceGen \in Nat /\ niTraceGen' \in Nat /\ niTraceGen <= niTraceGen' /\ \A v \in Refreshers : niRefresh[v] \in Refreshes
  BY <1>3, <1>4 DEF NiShape
<1>7. NiShape'
  BY <1>2, <1>3, <1>4, <1>5, <1>6 DEF NiShape
<1>8. Bookkeeping'
  <2>1. NothingAhead'
    BY <1>1, <1>2, <1>3, <1>5, <1>6 DEF Bookkeeping, NothingAhead, NiShape, Refreshes
  <2>2. RecordIsLast'
    BY <1>2, <1>3 DEF Bookkeeping, RecordIsLast
  <2>3. GensDiffer'
    BY <1>1, <1>3, <1>5 DEF Bookkeeping, GensDiffer, Begun
  <2>4. FoundIs'
    BY <1>1, <1>2, <1>3, <1>5 DEF Bookkeeping, FoundIs, NoIPv4
  <2>5. ShowsTheNewest'
    BY <1>1, <1>2, <1>3, <1>5 DEF Bookkeeping, ShowsTheNewest, Follows
  <2>6. QED BY <2>1, <2>2, <2>3, <2>4, <2>5 DEF Bookkeeping
<1>9. ASSUME ~niMissed' PROVE RouterKept'
  <2>1. RouterKept
    BY <1>2, <1>9 DEF NiInv
  <2>2. CacheIsHere => CacheIsHere'
    <3>1. \A v \in Refreshers : niRefresh[v].startGen \in Nat /\ niRefresh[v].startGen <= niTraceGen
      BY <1>3, <1>6 DEF Refreshes, Bookkeeping, NothingAhead
    <3>2. \A v \in Refreshers : niRefresh[v].startGen # niTraceGen => niRefresh[v].startGen # niTraceGen'
      BY <1>4, <1>6, <3>1
    <3>3. QED BY <1>1, <1>2, <1>4, <1>5, <3>2 DEF CacheIsHere
  <2>3. Busting => Busting'
    BY <1>2, <1>5 DEF Busting
  <2>4. Known' => Known
    BY <1>1, <1>2, <1>3, <1>5 DEF Known, NiShape
  <2>5. KnownIsClean'
    BY <2>1, <2>2, <2>3, <2>4 DEF RouterKept, KnownIsClean
  <2>6. NothingTraced'
    BY <1>1, <1>2, <1>4, <1>5, <2>1 DEF RouterKept, NothingTraced
  <2>7. PatchIsHere'
    BY <1>1, <1>2, <1>5, <2>1 DEF RouterKept, PatchIsHere
  <2>8. ShownIsHere'
    BY <1>2, <2>1 DEF RouterKept, ShownIsHere
  <2>9. QED BY <2>5, <2>6, <2>7, <2>8 DEF RouterKept
<1>10. QED BY <1>7, <1>8, <1>9 DEF NiInv

First(gen, known, prev, retry) ==
    [NotRefreshing EXCEPT !.at = "fetch", !.gen = gen, !.known = known, !.prev = prev, !.retry = retry]

\* A refresh begins with what it was started under.
LEMMA FirstIs ==
  ASSUME NEW gen \in Nat, NEW known \in Nat, NEW prev \in Nat, NEW retry \in BOOLEAN
  PROVE  LET r == First(gen, known, prev, retry)
         IN  /\ r \in Refreshes /\ r.at = "fetch" /\ r.gen = gen /\ r.known = known /\ r.prev = prev
             /\ r.ip = 0 /\ r.startGen = 0
<1>1. /\ NotRefreshing \in Refreshes /\ NotRefreshing.ip = 0 /\ NotRefreshing.startGen = 0
      /\ "fetch" \in Places
  BY DEF NotRefreshing, Refreshes, Places, NoIPv4, NoExit
<1>2. QED BY <1>1 DEF Refreshes, First

\* A refresh begins with the address on record.
LEMMA RefreshStartsKeeps == ASSUME NiInv, NEW w \in Refreshers, RefreshStarts(w) PROVE NiInv'
<1> DEFINE me == niRefresh[w]
           retry == me.at = "forced" /\ me.retry
           r == [NotRefreshing EXCEPT !.at = "fetch", !.gen = niGen', !.known = KnownIPv4, !.prev = niInfo.ip,
                                      !.retry = retry]
<1>1. niRefresh' = [niRefresh EXCEPT ![w] = r] /\ me.at \in {"idle", "forced"} /\ niGen < MaxRefreshes
      /\ niGen' = niGen + 1
  BY DEF RefreshStarts
<1>2. niNet' = niNet /\ niPublished' = niPublished /\ niInfo' = niInfo /\ niLastIPv4' = niLastIPv4
      /\ niCache' = niCache /\ niTraceGen' = niTraceGen /\ niTracing' = niTracing /\ niMissed' = niMissed
  BY DEF RefreshStarts, niTrace
<1>3. NiShape /\ Bookkeeping /\ KnownIPv4 = niLastIPv4
  BY KnownIs DEF NiInv
<1>4. me \in Refreshes /\ niGen' \in 0..MaxRefreshes /\ niLastIPv4 \in Nat /\ niInfo.ip \in Nat
      /\ niGen \in Nat /\ niTraceGen \in Nat /\ niPublished \in Nat
  BY <1>1, <1>3, NetinfoAssumption DEF NiShape, Panels
<1>5. retry \in BOOLEAN /\ niGen + 1 \in Nat
  BY <1>4 DEF Refreshes
<1> HIDE DEF retry
<1>6. r = First(niGen + 1, niLastIPv4, niInfo.ip, retry)
  BY <1>1, <1>3 DEF First
<1> HIDE DEF r
<1>7. /\ r \in Refreshes /\ r.at = "fetch" /\ r.gen = niGen + 1 /\ r.known = niLastIPv4 /\ r.prev = niInfo.ip
      /\ r.ip = 0 /\ r.startGen = 0
  <2> DEFINE gen == niGen + 1
             known == niLastIPv4
             prev == niInfo.ip
  <2>1. gen \in Nat /\ known \in Nat /\ prev \in Nat
    BY <1>4, <1>5
  <2>2. r = First(gen, known, prev, retry)
    BY <1>6
  <2> HIDE DEF gen, known, prev
  <2>3. /\ First(gen, known, prev, retry) \in Refreshes /\ First(gen, known, prev, retry).at = "fetch"
        /\ First(gen, known, prev, retry).gen = gen /\ First(gen, known, prev, retry).known = known
        /\ First(gen, known, prev, retry).prev = prev /\ First(gen, known, prev, retry).ip = 0
        /\ First(gen, known, prev, retry).startGen = 0
    BY <1>5, <2>1, FirstIs
  <2>4. QED BY <2>2, <2>3 DEF gen, known, prev
<1>8. niRefresh' \in [Refreshers -> Refreshes] /\ niRefresh'[w] = r
      /\ \A v \in Refreshers \ {w} : niRefresh'[v] = niRefresh[v]
  BY <1>1, <1>3, <1>7, TurnIs
<1>9. NiShape'
  BY <1>2, <1>3, <1>4, <1>8 DEF NiShape
<1>10. \A v \in Refreshers : niRefresh[v] \in Refreshes
  BY <1>3 DEF NiShape
<1>11. Bookkeeping'
  <2>1. NothingAhead'
    BY <1>1, <1>2, <1>3, <1>4, <1>7, <1>8, <1>10 DEF Bookkeeping, NothingAhead, NiShape, Refreshes
  <2>2. RecordIsLast'
    BY <1>2, <1>3 DEF Bookkeeping, RecordIsLast
  <2>3. GensDiffer'
    <3>1. \A v \in Refreshers \ {w} : niRefresh'[v].gen # niRefresh'[w].gen
      BY <1>3, <1>4, <1>7, <1>8, <1>10 DEF Bookkeeping, NothingAhead, Refreshes
    <3>2. QED BY <1>3, <1>8, <3>1 DEF Bookkeeping, GensDiffer, Begun
  <2>4. FoundIs'
    BY <1>2, <1>3, <1>7, <1>8 DEF Bookkeeping, FoundIs, RecordIsLast, NoIPv4
  <2>5. ShowsTheNewest'
    BY <1>2, <1>3, <1>7, <1>8 DEF Bookkeeping, ShowsTheNewest, Follows
  <2>6. QED BY <2>1, <2>2, <2>3, <2>4, <2>5 DEF Bookkeeping
<1>12. ASSUME ~niMissed' PROVE RouterKept'
  <2>1. RouterKept
    BY <1>2, <1>12 DEF NiInv
  <2>2. CacheIsHere => CacheIsHere'
    BY <1>2, <1>7, <1>8 DEF CacheIsHere
  <2>3. Busting => Busting'
    BY <1>1, <1>2, <1>8 DEF Busting
  <2>4. Known' => Known
    BY <1>2, <1>7, <1>8 DEF Known
  <2>5. KnownIsClean'
    BY <2>1, <2>2, <2>3, <2>4 DEF RouterKept, KnownIsClean
  <2>6. NothingTraced'
    BY <1>2, <1>7, <1>8, <2>1 DEF RouterKept, NothingTraced
  <2>7. PatchIsHere'
    BY <1>2, <1>7, <1>8, <2>1 DEF RouterKept, PatchIsHere
  <2>8. ShownIsHere'
    BY <1>2, <2>1 DEF RouterKept, ShownIsHere
  <2>9. QED BY <2>5, <2>6, <2>7, <2>8 DEF RouterKept
<1>13. QED BY <1>9, <1>11, <1>12 DEF NiInv

\* An IPv4 address that a refresh finds is of the network the host is on.
LEMMA AddressedKeeps == ASSUME NiInv, NEW w \in Refreshers, Addressed(w) PROVE NiInv'
<1> DEFINE me == niRefresh[w]
<1>1. PICK found \in {"v4", "v6", "nothing"} :
        niRefresh' = [niRefresh EXCEPT ![w].at = "claim", ![w].found = found,
                                       ![w].ip = IF found = "v4" THEN niNet ELSE NoIPv4]
  BY DEF Addressed
<1> DEFINE ip == IF found = "v4" THEN niNet ELSE NoIPv4
           r == [me EXCEPT !.at = "claim", !.found = found, !.ip = ip]
<1>2. niNet' = niNet /\ niGen' = niGen /\ niPublished' = niPublished /\ niInfo' = niInfo /\ niLastIPv4' = niLastIPv4
      /\ niCache' = niCache /\ niTraceGen' = niTraceGen /\ niTracing' = niTracing /\ niMissed' = niMissed
      /\ me.at = "fetch"
  BY DEF Addressed, niPanel, niTrace
<1>3. NiShape /\ Bookkeeping
  BY DEF NiInv
<1>4. me \in Refreshes /\ ip \in Nat /\ ip <= niNet /\ (found = "v4" => ip # NoIPv4)
  BY <1>3 DEF NiShape, NoIPv4
<1>5. niRefresh' = [niRefresh EXCEPT ![w] = r]
  BY <1>1
<1> HIDE DEF ip
<1>6. r \in Refreshes /\ r.at = "claim" /\ r.found = found /\ r.ip = ip /\ r.gen = me.gen /\ r.known = me.known
      /\ r.prev = me.prev /\ r.startGen = me.startGen
  BY <1>4 DEF Refreshes, Places
<1> HIDE DEF r
<1>7. niRefresh' \in [Refreshers -> Refreshes] /\ niRefresh'[w] = r
      /\ \A v \in Refreshers \ {w} : niRefresh'[v] = niRefresh[v]
  BY <1>3, <1>5, <1>6, TurnIs
<1>8. NiShape'
  BY <1>2, <1>3, <1>7 DEF NiShape
<1>9. Bookkeeping'
  <2>1. NothingAhead'
    BY <1>2, <1>3, <1>4, <1>6, <1>7 DEF Bookkeeping, NothingAhead
  <2>2. RecordIsLast'
    BY <1>2, <1>3 DEF Bookkeeping, RecordIsLast
  <2>3. GensDiffer'
    BY <1>2, <1>3, <1>6, <1>7 DEF Bookkeeping, GensDiffer, Begun
  <2>4. FoundIs'
    BY <1>2, <1>3, <1>4, <1>6, <1>7 DEF Bookkeeping, FoundIs
  <2>5. ShowsTheNewest'
    BY <1>2, <1>3, <1>6, <1>7 DEF Bookkeeping, ShowsTheNewest, Follows
  <2>6. QED BY <2>1, <2>2, <2>3, <2>4, <2>5 DEF Bookkeeping
<1>10. ASSUME ~niMissed' PROVE RouterKept'
  <2>1. RouterKept
    BY <1>2, <1>10 DEF NiInv
  <2>2. CacheIsHere => CacheIsHere'
    BY <1>2, <1>6, <1>7 DEF CacheIsHere
  <2>3. Busting => Busting'
    BY <1>2, <1>7 DEF Busting
  <2>4. Known' => Known
    BY <1>2, <1>6, <1>7 DEF Known
  <2>5. KnownIsClean'
    BY <2>1, <2>2, <2>3, <2>4 DEF RouterKept, KnownIsClean
  <2>6. NothingTraced'
    BY <1>2, <1>6, <1>7, <2>1 DEF RouterKept, NothingTraced
  <2>7. PatchIsHere'
    BY <1>2, <1>6, <1>7, <2>1 DEF RouterKept, PatchIsHere
  <2>8. ShownIsHere'
    BY <1>2, <2>1 DEF RouterKept, ShownIsHere
  <2>9. QED BY <2>5, <2>6, <2>7, <2>8 DEF RouterKept
<1>11. QED BY <1>8, <1>9, <1>10 DEF NiInv

\* What a fetch ends with: what it found, or what was on record before.
Ended(me, flips) ==
    [me EXCEPT !.at = "publish", !.found = IF me.found = "v6" /\ ~flips THEN "nothing" ELSE me.found,
               !.ip = IF me.found = "v4" THEN me.ip ELSE IF flips THEN NoIPv4 ELSE me.prev]

\* A fetch ends with the address it found, the last one, or none.
LEMMA EndedIs ==
  ASSUME NEW me \in Refreshes, NEW flips \in BOOLEAN, me.found \in {"v4", "v6", "nothing"},
         flips => me.found = "v6", me.found = "v6" /\ me.prev = NoIPv4 => flips
  PROVE  LET r == Ended(me, flips)
         IN  /\ r \in Refreshes /\ r.at = "publish" /\ r.gen = me.gen /\ r.known = me.known
             /\ r.prev = me.prev /\ r.startGen = me.startGen
             /\ r.found \in {"v4", "v6", "nothing"} /\ r.ip \in {NoIPv4, me.ip, me.prev}
             /\ (r.found = "v4" => me.found = "v4" /\ r.ip = me.ip)
             /\ (r.found = "v6" => r.ip = NoIPv4) /\ (r.found = "nothing" => r.ip = me.prev)
<1> DEFINE found == IF me.found = "v6" /\ ~flips THEN "nothing" ELSE me.found
           ip == IF me.found = "v4" THEN me.ip ELSE IF flips THEN NoIPv4 ELSE me.prev
<1>1. found \in {"v4", "v6", "nothing"} /\ ip \in {NoIPv4, me.ip, me.prev} /\ ip \in Nat
  BY DEF Refreshes, NoIPv4
<1>2. /\ found = "v4" => me.found = "v4" /\ ip = me.ip
      /\ found = "v6" => ip = NoIPv4
      /\ found = "nothing" => ip = me.prev
  OBVIOUS
<1>3. Ended(me, flips) = [me EXCEPT !.at = "publish", !.found = found, !.ip = ip]
  BY DEF Ended
<1> HIDE DEF found, ip
<1>4. QED BY <1>1, <1>2, <1>3 DEF Refreshes, Places

\* The end of a fetch overtakes the refreshes that began before it.
LEMMA FetchEndsKeeps == ASSUME NiInv, NEW w \in Refreshers, FetchEnds(w) PROVE NiInv'
<1> DEFINE me == niRefresh[w]
<1>1. PICK flips \in BOOLEAN :
        /\ niRefresh' = [niRefresh EXCEPT ![w] = Ended(me, flips)]
        /\ flips => me.found = "v6"
        /\ me.found = "v6" /\ me.prev = NoIPv4 => flips
  BY DEF FetchEnds, Ended
<1> DEFINE r == Ended(me, flips)
<1>2. niNet' = niNet /\ niGen' = niGen /\ niInfo' = niInfo /\ niLastIPv4' = niLastIPv4
      /\ niCache' = niCache /\ niTraceGen' = niTraceGen /\ niTracing' = niTracing /\ me.at = "claim"
      /\ niPublished' = Max({niPublished, me.gen})
      /\ niMissed' = (niMissed \/ \E v \in Refreshers : niRefresh[v].at = "bust")
  BY DEF FetchEnds, niTrace
<1>3. NiShape /\ Bookkeeping
  BY DEF NiInv
<1>4. me \in Refreshes /\ me.found \in {"v4", "v6", "nothing"} /\ niPublished \in Nat /\ me.gen \in Nat
  <2>1. me \in Refreshes
    BY <1>3 DEF NiShape
  <2>2. me.found \in {"v4", "v6", "nothing"}
    BY <1>2, <1>3 DEF Bookkeeping, FoundIs
  <2>3. QED BY <1>3, <2>1, <2>2 DEF NiShape, Refreshes
<1>5. /\ niPublished' \in Nat /\ niPublished <= niPublished' /\ me.gen <= niPublished'
      /\ niPublished' \in {niPublished, me.gen}
  <2>1. niPublished \in Int /\ me.gen \in Int
    BY <1>4
  <2> DEFINE m == Max({niPublished, me.gen})
  <2>2. m \in {niPublished, me.gen} /\ m >= niPublished /\ m >= me.gen
    BY <2>1, MaxOfTwo
  <2>3. niPublished' = m
    BY <1>2
  <2> HIDE DEF m
  <2>4. QED BY <1>4, <2>2, <2>3
<1>6. /\ r \in Refreshes /\ r.at = "publish" /\ r.gen = me.gen /\ r.known = me.known
      /\ r.prev = me.prev /\ r.startGen = me.startGen
      /\ r.found \in {"v4", "v6", "nothing"} /\ r.ip \in {NoIPv4, me.ip, me.prev}
      /\ (r.found = "v4" => me.found = "v4" /\ r.ip = me.ip)
      /\ (r.found = "v6" => r.ip = NoIPv4) /\ (r.found = "nothing" => r.ip = me.prev)
  BY <1>1, <1>4, EndedIs
<1>7. niRefresh' = [niRefresh EXCEPT ![w] = r]
  BY <1>1
<1> HIDE DEF r
<1>8. niRefresh' \in [Refreshers -> Refreshes] /\ niRefresh'[w] = r
      /\ \A v \in Refreshers \ {w} : niRefresh'[v] = niRefresh[v]
  BY <1>3, <1>6, <1>7, TurnIs
<1>9. NiShape'
  BY <1>2, <1>3, <1>5, <1>8 DEF NiShape
<1>10. \A v \in Refreshers : niRefresh[v] \in Refreshes /\ niRefresh[v].gen \in Nat
  BY <1>3 DEF NiShape, Refreshes
<1>11. Bookkeeping'
  <2>1. NothingAhead'
    <3>1. niInfo.gen \in Nat /\ niNet \in Nat /\ niGen \in Nat
      BY <1>3 DEF NiShape, Panels
    <3>2. niPublished' <= niGen' /\ niInfo'.gen <= niPublished' /\ niLastIPv4' <= niNet'
      BY <1>2, <1>3, <1>4, <1>5, <3>1 DEF Bookkeeping, NothingAhead
    <3>3. r.gen <= niGen' /\ r.known <= niNet' /\ r.startGen <= niTraceGen'
      BY <1>2, <1>3, <1>6 DEF Bookkeeping, NothingAhead
    <3>4. r.ip <= niNet'
      BY <1>2, <1>3, <1>6, <3>1 DEF Bookkeeping, NothingAhead, FoundIs, NoIPv4
    <3>5. QED BY <1>2, <1>3, <1>8, <3>2, <3>3, <3>4 DEF Bookkeeping, NothingAhead
  <2>2. RecordIsLast'
    BY <1>2, <1>3 DEF Bookkeeping, RecordIsLast
  <2>3. GensDiffer'
    BY <1>2, <1>3, <1>6, <1>8 DEF Bookkeeping, GensDiffer, Begun
  <2>4. FoundIs'
    <3>1. r.found = "v4" => r.ip # NoIPv4
      BY <1>2, <1>3, <1>6 DEF Bookkeeping, FoundIs
    <3>2. \A v \in Refreshers : niRefresh[v].gen <= niPublished => niRefresh[v].gen <= niPublished'
      BY <1>4, <1>5, <1>10
    <3>3. r.gen <= niPublished' /\ r.prev \in {NoIPv4, r.known}
      BY <1>3, <1>5, <1>6 DEF Bookkeeping, FoundIs
    <3>4. QED BY <1>3, <1>6, <1>8, <3>1, <3>2, <3>3 DEF Bookkeeping, FoundIs
  <2>5. ShowsTheNewest'
    <3>1. \A v \in Refreshers : Follows(v)' => v # w /\ Follows(v) /\ niRefresh'[v] = niRefresh[v]
      BY <1>6, <1>8 DEF Follows
    <3>2. \A v \in Refreshers : Follows(v) => niRefresh[v].gen <= niPublished'
      BY <1>3, <1>4, <1>5, <1>10 DEF Bookkeeping, ShowsTheNewest
    <3>3. \A v \in Refreshers : Follows(v) /\ niRefresh[v].gen = niPublished' => niPublished' = niPublished
      BY <1>3, <1>4, <1>5, <1>10 DEF Bookkeeping, ShowsTheNewest
    <3>4. QED BY <1>2, <1>3, <3>1, <3>2, <3>3 DEF Bookkeeping, ShowsTheNewest
  <2>6. QED BY <2>1, <2>2, <2>3, <2>4, <2>5 DEF Bookkeeping
<1>12. ASSUME ~niMissed' PROVE RouterKept'
  <2>1. RouterKept /\ ~Busting
    BY <1>2, <1>12 DEF NiInv, Busting
  <2>2. CacheIsHere => CacheIsHere'
    BY <1>2, <1>6, <1>8 DEF CacheIsHere
  <2>3. Known' => Known
    BY <1>2, <1>6, <1>8 DEF Known
  <2>4. KnownIsClean'
    BY <2>1, <2>2, <2>3 DEF RouterKept, KnownIsClean
  <2>5. NothingTraced'
    BY <1>2, <1>6, <1>8, <2>1 DEF RouterKept, NothingTraced
  <2>6. PatchIsHere'
    <3>1. \A v \in Refreshers : niRefresh[v].at = "patch" /\ niRefresh[v].gen = niPublished' => niPublished' = niPublished
      BY <1>3, <1>4, <1>5, <1>10 DEF Bookkeeping, ShowsTheNewest, Follows
    <3>2. QED BY <1>2, <1>6, <1>8, <2>1, <3>1 DEF RouterKept, PatchIsHere
  <2>7. ShownIsHere'
    BY <1>2, <2>1 DEF RouterKept, ShownIsHere
  <2>8. QED BY <2>4, <2>5, <2>6, <2>7 DEF RouterKept
<1>13. QED BY <1>9, <1>11, <1>12 DEF NiInv

\* Publishing shows the newest, and keeps the exit only where the network is
\* the one it was traced on; a move it tells leaves a bust owing.
LEMMA PublishedKeeps == ASSUME NiInv, NEW w \in Refreshers, Published(w) PROVE NiInv'
<1> DEFINE me == niRefresh[w]
           at == IF me.found # "v4" THEN "done" ELSE IF Moved(me) THEN "bust" ELSE "exit"
           r == [me EXCEPT !.at = at]
           exit == IF CarriesExit(me) THEN niCache.exit ELSE NoExit
<1>1. niRefresh' = [niRefresh EXCEPT ![w] = r]
  BY DEF Published
<1>2. niNet' = niNet /\ niGen' = niGen /\ niCache' = niCache /\ niTraceGen' = niTraceGen /\ niTracing' = niTracing
      /\ me.at = "publish" /\ niMissed' = (niMissed \/ (me.known = NoIPv4 /\ KnownIPv4 # NoIPv4))
  BY DEF Published, niTrace
<1>3. NiShape /\ Bookkeeping /\ KnownIPv4 = niLastIPv4
  BY KnownIs DEF NiInv
<1>4. me \in Refreshes /\ exit \in Nat /\ me.gen \in Nat /\ niPublished \in Nat /\ me.ip \in Nat /\ niLastIPv4 \in Nat
  BY <1>3 DEF NiShape, Refreshes, NoExit
<1>5. at \in {"done", "bust", "exit"} /\ (at # "done" => me.found = "v4") /\ (at = "bust" <=> me.found = "v4" /\ Moved(me))
  OBVIOUS
<1> HIDE DEF at
<1>6. /\ r \in Refreshes /\ r.at = at /\ r.gen = me.gen /\ r.known = me.known
      /\ r.prev = me.prev /\ r.ip = me.ip /\ r.found = me.found /\ r.startGen = me.startGen
  BY <1>4, <1>5 DEF Refreshes, Places
<1> HIDE DEF r
<1>7. niRefresh' \in [Refreshers -> Refreshes] /\ niRefresh'[w] = r
      /\ \A v \in Refreshers \ {w} : niRefresh'[v] = niRefresh[v]
  BY <1>1, <1>3, <1>6, TurnIs
<1>8. me.gen <= niPublished /\ (me.found = "v4" => me.ip # NoIPv4) /\ (me.found = "v6" => me.ip = NoIPv4)
      /\ me.found \in {"v4", "v6", "nothing"} /\ (me.found = "nothing" => me.ip \in {NoIPv4, me.known})
  BY <1>2, <1>3 DEF Bookkeeping, FoundIs
\* A refresh that may claim is the newest.
<1>9. \/ /\ me.gen = niPublished /\ niPublished' = niPublished
         /\ niInfo' = [ip |-> me.ip, carried |-> me.found = "nothing", gen |-> niPublished, exit |-> exit]
         /\ niLastIPv4' = IF me.ip # NoIPv4 THEN me.ip ELSE niLastIPv4
      \/ me.gen # niPublished /\ niPublished' = niPublished /\ niInfo' = niInfo /\ niLastIPv4' = niLastIPv4
  <2>1. CASE niPublished <= me.gen
    <3>1. me.gen = niPublished
      BY <1>4, <1>8, <2>1
    <3>2. QED BY <2>1, <3>1 DEF Published, MayClaim
  <2>2. CASE ~(niPublished <= me.gen)
    <3>1. me.gen # niPublished
      BY <1>4, <2>2
    <3>2. QED BY <2>2, <3>1 DEF Published, MayClaim
  <2>3. QED BY <2>1, <2>2
<1>10. niPublished' = niPublished
  BY <1>9
<1>11. /\ niInfo' \in Panels /\ niLastIPv4' \in Nat
       /\ me.gen = niPublished => niInfo'.ip = me.ip /\ niInfo'.gen = niPublished /\ niInfo'.exit = exit
       /\ me.gen # niPublished => niInfo' = niInfo
  <2> HIDE DEF exit
  <2>2. CASE me.gen = niPublished
    <3> DEFINE carried == me.found = "nothing"
    <3>1. carried \in BOOLEAN
      OBVIOUS
    <3>2. niInfo' = [ip |-> me.ip, carried |-> carried, gen |-> niPublished, exit |-> exit]
      BY <1>9, <2>2
    <3> HIDE DEF carried
    <3>3. niLastIPv4' \in Nat
      BY <1>4, <1>9, <2>2
    <3>4. QED BY <1>4, <2>2, <3>1, <3>2, <3>3 DEF Panels
  <2>3. CASE me.gen # niPublished
    BY <1>3, <1>9, <2>3 DEF NiShape
  <2>4. QED BY <2>2, <2>3
<1>12. \A v \in Refreshers : niRefresh[v] \in Refreshes
  BY <1>3 DEF NiShape
<1>13. NiShape'
  BY <1>2, <1>3, <1>7, <1>10, <1>11 DEF NiShape
<1>14. \A v \in Refreshers : Follows(v) /\ niRefresh[v].gen = niPublished => me.gen # niPublished
  BY <1>2, <1>3 DEF Bookkeeping, GensDiffer, Begun, Follows
<1> HIDE DEF exit
<1>15. Bookkeeping'
  <2>1. NothingAhead'
    <3>1. niInfo.gen \in Nat /\ niPublished \in Nat /\ niInfo'.gen \in Nat
      BY <1>3, <1>11 DEF NiShape, Panels
    <3>2. niPublished' <= niGen' /\ niInfo'.gen <= niPublished'
      BY <1>2, <1>3, <1>10, <1>11, <3>1 DEF Bookkeeping, NothingAhead
    <3>3. niLastIPv4' <= niNet'
      BY <1>2, <1>3, <1>9 DEF Bookkeeping, NothingAhead
    <3>4. QED BY <1>2, <1>3, <1>6, <1>7, <3>2, <3>3 DEF Bookkeeping, NothingAhead
  <2>2. RecordIsLast'
    BY <1>3, <1>9, <1>11 DEF Bookkeeping, RecordIsLast
  <2>3. GensDiffer'
    BY <1>2, <1>3, <1>5, <1>6, <1>7 DEF Bookkeeping, GensDiffer, Begun
  <2>4. FoundIs'
    BY <1>3, <1>5, <1>6, <1>7, <1>10 DEF Bookkeeping, FoundIs
  <2>5. ShowsTheNewest'
    <3>1. \A v \in Refreshers \ {w} : Follows(v)' => Follows(v) /\ niRefresh'[v] = niRefresh[v]
      BY <1>7 DEF Follows
    <3>2. \A v \in Refreshers \ {w} : Follows(v)' =>
            /\ niRefresh'[v].gen <= niPublished'
            /\ niRefresh'[v].gen = niPublished' =>
                 niInfo'.gen = niPublished' /\ niInfo'.ip = niRefresh'[v].ip /\ niInfo'.ip # NoIPv4
      BY <1>3, <1>10, <1>11, <1>14, <3>1 DEF Bookkeeping, ShowsTheNewest
    <3>3. Follows(w)' =>
            /\ niRefresh'[w].gen <= niPublished'
            /\ niRefresh'[w].gen = niPublished' =>
                 niInfo'.gen = niPublished' /\ niInfo'.ip = niRefresh'[w].ip /\ niInfo'.ip # NoIPv4
      BY <1>5, <1>6, <1>7, <1>8, <1>10, <1>11 DEF Follows
    <3>4. QED BY <3>2, <3>3 DEF ShowsTheNewest
  <2>6. QED BY <2>1, <2>2, <2>3, <2>4, <2>5 DEF Bookkeeping
<1>16. ASSUME ~niMissed' PROVE RouterKept'
  <2>1. RouterKept /\ (me.known = NoIPv4 => niLastIPv4 = NoIPv4)
    BY <1>2, <1>3, <1>16 DEF NiInv
  <2>2. CacheIsHere => CacheIsHere'
    BY <1>2, <1>5, <1>6, <1>7 DEF CacheIsHere
  <2>3. Busting => Busting' /\ me.gen # niPublished
    BY <1>2, <1>7, <1>10, <1>14 DEF Busting, Follows
  <2>4. niNet # NoIPv4 /\ (niLastIPv4 = NoIPv4 => CacheIsHere)
    BY <1>3, <2>1 DEF NiShape, NoIPv4, RouterKept, NothingTraced, CacheIsHere
  <2>5. me.known = niNet => Known
    BY DEF Known
  <2>6. KnownIsClean'
    <3>1. CASE Known
      BY <2>1, <2>2, <2>3, <3>1 DEF RouterKept, KnownIsClean
    <3>2. CASE ~Known /\ Known'
      <4>1. me.gen = niPublished /\ me.ip = niNet
        BY <1>2, <1>6, <1>7, <1>9, <3>2 DEF Known
      <4>2. me.known # niNet
        BY <2>5, <3>2
      <4>3. CASE me.known = NoIPv4
        BY <2>1, <2>2, <2>4, <4>3 DEF KnownIsClean
      <4>4. CASE me.known # NoIPv4
        <5>1. me.found = "v4" /\ Moved(me)
          BY <1>8, <2>4, <4>1, <4>2, <4>4 DEF Moved
        <5>2. Busting'
          BY <1>5, <1>6, <1>7, <1>10, <4>1, <5>1 DEF Busting
        <5>3. QED BY <5>2 DEF KnownIsClean
      <4>5. QED BY <4>3, <4>4
    <3>3. QED BY <3>1, <3>2 DEF KnownIsClean
  <2>7. NothingTraced'
    <3>1. niLastIPv4' = NoIPv4 => niLastIPv4 = NoIPv4
      BY <1>9
    <3>2. QED BY <1>2, <1>5, <1>6, <1>7, <2>1, <3>1 DEF RouterKept, NothingTraced
  <2>8. PatchIsHere'
    BY <1>2, <1>5, <1>6, <1>7, <1>10, <2>1 DEF RouterKept, PatchIsHere
  <2>9. ShownIsHere'
    <3>1. CASE me.gen # niPublished
      BY <1>2, <1>11, <2>1, <3>1 DEF RouterKept, ShownIsHere
    <3>2. CASE me.gen = niPublished /\ me.ip = niNet /\ CarriesExit(me)
      <4>1. me.known = NoIPv4 \/ me.known = niNet
        BY <2>4, <3>2 DEF CarriesExit, Moved
      <4>2. CacheIsHere
        BY <2>1, <2>3, <2>4, <2>5, <3>2, <4>1 DEF RouterKept, KnownIsClean
      <4>3. niInfo'.exit \in {NoExit, niNet}
        BY <1>11, <3>2, <4>2 DEF CacheIsHere, exit
      <4>4. QED BY <1>2, <4>3 DEF ShownIsHere
    <3>3. CASE me.gen = niPublished /\ ~(me.ip = niNet /\ CarriesExit(me))
      BY <1>2, <1>11, <3>3 DEF ShownIsHere, exit
    <3>4. QED BY <3>1, <3>2, <3>3
  <2>10. QED BY <2>6, <2>7, <2>8, <2>9 DEF RouterKept
<1>17. QED BY <1>13, <1>15, <1>16 DEF NiInv

-----------------------------------------------------------------------------
\* The host, and time.

\* Nobody knows the network the host has just moved to.
LEMMA HostMovesKeeps == ASSUME NiInv, HostMoves PROVE NiInv'
<1>1. niNet' = niNet + 1 /\ niNet <= MaxMoves
  BY DEF HostMoves
<1>2. niGen' = niGen /\ niPublished' = niPublished /\ niInfo' = niInfo /\ niLastIPv4' = niLastIPv4
      /\ niCache' = niCache /\ niTraceGen' = niTraceGen /\ niTracing' = niTracing
      /\ niRefresh' = niRefresh /\ niMissed' = niMissed
  BY DEF HostMoves, niPanel, niTrace
<1>3. NiShape /\ Bookkeeping /\ niNet \in Nat /\ niLastIPv4 \in Nat /\ MaxMoves \in Nat
  BY NetinfoAssumption DEF NiInv, NiShape
<1>4. \A w \in Refreshers : niRefresh[w] \in Refreshes /\ niRefresh[w].known \in Nat /\ niRefresh[w].ip \in Nat
  BY <1>3 DEF NiShape, Refreshes
<1>5. niNet' \in 1..(MaxMoves + 1) /\ niNet <= niNet'
  BY <1>1, <1>3 DEF NiShape
<1>6. NiShape'
  BY <1>2, <1>3, <1>5 DEF NiShape
<1>7. niLastIPv4 <= niNet /\ \A w \in Refreshers : niRefresh[w].known <= niNet /\ niRefresh[w].ip <= niNet
  BY <1>3 DEF Bookkeeping, NothingAhead
<1>8. niLastIPv4 < niNet' /\ \A w \in Refreshers : niRefresh[w].known < niNet' /\ niRefresh[w].ip < niNet'
  BY <1>1, <1>3, <1>4, <1>7
<1>9. niLastIPv4 <= niNet' /\ \A w \in Refreshers : niRefresh[w].known <= niNet' /\ niRefresh[w].ip <= niNet'
  BY <1>1, <1>3, <1>4, <1>7
<1>10. niLastIPv4 # niNet' /\ \A w \in Refreshers : niRefresh[w].known # niNet' /\ niRefresh[w].ip # niNet'
  BY <1>3, <1>4, <1>8
<1>11. Bookkeeping'
  <2>1. NothingAhead'
    BY <1>2, <1>3, <1>9 DEF Bookkeeping, NothingAhead
  <2>2. (RecordIsLast /\ GensDiffer /\ FoundIs /\ ShowsTheNewest)'
    BY <1>2, <1>3 DEF Bookkeeping, RecordIsLast, GensDiffer, Begun, FoundIs, ShowsTheNewest, Follows
  <2>3. QED BY <2>1, <2>2 DEF Bookkeeping
<1>12. ASSUME ~niMissed' PROVE RouterKept'
  <2>1. RouterKept
    BY <1>2, <1>12 DEF NiInv
  <2>2. ~Known'
    BY <1>2, <1>10 DEF Known
  <2>3. NothingTraced' /\ PatchIsHere'
    BY <1>2, <1>10, <2>1 DEF RouterKept, NothingTraced, PatchIsHere
  <2>4. ShownIsHere'
    <3>1. niInfo.ip # niNet'
      BY <1>3, <1>5, <1>10 DEF Bookkeeping, RecordIsLast, NoIPv4
    <3>2. QED BY <1>2, <3>1 DEF ShownIsHere
  <2>5. QED BY <2>2, <2>3, <2>4 DEF RouterKept, KnownIsClean
<1>13. QED BY <1>6, <1>11, <1>12 DEF NiInv

\* A cache that ages shows nothing that was not on show.
LEMMA CacheAgesKeeps == ASSUME NiInv, CacheAges \/ UNCHANGED niVars PROVE NiInv'
<1>1. niNet' = niNet /\ niGen' = niGen /\ niPublished' = niPublished /\ niInfo' = niInfo /\ niLastIPv4' = niLastIPv4
      /\ niTraceGen' = niTraceGen /\ niTracing' = niTracing /\ niRefresh' = niRefresh /\ niMissed' = niMissed
  BY DEF CacheAges, niPanel, niVars
<1>2. niCache' \in [exit : Nat, fresh : BOOLEAN] /\ niCache'.exit = niCache.exit
  <2>1. niCache \in [exit : Nat, fresh : BOOLEAN]
    BY DEF NiInv, NiShape
  <2>2. QED BY <2>1 DEF CacheAges, niVars
<1>3. NiShape'
  BY <1>1, <1>2 DEF NiInv, NiShape
<1>4. Bookkeeping'
  BY <1>1 DEF NiInv, Bookkeeping, NothingAhead, RecordIsLast, GensDiffer, Begun, FoundIs, ShowsTheNewest, Follows
<1>5. ASSUME ~niMissed' PROVE RouterKept'
  BY <1>1, <1>2, <1>5 DEF NiInv, RouterKept, KnownIsClean, Known, CacheIsHere, Busting, NothingTraced,
     PatchIsHere, ShownIsHere
<1>6. QED BY <1>3, <1>4, <1>5 DEF NiInv

\* Every step of the refreshes keeps their invariant.
LEMMA NiInvNext == NiInv /\ [NiNext]_niVars => NiInv'
<1> SUFFICES ASSUME NiInv, [NiNext]_niVars PROVE NiInv'
  OBVIOUS
<1>1. ASSUME NEW w \in Refreshers,
             \/ RefreshStarts(w) \/ RefreshAsked(w) \/ RefreshRetried(w)
             \/ Addressed(w) \/ FetchEnds(w) \/ Published(w) \/ Busted(w)
             \/ ExitServed(w) \/ WaitCut(w) \/ TraceStarts(w) \/ TraceEnds(w) \/ ExitPatched(w)
      PROVE  NiInv'
  BY <1>1, RefreshStartsKeeps, AskedKeeps, AddressedKeeps, FetchEndsKeeps, PublishedKeeps, BustedKeeps,
     ExitTakenKeeps, TraceStartsKeeps, TraceEndsKeeps, ExitPatchedKeeps
<1>2. CASE HostMoves
  BY <1>2, HostMovesKeeps
<1>3. CASE CacheAges \/ UNCHANGED niVars
  BY <1>3, CacheAgesKeeps
<1>4. QED BY <1>1, <1>2, <1>3 DEF NiNext

\* The invariant of the refreshes holds in every state.
LEMMA NiInvHolds == NiSpec => []NiInv
  BY NiInvInit, NiInvNext, PTL DEF NiSpec

\* Nothing on the panel is of a network the host has not been on or of a refresh that
\* has not begun (Manager.gen, Manager.published).
THEOREM NiTypeCorrect == NiSpec => []NiTypeOK
<1>1. NiInv => NiTypeOK
  <2> SUFFICES ASSUME NiInv PROVE NiTypeOK
    OBVIOUS
  <2>1. NiShape /\ Bookkeeping
    BY NetinfoAssumption DEF NiInv
  <2>2. niNet \in Nat /\ niGen \in Nat /\ niPublished \in Nat /\ niLastIPv4 \in Nat /\ niInfo.ip \in Nat
        /\ MaxMoves \in Nat /\ MaxRefreshes \in Nat /\ \A w \in Refreshers : niRefresh[w].gen \in Nat
    BY <2>1, NetinfoAssumption DEF NiShape, Panels, Refreshes
  <2>3. niPublished \in 0..MaxRefreshes /\ niLastIPv4 \in 0..(MaxMoves + 1)
        /\ \A w \in Refreshers : niRefresh[w].gen \in 0..MaxRefreshes
    BY <2>1, <2>2 DEF NiShape, Bookkeeping, NothingAhead
  <2>4. niInfo.ip \in 0..(MaxMoves + 1)
    BY <2>1, <2>2, <2>3 DEF Bookkeeping, RecordIsLast, NoIPv4
  <2>5. QED BY <2>1, <2>3, <2>4 DEF NiTypeOK, NiShape
<1>2. QED BY <1>1, NiInvHolds, PTL

\* For any number of refreshes and moves, the panel does not mix networks
\* (cachedExit, RefreshNow and the publish of refresh): see RouterIsHere.
THEOREM RouterStays == NiSpec => []RouterIsHere
<1>1. NiInv => RouterIsHere
  <2> SUFFICES ASSUME NiInv PROVE RouterIsHere
    OBVIOUS
  <2>1. (niInfo.ip = niNet /\ niInfo.exit # NoExit /\ ~niMissed) => niInfo.exit = niNet
    BY DEF NiInv, RouterKept, ShownIsHere
  <2>2. niInfo.gen <= niPublished
    BY DEF NiInv, Bookkeeping, NothingAhead
  <2>3. \A w \in Refreshers : niRefresh[w].at = "exit" /\ niRefresh[w].gen = niPublished => niInfo.gen = niPublished
    BY DEF NiInv, Bookkeeping, ShowsTheNewest, Follows
  <2>4. QED BY <2>1, <2>2, <2>3 DEF RouterIsHere
<1>2. QED BY <1>1, NiInvHolds, PTL


-----------------------------------------------------------------------------
(* Terms                                                                   *)

\* The term of a conviction is never none, and more strikes never shorten it.
LEMMA TermGrows ==
    /\ \A n \in Nat : RetiredTtl(n) \in Nat \ {0}
    /\ \A m, n \in Nat : m <= n => RetiredTtl(m) <= RetiredTtl(n)
  BY ServerHealthAssumption DEF RetiredTtl

\* What the n-th conviction leaves on record.
Record(n) == IF n = 0 THEN 0 ELSE Strikes + n - 1

\* Each conviction lengthens the record, and the first is worth the failed GETs.
LEMMA RecordIsNext ==
    ASSUME NEW n \in Nat
    PROVE  /\ Record(n) \in Nat /\ (Record(n) = 0 <=> n = 0)
           /\ Record(n + 1) = IF Record(n) + 1 > Strikes THEN Record(n) + 1 ELSE Strikes
           /\ Record(n + 1) = Strikes + n
  BY ServerHealthAssumption DEF Record

-----------------------------------------------------------------------------
(* The inductive invariant                                                 *)

Verdicts == [state : {"ok", "retired", "unknown"}, expires : Nat, probeFails : Nat, runFails : Nat, forget : Nat]
Flights == [on : BOOLEAN, at : Nat, probeFails : Nat, runFails : Nat, forget : Nat]
HealthRows == [expires : Nat, fails : Nat]

ShShape ==
    /\ shNow \in Nat \ {0}
    /\ shVerdict \in Verdicts /\ shProbe \in Flights /\ shDisk \in HealthRows
    /\ shBudget \in [convictions : Nat, deaths : Nat]
    /\ shEarned \in Nat /\ shFailed \in 0..Strikes /\ shLate \in BOOLEAN

\* A GET is over within a step; with none on its way nothing is carried.
FlightFresh ==
    /\ shProbe.on => shProbe.at <= shNow /\ shNow <= shProbe.at + 1
    /\ ~shProbe.on => shProbe.runFails = 0

\* A row is a conviction's, of the past.
RowConvicts ==
    /\ shDisk.fails = 0 => shDisk.expires = 0
    /\ shDisk.fails # 0 => shDisk.fails >= Strikes /\ shDisk.expires <= shNow + RetiredTtl(shDisk.fails)

\* The memory of a conviction is not longer than its own term would make it.
MemoryBounded ==
    /\ shVerdict.runFails > 0 => shVerdict.forget <= shNow + RetiredTtl(shVerdict.runFails) + Memory
    /\ shProbe.runFails > 0 => shProbe.forget <= shNow + RetiredTtl(shProbe.runFails) + Memory

\* Failed GETs on record are failed GETs, as far as they matter.
FailsCounted ==
    /\ shVerdict.probeFails <= shFailed \/ shFailed = Strikes
    /\ shProbe.probeFails <= shFailed \/ shFailed = Strikes

\* What a flight carries is still on the record, or was bettered by a newer one.
CarriesNoMore ==
    ~shLate =>
        /\ shProbe.runFails <= RunFailsInForce(shVerdict)
        /\ shProbe.runFails > 0 => shNow < shProbe.forget /\ shProbe.forget <= shVerdict.forget

\* The record in force is that of the convictions that count.
RecordTrue == ~shLate => RunFailsInForce(shVerdict) = Record(shEarned)

ShInv == ShShape /\ FlightFresh /\ RowConvicts /\ MemoryBounded /\ FailsCounted /\ CarriesNoMore /\ RecordTrue

\* Before any verdict there is nothing to have earned.
LEMMA ShInvInit == ASSUME ShInit PROVE ShInv
<1> USE ServerHealthAssumption DEF ShInit, NoVerdict, NoProbe, NoHealthRow
<1>1. ShShape
  <2>1. shNow \in Nat \ {0} /\ shEarned \in Nat
    OBVIOUS
  <2>2. shFailed \in 0..Strikes
    OBVIOUS
  <2>3. shVerdict \in Verdicts
    BY DEF Verdicts
  <2>4. shProbe \in Flights
    BY DEF Flights
  <2>5. shDisk \in HealthRows /\ shBudget \in [convictions : Nat, deaths : Nat]
    BY DEF HealthRows
  <2>6. shLate \in BOOLEAN
    BY Zenon
  <2>7. QED BY <2>1, <2>2, <2>3, <2>4, <2>5, <2>6 DEF ShShape
<1>2. QED
  BY <1>1 DEF ShInv, FlightFresh, RowConvicts, MemoryBounded, FailsCounted, CarriesNoMore, RecordTrue,
     RunFailsInForce, Record

-----------------------------------------------------------------------------
(* A GET's verdict                                                         *)

\* The lemma about a landing says all the proofs need of the verdict it leaves:
\* it is the one that was there or the reconciled one, and its record is the
\* record that was in force.
LEMMA JudgedShape ==
    ASSUME ShShape, NEW answer \in {"ok", "retired", "unknown"}
    PROVE  /\ JudgedProbe(answer).state \in {"ok", "retired", "unknown"}
           /\ JudgedProbe(answer).ttl \in Nat \ {0} /\ JudgedProbe(answer).probeFails \in Nat
           /\ JudgedProbe(answer).probeFails <= shProbe.probeFails + 1
           /\ answer = "ok" => JudgedProbe(answer).probeFails = 0
           /\ answer = "unknown" => JudgedProbe(answer).probeFails = shProbe.probeFails
           /\ JudgedProbe(answer).state = "retired" => answer = "retired" /\ shProbe.probeFails + 1 >= Strikes
<1>1. shProbe.probeFails \in Nat /\ shProbe.probeFails + 1 \in Nat
  BY DEF ShShape, Flights
<1>2. CASE answer = "ok"
  <2>1. JudgedProbe(answer) = [state |-> "ok", ttl |-> Ttl, probeFails |-> 0]
    BY <1>2 DEF JudgedProbe
  <2>2. QED BY <1>1, <1>2, <2>1, ServerHealthAssumption
<1>3. CASE answer = "unknown"
  <2>1. JudgedProbe(answer) = [state |-> "unknown", ttl |-> UnknownTtl, probeFails |-> shProbe.probeFails]
    BY <1>3 DEF JudgedProbe
  <2>2. QED BY <1>1, <1>3, <2>1, ServerHealthAssumption
<1>4. CASE answer = "retired"
  <2> DEFINE fails == shProbe.probeFails + 1
  <2>1. CASE fails < Strikes
    <3>1. JudgedProbe(answer) = [state |-> "unknown", ttl |-> UnknownTtl, probeFails |-> fails]
      BY <1>4, <2>1 DEF JudgedProbe
    <3>2. QED BY <1>1, <1>4, <3>1, ServerHealthAssumption
  <2>2. CASE ~(fails < Strikes)
    <3>1. JudgedProbe(answer) = [state |-> "retired", ttl |-> RetiredTtl(fails), probeFails |-> fails]
      BY <1>4, <2>2 DEF JudgedProbe
    <3>2. QED BY <1>1, <1>4, <2>2, <3>1, TermGrows, ServerHealthAssumption
  <2>3. QED BY <2>1, <2>2
<1>5. QED BY <1>2, <1>3, <1>4

\* What a probe's answer leaves stored: a standing verdict is not shortened, and
\* a new one only follows an answer that the server is retired.
LEMMA Landing ==
    ASSUME ShInv, shProbe.on, NEW answer \in {"ok", "retired", "unknown"},
           NEW v, v = StoredVerdict(shVerdict, Reconciled(JudgedProbe(answer)))
    PROVE  /\ v \in Verdicts
           /\ v.runFails > 0 => v.forget <= shNow + RetiredTtl(v.runFails) + Memory
           /\ v.probeFails \in {shVerdict.probeFails, JudgedProbe(answer).probeFails}
           /\ ~Standing(shVerdict) => v.probeFails = JudgedProbe(answer).probeFails
           /\ ~shLate => RunFailsInForce(v) = RunFailsInForce(shVerdict)
           /\ Standing(shVerdict) => v.state = "retired" /\ v.expires >= shVerdict.expires
           /\ ~Standing(shVerdict) /\ Standing(v) => JudgedProbe(answer).state = "retired"
<1> DEFINE judged == JudgedProbe(answer)
           newer == RunFailsInForce(shVerdict) > shProbe.runFails
           held == shVerdict.state = "retired" /\ shVerdict.expires > shProbe.at + judged.ttl
           r == Reconciled(judged)
<1>1. /\ judged.state \in {"ok", "retired", "unknown"} /\ judged.ttl \in Nat \ {0} /\ judged.probeFails \in Nat
  BY JudgedShape DEF ShInv
<1> HIDE DEF judged
<1>2. r = [state |-> IF held THEN "retired" ELSE judged.state,
           expires |-> IF held THEN shVerdict.expires ELSE shProbe.at + judged.ttl,
           probeFails |-> judged.probeFails,
           runFails |-> IF newer THEN shVerdict.runFails ELSE shProbe.runFails,
           forget |-> IF newer THEN shVerdict.forget ELSE shProbe.forget]
  BY DEF Reconciled
<1>3. /\ r.state = (IF held THEN "retired" ELSE judged.state)
      /\ r.expires = (IF held THEN shVerdict.expires ELSE shProbe.at + judged.ttl)
      /\ r.probeFails = judged.probeFails
      /\ r.runFails = (IF newer THEN shVerdict.runFails ELSE shProbe.runFails)
      /\ r.forget = (IF newer THEN shVerdict.forget ELSE shProbe.forget)
  BY <1>2
<1>4. /\ shVerdict \in Verdicts /\ shVerdict.expires \in Nat /\ shVerdict.runFails \in Nat /\ shVerdict.forget \in Nat
      /\ shVerdict.probeFails \in Nat /\ shVerdict.state \in {"ok", "retired", "unknown"}
      /\ shProbe.at \in Nat /\ shProbe.runFails \in Nat /\ shProbe.forget \in Nat /\ shNow \in Nat
      /\ shProbe.at <= shNow /\ shNow <= shProbe.at + 1
  BY DEF ShInv, ShShape, FlightFresh, Verdicts, Flights
<1>5. r \in Verdicts
  <2>1. (IF held THEN "retired" ELSE judged.state) \in {"ok", "retired", "unknown"}
    BY <1>1
  <2>2. (IF held THEN shVerdict.expires ELSE shProbe.at + judged.ttl) \in Nat
    BY <1>1, <1>4
  <2>3. (IF newer THEN shVerdict.runFails ELSE shProbe.runFails) \in Nat
        /\ (IF newer THEN shVerdict.forget ELSE shProbe.forget) \in Nat
    BY <1>4
  <2> HIDE DEF held, newer, r
  <2>4. QED BY <1>1, <1>2, <2>1, <2>2, <2>3 DEF Verdicts
<1> HIDE DEF r
<1>6. v = IF Standing(shVerdict) /\ r.state # "retired" THEN shVerdict ELSE r
  BY DEF StoredVerdict, judged, r
<1>7. r.runFails > 0 => r.forget <= shNow + RetiredTtl(r.runFails) + Memory
  BY <1>3 DEF ShInv, MemoryBounded
<1>8. ASSUME ~shLate PROVE RunFailsInForce(r) = RunFailsInForce(shVerdict)
  <2>1. shProbe.runFails <= RunFailsInForce(shVerdict) /\ (shProbe.runFails > 0 => shNow < shProbe.forget)
    BY <1>8 DEF ShInv, CarriesNoMore
  <2>2. RunFailsInForce(shVerdict) \in Nat
    BY <1>4 DEF RunFailsInForce
  <2>3. CASE newer
    BY <1>3, <2>3 DEF RunFailsInForce
  <2>4. CASE ~newer
    <3>1. shProbe.runFails = RunFailsInForce(shVerdict)
      BY <1>4, <2>1, <2>2, <2>4
    <3>2. QED BY <1>3, <1>4, <2>1, <2>4, <3>1 DEF RunFailsInForce
  <2>5. QED BY <2>3, <2>4
<1>9. ASSUME Standing(shVerdict), r.state = "retired" PROVE r.expires >= shVerdict.expires
  BY <1>1, <1>3, <1>4, <1>9 DEF Standing
<1>10. ASSUME ~Standing(shVerdict), Standing(r) PROVE judged.state = "retired"
  BY <1>1, <1>3, <1>4, <1>10 DEF Standing
<1>11. (v = shVerdict /\ Standing(shVerdict)) \/ (v = r /\ ~(Standing(shVerdict) /\ r.state # "retired"))
  BY <1>6
<1>12. CASE v = shVerdict /\ Standing(shVerdict)
  BY <1>4, <1>12 DEF ShInv, MemoryBounded, Standing
<1>13. CASE v = r /\ ~(Standing(shVerdict) /\ r.state # "retired")
  BY <1>3, <1>5, <1>7, <1>8, <1>9, <1>10, <1>13 DEF judged
<1>14. QED BY <1>11, <1>12, <1>13

-----------------------------------------------------------------------------
(* One lemma for each action                                               *)

\* Strikes that are in force are those of the record, and not forgotten yet.
LEMMA InForceShape ==
    ASSUME ShShape
    PROVE  /\ RunFailsInForce(shVerdict) \in Nat
           /\ RunFailsInForce(shVerdict) > 0 =>
                  /\ RunFailsInForce(shVerdict) = shVerdict.runFails
                  /\ shNow < shVerdict.forget
  BY DEF ShShape, Verdicts, RunFailsInForce

\* A GET that starts carries the strikes of the verdict as it is.
LEMMA StartKeeps == ASSUME ShInv, ProbeStarts PROVE ShInv'
<1> DEFINE forget == IF RunFailsInForce(shVerdict) > 0 THEN shVerdict.forget ELSE 0
<1>1. shProbe' = [on |-> TRUE, at |-> shNow, probeFails |-> shVerdict.probeFails,
                  runFails |-> RunFailsInForce(shVerdict), forget |-> forget]
  BY DEF ProbeStarts
<1>2. /\ shProbe'.on = TRUE /\ shProbe'.at = shNow /\ shProbe'.probeFails = shVerdict.probeFails
      /\ shProbe'.runFails = RunFailsInForce(shVerdict) /\ shProbe'.forget = forget
  BY <1>1
<1>3. /\ RunFailsInForce(shVerdict) \in Nat /\ forget \in Nat
      /\ shVerdict.probeFails \in Nat /\ shNow \in Nat
  BY InForceShape DEF ShInv, ShShape, Verdicts
<1>4. UNCHANGED <<shNow, shVerdict, shDisk, shBudget, shEarned, shFailed, shLate>>
  BY DEF ProbeStarts
<1>5. RunFailsInForce(shVerdict)' = RunFailsInForce(shVerdict)
  BY <1>4 DEF RunFailsInForce
<1>6. forget <= shVerdict.forget /\ (RunFailsInForce(shVerdict) > 0 => forget = shVerdict.forget)
  BY <1>3 DEF ShInv, ShShape, Verdicts
<1> HIDE DEF forget
<1>7. ShShape'
  <2>1. shProbe' \in Flights
    BY <1>1, <1>3 DEF Flights
  <2>2. QED BY <1>4, <2>1 DEF ShInv, ShShape
<1>8. FlightFresh' /\ RowConvicts'
  <2>1. FlightFresh'
    BY <1>2, <1>3, <1>4 DEF FlightFresh
  <2>2. RowConvicts'
    BY <1>4 DEF ShInv, RowConvicts, RetiredTtl
  <2>3. QED BY <2>1, <2>2
<1>9. MemoryBounded'
  BY <1>2, <1>4, <1>6, InForceShape DEF ShInv, MemoryBounded, RetiredTtl
<1>10. FailsCounted'
  BY <1>2, <1>4 DEF ShInv, FailsCounted
<1>11. CarriesNoMore'
  BY <1>2, <1>3, <1>4, <1>5, <1>6, InForceShape DEF ShInv, CarriesNoMore
<1>12. RecordTrue'
  BY <1>4, <1>5 DEF ShInv, RecordTrue, Record
<1>13. QED BY <1>7, <1>8, <1>9, <1>10, <1>11, <1>12 DEF ShInv

\* With no GET on its way nothing is carried.
LEMMA NothingCarried ==
    ASSUME shProbe' = NoProbe, shNow' \in Nat, shFailed' \in Nat,
           shVerdict' \in Verdicts, shVerdict'.probeFails <= shFailed' \/ shFailed' = Strikes,
           shVerdict'.runFails > 0 => shVerdict'.forget <= shNow' + RetiredTtl(shVerdict'.runFails) + Memory
    PROVE  shProbe' \in Flights /\ FlightFresh' /\ MemoryBounded' /\ FailsCounted' /\ CarriesNoMore'
<1>1. /\ shProbe'.on = FALSE /\ shProbe'.at = 0 /\ shProbe'.probeFails = 0
      /\ shProbe'.runFails = 0 /\ shProbe'.forget = 0
  BY DEF NoProbe
<1>2. shProbe' \in Flights
  BY DEF NoProbe, Flights
<1>3. RunFailsInForce(shVerdict)' \in Nat
  BY DEF RunFailsInForce, Verdicts
<1>4. QED
  BY <1>1, <1>2, <1>3 DEF FlightFresh, MemoryBounded, FailsCounted, CarriesNoMore, RetiredTtl

\* The answer of a GET moves the verdict only as its judgement allows.
LEMMA ProbeLandKeeps == ASSUME ShInv, ProbeLands PROVE ShInv'
<1>1. PICK answer \in {"ok", "retired", "unknown"} :
          /\ shVerdict' = StoredVerdict(shVerdict, Reconciled(JudgedProbe(answer)))
          /\ shFailed' = IF answer = "unknown" \/ (answer = "ok" /\ Standing(shVerdict)) THEN shFailed
                         ELSE IF answer = "ok" THEN 0
                         ELSE IF shFailed < Strikes THEN shFailed + 1 ELSE Strikes
  BY DEF ProbeLands
<1>2. /\ shProbe.on /\ shProbe' = NoProbe
      /\ shLate' = (shLate /\ shVerdict'.runFails > 0)
      /\ shEarned' = IF shVerdict'.runFails = 0 THEN 0 ELSE shEarned
      /\ UNCHANGED <<shNow, shDisk, shBudget>>
  BY DEF ProbeLands
<1> DEFINE judged == JudgedProbe(answer)
           v == shVerdict'
<1>3. /\ v \in Verdicts
      /\ v.runFails > 0 => v.forget <= shNow + RetiredTtl(v.runFails) + Memory
      /\ v.probeFails \in {shVerdict.probeFails, judged.probeFails}
      /\ ~Standing(shVerdict) => v.probeFails = judged.probeFails
      /\ ~shLate => RunFailsInForce(v) = RunFailsInForce(shVerdict)
  BY <1>1, <1>2, Landing
<1>4. /\ judged.probeFails \in Nat /\ judged.probeFails <= shProbe.probeFails + 1
      /\ answer = "ok" => judged.probeFails = 0
      /\ answer = "unknown" => judged.probeFails = shProbe.probeFails
  BY JudgedShape DEF ShInv
<1>5. /\ shVerdict.probeFails \in Nat /\ shProbe.probeFails \in Nat /\ shFailed \in 0..Strikes /\ shNow \in Nat \ {0}
      /\ shEarned \in Nat /\ Strikes \in Nat \ {0} /\ v.runFails \in Nat
  BY <1>3, ServerHealthAssumption DEF ShInv, ShShape, Verdicts, Flights
<1> HIDE DEF judged
<1>6. shFailed' \in 0..Strikes /\ (v.probeFails <= shFailed' \/ shFailed' = Strikes)
  <2>1. CASE answer = "unknown" \/ (answer = "ok" /\ Standing(shVerdict))
    <3>1. shFailed' = shFailed
      BY <1>1, <2>1
    <3>2. QED BY <1>3, <1>4, <1>5, <2>1, <3>1 DEF ShInv, FailsCounted
  <2>2. CASE answer = "ok" /\ ~Standing(shVerdict)
    <3>1. shFailed' = 0
      BY <1>1, <2>2
    <3>2. QED BY <1>3, <1>4, <1>5, <2>2, <3>1
  <2>3. CASE answer = "retired"
    <3>1. shFailed' = IF shFailed < Strikes THEN shFailed + 1 ELSE Strikes
      BY <1>1, <2>3
    <3>2. QED BY <1>3, <1>4, <1>5, <3>1 DEF ShInv, FailsCounted
  <2>4. QED BY <2>1, <2>2, <2>3
<1>7. shProbe' \in Flights /\ FlightFresh' /\ MemoryBounded' /\ FailsCounted' /\ CarriesNoMore'
  <2>1. shNow' = shNow /\ shFailed' \in Nat
    BY <1>2, <1>5, <1>6
  <2>2. QED BY <1>2, <1>3, <1>5, <1>6, <2>1, NothingCarried
<1>8. ShShape'
  <2>1. shLate' \in BOOLEAN
    BY <1>2, Zenon
  <2>2. shEarned' \in Nat
    BY <1>2, <1>5
  <2>3. QED BY <1>2, <1>3, <1>6, <1>7, <2>1, <2>2 DEF ShInv, ShShape
<1>9. RowConvicts'
  BY <1>2 DEF ShInv, RowConvicts, RetiredTtl
<1>10. RecordTrue'
  <2> SUFFICES ASSUME ~shLate' PROVE RunFailsInForce(shVerdict)' = Record(shEarned')
    BY DEF RecordTrue, Record
  <2>1. RunFailsInForce(shVerdict)' = RunFailsInForce(v)
    BY <1>2 DEF RunFailsInForce
  <2>2. CASE v.runFails = 0
    BY <1>2, <2>1, <2>2 DEF RunFailsInForce, Record
  <2>3. CASE v.runFails > 0
    <3>1. shEarned' = shEarned
      BY <1>2, <2>3
    <3>2. ~shLate
      BY <1>2, <2>3, Zenon
    <3>3. QED BY <1>3, <2>1, <3>1, <3>2 DEF ShInv, RecordTrue
  <2>4. QED BY <1>5, <2>2, <2>3
<1>11. QED BY <1>7, <1>8, <1>9, <1>10 DEF ShInv

\* A GET that is given up says nothing of the server.
LEMMA GivenUpKeeps == ASSUME ShInv, ProbeGivenUp PROVE ShInv'
<1>1. /\ shProbe' = NoProbe /\ shLate' = (shLate /\ shVerdict.runFails > 0)
      /\ shEarned' = IF shVerdict.runFails = 0 THEN 0 ELSE shEarned
      /\ UNCHANGED <<shNow, shVerdict, shDisk, shBudget, shFailed>>
  BY DEF ProbeGivenUp
<1>2. /\ shNow \in Nat \ {0} /\ shFailed \in Nat /\ shVerdict \in Verdicts /\ shVerdict.runFails \in Nat /\ shEarned \in Nat
      /\ shVerdict.probeFails <= shFailed \/ shFailed = Strikes
      /\ shVerdict.runFails > 0 => shVerdict.forget <= shNow + RetiredTtl(shVerdict.runFails) + Memory
  BY ServerHealthAssumption DEF ShInv, ShShape, Verdicts, FailsCounted, MemoryBounded
<1>3. shProbe' \in Flights /\ FlightFresh' /\ MemoryBounded' /\ FailsCounted' /\ CarriesNoMore'
  <2>1. shNow' = shNow /\ shFailed' = shFailed /\ shVerdict' = shVerdict
    BY <1>1
  <2>2. QED BY <1>1, <1>2, <2>1, NothingCarried
<1>4. ShShape'
  <2>1. shLate' \in BOOLEAN
    BY <1>1, Zenon
  <2>2. shEarned' \in Nat
    BY <1>1, <1>2
  <2>3. QED BY <1>1, <1>3, <2>1, <2>2 DEF ShInv, ShShape
<1>5. RowConvicts'
  BY <1>1 DEF ShInv, RowConvicts, RetiredTtl
<1>6. RecordTrue'
  <2> SUFFICES ASSUME ~shLate' PROVE RunFailsInForce(shVerdict)' = Record(shEarned')
    BY DEF RecordTrue, Record
  <2>1. RunFailsInForce(shVerdict)' = RunFailsInForce(shVerdict)
    BY <1>1 DEF RunFailsInForce
  <2>2. CASE shVerdict.runFails = 0
    BY <1>1, <2>1, <2>2 DEF RunFailsInForce, Record
  <2>3. CASE shVerdict.runFails > 0
    <3>1. shEarned' = shEarned
      BY <1>1, <2>3
    <3>2. ~shLate
      BY <1>1, <2>3, Zenon
    <3>3. QED BY <2>1, <3>1, <3>2 DEF ShInv, RecordTrue
  <2>4. QED BY <1>2, <2>2, <2>3
<1>7. QED BY <1>3, <1>4, <1>5, <1>6 DEF ShInv

\* The verdict a conviction leaves: the next one in the row, for its term.
LEMMA Conviction ==
    ASSUME ShInv, RunConvicts
    PROVE  \E fails \in Nat, expires \in Nat :
             /\ fails >= Strikes /\ fails > RunFailsInForce(shVerdict)
             /\ ~shLate => fails = Record(shEarned + 1)
             /\ expires = shNow + RetiredTtl(fails)
             /\ shVerdict' = [state |-> "retired", expires |-> expires, probeFails |-> shVerdict.probeFails,
                              runFails |-> fails, forget |-> expires + Memory]
             /\ shDisk' \in {shDisk, [expires |-> expires, fails |-> fails]}
<1> DEFINE before == RunFailsInForce(shVerdict)
           fails == IF before + 1 > Strikes THEN before + 1 ELSE Strikes
           expires == shNow + RetiredTtl(fails)
           new == [state |-> "retired", expires |-> expires, probeFails |-> shVerdict.probeFails,
                   runFails |-> fails, forget |-> expires + Memory]
<1>1. shVerdict' = StoredVerdict(shVerdict, new) /\ shDisk' \in {shDisk, [expires |-> expires, fails |-> fails]}
  BY DEF RunConvicts
<1>2. before \in Nat
  BY InForceShape DEF ShInv
<1>3. new.state = "retired"
  OBVIOUS
<1>4. shVerdict' = new
  BY <1>1, <1>3 DEF StoredVerdict
<1>5. fails \in Nat /\ fails >= Strikes /\ fails > before
  BY <1>2, ServerHealthAssumption
<1>6. ~shLate => fails = Record(shEarned + 1)
  <2>1. shEarned \in Nat
    BY DEF ShInv, ShShape
  <2>2. ~shLate => before = Record(shEarned)
    BY DEF ShInv, RecordTrue
  <2> HIDE DEF before
  <2>3. QED BY <2>1, <2>2, RecordIsNext
<1> HIDE DEF fails
<1>7. expires \in Nat
  BY <1>5, TermGrows DEF ShInv, ShShape
<1>8. QED BY <1>1, <1>4, <1>5, <1>6, <1>7

\* A run's conviction is one strike more, for the term of its record.
LEMMA ConvictsKeeps == ASSUME ShInv, RunConvicts PROVE ShInv'
<1>1. PICK fails \in Nat, expires \in Nat :
             /\ fails >= Strikes /\ fails > RunFailsInForce(shVerdict)
             /\ ~shLate => fails = Record(shEarned + 1)
             /\ expires = shNow + RetiredTtl(fails)
             /\ shVerdict' = [state |-> "retired", expires |-> expires, probeFails |-> shVerdict.probeFails,
                              runFails |-> fails, forget |-> expires + Memory]
             /\ shDisk' \in {shDisk, [expires |-> expires, fails |-> fails]}
  BY Conviction
<1>2. /\ shVerdict'.state = "retired" /\ shVerdict'.expires = expires /\ shVerdict'.probeFails = shVerdict.probeFails
      /\ shVerdict'.runFails = fails /\ shVerdict'.forget = expires + Memory
  BY <1>1
<1>3. /\ shBudget' = [shBudget EXCEPT !.convictions = shBudget.convictions + 1] /\ shEarned' = shEarned + 1
      /\ UNCHANGED <<shNow, shProbe, shFailed, shLate>>
  BY DEF RunConvicts
<1>4. /\ shNow \in Nat \ {0} /\ shVerdict.probeFails \in Nat /\ RunFailsInForce(shVerdict) \in Nat /\ shEarned \in Nat
      /\ shVerdict.forget \in Nat /\ shProbe.runFails \in Nat /\ shProbe.forget \in Nat
      /\ RetiredTtl(fails) \in Nat \ {0} /\ Memory \in Nat \ {0} /\ Strikes \in Nat \ {0}
  BY <1>1, InForceShape, TermGrows, ServerHealthAssumption DEF ShInv, ShShape, Verdicts, Flights
<1>5. RunFailsInForce(shVerdict)' = fails
  <2>1. shNow' < shVerdict'.forget
    BY <1>1, <1>2, <1>3, <1>4
  <2>2. QED BY <1>2, <2>1 DEF RunFailsInForce
<1>6. ShShape'
  <2>1. shVerdict' \in Verdicts
    BY <1>1, <1>4 DEF Verdicts
  <2>2. shDisk' \in HealthRows
    BY <1>1 DEF ShInv, ShShape, HealthRows
  <2>3. shBudget' \in [convictions : Nat, deaths : Nat]
    BY <1>3 DEF ShInv, ShShape
  <2>4. shEarned' \in Nat
    BY <1>3, <1>4
  <2>5. QED BY <1>3, <2>1, <2>2, <2>3, <2>4 DEF ShInv, ShShape
<1>7. FlightFresh'
  BY <1>3 DEF ShInv, FlightFresh
<1>8. RowConvicts'
  <2>1. CASE shDisk' = shDisk
    BY <1>3, <2>1 DEF ShInv, RowConvicts, RetiredTtl
  <2>2. CASE shDisk' = [expires |-> expires, fails |-> fails]
    <3>1. shDisk'.fails = fails /\ shDisk'.expires = expires
      BY <2>2
    <3>2. QED BY <1>1, <1>3, <1>4, <3>1 DEF RowConvicts, RetiredTtl
  <2>3. QED BY <1>1, <2>1, <2>2
<1>9. MemoryBounded'
  BY <1>1, <1>2, <1>3, <1>4 DEF ShInv, MemoryBounded, RetiredTtl
<1>10. FailsCounted'
  BY <1>2, <1>3 DEF ShInv, FailsCounted
<1>11. CarriesNoMore'
  <2> SUFFICES ASSUME ~shLate
               PROVE  /\ shProbe.runFails <= fails
                      /\ shProbe.runFails > 0 => shNow < shProbe.forget /\ shProbe.forget <= expires + Memory
    BY <1>2, <1>3, <1>5 DEF CarriesNoMore
  <2>1. shProbe.runFails <= RunFailsInForce(shVerdict) /\ (shProbe.runFails > 0 => shNow < shProbe.forget)
    BY DEF ShInv, CarriesNoMore
  <2>2. ASSUME shProbe.runFails > 0 PROVE shProbe.forget <= expires + Memory
    <3>1. shProbe.forget <= shNow + RetiredTtl(shProbe.runFails) + Memory
      BY <2>2 DEF ShInv, MemoryBounded
    <3>2. RetiredTtl(shProbe.runFails) <= RetiredTtl(fails) /\ RetiredTtl(shProbe.runFails) \in Nat
      BY <1>1, <1>4, <2>1, TermGrows
    <3>3. QED BY <1>1, <1>4, <3>1, <3>2
  <2>3. QED BY <1>1, <1>4, <2>1, <2>2
<1>12. RecordTrue'
  BY <1>1, <1>3, <1>5 DEF RecordTrue, Record
<1>13. QED BY <1>6, <1>7, <1>8, <1>9, <1>10, <1>11, <1>12 DEF ShInv

\* A run's acceptance clears the record, also under a probe that is out.
LEMMA AcceptsKeeps == ASSUME ShInv, RunAccepts PROVE ShInv'
<1>1. /\ shVerdict' = [shVerdict EXCEPT !.runFails = 0, !.forget = 0]
      /\ shDisk' \in {shDisk, NoHealthRow} /\ shEarned' = 0 /\ shLate' = shProbe.on
      /\ UNCHANGED <<shNow, shProbe, shBudget, shFailed>>
  BY DEF RunAccepts
<1>2. /\ shVerdict' \in Verdicts /\ shVerdict'.runFails = 0 /\ shVerdict'.forget = 0
      /\ shVerdict'.probeFails = shVerdict.probeFails
  BY <1>1 DEF ShInv, ShShape, Verdicts
<1>3. RunFailsInForce(shVerdict)' = 0
  BY <1>2 DEF RunFailsInForce
<1>4. ShShape'
  <2>1. shDisk' \in HealthRows
    BY <1>1 DEF ShInv, ShShape, NoHealthRow, HealthRows
  <2>2. shLate' \in BOOLEAN
    BY <1>1 DEF ShInv, ShShape, Flights
  <2>3. shEarned' \in Nat
    BY <1>1
  <2>4. QED BY <1>1, <1>2, <2>1, <2>2, <2>3 DEF ShInv, ShShape
<1>5. FlightFresh'
  BY <1>1 DEF ShInv, FlightFresh
<1>6. RowConvicts'
  BY <1>1 DEF ShInv, RowConvicts, RetiredTtl, NoHealthRow
<1>7. MemoryBounded'
  BY <1>1, <1>2 DEF ShInv, MemoryBounded, RetiredTtl
<1>8. FailsCounted'
  BY <1>1, <1>2 DEF ShInv, FailsCounted
<1>9. CarriesNoMore'
  <2>1. ASSUME ~shLate' PROVE shProbe'.runFails = 0
    <3>1. ~shProbe.on
      BY <1>1, <2>1, Zenon
    <3>2. QED BY <1>1, <3>1 DEF ShInv, FlightFresh
  <2>2. QED BY <1>3, <2>1 DEF CarriesNoMore
<1>10. RecordTrue'
  BY <1>1, <1>3 DEF RecordTrue, Record
<1>11. QED BY <1>4, <1>5, <1>6, <1>7, <1>8, <1>9, <1>10 DEF ShInv

\* Time only lets verdicts and records run out.
LEMMA PassKeeps == ASSUME ShInv, StepPasses PROVE ShInv'
<1>1. /\ shNow' = shNow + 1 /\ (shProbe.on => shProbe.at = shNow)
      /\ shLate' = (shLate \/ (shProbe.runFails > 0 /\ ~(shNow' < shProbe.forget)))
      /\ shEarned' = IF shVerdict.runFails > 0 /\ ~(shNow' < shVerdict.forget) THEN 0 ELSE shEarned
      /\ UNCHANGED <<shVerdict, shProbe, shDisk, shBudget, shFailed>>
  BY DEF StepPasses
<1>2. /\ shNow \in Nat \ {0} /\ shNow' \in Nat \ {0} /\ shEarned \in Nat
      /\ shVerdict.runFails \in Nat /\ shVerdict.forget \in Nat /\ shProbe.runFails \in Nat /\ shProbe.forget \in Nat
      /\ shDisk.expires \in Nat /\ shDisk.fails \in Nat
  BY <1>1 DEF ShInv, ShShape, Verdicts, Flights, HealthRows
<1>3. ShShape'
  <2>1. shLate' \in BOOLEAN
    BY <1>1, Zenon
  <2>2. shEarned' \in Nat
    BY <1>1, <1>2
  <2>3. QED BY <1>1, <1>2, <2>1, <2>2 DEF ShInv, ShShape
<1>4. FlightFresh'
  BY <1>1, <1>2 DEF ShInv, FlightFresh
<1>5. RowConvicts'
  <2>1. RetiredTtl(shDisk.fails) \in Nat
    BY <1>2, TermGrows
  <2>2. RetiredTtl(shDisk.fails)' = RetiredTtl(shDisk.fails)
    BY <1>1 DEF RetiredTtl
  <2>3. QED BY <1>1, <1>2, <2>1, <2>2 DEF ShInv, RowConvicts
<1>6. MemoryBounded'
  <2>1. /\ RetiredTtl(shVerdict.runFails) \in Nat /\ RetiredTtl(shProbe.runFails) \in Nat /\ Memory \in Nat
    BY <1>2, TermGrows, ServerHealthAssumption
  <2>2. /\ RetiredTtl(shVerdict.runFails)' = RetiredTtl(shVerdict.runFails)
        /\ RetiredTtl(shProbe.runFails)' = RetiredTtl(shProbe.runFails)
    BY <1>1 DEF RetiredTtl
  <2>3. QED BY <1>1, <1>2, <2>1, <2>2 DEF ShInv, MemoryBounded
<1>7. FailsCounted'
  BY <1>1 DEF ShInv, FailsCounted
<1>8. ASSUME ~shLate' PROVE ~shLate /\ (shProbe.runFails > 0 => shNow' < shProbe.forget)
  BY <1>1, <1>8, Zenon
<1>9. CarriesNoMore'
  <2> SUFFICES ASSUME ~shLate'
               PROVE  /\ shProbe.runFails <= RunFailsInForce(shVerdict)'
                      /\ shProbe.runFails > 0 => shNow' < shProbe.forget /\ shProbe.forget <= shVerdict.forget
    BY <1>1 DEF CarriesNoMore
  <2>1. CASE shProbe.runFails = 0
    BY <1>1, <1>2, <2>1 DEF RunFailsInForce
  <2>2. CASE shProbe.runFails > 0
    <3>1. /\ shProbe.runFails <= RunFailsInForce(shVerdict)
          /\ shNow < shProbe.forget /\ shProbe.forget <= shVerdict.forget /\ shNow' < shProbe.forget
      BY <1>8, <2>2 DEF ShInv, CarriesNoMore
    <3>2. QED BY <1>1, <1>2, <2>2, <3>1 DEF RunFailsInForce
  <2>3. QED BY <1>2, <2>1, <2>2
<1>10. RecordTrue'
  <2> SUFFICES ASSUME ~shLate' PROVE RunFailsInForce(shVerdict)' = Record(shEarned')
    BY DEF RecordTrue, Record
  <2>1. RunFailsInForce(shVerdict) = Record(shEarned)
    BY <1>8 DEF ShInv, RecordTrue
  <2>2. CASE shVerdict.runFails > 0 /\ ~(shNow' < shVerdict.forget)
    BY <1>1, <2>2 DEF RunFailsInForce, Record
  <2>3. CASE ~(shVerdict.runFails > 0 /\ ~(shNow' < shVerdict.forget))
    <3>1. RunFailsInForce(shVerdict)' = RunFailsInForce(shVerdict)
      BY <1>1, <1>2, <2>3 DEF RunFailsInForce
    <3>2. QED BY <1>1, <2>1, <2>3, <3>1
  <2>4. QED BY <2>2, <2>3
<1>11. QED BY <1>3, <1>4, <1>5, <1>6, <1>7, <1>9, <1>10 DEF ShInv

\* A verdict that is dropped leaves no conviction in force.
LEMMA DropKeeps == ASSUME ShInv, Dropped PROVE ShInv'
<1>1. /\ shVerdict' = NoVerdict /\ shEarned' = 0 /\ shLate' = (shLate \/ shProbe.runFails > 0)
      /\ UNCHANGED <<shNow, shProbe, shDisk, shBudget, shFailed>>
  BY DEF Dropped
<1>2. /\ shVerdict' \in Verdicts /\ shVerdict'.runFails = 0 /\ shVerdict'.probeFails = 0
  BY <1>1 DEF NoVerdict, Verdicts
<1>3. RunFailsInForce(shVerdict)' = 0
  BY <1>2 DEF RunFailsInForce
<1>4. ShShape'
  <2>1. shLate' \in BOOLEAN
    BY <1>1, Zenon
  <2>2. QED BY <1>1, <1>2, <2>1 DEF ShInv, ShShape
<1>5. FlightFresh' /\ RowConvicts'
  BY <1>1 DEF ShInv, FlightFresh, RowConvicts, RetiredTtl
<1>6. MemoryBounded'
  BY <1>1, <1>2 DEF ShInv, MemoryBounded, RetiredTtl
<1>7. FailsCounted'
  BY <1>1, <1>2 DEF ShInv, ShShape, FailsCounted
<1>8. CarriesNoMore'
  <2>1. ASSUME ~shLate' PROVE ~(shProbe.runFails > 0)
    BY <1>1, <2>1, Zenon
  <2>2. shProbe.runFails \in Nat
    BY DEF ShInv, ShShape, Flights
  <2>3. QED BY <1>1, <1>3, <2>1, <2>2 DEF CarriesNoMore
<1>9. RecordTrue'
  BY <1>1, <1>3 DEF RecordTrue, Record
<1>10. QED BY <1>4, <1>5, <1>6, <1>7, <1>8, <1>9 DEF ShInv

\* What a restart reads back is nothing, or the conviction of the row.
LEMMA LoadsIs ==
    ASSUME ShInv
    PROVE  /\ LoadedVerdict \in Verdicts /\ LoadedVerdict.probeFails = 0
           /\ LoadedVerdict.runFails > 0 =>
                 /\ LoadedVerdict.runFails >= Strikes
                 /\ shNow < LoadedVerdict.forget
                 /\ LoadedVerdict.forget <= shNow + RetiredTtl(LoadedVerdict.runFails) + Memory
<1>1. /\ shNow \in Nat \ {0} /\ shDisk.expires \in Nat /\ shDisk.fails \in Nat
      /\ Memory \in Nat \ {0} /\ RetiredTtl(shDisk.fails) \in Nat
  BY TermGrows, ServerHealthAssumption DEF ShInv, ShShape, HealthRows
<1>2. CASE shDisk.fails # 0 /\ LoadedVerdict # NoVerdict
  <2>1. /\ LoadedVerdict \in Verdicts /\ LoadedVerdict.probeFails = 0
        /\ LoadedVerdict.runFails = shDisk.fails /\ LoadedVerdict.forget = shDisk.expires + Memory
    BY <1>1, <1>2 DEF LoadedVerdict, Verdicts
  <2>2. shNow < shDisk.expires + Memory
    BY <1>1, <1>2 DEF LoadedVerdict
  <2>3. shDisk.fails >= Strikes /\ shDisk.expires <= shNow + RetiredTtl(shDisk.fails)
    BY <1>2 DEF ShInv, RowConvicts
  <2>4. QED BY <1>1, <2>1, <2>2, <2>3
<1>3. CASE LoadedVerdict = NoVerdict
  BY <1>3 DEF NoVerdict, Verdicts
<1>4. CASE shDisk.fails = 0
  <2>1. ~(shNow < shDisk.expires)
    BY <1>1, <1>4 DEF ShInv, RowConvicts
  <2>2. LoadedVerdict = NoVerdict
    BY <1>1, <1>4, <2>1 DEF LoadedVerdict
  <2>3. QED BY <1>3, <2>2
<1>5. QED BY <1>2, <1>3, <1>4

\* What a restart reads back is what was stored.
LEMMA HealthReloadKeeps == ASSUME ShInv, HealthReloaded PROVE ShInv'
<1>1. /\ shBudget' = [shBudget EXCEPT !.deaths = shBudget.deaths + 1]
      /\ shVerdict' = LoadedVerdict /\ shProbe' = NoProbe
      /\ shDisk' = IF shNow < shDisk.expires + Memory THEN shDisk ELSE NoHealthRow
      /\ shEarned' = IF LoadedVerdict.runFails = 0 THEN 0 ELSE LoadedVerdict.runFails - Strikes + 1
      /\ shLate' = FALSE
      /\ UNCHANGED <<shNow, shFailed>>
  BY DEF HealthReloaded
<1>2. /\ shNow \in Nat \ {0} /\ shFailed \in Nat /\ shFailed \in 0..Strikes /\ Strikes \in Nat \ {0}
  BY ServerHealthAssumption DEF ShInv, ShShape
<1>3. /\ shVerdict' \in Verdicts /\ shVerdict'.probeFails = 0 /\ shVerdict'.runFails \in Nat
      /\ shVerdict'.runFails > 0 =>
             /\ shVerdict'.runFails >= Strikes
             /\ shNow < shVerdict'.forget
             /\ shVerdict'.forget <= shNow + RetiredTtl(shVerdict'.runFails) + Memory
  BY <1>1, LoadsIs DEF Verdicts
<1>4. shProbe' \in Flights /\ FlightFresh' /\ MemoryBounded' /\ FailsCounted' /\ CarriesNoMore'
  <2>1. shNow' = shNow /\ shFailed' = shFailed /\ shVerdict'.probeFails <= shFailed
    BY <1>1, <1>2, <1>3
  <2>2. QED BY <1>1, <1>2, <1>3, <2>1, NothingCarried
<1>5. ShShape'
  <2>1. shDisk' \in HealthRows
    BY <1>1 DEF ShInv, ShShape, NoHealthRow, HealthRows
  <2>2. shBudget' \in [convictions : Nat, deaths : Nat]
    BY <1>1 DEF ShInv, ShShape
  <2>3. shEarned' \in Nat
    BY <1>1, <1>2, <1>3
  <2>4. shLate' \in BOOLEAN
    BY <1>1, Zenon
  <2>5. QED BY <1>1, <1>2, <1>3, <1>4, <2>1, <2>2, <2>3, <2>4 DEF ShShape
<1>6. RowConvicts'
  BY <1>1 DEF ShInv, RowConvicts, RetiredTtl, NoHealthRow
<1>7. RecordTrue'
  BY <1>1, <1>2, <1>3 DEF RecordTrue, RunFailsInForce, Record
<1>8. QED BY <1>4, <1>5, <1>6, <1>7 DEF ShInv

\* A step of nothing keeps the invariant.
LEMMA ShStutters == ASSUME ShInv, UNCHANGED shVars PROVE ShInv'
  BY DEF shVars, ShInv, ShShape, FlightFresh, RowConvicts, MemoryBounded, FailsCounted, CarriesNoMore,
     RecordTrue, RunFailsInForce, RetiredTtl, Record

\* The invariant of the verdicts holds in every state.
LEMMA ShInvHolds == ShSpec => []ShInv
<1>1. ASSUME ShInv, [ShNext]_shVars PROVE ShInv'
  BY <1>1, StartKeeps, ProbeLandKeeps, GivenUpKeeps, ConvictsKeeps, AcceptsKeeps, PassKeeps, DropKeeps, HealthReloadKeeps,
     ShStutters DEF ShNext
<1>2. QED BY ShInvInit, <1>1, PTL DEF ShSpec

-----------------------------------------------------------------------------
(* The theorem                                                             *)

\* A GET excludes only a server whose GETs failed Strikes times in a row, and
\* leaves what stands as it is or longer.
LEMMA GetsJudge ==
    ASSUME ShInv, ProbeLands
    PROVE  /\ ~Standing(shVerdict) /\ Standing(shVerdict') => shFailed' >= Strikes
           /\ Served
<1>1. PICK answer \in {"ok", "retired", "unknown"} :
          /\ shVerdict' = StoredVerdict(shVerdict, Reconciled(JudgedProbe(answer)))
          /\ shFailed' = IF answer = "unknown" \/ (answer = "ok" /\ Standing(shVerdict)) THEN shFailed
                         ELSE IF answer = "ok" THEN 0
                         ELSE IF shFailed < Strikes THEN shFailed + 1 ELSE Strikes
  BY DEF ProbeLands
<1>2. /\ Standing(shVerdict) => shVerdict'.state = "retired" /\ shVerdict'.expires >= shVerdict.expires
      /\ ~Standing(shVerdict) /\ Standing(shVerdict') => JudgedProbe(answer).state = "retired"
  BY <1>1, Landing DEF ProbeLands
<1>3. ASSUME JudgedProbe(answer).state = "retired" PROVE shFailed' >= Strikes
  <2>1. answer = "retired" /\ shProbe.probeFails + 1 >= Strikes
    BY <1>3, JudgedShape DEF ShInv
  <2>2. shFailed' = IF shFailed < Strikes THEN shFailed + 1 ELSE Strikes
    BY <1>1, <2>1
  <2>3. /\ shProbe.probeFails \in Nat /\ shFailed \in 0..Strikes /\ Strikes \in Nat
        /\ shProbe.probeFails <= shFailed \/ shFailed = Strikes
    BY ServerHealthAssumption DEF ShInv, ShShape, Flights, FailsCounted
  <2>4. QED BY <2>1, <2>2, <2>3
<1>4. QED BY <1>2, <1>3 DEF Served

\* A conviction excludes for the term its number earns.
LEMMA RunsJudge ==
    ASSUME ShInv, RunConvicts
    PROVE  /\ shBudget' # shBudget
           /\ ~shLate => shVerdict'.expires = shNow + RetiredTtl(Strikes + shEarned' - 1)
<1>1. PICK fails \in Nat, expires \in Nat :
             /\ ~shLate => fails = Record(shEarned + 1)
             /\ expires = shNow + RetiredTtl(fails)
             /\ shVerdict' = [state |-> "retired", expires |-> expires, probeFails |-> shVerdict.probeFails,
                              runFails |-> fails, forget |-> expires + Memory]
  BY Conviction
<1>2. shVerdict'.expires = expires
  BY <1>1
<1>3. shEarned' = shEarned + 1 /\ shEarned \in Nat /\ Strikes \in Nat
  BY ServerHealthAssumption DEF RunConvicts, ShInv, ShShape
<1>4. Record(shEarned + 1) = Strikes + shEarned' - 1
  BY <1>3 DEF Record
<1>5. shBudget' # shBudget
  <2>1. shBudget' = [shBudget EXCEPT !.convictions = shBudget.convictions + 1] /\ shBudget.convictions \in Nat
    BY DEF RunConvicts, ShInv, ShShape
  <2>2. shBudget'.convictions = shBudget.convictions + 1
    BY <2>1 DEF ShInv, ShShape
  <2>3. shBudget.convictions + 1 # shBudget.convictions
    BY <2>1
  <2>4. QED BY <2>2, <2>3
<1>6. QED BY <1>1, <1>2, <1>4, <1>5

\* An exclusion is earned and served: the n-th conviction within the memory of
\* the one before excludes for the n-th term, whatever GETs were on the network
\* when it came and across restarts; no GET excludes before the failures that
\* retire are full; and only a newer conviction or a restart without its row
\* moves an exclusion's end.  Two judges write one verdict (fallbackHealth,
\* noteUploadRejection, noteUploadAccepted, LoadServerHealth).
THEOREM ExclusionsAreEarned == ShSpec => ExclusionsEarned
<1>1. ASSUME ShInv, [ShNext]_shVars PROVE [Earned /\ Served]_shVars
  <2>1. shBudget.convictions \in Nat /\ shVerdict.expires \in Nat
    BY <1>1 DEF ShInv, ShShape, Verdicts
  <2>2. ASSUME shBudget' = shBudget, shVerdict'.state = shVerdict.state, shVerdict'.expires = shVerdict.expires
        PROVE  Earned /\ Served
    BY <2>1, <2>2 DEF Earned, Served, Standing
  <2>3. CASE ProbeStarts \/ ProbeGivenUp \/ StepPasses
    BY <2>2, <2>3 DEF ProbeStarts, ProbeGivenUp, StepPasses
  <2>4. CASE ProbeLands
    <3>1. shBudget' = shBudget
      BY <2>4 DEF ProbeLands
    <3>2. ~(shBudget'.convictions > shBudget.convictions)
      BY <2>1, <3>1
    <3>3. QED BY <1>1, <2>4, <3>1, <3>2, GetsJudge DEF Earned
  <2>5. CASE RunConvicts
    BY <1>1, <2>5, RunsJudge DEF Earned, Served
  <2>6. CASE RunAccepts
    <3>1. shVerdict'.state = shVerdict.state /\ shVerdict'.expires = shVerdict.expires /\ shBudget' = shBudget
      BY <1>1, <2>6 DEF RunAccepts, ShInv, ShShape, Verdicts
    <3>2. QED BY <2>2, <3>1
  <2>7. CASE Dropped
    <3>1. shVerdict'.state = "unknown" /\ shBudget' = shBudget /\ ~Standing(shVerdict)
      BY <2>7 DEF Dropped, NoVerdict
    <3>2. QED BY <2>1, <3>1 DEF Earned, Served, Standing
  <2>8. CASE HealthReloaded
    <3>1. shBudget' = [shBudget EXCEPT !.deaths = shBudget.deaths + 1] /\ shBudget \in [convictions : Nat, deaths : Nat]
      BY <1>1, <2>8 DEF HealthReloaded, ShInv, ShShape
    <3>2. shBudget'.convictions = shBudget.convictions /\ shBudget'.deaths = shBudget.deaths + 1
      BY <3>1
    <3>3. shBudget' # shBudget
      <4>1. shBudget.deaths + 1 # shBudget.deaths
        BY <3>1
      <4>2. QED BY <3>2, <4>1
    <3>4. QED BY <2>1, <3>2, <3>3 DEF Earned, Served
  <2>9. CASE UNCHANGED shVars
    BY <2>9
  <2>10. QED BY <1>1, <2>3, <2>4, <2>5, <2>6, <2>7, <2>8, <2>9 DEF ShNext
<1>2. QED BY ShInvHolds, <1>1, PTL DEF ShSpec, ExclusionsEarned

-----------------------------------------------------------------------------
(* BestOf: a run measures with the link to itself                          *)

BoPlaces == {"idle", "await", "next", "attempt", "transfer", "resume", "fold", "done"}
Bytes == [down : Nat, up : Nat]
RunStates ==
    [pc : BoPlaces, targets : Nat, best : BOOLEAN, keep : BOOLEAN, at : Nat, tries : Nat, leg : {"down", "up"},
     ctx : BOOLEAN, slice : BOOLEAN, stuck : BOOLEAN, bytes : Bytes, spent : Bytes,
     results : Seq([down : Nat, up : Nat, extra : Nat])]

\* From the wait before its first target, or after a transfer left behind, until
\* it leaves one behind itself, a run has nothing on its way out beside it.
BoInv ==
    /\ boRun \in RunStates /\ boOrphans \in [closing : Nat, stuck : BOOLEAN]
    /\ boRun.pc \in {"next", "attempt", "transfer"} => boOrphans.closing = 0

\* The bytes of one leg are bytes.
LEMMA SoleIs == ASSUME NEW leg \in {"down", "up"}, NEW n \in Nat PROVE Sole(leg, n) \in Bytes
<1>1. Sole(leg, n) = [down |-> IF leg = "down" THEN n ELSE 0, up |-> IF leg = "up" THEN n ELSE 0]
  BY DEF Sole, NoBytes
<1>2. QED BY <1>1 DEF Bytes

\* A failed attempt ends the runner's turn, or resumes it.
LEMMA FailedIs ==
  ASSUME NEW run \in RunStates, NEW abandoned \in BOOLEAN
  PROVE  /\ Failed(run, abandoned) \in RunStates
         /\ Failed(run, abandoned).pc \in {"fold", IF abandoned THEN "resume" ELSE "next"}
<1>1. Plus(run.spent, run.bytes) \in Bytes /\ NoBytes \in Bytes
  BY DEF RunStates, Bytes, Plus, NoBytes
<1>2. (IF ~run.ctx THEN "fold" ELSE IF abandoned THEN "resume" ELSE "next") \in BoPlaces
  BY DEF BoPlaces
<1>3. QED BY <1>1, <1>2 DEF Failed, RunStates

\* A measured attempt ends the runner's turn too.
LEMMA MeasuredIs ==
  ASSUME NEW run \in RunStates, NEW partial \in BOOLEAN
  PROVE  /\ Measured(run, partial) \in RunStates
         /\ Measured(run, partial).pc \in {"next", "fold"}
<1> DEFINE result == IF partial THEN [down |-> run.bytes.down, up |-> 0, extra |-> run.bytes.up]
                     ELSE [down |-> run.bytes.down, up |-> run.bytes.up, extra |-> 0]
           next == IF run.best THEN "next" ELSE "fold"
<1>1. result \in [down : Nat, up : Nat, extra : Nat] /\ NoBytes \in Bytes
  BY DEF RunStates, Bytes, NoBytes
<1>2. Append(run.results, result) \in Seq([down : Nat, up : Nat, extra : Nat])
  BY <1>1 DEF RunStates
<1>3. next \in BoPlaces /\ next \in {"next", "fold"}
  BY DEF BoPlaces
<1>4. Measured(run, partial) = [run EXCEPT !.results = Append(@, result), !.bytes = NoBytes, !.pc = next]
  BY DEF Measured
<1> HIDE DEF result, next
<1>5. QED BY <1>1, <1>2, <1>3, <1>4 DEF RunStates

\* A runner that has not started shares no link.
LEMMA BoInvInit == ASSUME BoInit PROVE BoInv
  BY DEF BoInit, BoInv, NoRun, RunStates, BoPlaces, Bytes, NoBytes

\* A transfer that returns leaves nothing behind.
LEMMA TransferEndsKeeps == ASSUME BoInv, TransferEnds PROVE BoInv'
<1>1. PICK n \in 0..1, ok \in BOOLEAN, again \in BOOLEAN :
        LET run == [boRun EXCEPT !.bytes = Tallied(boRun, n, TRUE)] IN
        boRun' = IF ok /\ run.leg = "down" THEN [run EXCEPT !.pc = "attempt", !.leg = "up", !.tries = 0]
                 ELSE IF ok THEN Measured(run, FALSE)
                 ELSE IF again /\ MayRetry(run) THEN Again(run)
                 ELSE IF run.leg = "up" /\ Alive THEN Measured(run, TRUE)
                 ELSE Failed(run, FALSE)
  BY DEF TransferEnds
<1>2. boRun.pc = "transfer" /\ boOrphans' = boOrphans
  BY DEF TransferEnds
<1> DEFINE run == [boRun EXCEPT !.bytes = Tallied(boRun, n, TRUE)]
<1>3. run \in RunStates
  <2>1. Sole(boRun.leg, n) \in Bytes
    BY SoleIs DEF BoInv, RunStates
  <2>2. Tallied(boRun, n, TRUE) \in Bytes
    BY <2>1 DEF Tallied, Plus, Bytes, BoInv, RunStates
  <2>3. QED BY <2>2 DEF BoInv, RunStates
<1> HIDE DEF run
<1>4. [run EXCEPT !.pc = "attempt", !.leg = "up", !.tries = 0] \in RunStates /\ Again(run) \in RunStates
  <2>1. [run EXCEPT !.pc = "attempt", !.leg = "up", !.tries = 0] \in RunStates
    BY <1>3 DEF RunStates, BoPlaces
  <2>2. run.tries + 1 \in Nat /\ "attempt" \in BoPlaces
    BY <1>3 DEF RunStates, BoPlaces
  <2>3. Again(run) = [run EXCEPT !.pc = "attempt", !.tries = run.tries + 1]
    BY DEF Again
  <2>4. Again(run) \in RunStates
    BY <1>3, <2>2, <2>3 DEF RunStates
  <2>5. QED BY <2>1, <2>4
<1>5. boRun' \in RunStates
  BY <1>1, <1>3, <1>4, MeasuredIs, FailedIs DEF run
<1>6. QED BY <1>2, <1>5 DEF BoInv

\* A transfer that is abandoned closes on its own, away from the runner's link.
LEMMA AbandonedKeeps == ASSUME BoInv, TransferAbandoned PROVE BoInv'
<1>1. CASE boRun.pc = "transfer"
  <2>1. PICK n \in 0..1 : boRun' = Failed([boRun EXCEPT !.bytes = Tallied(boRun, n, FALSE), !.stuck = FALSE], TRUE)
    BY <1>1 DEF TransferAbandoned
  <2>2. boOrphans' = IF boRun.stuck THEN [boOrphans EXCEPT !.stuck = TRUE]
                     ELSE [boOrphans EXCEPT !.closing = @ + 1]
    BY <1>1 DEF TransferAbandoned
  <2>3. [boRun EXCEPT !.bytes = Tallied(boRun, n, FALSE), !.stuck = FALSE] \in RunStates
    <3>1. Sole(boRun.leg, n) \in Bytes
      BY SoleIs DEF BoInv, RunStates
    <3>2. Tallied(boRun, n, FALSE) \in Bytes
      BY <3>1 DEF Tallied, Plus, Bytes, BoInv, RunStates
    <3>3. QED BY <3>2 DEF BoInv, RunStates
  <2>4. boRun' \in RunStates /\ boRun'.pc \in {"fold", "resume"}
    BY <2>1, <2>3, FailedIs
  <2>5. boOrphans' \in [closing : Nat, stuck : BOOLEAN]
    <3>1. boOrphans.closing + 1 \in Nat /\ boOrphans \in [closing : Nat, stuck : BOOLEAN]
      BY DEF BoInv
    <3>2. boOrphans' = [boOrphans EXCEPT !.stuck = TRUE] \/ boOrphans' = [boOrphans EXCEPT !.closing = boOrphans.closing + 1]
      BY <2>2
    <3>3. QED BY <3>1, <3>2
  <2>6. QED BY <2>4, <2>5 DEF BoInv
<1>2. CASE boRun.pc = "attempt"
  <2>1. boRun' = Failed(boRun, TRUE) /\ boOrphans' = boOrphans
    BY <1>2 DEF TransferAbandoned
  <2>2. boRun' \in RunStates /\ boRun'.pc \in {"fold", "resume"}
    BY <2>1, FailedIs DEF BoInv
  <2>3. QED BY <2>1, <2>2 DEF BoInv
<1>3. QED BY <1>1, <1>2 DEF TransferAbandoned

\* The waits let a run go on only beside a stuck transfer, or beside none.
LEMMA WaitKeeps == ASSUME BoInv, LinkWaited \/ Resume PROVE BoInv'
<1>1. boOrphans' = boOrphans /\ \E pc \in BoPlaces : boRun' = [boRun EXCEPT !.pc = pc]
                                    /\ (pc = "next" => boOrphans.closing = 0) /\ pc \in {"next", "fold"}
  <2>1. CASE LinkWaited
    BY <2>1 DEF LinkWaited, LinkAwaited, Quiet, BoundElapsed, BoPlaces
  <2>2. CASE Resume
    BY <2>2 DEF Resume, Quiet, BoundElapsed, BoPlaces
  <2>3. QED BY <2>1, <2>2
<1>2. boRun' \in RunStates /\ (boRun'.pc = "next" => boOrphans.closing = 0) /\ boRun'.pc \in {"next", "fold"}
  BY <1>1 DEF BoInv, RunStates
<1>3. QED BY <1>1, <1>2 DEF BoInv

\* Every other step of the engine leaves the runner where the invariant says.
LEMMA OtherBoSteps ==
  ASSUME BoInv,
         \/ RunStarts \/ NextTarget \/ RunFolds \/ RunEnds \/ TransferBegins \/ OrphanEnds \/ ContextDies \/ SliceEnds
         \/ UNCHANGED boVars
  PROVE  BoInv'
<1>1. CASE RunStarts
  <2>1. PICK best \in BOOLEAN, keep \in BOOLEAN, n \in 1..MaxServers :
          boRun' = [NoRun EXCEPT !.pc = "await", !.best = best, !.keep = keep, !.targets = n, !.ctx = TRUE]
    BY <1>1 DEF RunStarts
  <2>2. boRun' = [pc |-> "await", targets |-> n, best |-> best, keep |-> keep, at |-> 0, tries |-> 0, leg |-> "down",
                  ctx |-> TRUE, slice |-> FALSE, stuck |-> FALSE, bytes |-> NoBytes, results |-> <<>>,
                  spent |-> NoBytes]
    BY <2>1 DEF NoRun
  <2>3. n \in Nat /\ NoBytes \in Bytes /\ <<>> \in Seq([down : Nat, up : Nat, extra : Nat])
    BY BestOfAssumption DEF NoBytes, Bytes
  <2>4. boRun' \in RunStates
    BY <2>2, <2>3 DEF RunStates, BoPlaces
  <2>5. boRun'.pc = "await" /\ boOrphans' = boOrphans
    BY <1>1, <2>2 DEF RunStarts
  <2>6. QED BY <2>4, <2>5 DEF BoInv
<1>2. CASE NextTarget
  <2> DEFINE next == [boRun EXCEPT !.pc = "attempt", !.at = boRun.at + 1, !.tries = 0, !.leg = "down", !.slice = TRUE]
             fold == [boRun EXCEPT !.pc = "fold"]
  <2>1. boRun' = next \/ boRun' = fold
    BY <1>2 DEF NextTarget
  <2>2. boRun.at + 1 \in Nat
    BY DEF BoInv, RunStates
  <2>3. next \in RunStates
    BY <2>2 DEF BoInv, RunStates, BoPlaces
  <2>4. fold \in RunStates
    BY DEF BoInv, RunStates, BoPlaces
  <2> HIDE DEF next, fold
  <2>5. boRun' \in RunStates
    BY <2>1, <2>3, <2>4
  <2>6. QED BY <1>2, <2>5 DEF NextTarget, BoInv
<1>3. CASE RunFolds
  <2>1. boOrphans' = boOrphans
    BY <1>3 DEF RunFolds
  <2>2. CASE boRun.results = <<>>
    BY <1>3, <2>1, <2>2 DEF RunFolds, BoInv, RunStates, BoPlaces
  <2>3. CASE boRun.results # <<>>
    <3>1. PICK win \in DOMAIN boRun.results : boRun' = [boRun EXCEPT !.pc = "done", !.at = win]
      BY <1>3, <2>3 DEF RunFolds, Winners
    <3>2. win \in Nat
      BY <3>1 DEF BoInv, RunStates
    <3>3. QED BY <2>1, <3>1, <3>2 DEF BoInv, RunStates, BoPlaces
  <2>4. QED BY <2>2, <2>3
<1>4. CASE RunEnds
  BY <1>4 DEF RunEnds, BoInv, NoRun, RunStates, BoPlaces, Bytes, NoBytes
<1>5. CASE TransferBegins
  <2>1. PICK stuck \in BOOLEAN : boRun' = [boRun EXCEPT !.pc = "transfer", !.stuck = stuck]
    BY <1>5 DEF TransferBegins, BoInv
  <2>2. boRun.pc = "attempt" /\ boOrphans' = boOrphans
    BY <1>5 DEF TransferBegins
  <2>3. boRun' \in RunStates
    BY <2>1 DEF BoInv, RunStates, BoPlaces
  <2>4. QED BY <2>2, <2>3 DEF BoInv
<1>6. CASE OrphanEnds
  <2>1. boRun' = boRun /\ boOrphans \in [closing : Nat, stuck : BOOLEAN]
    BY <1>6 DEF OrphanEnds, BoInv
  <2>2. CASE boOrphans.closing > 0 /\ boOrphans' = [boOrphans EXCEPT !.closing = @ - 1]
    <3>1. boOrphans.closing - 1 \in Nat /\ boOrphans.closing # 0
      BY <2>1, <2>2
    <3>2. boOrphans' \in [closing : Nat, stuck : BOOLEAN]
      BY <2>1, <2>2, <3>1
    <3>3. QED BY <2>1, <3>1, <3>2 DEF BoInv
  <2>3. CASE boOrphans' = [boOrphans EXCEPT !.stuck = FALSE]
    BY <2>1, <2>3 DEF BoInv
  <2>4. QED BY <1>6, <2>2, <2>3 DEF OrphanEnds
<1>7. CASE ContextDies \/ SliceEnds
  BY <1>7 DEF ContextDies, SliceEnds, BoInv, RunStates
<1>8. CASE UNCHANGED boVars
  BY <1>8 DEF boVars, BoInv
<1>9. QED BY <1>1, <1>2, <1>3, <1>4, <1>5, <1>6, <1>7, <1>8

\* Neither the next target nor the next run measures beside a transfer that is
\* about to close: only beside one that has outlived its own capture window.
THEOREM LinkIsNotShared == BoSpec => []LinkNotShared
<1>1. BoInv /\ [BoNext]_boVars => BoInv'
  BY TransferEndsKeeps, AbandonedKeeps, WaitKeeps, OtherBoSteps DEF BoNext
<1>2. BoInv => LinkNotShared
  BY DEF BoInv, LinkNotShared
<1>3. QED BY <1>1, <1>2, BoInvInit, PTL DEF BoSpec

-----------------------------------------------------------------------------
(* BestOf: what was moved is on the bill                                   *)

Results == [down : Nat, up : Nat, extra : Nat]
Fields3 == {"down", "up", "extra"}

\* What a run has on its account so far, by direction.
Billed(run) ==
    [down |-> run.spent.down + run.bytes.down + TotalOf("down", run.results),
     up |-> run.spent.up + run.bytes.up + TotalOf("up", run.results) + TotalOf("extra", run.results)]

\* Without results there is no total.
LEMMA TotalOfNone == ASSUME NEW field PROVE TotalOf(field, <<>>) = 0
<1>1. DOMAIN <<>> = {}
  OBVIOUS
<1>2. QED BY <1>1, TotalNone DEF TotalOf

\* A total of results is a number, and of one more result is more by what it has.
LEMMA TotalOfIs ==
    ASSUME NEW results \in Seq(Results), NEW field \in Fields3
    PROVE  /\ TotalOf(field, results) \in Nat
           /\ \A r \in Results : TotalOf(field, Append(results, r)) = TotalOf(field, results) + r[field]
           /\ \A win \in DOMAIN results : results[win][field] \in Nat /\ TotalOf(field, results) >= results[win][field]
<1> DEFINE f == [i \in DOMAIN results |-> results[i][field]]  n == Len(results)
<1>1. n \in Nat /\ DOMAIN results = 1 .. n /\ IsFiniteSet(1 .. n)
  BY FS_Interval
<1>2. \A i \in DOMAIN results : f[i] \in Nat /\ f[i] = results[i][field] /\ results[i][field] \in Nat
  <2>1. \A r \in Results : r[field] \in Nat
    BY DEF Results, Fields3
  <2>2. \A i \in DOMAIN results : results[i] \in Results
    OBVIOUS
  <2>3. QED BY <2>1, <2>2
<1>3. TotalOf(field, results) = Total(f, 1 .. n)
  BY <1>1 DEF TotalOf
<1>4. ASSUME NEW r \in Results
      PROVE  TotalOf(field, Append(results, r)) = TotalOf(field, results) + r[field]
  <2> DEFINE longer == Append(results, r)
             g == [i \in DOMAIN longer |-> longer[i][field]]
  <2>1. DOMAIN longer = (1 .. n) \union {n + 1} /\ n + 1 \notin 1 .. n /\ 1 .. n = DOMAIN results
        /\ longer[n + 1] = r /\ \A i \in 1 .. n : longer[i] = results[i]
    BY <1>1
  <2>2. g[n + 1] = r[field] /\ r[field] \in Nat /\ \A i \in 1 .. n : g[i] = f[i]
    BY <1>2, <2>1 DEF Results, Fields3
  <2>3. TotalOf(field, longer) = Total(g, (1 .. n) \union {n + 1})
    BY <2>1 DEF TotalOf
  <2> DEFINE S == 1 .. n  y == n + 1
  <2> HIDE DEF longer, f, g
  <2>4. Total(g, S \union {y}) = Total(g, S) + g[y]
    <3>1. \A i \in S \union {y} : g[i] \in Nat
      BY <1>1, <1>2, <2>2
    <3>2. IsFiniteSet(S) /\ y \notin S
      BY <1>1, <2>1
    <3> HIDE DEF S, y
    <3>3. QED BY ONLY <3>1, <3>2, TotalAdd
  <2>5. Total(g, 1 .. n) = Total(f, 1 .. n)
    BY ONLY <2>2, TotalSame
  <2>6. QED BY <1>3, <2>2, <2>3, <2>4, <2>5 DEF longer
<1> HIDE DEF f
<1>5. Total(f, 1 .. n) \in Nat
  BY ONLY <1>1, <1>2, TotalNat
<1>6. ASSUME NEW win \in DOMAIN results PROVE Total(f, 1 .. n) >= f[win]
  <2> DEFINE rest == (1 .. n) \ {win}
  <2>1. IsFiniteSet(rest) /\ win \notin rest /\ 1 .. n = rest \union {win} /\ \A i \in rest \union {win} : f[i] \in Nat
    BY <1>1, <1>2, FS_RemoveElement
  <2> HIDE DEF rest
  <2>2. Total(f, rest \union {win}) = Total(f, rest) + f[win]
    BY ONLY <2>1, TotalAdd
  <2>3. Total(f, rest) \in Nat
    BY ONLY <2>1, TotalNat
  <2>4. f[win] \in Nat
    BY <1>2
  <2>5. Total(f, rest) + f[win] >= f[win]
    BY ONLY <2>3, <2>4
  <2>6. QED BY <2>1, <2>2, <2>5
<1>7. QED BY <1>2, <1>3, <1>4, <1>5, <1>6

\* The three fields of a result.
LEMMA FieldsAre == "down" \in Fields3 /\ "up" \in Fields3 /\ "extra" \in Fields3
  BY DEF Fields3

\* The account of a run is a pair of numbers.
LEMMA BilledIs ==
    ASSUME NEW run \in RunStates
    PROVE  Billed(run) \in Bytes
<1>1. run.results \in Seq(Results) /\ run.spent \in Bytes /\ run.bytes \in Bytes
  BY DEF RunStates, Results
<1>2. TotalOf("down", run.results) \in Nat /\ TotalOf("up", run.results) \in Nat /\ TotalOf("extra", run.results) \in Nat
  BY <1>1, TotalOfIs, FieldsAre
<1>3. run.spent.down \in Nat /\ run.bytes.down \in Nat /\ run.spent.up \in Nat /\ run.bytes.up \in Nat
  BY <1>1 DEF Bytes
<1> DEFINE down == TotalOf("down", run.results)  up == TotalOf("up", run.results)  extra == TotalOf("extra", run.results)
<1>4. Billed(run) = [down |-> run.spent.down + run.bytes.down + down, up |-> run.spent.up + run.bytes.up + up + extra]
  BY DEF Billed
<1>5. down \in Nat /\ up \in Nat /\ extra \in Nat
  BY <1>2
<1> HIDE DEF down, up, extra
<1>6. run.spent.down + run.bytes.down + down \in Nat /\ run.spent.up + run.bytes.up + up + extra \in Nat
  BY <1>3, <1>5
<1>7. QED BY <1>4, <1>6 DEF Bytes

\* A failed target's traffic stays on the account.
LEMMA FailedBills ==
    ASSUME NEW run \in RunStates, NEW abandoned \in BOOLEAN
    PROVE  /\ Billed(Failed(run, abandoned)) = Billed(run)
           /\ Failed(run, abandoned).bytes = NoBytes
<1> DEFINE fail == Failed(run, abandoned)
<1>1. fail.spent = Plus(run.spent, run.bytes) /\ fail.bytes = NoBytes /\ fail.results = run.results
  BY DEF Failed, RunStates
<1>2. run.results \in Seq(Results) /\ run.spent \in Bytes /\ run.bytes \in Bytes
  BY DEF RunStates, Results
<1> DEFINE down == TotalOf("down", run.results)  up == TotalOf("up", run.results)  extra == TotalOf("extra", run.results)
<1>3. down \in Nat /\ up \in Nat /\ extra \in Nat
  BY <1>2, TotalOfIs, FieldsAre
<1>4. Billed(fail) = [down |-> fail.spent.down + fail.bytes.down + down, up |-> fail.spent.up + fail.bytes.up + up + extra]
      /\ Billed(run) = [down |-> run.spent.down + run.bytes.down + down, up |-> run.spent.up + run.bytes.up + up + extra]
  BY <1>1 DEF Billed
<1> HIDE DEF fail, down, up, extra
<1>5. fail.spent.down = run.spent.down + run.bytes.down /\ fail.spent.up = run.spent.up + run.bytes.up
      /\ fail.bytes.down = 0 /\ fail.bytes.up = 0
  BY <1>1 DEF Plus, NoBytes
<1>6. run.spent.down \in Nat /\ run.bytes.down \in Nat /\ run.spent.up \in Nat /\ run.bytes.up \in Nat
  BY <1>2 DEF Bytes
<1>7. fail.spent.down + fail.bytes.down + down = run.spent.down + run.bytes.down + down
  BY <1>3, <1>5, <1>6
<1>8. fail.spent.up + fail.bytes.up + up + extra = run.spent.up + run.bytes.up + up + extra
  BY <1>3, <1>5, <1>6
<1>9. QED BY <1>1, <1>4, <1>7, <1>8 DEF fail

\* So does a measured one's, an upload that failed for good included.
LEMMA MeasuredBills ==
    ASSUME NEW run \in RunStates, NEW partial \in BOOLEAN
    PROVE  /\ Billed(Measured(run, partial)) = Billed(run)
           /\ Measured(run, partial).bytes = NoBytes
<1> DEFINE result == IF partial THEN [down |-> run.bytes.down, up |-> 0, extra |-> run.bytes.up]
                     ELSE [down |-> run.bytes.down, up |-> run.bytes.up, extra |-> 0]
           next == IF run.best THEN "next" ELSE "fold"
           meas == Measured(run, partial)
<1>1. run.results \in Seq(Results) /\ run.spent \in Bytes /\ run.bytes \in Bytes
  BY DEF RunStates, Results
<1>2. run.spent.down \in Nat /\ run.bytes.down \in Nat /\ run.spent.up \in Nat /\ run.bytes.up \in Nat
  BY <1>1 DEF Bytes
<1>3. result \in Results /\ result.down = run.bytes.down /\ result.up \in Nat /\ result.extra \in Nat
      /\ result.up + result.extra = run.bytes.up
  BY <1>2 DEF Results
<1>4. meas = [run EXCEPT !.results = Append(@, result), !.bytes = NoBytes, !.pc = next]
  BY DEF Measured
<1> HIDE DEF result, next, meas
<1>5. meas.spent = run.spent /\ meas.bytes = NoBytes /\ meas.results = Append(run.results, result)
  BY <1>4 DEF RunStates
<1>6. meas.bytes.down = 0 /\ meas.bytes.up = 0
  BY <1>5 DEF NoBytes
<1> DEFINE down == TotalOf("down", run.results)  up == TotalOf("up", run.results)  extra == TotalOf("extra", run.results)
<1>7. down \in Nat /\ up \in Nat /\ extra \in Nat
  BY <1>1, TotalOfIs, FieldsAre
<1>8. /\ TotalOf("down", meas.results) = down + result.down
      /\ TotalOf("up", meas.results) = up + result.up
      /\ TotalOf("extra", meas.results) = extra + result.extra
  BY <1>1, <1>3, <1>5, TotalOfIs, FieldsAre
<1>9. /\ Billed(meas) = [down |-> run.spent.down + 0 + (down + result.down),
                         up |-> run.spent.up + 0 + (up + result.up) + (extra + result.extra)]
      /\ Billed(run) = [down |-> run.spent.down + run.bytes.down + down, up |-> run.spent.up + run.bytes.up + up + extra]
  BY <1>5, <1>6, <1>8 DEF Billed
<1> HIDE DEF down, up, extra
<1>10. run.spent.down + 0 + (down + result.down) = run.spent.down + run.bytes.down + down
  BY <1>2, <1>3, <1>7
<1>11. run.spent.up + 0 + (up + result.up) + (extra + result.extra) = run.spent.up + run.bytes.up + up + extra
  BY <1>2, <1>3, <1>7
<1>12. QED BY <1>5, <1>9, <1>10, <1>11 DEF meas

\* What a transfer had moved is put on the account, finished or left behind.
LEMMA TalliedBills ==
    ASSUME NEW run \in RunStates, NEW n \in Nat, NEW finished \in BOOLEAN,
           NEW next \in RunStates, next.spent = run.spent, next.results = run.results,
           next.bytes = Tallied(run, n, finished)
    PROVE  Billed(next) = Plus(Billed(run), Sole(run.leg, n))
<1>1. run.results \in Seq(Results) /\ run.spent \in Bytes /\ run.bytes \in Bytes /\ run.leg \in {"down", "up"}
  BY DEF RunStates, Results
<1>2. run.spent.down \in Nat /\ run.bytes.down \in Nat /\ run.spent.up \in Nat /\ run.bytes.up \in Nat
  BY <1>1 DEF Bytes
<1> DEFINE down == TotalOf("down", run.results)  up == TotalOf("up", run.results)  extra == TotalOf("extra", run.results)
           d == IF run.leg = "down" THEN n ELSE 0  u == IF run.leg = "up" THEN n ELSE 0
<1>3. down \in Nat /\ up \in Nat /\ extra \in Nat
  BY <1>1, TotalOfIs, FieldsAre
<1>4. Sole(run.leg, n) = [down |-> d, up |-> u]
  BY <1>1 DEF Sole, NoBytes
<1>5. d \in Nat /\ u \in Nat
  OBVIOUS
<1> HIDE DEF d, u
<1>6. next.bytes.down = run.bytes.down + d /\ next.bytes.up = run.bytes.up + u
  BY <1>4 DEF Tallied, Plus
<1>7. Billed(next) = [down |-> run.spent.down + (run.bytes.down + d) + down,
                      up |-> run.spent.up + (run.bytes.up + u) + up + extra]
      /\ Plus(Billed(run), Sole(run.leg, n)) =
             [down |-> (run.spent.down + run.bytes.down + down) + d,
              up |-> (run.spent.up + run.bytes.up + up + extra) + u]
  BY <1>4, <1>6 DEF Billed, Plus
<1> HIDE DEF down, up, extra
<1>8. run.spent.down + (run.bytes.down + d) + down = (run.spent.down + run.bytes.down + down) + d
  BY <1>2, <1>3, <1>5
<1>9. run.spent.up + (run.bytes.up + u) + up + extra = (run.spent.up + run.bytes.up + up + extra) + u
  BY <1>2, <1>3, <1>5
<1>10. QED BY <1>7, <1>8, <1>9

-----------------------------------------------------------------------------
(* The rows of a run                                                       *)

Member(results, i) == [kind |-> "member", at |-> i, down |-> results[i].down, up |-> results[i].up]
Column(rows, field) == [r \in rows |-> r[field]]

\* One or two rows hold the sum of what they hold.
LEMMA TwoRows ==
    ASSUME NEW R, IsFiniteSet(R), NEW a, a \notin R, NEW b, b \notin R, a # b, NEW f,
           \A r \in R \union {a, b} : f[r] \in Nat
    PROVE  Total(f, R \union {a, b}) = Total(f, R) + f[a] + f[b]
<1> DEFINE one == R \union {a}
<1>1. Total(f, one) = Total(f, R) + f[a]
  BY TotalAdd
<1>2. IsFiniteSet(one) /\ b \notin one /\ R \union {a, b} = one \union {b} /\ \A r \in one \union {b} : f[r] \in Nat
  BY FS_AddElement
<1> HIDE DEF one
<1>3. Total(f, one \union {b}) = Total(f, one) + f[b]
  BY ONLY <1>2, TotalAdd
<1>4. QED BY <1>1, <1>2, <1>3

\* The rows of kept losers hold what the losers moved.
LEMMA MemberRows ==
    ASSUME NEW results \in Seq(Results), NEW win \in DOMAIN results, NEW field \in {"down", "up"},
           NEW rows, \A i \in DOMAIN results \ {win} : Member(results, i) \in rows,
           \A r \in rows : \E i \in DOMAIN results \ {win} : r = Member(results, i),
           NEW f, \A r \in rows : f[r] = r[field]
    PROVE  /\ IsFiniteSet(rows) /\ \A r \in rows : r[field] \in Nat
           /\ Total(f, rows) + results[win][field] = TotalOf(field, results)
<1> DEFINE S == DOMAIN results \ {win}
           h == [i \in S |-> Member(results, i)]
           g == [i \in DOMAIN results |-> results[i][field]]
<1>1. IsFiniteSet(S) /\ win \notin S /\ DOMAIN results = S \union {win}
  <2>1. DOMAIN results = 1 .. Len(results) /\ IsFiniteSet(1 .. Len(results))
    BY FS_Interval
  <2>2. QED BY <2>1, FS_RemoveElement
<1>2. \A i \in DOMAIN results : g[i] \in Nat /\ g[i] = results[i][field]
  <2>1. \A r \in Results : r[field] \in Nat
    BY DEF Results
  <2>2. \A i \in DOMAIN results : results[i] \in Results
    OBVIOUS
  <2>3. QED BY <2>1, <2>2
<1>3. \A i \in S : Member(results, i) \in rows /\ Member(results, i)[field] = g[i] /\ Member(results, i).at = i
  BY <1>2 DEF Member
<1>4. h \in Bijection(S, rows)
  <2>1. h \in [S -> rows] /\ \A i \in S : h[i].at = i
    BY <1>3
  <2>2. \A r \in rows : \E i \in S : h[i] = r
    OBVIOUS
  <2> HIDE DEF h, S
  <2>3. \A i, j \in S : h[i] = h[j] => i = j
    BY <2>1
  <2>4. QED BY <2>1, <2>2, <2>3 DEF Bijection, Injection, Surjection, IsInjective
<1>5. \A i \in S : g[i] \in Nat /\ f[h[i]] = g[i]
  BY <1>1, <1>2, <1>3
<1>6. \A r \in rows : r[field] \in Nat
  BY <1>1, <1>2, <1>3
<1>7. TotalOf(field, results) = Total(g, S \union {win})
  BY <1>1 DEF TotalOf
<1> HIDE DEF h, S, g
<1>8. IsFiniteSet(rows)
  BY <1>1, <1>4, FS_Bijection DEF ExistsBijection
<1>9. Total(f, rows) = Total(g, S)
  BY ONLY <1>1, <1>4, <1>5, TotalImage
<1>10. Total(g, S \union {win}) = Total(g, S) + g[win]
  <2>1. \A i \in S \union {win} : g[i] \in Nat
    BY <1>1, <1>2
  <2>2. QED BY ONLY <1>1, <2>1, TotalAdd
<1>11. QED BY <1>1, <1>2, <1>6, <1>7, <1>8, <1>9, <1>10

\* The rows of a run hold what is on its account: the winner's row, the usage
\* row and, when they are kept, the losers' own.  The winner's row counts upload
\* bytes if it measured an upload, and only then.
LEMMA RowsBill ==
    ASSUME NEW run \in RunStates, run.bytes = NoBytes, NEW win \in DOMAIN run.results
    PROVE  /\ \A field \in {"down", "up"} : Total(Column(Rows(run, win), field), Rows(run, win)) = Billed(run)[field]
           /\ \A r \in Rows(run, win) : r.kind = "run" => (r.up > 0 <=> run.results[win].up > 0)
<1> DEFINE own == run.results[win]
           total == [down |-> TotalOf("down", run.results), up |-> TotalOf("up", run.results)]
           extra == TotalOf("extra", run.results)
           kept == run.keep /\ run.best /\ Len(run.results) > 1
           sum == IF kept THEN own ELSE total
           losers == {Member(run.results, i) : i \in IF kept THEN DOMAIN run.results \ {win} ELSE {}}
           winner == [kind |-> "run", down |-> sum.down + run.spent.down,
                      up |-> IF own.up = 0 THEN 0 ELSE sum.up + run.spent.up]
           usage == [kind |-> "usage", down |-> 0,
                     up |-> extra + (IF own.up = 0 THEN sum.up + run.spent.up ELSE 0)]
<1>1. Rows(run, win) = losers \union {winner, usage}
  BY DEF Rows, Fold, Member
<1>2. run.results \in Seq(Results) /\ run.spent \in Bytes /\ own \in Results
  <2>1. run.results \in Seq(Results) /\ run.spent \in Bytes
    BY DEF RunStates, Results
  <2>2. QED BY <2>1
<1>3. /\ own.down \in Nat /\ own.up \in Nat /\ run.spent.down \in Nat /\ run.spent.up \in Nat
      /\ total.down \in Nat /\ total.up \in Nat /\ extra \in Nat /\ total.up >= own.up
  BY <1>2, TotalOfIs, FieldsAre DEF Results, Bytes
<1>4. sum.down \in Nat /\ sum.up \in Nat /\ sum.up >= own.up
  BY <1>3
<1>5. Billed(run) = [down |-> run.spent.down + 0 + total.down, up |-> run.spent.up + 0 + total.up + extra]
  BY DEF Billed, NoBytes
<1>6. winner \notin losers /\ usage \notin losers /\ winner # usage
  BY DEF Member
<1>7. winner.down \in Nat /\ winner.up \in Nat /\ usage.down \in Nat /\ usage.up \in Nat
  <2>1. winner.down = sum.down + run.spent.down /\ usage.down = 0
    OBVIOUS
  <2>2. /\ winner.up = IF own.up = 0 THEN 0 ELSE sum.up + run.spent.up
        /\ usage.up = extra + (IF own.up = 0 THEN sum.up + run.spent.up ELSE 0)
    OBVIOUS
  <2> HIDE DEF winner, usage, sum, total, extra, own
  <2>3. QED BY <1>3, <1>4, <2>1, <2>2
<1>8. ASSUME NEW field \in {"down", "up"}
      PROVE  Total(Column(Rows(run, win), field), Rows(run, win)) = Billed(run)[field]
  <2> DEFINE f == Column(Rows(run, win), field)
  <2>1. \A r \in losers \union {winner, usage} : f[r] = r[field]
    BY <1>1 DEF Column
  <2>2. /\ IsFiniteSet(losers) /\ \A r \in losers : r[field] \in Nat
        /\ Total(f, losers) \in Nat /\ Total(f, losers) + sum[field] = total[field]
    <3>1. CASE kept
      <4>1. /\ \A i \in DOMAIN run.results \ {win} : Member(run.results, i) \in losers
            /\ \A r \in losers : \E i \in DOMAIN run.results \ {win} : r = Member(run.results, i)
            /\ sum = own
        BY <3>1
      <4>2. \A r \in losers : f[r] = r[field]
        BY <2>1
      <4>3. TotalOf(field, run.results) = total[field]
        OBVIOUS
      <4> HIDE DEF losers, f, sum, total, own
      <4>4. run.results \in Seq(Results) /\ win \in DOMAIN run.results
        BY <1>2
      <4>5. IsFiniteSet(losers) /\ (\A r \in losers : r[field] \in Nat)
            /\ Total(f, losers) + run.results[win][field] = TotalOf(field, run.results)
        <5>1. PICK rs, fs, ls : rs = run.results /\ fs = f /\ ls = losers
          OBVIOUS
        <5>2. /\ rs \in Seq(Results) /\ win \in DOMAIN rs
              /\ \A i \in DOMAIN rs \ {win} : Member(rs, i) \in ls
              /\ \A r \in ls : \E i \in DOMAIN rs \ {win} : r = Member(rs, i)
              /\ \A r \in ls : fs[r] = r[field]
          BY <4>4, <4>1, <4>2, <5>1
        <5>3. IsFiniteSet(ls) /\ (\A r \in ls : r[field] \in Nat)
              /\ Total(fs, ls) + rs[win][field] = TotalOf(field, rs)
          BY ONLY field \in {"down", "up"}, <5>2, MemberRows
        <5>4. QED BY <5>1, <5>3
      <4>6. IsFiniteSet(losers) /\ (\A r \in losers : r[field] \in Nat)
            /\ Total(f, losers) + own[field] = TotalOf(field, run.results)
        BY <4>5 DEF own
      <4>7. Total(f, losers) \in Nat
        BY <4>2, <4>6, TotalNat
      <4>8. QED BY <4>1, <4>3, <4>6, <4>7
    <3>2. CASE ~kept
      <4>1. losers = {} /\ sum = total
        BY <3>2
      <4>2. total[field] \in Nat
        BY <1>3
      <4> HIDE DEF losers, f, sum, total
      <4>3. Total(f, losers) = 0 /\ IsFiniteSet(losers)
        BY <4>1, TotalNone, FS_EmptySet
      <4>4. QED BY <4>1, <4>2, <4>3
    <3>3. QED BY <3>1, <3>2
  <2>3. winner[field] \in Nat /\ usage[field] \in Nat
    BY <1>7
  <2>4. winner[field] + usage[field] + total[field] = Billed(run)[field] + sum[field]
    <3>1. CASE field = "down"
      <4>1. winner.down + usage.down + total.down = (run.spent.down + 0 + total.down) + sum.down
        BY <1>3, <1>4
      <4>2. QED BY <3>1, <4>1, <1>5
    <3>2. CASE field = "up"
      <4>1. winner.up + usage.up = sum.up + run.spent.up + extra
        BY <1>3, <1>4
      <4>2. (run.spent.up + 0 + total.up + extra) + sum.up = sum.up + run.spent.up + extra + total.up
        BY <1>3, <1>4
      <4>3. QED BY <3>2, <4>1, <4>2, <1>5
    <3>3. QED BY <3>1, <3>2
  <2>5. f[winner] = winner[field] /\ f[usage] = usage[field] /\ \A r \in losers \union {winner, usage} : f[r] \in Nat
    BY <2>1, <2>2, <2>3
  <2>6. sum[field] \in Nat /\ total[field] \in Nat /\ Billed(run)[field] \in Nat
    BY <1>3, <1>4, BilledIs DEF Bytes
  <2> HIDE DEF losers, winner, usage, f, sum, total
  <2>7. Total(f, losers \union {winner, usage}) = Total(f, losers) + f[winner] + f[usage]
    BY ONLY <1>6, <2>2, <2>5, TwoRows
  <2>8. Total(f, losers) + f[winner] + f[usage] = Billed(run)[field]
    BY ONLY <2>2, <2>3, <2>4, <2>5, <2>6
  <2>9. QED BY <1>1, <2>7, <2>8 DEF f
<1>9. ASSUME NEW r \in Rows(run, win), r.kind = "run" PROVE r.up > 0 <=> run.results[win].up > 0
  <2>1. r = winner
    BY <1>1, <1>9 DEF Member
  <2>2. winner.up > 0 <=> own.up > 0
    BY <1>3, <1>4
  <2>3. QED BY <2>1, <2>2
<1>10. QED BY <1>8, <1>9

-----------------------------------------------------------------------------
(* The bill                                                                *)

NothingOpen == boRun.pc \notin {"attempt", "transfer"} => boRun.bytes = NoBytes

\* What the run's transfers had moved is on its account, between targets all of
\* it under a result or as spent; and when the run is done it is on its rows.
BillInv == BoInv /\ boMoved \in Bytes /\ Billed(boRun) = boMoved /\ NothingOpen /\ SpendOnTheBill

\* The accounts of two runs with the same traffic are the same.
LEMMA SameTraffic ==
    ASSUME NEW a, NEW b, a.bytes = b.bytes, a.spent = b.spent, a.results = b.results
    PROVE  Billed(a) = Billed(b)
  BY DEF Billed

\* One more entry on what was moved.
LEMMA MovedIs ==
    ASSUME NEW b \in Bytes, NEW leg \in {"down", "up"}, NEW n \in Nat
    PROVE  Plus(b, Sole(leg, n)) \in Bytes
<1>1. Sole(leg, n) \in Bytes
  BY SoleIs
<1>2. QED BY <1>1 DEF Plus, Bytes

\* A transfer that ends is tallied, and what it moved is kept wherever the run
\* goes next.
LEMMA TransferEndsBills == ASSUME BillInv, TransferEnds PROVE BillInv'
<1>1. PICK n \in 0..1, ok \in BOOLEAN, again \in BOOLEAN :
        LET run == [boRun EXCEPT !.bytes = Tallied(boRun, n, TRUE)] IN
        /\ boMoved' = Plus(boMoved, Sole(run.leg, n))
        /\ boRun' = IF ok /\ run.leg = "down" THEN [run EXCEPT !.pc = "attempt", !.leg = "up", !.tries = 0]
                    ELSE IF ok THEN Measured(run, FALSE)
                    ELSE IF again /\ MayRetry(run) THEN Again(run)
                    ELSE IF run.leg = "up" /\ Alive THEN Measured(run, TRUE)
                    ELSE Failed(run, FALSE)
  BY DEF TransferEnds
<1> DEFINE run == [boRun EXCEPT !.bytes = Tallied(boRun, n, TRUE)]
<1>2. boRun \in RunStates /\ boRun.leg \in {"down", "up"} /\ n \in Nat
  BY DEF BillInv, BoInv, RunStates
<1>3. run \in RunStates /\ run.bytes = Tallied(boRun, n, TRUE) /\ run.spent = boRun.spent /\ run.results = boRun.results
      /\ run.leg = boRun.leg
  <2>1. Sole(boRun.leg, n) \in Bytes
    BY <1>2, SoleIs
  <2>2. Tallied(boRun, n, TRUE) \in Bytes
    BY <1>2, <2>1 DEF Tallied, Plus, Bytes, RunStates
  <2>3. QED BY <1>2, <2>2 DEF RunStates
<1>4. boMoved' = Plus(boMoved, Sole(boRun.leg, n))
  BY <1>1, <1>3
<1>5. Billed(run) = boMoved'
  <2>1. Billed(run) = Plus(Billed(boRun), Sole(boRun.leg, n))
    BY <1>2, <1>3, TalliedBills
  <2>2. QED BY <1>4, <2>1 DEF BillInv
<1>6. boRun' = [run EXCEPT !.pc = "attempt", !.leg = "up", !.tries = 0] \/ boRun' = Again(run)
      \/ boRun' = Measured(run, FALSE) \/ boRun' = Measured(run, TRUE) \/ boRun' = Failed(run, FALSE)
  BY <1>1
<1> HIDE DEF run
<1>7. CASE boRun' = [run EXCEPT !.pc = "attempt", !.leg = "up", !.tries = 0] \/ boRun' = Again(run)
  <2>1. boRun'.pc = "attempt" /\ boRun'.bytes = run.bytes /\ boRun'.spent = run.spent /\ boRun'.results = run.results
    BY <1>3, <1>7 DEF Again, RunStates
  <2>2. Billed(boRun') = Billed(run)
    BY <2>1, SameTraffic
  <2>3. QED BY <1>2, <1>4, <1>5, <2>1, <2>2, MovedIs, TransferEndsKeeps DEF BillInv, NothingOpen, SpendOnTheBill
<1>8. CASE boRun' = Measured(run, FALSE) \/ boRun' = Measured(run, TRUE) \/ boRun' = Failed(run, FALSE)
  <2>1. boRun'.pc \in {"next", "fold"} /\ boRun'.bytes = NoBytes /\ Billed(boRun') = Billed(run)
    BY <1>3, <1>8, MeasuredIs, FailedIs, MeasuredBills, FailedBills
  <2>2. QED BY <1>2, <1>4, <1>5, <2>1, MovedIs, TransferEndsKeeps DEF BillInv, NothingOpen, SpendOnTheBill
<1>9. QED BY <1>6, <1>7, <1>8

\* So is one that is left behind.
LEMMA AbandonedBills == ASSUME BillInv, TransferAbandoned PROVE BillInv'
<1>1. boRun \in RunStates /\ boRun.leg \in {"down", "up"}
  BY DEF BillInv, BoInv, RunStates
<1>2. CASE boRun.pc = "transfer"
  <2>1. PICK n \in 0..1 : /\ boMoved' = Plus(boMoved, Sole(boRun.leg, n))
                          /\ boRun' = Failed([boRun EXCEPT !.bytes = Tallied(boRun, n, FALSE), !.stuck = FALSE], TRUE)
    BY <1>2 DEF TransferAbandoned
  <2> DEFINE run == [boRun EXCEPT !.bytes = Tallied(boRun, n, FALSE), !.stuck = FALSE]
  <2>2. run \in RunStates /\ run.bytes = Tallied(boRun, n, FALSE) /\ run.spent = boRun.spent
        /\ run.results = boRun.results /\ n \in Nat
    <3>1. Sole(boRun.leg, n) \in Bytes
      BY <1>1, SoleIs
    <3>2. Tallied(boRun, n, FALSE) \in Bytes
      BY <1>1, <3>1 DEF Tallied, Plus, Bytes, RunStates
    <3>3. run \in RunStates
      BY <1>1, <3>2 DEF RunStates
    <3>4. run.bytes = Tallied(boRun, n, FALSE) /\ run.spent = boRun.spent /\ run.results = boRun.results
      BY <1>1 DEF RunStates
    <3>5. QED BY <3>3, <3>4
  <2> HIDE DEF run
  <2>3. Billed(run) = Plus(Billed(boRun), Sole(boRun.leg, n))
    BY <1>1, <2>2, TalliedBills
  <2>4. boRun' = Failed(run, TRUE)
    BY <2>1 DEF run
  <2>5. boRun'.pc \in {"fold", "resume"} /\ boRun'.bytes = NoBytes /\ Billed(boRun') = Billed(run)
    BY <2>2, <2>4, FailedIs, FailedBills
  <2>6. QED BY <1>1, <2>1, <2>2, <2>3, <2>5, MovedIs, AbandonedKeeps DEF BillInv, NothingOpen, SpendOnTheBill
<1>3. CASE boRun.pc = "attempt"
  <2>1. boRun' = Failed(boRun, TRUE) /\ boMoved' = boMoved
    BY <1>3 DEF TransferAbandoned
  <2>2. boRun'.pc \in {"fold", "resume"} /\ boRun'.bytes = NoBytes /\ Billed(boRun') = Billed(boRun)
    BY <1>1, <2>1, FailedIs, FailedBills
  <2>3. QED BY <2>1, <2>2, AbandonedKeeps DEF BillInv, NothingOpen, SpendOnTheBill
<1>4. QED BY <1>2, <1>3 DEF TransferAbandoned

\* The rows of a run that folds hold what it has on its account.
LEMMA FoldBills == ASSUME BillInv, RunFolds PROVE BillInv'
<1>1. BoInv'
  BY OtherBoSteps DEF BillInv
<1>2. boRun \in RunStates /\ boRun.bytes = NoBytes /\ boRun.pc = "fold" /\ boMoved' = boMoved /\ Billed(boRun) = boMoved
  BY DEF BillInv, BoInv, NothingOpen, RunFolds
<1>3. CASE boRun.results = <<>>
  <2> DEFINE row == [kind |-> "failed", down |-> boRun.spent.down, up |-> boRun.spent.up]
  <2>1. boRows' = {row} /\ boRun' = [boRun EXCEPT !.pc = "done"]
    BY <1>3 DEF RunFolds
  <2>2. boRun'.pc = "done" /\ boRun'.bytes = NoBytes /\ boRun'.spent = boRun.spent /\ boRun'.results = boRun.results
    BY <1>2, <2>1 DEF RunStates
  <2>3. Billed(boRun') = Billed(boRun)
    BY <1>2, <2>2, SameTraffic
  <2>4. boRun.spent.down \in Nat /\ boRun.spent.up \in Nat
    BY <1>2 DEF RunStates, Bytes
  <2>5. Billed(boRun) = [down |-> boRun.spent.down, up |-> boRun.spent.up]
    <3>1. \A field \in Fields3 : TotalOf(field, boRun.results) = 0
      BY <1>3, TotalOfNone
    <3>2. QED BY <1>2, <2>4, <3>1, FieldsAre DEF Billed, NoBytes
  <2>6. ASSUME NEW field \in {"down", "up"} PROVE Total(Column(boRows', field), boRows') = boMoved[field]
    <3> DEFINE f == Column(boRows', field)  none == {}
    <3>1. f[row] = boMoved[field] /\ f[row] \in Nat
      BY <1>2, <2>1, <2>4, <2>5 DEF Column
    <3>2. Total(f, none) = 0 /\ IsFiniteSet(none) /\ row \notin none
      BY TotalNone, FS_EmptySet
    <3>3. \A r \in none \union {row} : f[r] \in Nat
      BY <3>1
    <3>4. boRows' = none \union {row}
      BY <2>1
    <3> HIDE DEF f, none, row
    <3>5. Total(f, none \union {row}) = Total(f, none) + f[row]
      BY ONLY <3>2, <3>3, TotalAdd
    <3>6. QED BY <3>1, <3>2, <3>4, <3>5 DEF f
  <2>7. SpendOnTheBill'
    <3>1. Total(Column(boRows', "down"), boRows') = boMoved.down /\ Total(Column(boRows', "up"), boRows') = boMoved.up
      BY <2>6
    <3>2. QED BY <1>2, <2>1, <3>1 DEF SpendOnTheBill, Column
  <2>8. QED BY <1>1, <1>2, <2>2, <2>3, <2>7 DEF BillInv, NothingOpen
<1>4. CASE boRun.results # <<>>
  <2>1. PICK win \in DOMAIN boRun.results : boRows' = Rows(boRun, win) /\ boRun' = [boRun EXCEPT !.pc = "done", !.at = win]
    BY <1>4 DEF RunFolds, Winners
  <2>2. boRun'.pc = "done" /\ boRun'.bytes = NoBytes /\ boRun'.spent = boRun.spent /\ boRun'.results = boRun.results
        /\ boRun'.at = win
    BY <1>2, <2>1 DEF RunStates
  <2>3. Billed(boRun') = Billed(boRun)
    BY <1>2, <2>2, SameTraffic
  <2>4. Total(Column(boRows', "down"), boRows') = boMoved.down /\ Total(Column(boRows', "up"), boRows') = boMoved.up
        /\ \A r \in boRows' : r.kind = "run" => (r.up > 0 <=> boRun.results[win].up > 0)
    BY <1>2, <2>1, RowsBill
  <2>5. SpendOnTheBill'
    BY <1>2, <2>2, <2>4 DEF SpendOnTheBill, Column
  <2>6. QED BY <1>1, <1>2, <2>2, <2>3, <2>5 DEF BillInv, NothingOpen
<1>5. QED BY <1>3, <1>4

\* No other step touches the account of a run.
LEMMA OtherBillSteps ==
  ASSUME BillInv,
         \/ RunStarts \/ RunEnds \/ NextTarget \/ LinkWaited \/ Resume \/ TransferBegins \/ OrphanEnds
         \/ ContextDies \/ SliceEnds \/ UNCHANGED boVars
  PROVE  BillInv'
<1>1. BoInv'
  BY OtherBoSteps, WaitKeeps DEF BillInv
<1>2. CASE RunStarts \/ RunEnds
  <2>1. boRun'.bytes = NoBytes /\ boRun'.spent = NoBytes /\ boRun'.results = <<>> /\ boRun'.pc # "done" /\ boMoved' = NoBytes
        /\ boRun'.pc \notin {"attempt", "transfer"}
    <3>1. CASE RunStarts
      BY <3>1 DEF RunStarts, NoRun
    <3>2. CASE RunEnds
      BY <3>2 DEF RunEnds, NoRun
    <3>3. QED BY <1>2, <3>1, <3>2
  <2>2. Billed(boRun') = NoBytes
    <3>1. \A field \in Fields3 : TotalOf(field, boRun'.results) = 0
      BY <2>1, TotalOfNone
    <3>2. QED BY <2>1, <3>1, FieldsAre DEF Billed, NoBytes
  <2>3. QED BY <1>1, <2>1, <2>2 DEF BillInv, NothingOpen, SpendOnTheBill, NoBytes, Bytes
<1>3. CASE NextTarget \/ LinkWaited \/ Resume \/ TransferBegins \/ SliceEnds
  <2>1. boRun \in RunStates
    BY DEF BillInv, BoInv
  <2>2. boRun'.bytes = boRun.bytes /\ boRun'.spent = boRun.spent /\ boRun'.results = boRun.results /\ boRun'.pc # "done"
        /\ boMoved' = boMoved /\ (boRun'.pc \notin {"attempt", "transfer"} => boRun.pc \notin {"attempt", "transfer"})
    BY <1>3, <2>1 DEF NextTarget, LinkWaited, LinkAwaited, Resume, TransferBegins, SliceEnds, RunStates
  <2>3. Billed(boRun') = Billed(boRun)
    BY <2>2, SameTraffic
  <2>4. QED BY <1>1, <2>2, <2>3 DEF BillInv, NothingOpen, SpendOnTheBill
<1>4. CASE OrphanEnds \/ ContextDies \/ UNCHANGED boVars
  <2>1. boRun \in RunStates
    BY DEF BillInv, BoInv
  <2>2. boRun'.bytes = boRun.bytes /\ boRun'.spent = boRun.spent /\ boRun'.results = boRun.results
        /\ boRun'.pc = boRun.pc /\ boRun'.at = boRun.at /\ boMoved' = boMoved /\ boRows' = boRows
    BY <1>4, <2>1 DEF OrphanEnds, ContextDies, boVars, RunStates
  <2>3. Billed(boRun') = Billed(boRun)
    BY <2>2, SameTraffic
  <2>4. QED BY <1>1, <2>2, <2>3 DEF BillInv, NothingOpen, SpendOnTheBill
<1>5. QED BY <1>2, <1>3, <1>4

\* Before the first run nothing is owed.
LEMMA BillInvInit == ASSUME BoInit PROVE BillInv
<1>1. boRun.bytes = NoBytes /\ boRun.spent = NoBytes /\ boRun.results = <<>> /\ boRun.pc = "idle" /\ boMoved = NoBytes
  BY DEF BoInit, NoRun
<1>2. \A field \in Fields3 : TotalOf(field, boRun.results) = 0
  BY <1>1, TotalOfNone
<1>3. Billed(boRun) = NoBytes
  BY <1>1, <1>2, FieldsAre DEF Billed, NoBytes
<1>4. QED BY <1>1, <1>3, BoInvInit DEF BillInv, NothingOpen, SpendOnTheBill, NoBytes, Bytes

\* However a run of the engine ends, and whatever was left behind, retried or
\* kept of it, its rows count each unit its transfers had moved exactly once,
\* and it measures beside no transfer that is about to close.
THEOREM RunsAreAccounted == BoSpec => []EngineTrue
<1>1. BillInv /\ [BoNext]_boVars => BillInv'
  BY TransferEndsBills, AbandonedBills, FoldBills, OtherBillSteps DEF BoNext
<1>2. BillInv => EngineTrue
  BY DEF BillInv, BoInv, LinkNotShared, EngineTrue
<1>3. QED BY <1>1, <1>2, BillInvInit, PTL DEF BoSpec

-----------------------------------------------------------------------------
(* ServerSeat: who holds the seat of the automatic runs                    *)

Reasons == {"auto", "challenger", "challenger_won", "challenger_failed", "pinned"}

\* The run that is stored, with what it read of each server it measured: never
\* less than the server's own rate.
SeRow ==
    {row \in [id : Servers, reason : Reasons, scores : UNION {[of -> Nat] : of \in SUBSET Servers}] :
        \A s \in DOMAIN row.scores : row.scores[s] >= Rate[s]}

SeInv == seRows \in Seq(SeRow)

\* Some natural numbers have a least.
LEMMA LeastOfSome ==
    ASSUME NEW found \in SUBSET Nat, found # {}
    PROVE  \E x \in found : \A y \in found : x <= y
<1>1. PICK x \in found : \A y \in found : ~(<<y, x>> \in OpToRel(<, Nat))
  BY NatLessThanWellFounded, WFMin
<1>2. \A y \in found : x <= y
  <2>1. OpToRel(<, Nat) = {ss \in Nat \X Nat : ss[1] < ss[2]}
    BY DEF OpToRel
  <2> SUFFICES ASSUME NEW y \in found, y < x PROVE FALSE
    OBVIOUS
  <2>2. <<y, x>> \in {ss \in Nat \X Nat : ss[1] < ss[2]}
    OBVIOUS
  <2>3. QED BY <1>1, <2>1, <2>2
<1>3. QED BY <1>2

\* The first of some positions.
LEMMA FirstIsLeast ==
    ASSUME NEW found \in SUBSET (Nat \ {0})
    PROVE  /\ found = {} => FirstOf(found) = 0
           /\ found # {} => FirstOf(found) \in found /\ \A j \in found : FirstOf(found) <= j
<1>1. CASE found = {}
  BY <1>1 DEF FirstOf
<1>2. CASE found # {}
  <2>1. \E x \in found : \A y \in found : x <= y
    BY <1>2, LeastOfSome
  <2>2. QED BY <1>2, <2>1 DEF FirstOf
<1>3. QED BY <1>1, <1>2

\* Of finitely many numbers one is at or above all.
LEMMA BoundExists ==
    ASSUME NEW S, IsFiniteSet(S), S # {}, NEW f, \A i \in S : f[i] \in Nat
    PROVE  \E n \in Nat : \A i \in S : f[i] <= n
<1> DEFINE UpTo(v) == {i \in S : f[i] <= v}
           more(v) == Cardinality(S) - Cardinality(UpTo(v))
           short == {more(f[i]) : i \in S}
<1>0. Cardinality(S) \in Nat
  BY FS_CardinalityType
<1>1. \A v \in Nat : /\ IsFiniteSet(UpTo(v)) /\ Cardinality(UpTo(v)) \in Nat
                     /\ Cardinality(UpTo(v)) <= Cardinality(S)
  <2> TAKE v \in Nat
  <2>1. UpTo(v) \in SUBSET S
    OBVIOUS
  <2>2. QED BY <2>1, FS_Subset, FS_CardinalityType
<1> HIDE DEF UpTo
<1>2. \A i \in S : more(f[i]) \in Nat
  BY <1>0, <1>1
<1> HIDE DEF more
<1>3. short \in SUBSET Nat /\ short # {}
  BY <1>2
<1>4. PICK i \in S : \A j \in S : more(f[i]) <= more(f[j])
  <2>1. PICK x \in short : \A y \in short : x <= y
    <3> HIDE DEF short
    <3>1. QED BY <1>3, LeastOfSome
  <2>2. PICK i \in S : x = more(f[i])
    BY <2>1
  <2>3. \A j \in S : more(f[j]) \in short
    OBVIOUS
  <2>4. QED BY <2>1, <2>2, <2>3
<1>5. ASSUME NEW j \in S, f[j] > f[i] PROVE FALSE
  <2>1. UpTo(f[i]) \in SUBSET UpTo(f[j]) /\ UpTo(f[i]) # UpTo(f[j])
    <3>1. f[i] \in Nat /\ f[j] \in Nat
      OBVIOUS
    <3>2. UpTo(f[i]) \in SUBSET UpTo(f[j]) /\ j \in UpTo(f[j]) /\ j \notin UpTo(f[i])
      BY <1>5, <3>1 DEF UpTo
    <3>3. QED BY <3>2
  <2>2. IsFiniteSet(UpTo(f[j])) /\ Cardinality(UpTo(f[j])) \in Nat /\ Cardinality(UpTo(f[i])) \in Nat
    BY <1>1
  <2>3. Cardinality(UpTo(f[i])) <= Cardinality(UpTo(f[j])) /\ Cardinality(UpTo(f[i])) # Cardinality(UpTo(f[j]))
    BY <2>1, <2>2, FS_Subset
  <2>4. QED BY <1>0, <1>4, <2>2, <2>3 DEF more
<1>6. QED BY <1>5

\* The k-th smallest of finitely many numbers is one of them.
LEMMA KthIsOne ==
    ASSUME NEW S, IsFiniteSet(S), NEW f, DOMAIN f = S, \A i \in S : f[i] \in Nat, NEW k \in 1 .. Cardinality(S)
    PROVE  \E i \in S : Kth(f, k) = f[i]
<1> DEFINE Below(v) == {i \in S : f[i] < v}
           UpTo(v) == {i \in S : f[i] <= v}
           reached == {v \in Nat : k <= Cardinality(UpTo(v))}
<1>0. Cardinality(S) \in Nat /\ k \in Nat /\ k >= 1
  BY FS_CardinalityType
<1>1. \A v \in Nat : /\ IsFiniteSet(Below(v)) /\ IsFiniteSet(UpTo(v))
                     /\ Cardinality(Below(v)) \in Nat /\ Cardinality(UpTo(v)) \in Nat
  <2> TAKE v \in Nat
  <2>1. UpTo(v) \in SUBSET S /\ Below(v) \in SUBSET S
    OBVIOUS
  <2>2. QED BY <2>1, FS_Subset, FS_CardinalityType
<1>2. reached # {}
  <2>1. S # {}
    BY <1>0, FS_EmptySet
  <2>2. PICK n \in Nat : \A i \in S : f[i] <= n
    BY <2>1, BoundExists
  <2>3. UpTo(n) = S
    BY <2>2
  <2>4. n \in reached
    BY <1>0, <2>3
  <2>5. QED BY <2>4
<1>3. PICK v \in reached : \A u \in reached : v <= u
  <2>1. reached \in SUBSET Nat
    OBVIOUS
  <2>2. QED BY <1>2, <2>1, LeastOfSome
<1>4. Cardinality(Below(v)) < k
  <2>1. CASE v = 0
    <3>1. Below(v) = {}
      BY <2>1
    <3>2. QED BY <1>0, <3>1, FS_EmptySet
  <2>2. CASE v > 0
    <3>1. v - 1 \in Nat /\ v - 1 \notin reached
      BY <1>3, <2>2
    <3>2. UpTo(v - 1) = Below(v)
      BY <3>1
    <3>3. ~(k <= Cardinality(UpTo(v - 1))) /\ Cardinality(UpTo(v - 1)) \in Nat
      BY <1>1, <3>1
    <3>4. QED BY <1>0, <3>2, <3>3
  <2>3. QED BY <2>1, <2>2
<1>5. v \in {f[i] : i \in S}
  <2>1. Below(v) # UpTo(v)
    BY <1>0, <1>1, <1>3, <1>4
  <2>2. PICK i \in S : f[i] <= v /\ ~(f[i] < v)
    BY <2>1
  <2>3. f[i] = v
    BY <2>2
  <2>4. QED BY <2>3
<1>6. Kth(f, k) \in {f[i] : i \in S}
  <2>1. k <= Cardinality(UpTo(v))
    BY <1>3
  <2>2. Kth(f, k) = CHOOSE w \in {f[i] : i \in S} : Cardinality(Below(w)) < k /\ k <= Cardinality(UpTo(w))
    BY DEF Kth
  <2> HIDE DEF Below, UpTo
  <2>3. QED BY <1>4, <1>5, <2>1, <2>2
<1>7. QED BY <1>6

\* The scores a challenge is judged by are some that the holder has measured.
LEMMA ScoresWereRead ==
    ASSUME NEW rows \in Seq(SeRow), NEW s \in Servers
    PROVE  /\ Scores(rows, s) \in Seq(Nat)
           /\ \A k \in 1 .. Len(Scores(rows, s)) :
                 \E i \in DOMAIN rows : s \in DOMAIN rows[i].scores /\ Scores(rows, s)[k] = rows[i].scores[s]
<1> DEFINE of == {i \in DOMAIN rows : s \in DOMAIN rows[i].scores}
           last == {i \in of : Cardinality({j \in of : j < i}) < History}
           f == [i \in last |-> rows[i].scores[s]]
<1>1. IsFiniteSet(last) /\ Cardinality(last) \in Nat
  <2>1. DOMAIN rows = 1 .. Len(rows) /\ Len(rows) \in Nat
    OBVIOUS
  <2>2. 1 \in Int /\ Len(rows) \in Int
    BY <2>1
  <2>3. IsFiniteSet(1 .. Len(rows))
    BY <2>2, FS_Interval, Zenon
  <2>4. last \in SUBSET (1 .. Len(rows))
    BY <2>1
  <2>5. QED BY <2>3, <2>4, FS_Subset, FS_CardinalityType
<1>2. \A i \in last : rows[i].scores[s] \in Nat
  BY DEF SeRow
<1>3. ASSUME NEW k \in 1 .. Cardinality(last) PROVE \E i \in last : Kth(f, k) = rows[i].scores[s]
  <2>1. DOMAIN f = last /\ \A i \in last : f[i] = rows[i].scores[s] /\ f[i] \in Nat
    BY <1>2
  <2>2. \E i \in last : Kth(f, k) = f[i]
    <3> HIDE DEF last, f
    <3>1. QED BY <1>1, <2>1, KthIsOne
  <2>3. QED BY <2>1, <2>2
<1>4. Scores(rows, s) = [k \in 1 .. Cardinality(last) |-> Kth(f, k)]
  BY DEF Scores
<1> HIDE DEF f
<1>6. \A k \in 1 .. Cardinality(last) : \E i \in last : Scores(rows, s)[k] = rows[i].scores[s]
  BY <1>3, <1>4
<1>7. Scores(rows, s) \in Seq(Nat) /\ Len(Scores(rows, s)) = Cardinality(last)
  <2> HIDE DEF last
  <2>1. \A k \in 1 .. Cardinality(last) : Scores(rows, s)[k] \in Nat
    BY <1>2, <1>6
  <2>2. DOMAIN Scores(rows, s) = 1 .. Cardinality(last)
    BY <1>4
  <2>3. Scores(rows, s) = [k \in 1 .. Cardinality(last) |-> Scores(rows, s)[k]]
    BY <1>4
  <2>4. Scores(rows, s) \in [1 .. Cardinality(last) -> Nat]
    BY <2>1, <2>3
  <2>5. QED BY <1>1, <2>4
<1>8. QED BY <1>6, <1>7

\* The median is no less than the holder's rate, and the good hour is some score.
LEMMA RecordBounds ==
    ASSUME NEW h \in Seq(Nat), h # <<>>, NEW rate \in Nat, \A k \in 1 .. Len(h) : h[k] >= rate
    PROVE  /\ HistoryMedian2(h) \in Nat /\ HistoryMedian2(h) >= 2 * rate
           /\ \E k \in 1 .. Len(h) : HistoryGood(h) = h[k]
<1>1. Len(h) \in Nat /\ Len(h) >= 1
  OBVIOUS
<1>2. (Len(h) + 1) \div 2 \in 1 .. Len(h) /\ Len(h) \div 2 + 1 \in 1 .. Len(h)
  BY <1>1
<1>3. HistoryMedian2(h) \in Nat /\ HistoryMedian2(h) >= 2 * rate
  <2>1. HistoryMedian2(h) = h[(Len(h) + 1) \div 2] + h[Len(h) \div 2 + 1]
    BY DEF HistoryMedian2
  <2>2. \A a, b \in 1 .. Len(h) : h[a] + h[b] \in Nat /\ h[a] + h[b] >= 2 * rate
    <3> TAKE a, b \in 1 .. Len(h)
    <3>1. h[a] \in Nat /\ h[b] \in Nat /\ h[a] >= rate /\ h[b] >= rate
      OBVIOUS
    <3>2. QED BY <3>1
  <2>3. QED BY <1>2, <2>1, <2>2
<1>4. \E k \in 1 .. Len(h) : HistoryGood(h) = h[k]
  <2>1. CASE Len(h) >= GoodFrom /\ Len(h) >= 2
    <3>1. HistoryGood(h) = h[Len(h) - 1] /\ Len(h) - 1 \in 1 .. Len(h)
      BY <1>1, <2>1 DEF HistoryGood
    <3>2. QED BY <3>1
  <2>2. CASE ~(Len(h) >= GoodFrom)
    <3>1. HistoryGood(h) = h[Len(h)] /\ Len(h) \in 1 .. Len(h)
      BY <1>1, <2>2 DEF HistoryGood
    <3>2. QED BY <3>1
  <2>3. QED BY <1>1, <2>1, <2>2, ServerSeatAssumption
<1>5. QED BY <1>3, <1>4

\* A challenge that is won was won by a faster server, or by a reading within
\* thrice of what the holder has shown.
LEMMA WonByRight ==
    ASSUME NEW rows \in Seq(SeRow), NEW holder \in Servers, NEW s \in Servers, NEW times \in {1, 4},
           ChallengeWon(JudgedRun(times * Rate[s], Scores(rows, holder)), Scores(rows, holder))
    PROVE  \/ Rate[s] * 100 > Rate[holder] * 115
           \/ /\ times * Rate[s] > Rate[s]
              /\ \E i \in DOMAIN rows : /\ holder \in DOMAIN rows[i].scores
                                        /\ times * Rate[s] <= 3 * rows[i].scores[holder]
<1> DEFINE h == Scores(rows, holder)
           score == times * Rate[s]
<1>1. h \in Seq(Nat) /\ h # <<>>
  <2>1. h \in Seq(Nat) /\ Len(h) >= MinHistory
    BY ScoresWereRead DEF ChallengeWon
  <2>2. QED BY <2>1, ServerSeatAssumption
<1>2. \A k \in 1 .. Len(h) : \E i \in DOMAIN rows : holder \in DOMAIN rows[i].scores /\ h[k] = rows[i].scores[holder]
  BY ScoresWereRead
<1>3. Rate[holder] \in Nat /\ Rate[s] \in Nat /\ Rate[s] > 0 /\ Rate[holder] > 0
  BY ServerSeatAssumption
<1>4. \A k \in 1 .. Len(h) : h[k] >= Rate[holder]
  BY <1>2 DEF SeRow
<1> HIDE DEF h
<1>5. /\ HistoryMedian2(h) \in Nat /\ HistoryMedian2(h) >= 2 * Rate[holder]
      /\ \E k \in 1 .. Len(h) : HistoryGood(h) = h[k]
  BY <1>1, <1>3, <1>4, RecordBounds
<1>6. PICK k \in 1 .. Len(h) : HistoryGood(h) = h[k]
  BY <1>5
<1>7. HistoryGood(h) \in Nat /\ HistoryGood(h) > 0
  BY <1>1, <1>3, <1>4, <1>6
<1>8. JudgedRun(score, h) * 100 > HistoryMedian2(h) * 115
  BY DEF ChallengeWon, h
<1>9. JudgedRun(score, h) = 2 * score /\ score <= 3 * HistoryGood(h)
  <2>1. CASE score > 3 * HistoryGood(h)
    <3>1. JudgedRun(score, h) = HistoryMedian2(h)
      BY <1>7, <2>1 DEF JudgedRun
    <3>2. HistoryMedian2(h) > 0
      BY <1>3, <1>5
    <3>3. QED BY <1>5, <1>8, <3>1, <3>2
  <2>2. CASE ~(score > 3 * HistoryGood(h))
    <3>1. score \in Nat
      BY <1>3
    <3>2. QED BY <1>7, <2>2, <3>1 DEF JudgedRun
  <2>3. QED BY <2>1, <2>2
<1>10. CASE times = 1
  <2>1. score = Rate[s]
    BY <1>3, <1>10
  <2>2. ASSUME NEW m \in Nat, NEW r \in Nat, NEW own \in Nat, 2 * r * 100 > m * 115, m >= 2 * own
        PROVE  r * 100 > own * 115
    BY <2>2
  <2>3. (2 * Rate[s]) * 100 > HistoryMedian2(h) * 115
    BY <1>8, <1>9, <2>1
  <2>4. QED BY <1>3, <1>5, <2>2, <2>3
<1>11. CASE times = 4
  <2>1. score > Rate[s] /\ score <= 3 * h[k]
    BY <1>3, <1>6, <1>9, <1>11
  <2>2. PICK i \in DOMAIN rows : holder \in DOMAIN rows[i].scores /\ h[k] = rows[i].scores[holder]
    BY <1>2
  <2>3. QED BY <2>1, <2>2
<1>12. QED BY <1>10, <1>11

\* The holder of the seat is the winner of the first run in the window that counts.
LEMMA HolderIs ==
    ASSUME NEW rows \in Seq(SeRow)
    PROVE  LET seen == {i \in DOMAIN rows : i <= Window /\ ~Skipped(rows[i])}
           IN  /\ seen = {} => Incumbent(rows) = NoServer
               /\ \A i \in seen : (\A j \in seen : i <= j) => Incumbent(rows) = rows[i].id
               /\ seen # {} => \E i \in seen : \A j \in seen : i <= j
               /\ Incumbent(rows) = NoServer => seen = {}
               /\ Incumbent(rows) \in Servers \union {NoServer}
<1> DEFINE seen == {i \in DOMAIN rows : i <= Window /\ ~Skipped(rows[i])}
<1>1. seen \in SUBSET (Nat \ {0})
  OBVIOUS
<1>2. Incumbent(rows) = IF FirstOf(seen) = 0 THEN NoServer ELSE rows[FirstOf(seen)].id
  BY DEF Incumbent
<1>3. \A i \in seen : rows[i].id \in Servers
  BY DEF SeRow
<1>4. /\ seen = {} => FirstOf(seen) = 0
      /\ seen # {} => FirstOf(seen) \in seen /\ \A j \in seen : FirstOf(seen) <= j
  BY <1>1, FirstIsLeast
<1> HIDE DEF seen
<1>5. \A i \in seen : (\A j \in seen : i <= j) => FirstOf(seen) = i
  <2> SUFFICES ASSUME NEW i \in seen, \A j \in seen : i <= j PROVE FirstOf(seen) = i
    OBVIOUS
  <2>1. FirstOf(seen) \in seen /\ FirstOf(seen) <= i
    BY <1>4
  <2>2. FirstOf(seen) \in Nat /\ i \in Nat /\ i <= FirstOf(seen)
    BY <1>1, <2>1
  <2>3. QED BY <2>1, <2>2
<1>6. seen # {} => FirstOf(seen) # 0
  BY <1>1, <1>4
<1>7. NoServer \notin Servers
  BY ServerSeatAssumption
<1>8. /\ seen = {} => Incumbent(rows) = NoServer
      /\ \A i \in seen : (\A j \in seen : i <= j) => Incumbent(rows) = rows[i].id
      /\ seen # {} => \E i \in seen : \A j \in seen : i <= j
      /\ Incumbent(rows) = NoServer => seen = {}
      /\ Incumbent(rows) \in Servers \union {NoServer}
  BY <1>2, <1>3, <1>4, <1>5, <1>6, <1>7
<1>9. QED BY <1>8 DEF seen

\* A run that counts seats its winner.
LEMMA WinnerSits ==
    ASSUME NEW rows \in Seq(SeRow), NEW row \in SeRow, ~Skipped(row)
    PROVE  Incumbent(<<row>> \o rows) = row.id
<1> DEFINE all == <<row>> \o rows
<1>1. all \in Seq(SeRow) /\ all[1] = row /\ 1 \in DOMAIN all
  OBVIOUS
<1>2. 1 \in {i \in DOMAIN all : i <= Window /\ ~Skipped(all[i])}
  BY <1>1, ServerSeatAssumption
<1>3. \A j \in {i \in DOMAIN all : i <= Window /\ ~Skipped(all[i])} : 1 <= j
  BY <1>1
<1> HIDE DEF all
<1>4. Incumbent(all) = all[1].id
  BY <1>1, <1>2, <1>3, HolderIs
<1>5. QED BY <1>1, <1>4 DEF all

\* One that does not moves the window by one.
LEMMA WindowMoves ==
    ASSUME NEW rows \in Seq(SeRow), NEW row \in SeRow, Skipped(row), Incumbent(rows) # NoServer,
           Incumbent(<<row>> \o rows) # Incumbent(rows)
    PROVE  /\ Incumbent(<<row>> \o rows) = NoServer
           /\ \A i \in 1 .. Window : (<<row>> \o rows)[i].reason \in {"pinned", "challenger"}
<1> DEFINE all == <<row>> \o rows
           seen(r) == {i \in DOMAIN r : i <= Window /\ ~Skipped(r[i])}
<1>1. /\ all \in Seq(SeRow) /\ all[1] = row /\ Len(all) = Len(rows) + 1 /\ Len(rows) \in Nat
      /\ DOMAIN all = 1 .. Len(all) /\ DOMAIN rows = 1 .. Len(rows)
      /\ \A i \in 1 .. Len(rows) : all[i + 1] = rows[i]
  OBVIOUS
<1> HIDE DEF all
<1>2. PICK i \in seen(rows) : \A j \in seen(rows) : i <= j
  BY HolderIs
<1>3. Incumbent(rows) = rows[i].id /\ i \in 1 .. Len(rows) /\ i <= Window /\ Window \in Nat
  BY <1>1, <1>2, HolderIs, ServerSeatAssumption
<1>4. \A j \in seen(all) : j >= 2 /\ j - 1 \in seen(rows)
  <2> SUFFICES ASSUME NEW j \in seen(all) PROVE j >= 2 /\ j - 1 \in seen(rows)
    OBVIOUS
  <2>1. j \in 1 .. Len(rows) + 1 /\ j <= Window /\ ~Skipped(all[j])
    BY <1>1
  <2>2. j # 1
    BY <1>1, <2>1
  <2>3. j - 1 \in 1 .. Len(rows) /\ all[(j - 1) + 1] = rows[j - 1] /\ (j - 1) + 1 = j
    BY <1>1, <2>1, <2>2
  <2>4. QED BY <1>1, <1>3, <2>1, <2>3
<1>5. CASE i + 1 <= Window
  <2>1. i + 1 \in seen(all)
    BY <1>1, <1>2, <1>3, <1>5
  <2>2. \A j \in seen(all) : i + 1 <= j
    <3> SUFFICES ASSUME NEW j \in seen(all) PROVE i + 1 <= j
      OBVIOUS
    <3>1. i <= j - 1 /\ j \in Nat
      BY <1>1, <1>2, <1>4
    <3>2. QED BY <1>3, <3>1
  <2>3. Incumbent(all) = all[i + 1].id
    BY <1>1, <2>1, <2>2, HolderIs
  <2>4. QED BY <1>1, <1>3, <2>3 DEF all
<1>6. CASE ~(i + 1 <= Window)
  <2>1. i = Window
    BY <1>3, <1>6
  <2>2. seen(all) = {}
    <3> SUFFICES ASSUME NEW j \in seen(all) PROVE FALSE
      OBVIOUS
    <3>1. i <= j - 1 /\ j \in Nat /\ j <= Window
      BY <1>1, <1>2, <1>4
    <3>2. QED BY <1>3, <2>1, <3>1
  <2>3. Incumbent(all) = NoServer
    BY <1>1, <2>2, HolderIs
  <2>4. \A j \in 1 .. Window : Skipped(all[j])
    BY <1>1, <1>3, <2>1, <2>2
  <2>5. QED BY <2>3, <2>4 DEF all, Skipped
<1>7. QED BY <1>5, <1>6

\* The list behind a choice: servers of the ranked list, with the holder ahead
\* unless it is challenged or out of the band.
LEMMA ListIs ==
    ASSUME NEW rows \in Seq(SeRow), NEW field \in Fields, NEW challenge \in BOOLEAN
    PROVE  LET chosen == Chosen(rows, field, challenge)
           IN  /\ chosen.field \in Seq([id : Servers, ms : Nat]) \ {<<>>}
               /\ chosen.lead # "challenger" /\ Seated(field, Incumbent(rows)) =>
                     chosen.field[1].id = Incumbent(rows)
               /\ chosen.lead = "challenger" => Incumbent(rows) \in Servers
<1> DEFINE s == Incumbent(rows)
           Entry == [id : Servers, ms : Nat]
           chosen == Chosen(rows, field, challenge)
<1>1. field \in Seq(Entry) /\ field # <<>>
  BY ServerSeatAssumption
<1> HIDE DEF Entry
<1>2. ASSUME NEW i \in DOMAIN field
      PROVE  ToHead(field, i) \in Seq(Entry) \ {<<>>} /\ ToHead(field, i)[1] = field[i]
  <2>1. Len(field) \in Nat /\ DOMAIN field = 1 .. Len(field) /\ i \in 1 .. Len(field)
    BY <1>1
  <2>2. SubSeq(field, 1, i - 1) \in Seq(Entry) /\ SubSeq(field, i + 1, Len(field)) \in Seq(Entry)
    BY <1>1, <2>1
  <2>3. RemoveAt(field, i) \in Seq(Entry)
    BY <2>2 DEF RemoveAt
  <2>4. field[i] \in Entry
    BY <1>1
  <2>5. QED BY <2>3, <2>4 DEF ToHead
<1>3. CASE challenge /\ Len(Scores(rows, s)) >= MinHistory /\ MayChallenge(field, s)
  <2>1. Rival(field, s) # 0 /\ s # NoServer
    BY <1>3 DEF MayChallenge
  <2>2. Rival(field, s) \in DOMAIN field
    <3> DEFINE found == {i \in DOMAIN field : field[i].id # s /\ field[i].ms > 0}
    <3>1. found \in SUBSET (Nat \ {0})
      BY <1>1
    <3>2. FirstOf(found) # 0 => FirstOf(found) \in found
      BY <3>1, FirstIsLeast
    <3>3. QED BY <2>1, <3>2 DEF Rival
  <2>3. chosen.field = ToHead(field, Rival(field, s)) /\ chosen.lead = "challenger"
    BY <1>3 DEF Chosen, Ledger
  <2>4. s \in Servers
    BY <2>1, HolderIs
  <2>5. QED BY <1>2, <2>2, <2>3, <2>4 DEF Entry
<1>4. CASE ~(challenge /\ Len(Scores(rows, s)) >= MinHistory /\ MayChallenge(field, s))
  <2>1. chosen = Promoted(field, s)
    BY <1>4 DEF Chosen
  <2> DEFINE here == {i \in DOMAIN field : field[i].id = s}
             own == {j \in DOMAIN field : field[j].id \in OnNet}
             found == IF Seated(field, s) THEN At(field, s)
                      ELSE IF field[1].id \in OnNet THEN 0
                      ELSE IF FirstOf(own) # 0 /\ InBand(field, FirstOf(own)) THEN FirstOf(own) ELSE 0
  <2>2. /\ here \in SUBSET (Nat \ {0}) /\ own \in SUBSET (Nat \ {0})
        /\ Seated(field, s) => here # {}
    BY <1>1 DEF Seated
  <2>3. /\ FirstOf(own) # 0 => FirstOf(own) \in own
        /\ Seated(field, s) => At(field, s) \in here
    BY <2>2, FirstIsLeast DEF At
  <2>4. found # 0 => found \in DOMAIN field
    BY <2>3
  <2>5. Promoted(field, s) = IF Len(field) < 2 \/ found <= 1 THEN [field |-> field, lead |-> ""]
                             ELSE Ledger(field, found, "promoted")
    BY DEF Promoted
  <2>6. Seated(field, s) => found \in DOMAIN field /\ field[found].id = s
    BY <2>3
  <2>7. found \in Nat /\ Len(field) \in Nat /\ Len(field) >= 1 /\ DOMAIN field = 1 .. Len(field)
    BY <1>1, <2>4
  <2> HIDE DEF found
  <2>8. CASE Len(field) < 2 \/ found <= 1
    <3>1. chosen.field = field /\ chosen.lead = ""
      <4>1. chosen = [field |-> field, lead |-> ""]
        BY <2>1, <2>5, <2>8
      <4> HIDE DEF chosen
      <4>2. QED BY <4>1
    <3>2. Seated(field, s) => found = 1
      BY <2>6, <2>7, <2>8
    <3>3. QED BY <1>1, <2>6, <3>1, <3>2 DEF Entry
  <2>9. CASE ~(Len(field) < 2 \/ found <= 1)
    <3>1. chosen.field = ToHead(field, found) /\ chosen.lead = "promoted"
      BY <2>1, <2>5, <2>9 DEF Ledger
    <3>2. found \in DOMAIN field
      BY <2>4, <2>7, <2>9
    <3>3. chosen.field \in Seq(Entry) \ {<<>>} /\ chosen.field[1] = field[found]
      BY <1>2, <3>1, <3>2
    <3>4. QED BY <2>6, <3>1, <3>3 DEF Entry
  <2>10. QED BY <2>8, <2>9
<1>5. QED BY <1>3, <1>4 DEF Entry

\* What is measured: the head of it, or the one behind.
LEMMA TargetsAre ==
    ASSUME NEW rows, NEW chosen, chosen.field \in Seq([id : Servers, ms : Nat]) \ {<<>>}
    PROVE  LET targets == Targets(rows, chosen)
           IN  /\ targets \in Seq(Servers) /\ Len(targets) \in 1 .. 2
               /\ targets[1] = chosen.field[1].id
<1> DEFINE found == {i \in DOMAIN chosen.field \ {1} :
                        IF chosen.lead = "challenger" THEN chosen.field[i].id = Incumbent(rows)
                        ELSE chosen.field[i].ms > 0}
           next == FirstOf(found)
<1>1. found \in SUBSET (Nat \ {0}) /\ 1 \in DOMAIN chosen.field
  OBVIOUS
<1>2. next # 0 => next \in DOMAIN chosen.field
  BY <1>1, FirstIsLeast
<1>3. chosen.field[1].id \in Servers /\ (next # 0 => chosen.field[next].id \in Servers)
  <2> DEFINE Entry == [id : Servers, ms : Nat]
             list == chosen.field
  <2>1. list \in Seq(Entry)
    OBVIOUS
  <2> HIDE DEF Entry, list
  <2>2. \A i \in DOMAIN list : list[i] \in Entry
    BY <2>1
  <2>3. \A i \in DOMAIN list : list[i].id \in Servers
    BY <2>2 DEF Entry
  <2>4. QED BY <1>1, <1>2, <2>3 DEF list
<1>4. Targets(rows, chosen) = <<chosen.field[1].id>> \o IF next = 0 THEN <<>> ELSE <<chosen.field[next].id>>
  BY DEF Targets
<1> HIDE DEF next
<1>5. CASE next = 0
  BY <1>3, <1>4, <1>5
<1>6. CASE next # 0
  BY <1>3, <1>4, <1>6
<1>7. QED BY <1>5, <1>6

\* A run adds its row and nothing else.
LEMMA StoredRow ==
    ASSUME SeInv, NEW kind, NEW field, NEW read, NEW winner \in Servers, NEW reason \in Reasons, NEW of \in SUBSET Servers,
           NEW scores \in [of -> Nat], \A s \in of : scores[s] >= Rate[s],
           Stored(kind, field, read, winner, reason, scores)
    PROVE  /\ [id |-> winner, reason |-> reason, scores |-> scores] \in SeRow
           /\ seRows' = <<[id |-> winner, reason |-> reason, scores |-> scores]>> \o seRows
           /\ SeInv'
<1>1. [id |-> winner, reason |-> reason, scores |-> scores] \in SeRow
  BY DEF SeRow
<1>2. seRows' = <<[id |-> winner, reason |-> reason, scores |-> scores]>> \o seRows
  BY DEF Stored
<1> DEFINE row == [id |-> winner, reason |-> reason, scores |-> scores]
<1> HIDE DEF row
<1>3. row \in SeRow /\ seRows' = <<row>> \o seRows
  BY <1>1, <1>2 DEF row
<1>4. seRows' \in Seq(SeRow)
  BY <1>3 DEF SeInv
<1>5. QED BY <1>1, <1>2, <1>4 DEF SeInv

\* What SeatByRight says of a step.
SeatMoves ==
    LET holder == Incumbent(seRows)
        next == Incumbent(seRows')
        reading == seRows'[1].scores[next]
    IN  (Len(seRows') > Len(seRows) /\ holder # NoServer /\ next # holder) =>
           IF next = NoServer THEN \A i \in 1..Window : seRows'[i].reason \in {"pinned", "challenger"}
           ELSE \/ seRun'.kind = "round"
                \/ ~seRun'.seated \/ seRun'.failed
                \/ /\ seRun'.kind = "challenger"
                   /\ \/ Rate[next] * 100 > Rate[holder] * 115
                      \/ reading > Rate[next] /\ Supported(reading, holder)

\* A run that decides nothing leaves the seat, or all of the window behind it.
LEMMA PinnedKeeps ==
    ASSUME SeInv, PinnedRun
    PROVE  SeInv' /\ SeatMoves
<1>0. PICK ids \in SUBSET Servers \ {{}} : \E read \in Readings(ids) : \E s \in {t \in ids : read[t] > 0} :
            Stored("pinned", <<>>, read, s, "pinned", [m \in {t \in ids : read[t] > 0} |-> read[m]])
  BY DEF PinnedRun
<1>1. PICK read \in Readings(ids) :
         \E s \in {t \in ids : read[t] > 0} :
            Stored("pinned", <<>>, read, s, "pinned", [m \in {t \in ids : read[t] > 0} |-> read[m]])
  BY <1>0
<1> DEFINE measured == {t \in ids : read[t] > 0}
           scores == [m \in measured |-> read[m]]
<1>2. PICK s \in measured : Stored("pinned", <<>>, read, s, "pinned", scores)
  BY <1>1
<1>3. \A m \in measured : read[m] \in Nat /\ read[m] >= Rate[m]
  <2>1. PICK times \in [ids -> {0, 1, 4}] : read = [t \in ids |-> times[t] * Rate[t]]
    BY DEF Readings
  <2>2. ASSUME NEW m \in measured PROVE read[m] \in Nat /\ read[m] >= Rate[m]
    <3>1. read[m] = times[m] * Rate[m] /\ times[m] \in {0, 1, 4} /\ Rate[m] \in Nat /\ read[m] > 0
      BY <2>1, ServerSeatAssumption
    <3>2. CASE times[m] = 0
      BY <3>1, <3>2
    <3>3. CASE times[m] = 1
      BY <3>1, <3>3
    <3>4. CASE times[m] = 4
      BY <3>1, <3>4
    <3>5. QED BY <3>1, <3>2, <3>3, <3>4
  <2>3. QED BY <2>2
<1>4. /\ measured \in SUBSET Servers /\ s \in Servers
      /\ scores \in [measured -> Nat] /\ \A m \in measured : scores[m] >= Rate[m]
  BY <1>3
<1> HIDE DEF measured, scores
<1> DEFINE row == [id |-> s, reason |-> "pinned", scores |-> scores]
<1>5. row \in SeRow /\ seRows' = <<row>> \o seRows /\ SeInv'
  <2>1. "pinned" \in Reasons
    BY DEF Reasons
  <2>2. QED BY <1>2, <1>4, <2>1, StoredRow, Zenon
<1>6. Skipped(row)
  BY DEF Skipped
<1> HIDE DEF row
<1>7. SeatMoves
  BY <1>5, <1>6, WindowMoves DEF SeatMoves, SeInv
<1>8. QED BY <1>5, <1>7

\* A round seats its winner, and may.
LEMMA RoundKeeps ==
    ASSUME SeInv, BestOfRun
    PROVE  SeInv' /\ SeatMoves
<1>1. PICK field \in Fields : \E read \in Readings({field[i].id : i \in DOMAIN field}) :
         \E s \in {t \in DOMAIN read : read[t] > 0} :
            Stored("round", field, read, s, "auto", [m \in {t \in DOMAIN read : read[t] > 0} |-> read[m]])
  BY DEF BestOfRun
<1> DEFINE ids == {field[i].id : i \in DOMAIN field}
<1>2. ids \in SUBSET Servers
  <2>1. field \in Seq([id : Servers, ms : Nat])
    BY ServerSeatAssumption
  <2> DEFINE Entry == [id : Servers, ms : Nat]
  <2>2. field \in Seq(Entry)
    BY <2>1
  <2>3. \A e \in Entry : e.id \in Servers
    OBVIOUS
  <2> HIDE DEF Entry
  <2>4. \A i \in DOMAIN field : field[i] \in Entry
    BY <2>2
  <2>5. \A i \in DOMAIN field : field[i].id \in Servers
    BY <2>3, <2>4
  <2>6. QED BY <2>5
<1> HIDE DEF ids
<1>3. PICK read \in Readings(ids) : \E s \in {t \in DOMAIN read : read[t] > 0} :
            Stored("round", field, read, s, "auto", [m \in {t \in DOMAIN read : read[t] > 0} |-> read[m]])
  BY <1>1 DEF ids
<1> DEFINE measured == {t \in DOMAIN read : read[t] > 0}
           scores == [m \in measured |-> read[m]]
<1>4. PICK s \in measured : Stored("round", field, read, s, "auto", scores)
  BY <1>3
<1>5. DOMAIN read = ids /\ \A m \in measured : read[m] \in Nat /\ read[m] >= Rate[m]
  <2>1. PICK times \in [ids -> {0, 1, 4}] : read = [t \in ids |-> times[t] * Rate[t]]
    BY DEF Readings
  <2>2. ASSUME NEW m \in measured PROVE read[m] \in Nat /\ read[m] >= Rate[m]
    <3>1. read[m] = times[m] * Rate[m] /\ times[m] \in {0, 1, 4} /\ Rate[m] \in Nat /\ read[m] > 0
      BY <1>2, <2>1, ServerSeatAssumption
    <3>2. CASE times[m] = 0
      BY <3>1, <3>2
    <3>3. CASE times[m] = 1
      BY <3>1, <3>3
    <3>4. CASE times[m] = 4
      BY <3>1, <3>4
    <3>5. QED BY <3>1, <3>2, <3>3, <3>4
  <2>3. QED BY <2>1, <2>2
<1>6. /\ measured \in SUBSET Servers /\ s \in Servers
      /\ scores \in [measured -> Nat] /\ \A m \in measured : scores[m] >= Rate[m]
  BY <1>2, <1>5
<1> HIDE DEF measured, scores
<1>7. /\ [id |-> s, reason |-> "auto", scores |-> scores] \in SeRow
      /\ seRows' = <<[id |-> s, reason |-> "auto", scores |-> scores]>> \o seRows
      /\ SeInv'
  <2>1. "auto" \in Reasons
    BY DEF Reasons
  <2>2. QED BY <1>4, <1>6, <2>1, StoredRow, Zenon
<1>8. seRun'.kind = "round" /\ (seRun' \in [kind : {"round"}, seated : BOOLEAN, failed : BOOLEAN])
  BY <1>4 DEF Stored, Seated
<1>9. SeatMoves
  <2>1. Incumbent(seRows') = NoServer => FALSE
    <3> DEFINE row == [id |-> s, reason |-> "auto", scores |-> scores]
    <3>1. row \in SeRow /\ seRows' = <<row>> \o seRows /\ s \in Servers
      BY <1>6, <1>7
    <3>2. ~Skipped(row) /\ row.id = s
      BY DEF Skipped
    <3> HIDE DEF row
    <3>3. Incumbent(seRows') = s
      BY <3>1, <3>2, WinnerSits DEF SeInv
    <3>4. QED BY <3>1, <3>3, ServerSeatAssumption
  <2>2. QED BY <1>8, <2>1 DEF SeatMoves
<1>10. QED BY <1>7, <1>9

\* An automatic run of one server: the holder, or its rival.
LEMMA AutomaticKeeps ==
    ASSUME SeInv, AutomaticRun
    PROVE  SeInv' /\ SeatMoves
<1>1. PICK scheduled \in BOOLEAN, field \in Fields :
        LET chosen == Chosen(seRows, field, scheduled /\ ChallengeDue(seRows))
            targets == Targets(seRows, chosen)
        IN  \E i \in DOMAIN targets, times \in {1, 4} :
               LET winner == targets[i]
                   score == times * Rate[winner]
                   read == [s \in ToSet(SubSeq(targets, 1, i)) |-> IF s = winner THEN score ELSE 0]
               IN  Stored(chosen.lead, field, read, winner,
                          WinReason(seRows, chosen.lead, winner, score), [s \in {winner} |-> score])
  BY DEF AutomaticRun
<1> DEFINE challenge == scheduled /\ ChallengeDue(seRows)
           chosen == Chosen(seRows, field, challenge)
           targets == Targets(seRows, chosen)
           holder == Incumbent(seRows)
<1>2. challenge \in BOOLEAN
  BY DEF ChallengeDue
<1>3. /\ chosen.field \in Seq([id : Servers, ms : Nat]) \ {<<>>}
      /\ chosen.lead # "challenger" /\ Seated(field, holder) => chosen.field[1].id = holder
      /\ chosen.lead = "challenger" => holder \in Servers
  BY <1>2, ListIs DEF SeInv
<1>4. PICK i \in DOMAIN targets, times \in {1, 4} :
         Stored(chosen.lead, field,
                [s \in ToSet(SubSeq(targets, 1, i)) |-> IF s = targets[i] THEN times * Rate[targets[i]] ELSE 0],
                targets[i], WinReason(seRows, chosen.lead, targets[i], times * Rate[targets[i]]),
                [s \in {targets[i]} |-> times * Rate[targets[i]]])
  BY <1>1
<1> HIDE DEF chosen
<1>5. targets \in Seq(Servers) /\ Len(targets) \in 1 .. 2 /\ targets[1] = chosen.field[1].id
  BY <1>3, TargetsAre
<1> HIDE DEF targets
<1> DEFINE winner == targets[i]
           score == times * Rate[winner]
           read == [s \in ToSet(SubSeq(targets, 1, i)) |-> IF s = winner THEN score ELSE 0]
           scores == [s \in {winner} |-> score]
           reason == WinReason(seRows, chosen.lead, winner, score)
           row == [id |-> winner, reason |-> reason, scores |-> scores]
<1>6. winner \in Servers /\ i \in 1 .. 2 /\ i <= Len(targets)
  BY <1>5
<1>7. score \in Nat /\ score >= Rate[winner]
  <2>1. Rate[winner] \in Nat
    BY <1>6, ServerSeatAssumption
  <2> HIDE DEF winner
  <2>2. CASE times = 1
    BY <2>1, <2>2
  <2>3. CASE times = 4
    BY <2>1, <2>3
  <2>4. QED BY <2>2, <2>3
<1>8. Stored(chosen.lead, field, read, winner, reason, scores)
  BY <1>4
<1>9. reason \in {"auto", "challenger", "challenger_won", "challenger_failed"}
  BY DEF WinReason
<1>10. \A s \in DOMAIN scores : scores[s] >= Rate[s] /\ scores \in [{winner} -> Nat]
  <2> HIDE DEF winner, score
  <2>1. QED BY <1>7
<1>11. DOMAIN scores = {winner} /\ scores[winner] = score
  OBVIOUS
<1>12. seRun'.kind = chosen.lead /\ seRun'.seated = Seated(field, holder)
       /\ seRun'.failed = (\E s \in DOMAIN read : s = holder /\ read[s] = 0)
  BY <1>8 DEF Stored
<1>13. winner # holder /\ targets[1] = holder => seRun'.failed
  <2> SUFFICES ASSUME winner # holder, targets[1] = holder PROVE holder \in DOMAIN read /\ read[holder] = 0
    BY <1>12
  <2>1. i = 2 /\ Len(targets) = 2
    BY <1>5, <1>6
  <2>2. SubSeq(targets, 1, i) = targets
    BY <1>5, <2>1, SubSeqFull
  <2>3. holder \in ToSet(SubSeq(targets, 1, i))
    <3>1. 1 \in DOMAIN targets /\ ToSet(targets) = {targets[j] : j \in DOMAIN targets}
      BY <1>5 DEF ToSet
    <3>2. holder \in ToSet(targets)
      BY <3>1
    <3>3. QED BY <2>2, <3>2
  <2>4. QED BY <2>3
<1> HIDE DEF read, scores, score, winner, reason
<1>14. scores \in [{winner} -> Nat] /\ \A s \in {winner} : scores[s] >= Rate[s]
  BY <1>10, <1>11
<1>15. row \in SeRow /\ seRows' = <<row>> \o seRows /\ SeInv'
  <2>1. reason \in Reasons
    BY <1>9 DEF Reasons
  <2>2. {winner} \in SUBSET Servers
    BY <1>6
  <2>3. QED BY <1>6, <1>8, <1>14, <2>1, <2>2, StoredRow, Zenon
<1>16. CASE reason = "challenger"
  <2>1. Skipped(row)
    BY <1>16 DEF Skipped
  <2> HIDE DEF row
  <2>2. QED BY <1>15, <2>1, WindowMoves DEF SeatMoves, SeInv
<1>17. CASE reason # "challenger"
  <2>1. ~Skipped(row) /\ row.id = winner /\ row.scores = scores
    BY <1>9, <1>17 DEF Skipped
  <2> HIDE DEF row
  <2>2. Incumbent(seRows') = winner /\ winner # NoServer
    BY <1>6, <1>15, <2>1, WinnerSits, ServerSeatAssumption DEF SeInv
  <2>3. seRows'[1] = row
    BY <1>15 DEF SeInv
  <2>4. SUFFICES ASSUME holder # NoServer, winner # holder
                 PROVE  \/ ~seRun'.seated \/ seRun'.failed
                        \/ /\ seRun'.kind = "challenger"
                           /\ \/ Rate[winner] * 100 > Rate[holder] * 115
                              \/ score > Rate[winner] /\ Supported(score, holder)
    BY <1>11, <1>15, <2>1, <2>2, <2>3 DEF SeatMoves
  <2>5. CASE chosen.lead # "challenger"
    <3>1. CASE Seated(field, holder)
      BY <1>3, <1>5, <1>13, <2>4, <2>5, <3>1
    <3>2. CASE ~Seated(field, holder)
      BY <1>12, <3>2
    <3>3. QED BY <3>1, <3>2
  <2>6. CASE chosen.lead = "challenger"
    <3>1. holder \in Servers
      BY <1>3, <2>6
    <3>2. reason = "challenger_won" /\ ChallengeWon(JudgedRun(score, Scores(seRows, holder)), Scores(seRows, holder))
      BY <1>17, <2>4, <2>6 DEF WinReason, reason
    <3>3. \/ Rate[winner] * 100 > Rate[holder] * 115
          \/ score > Rate[winner] /\ Supported(score, holder)
      BY <1>6, <3>1, <3>2, WonByRight DEF SeInv, score, Supported
    <3>4. QED BY <1>12, <2>6, <3>3
  <2>7. QED BY <2>5, <2>6
<1>18. QED BY <1>15, <1>16, <1>17

\* For any servers, rates, ranked lists and windows, and however many readings
\* are inflated: no run takes the seat from its holder but a best-of round, one
\* that found it out of the band or could not measure it, and a challenge won by
\* a server that is faster by the margin or by a reading that the holder's record
\* supports (pickServers, challengeWon and the verdict in Ookla.Run).
THEOREM SeatIsByRight == SeSpec => SeatByRight
<1>1. SeInit => SeInv
  BY DEF SeInit, SeInv
<1>2. SeInv /\ [SeNext]_seVars => SeInv' /\ [SeatMoves]_seVars
  <2> SUFFICES ASSUME SeInv, [SeNext]_seVars PROVE SeInv' /\ [SeatMoves]_seVars
    OBVIOUS
  <2>1. CASE AutomaticRun
    BY <2>1, AutomaticKeeps
  <2>2. CASE BestOfRun
    BY <2>2, RoundKeeps
  <2>3. CASE PinnedRun
    BY <2>3, PinnedKeeps
  <2>4. CASE RunDeleted
    <3>1. PICK i \in DOMAIN seRows : seRows' = RemoveAt(seRows, i)
      BY <2>4 DEF RunDeleted
    <3>2. seRows \in Seq(SeRow) /\ Len(seRows) \in Nat /\ i \in 1 .. Len(seRows)
      BY DEF SeInv
    <3>3. /\ SubSeq(seRows, 1, i - 1) \in Seq(SeRow) /\ Len(SubSeq(seRows, 1, i - 1)) = i - 1
          /\ SubSeq(seRows, i + 1, Len(seRows)) \in Seq(SeRow)
          /\ Len(SubSeq(seRows, i + 1, Len(seRows))) = Len(seRows) - i
      BY <3>2
    <3>4. seRows' \in Seq(SeRow) /\ Len(seRows') = Len(seRows) - 1
      <4> DEFINE a == SubSeq(seRows, 1, i - 1)
                 b == SubSeq(seRows, i + 1, Len(seRows))
      <4>1. RemoveAt(seRows, i) = a \o b
        BY DEF RemoveAt
      <4>2. a \in Seq(SeRow) /\ b \in Seq(SeRow) /\ Len(a) = i - 1 /\ Len(b) = Len(seRows) - i
        BY <3>3
      <4> HIDE DEF a, b
      <4>3. a \o b \in Seq(SeRow) /\ Len(a \o b) = Len(a) + Len(b)
        BY <4>2
      <4>4. QED BY <3>1, <3>2, <4>1, <4>2, <4>3
    <3>5. QED BY <3>2, <3>4 DEF SeInv, SeatMoves
  <2>5. CASE UNCHANGED seVars
    BY <2>5 DEF SeInv, seVars
  <2>6. QED BY <2>1, <2>2, <2>3, <2>4, <2>5 DEF SeNext
<1>3. SeSpec => [][SeatMoves]_seVars
  BY <1>1, <1>2, PTL DEF SeSpec
<1>4. QED BY <1>3 DEF SeatByRight, SeatMoves
=============================================================================
