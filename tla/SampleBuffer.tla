---------------------------- MODULE SampleBuffer ----------------------------
(***************************************************************************)
(* The batched saves of internal/store: probe rounds and DNS readings wait *)
(* in memory and are written together, by the timer, a full buffer, a      *)
(* reader, a writer that must come after them, or the close.               *)
(*                                                                         *)
(* A unit is a round or a DNS reading, numbered in the order the store was *)
(* handed them.  A section under mu is one step; the gate, the             *)
(* transaction and the atomic reads outside mu are steps of their own.     *)
(* Time is abstract: a deadline that is set may pass, a wait for the gate  *)
(* may run out while somebody holds it, and a quiet spell may end.  The     *)
(* daemon closes the store when its workers have been told to stop: what   *)
(* is under way goes on, nothing begins.                                   *)
(***************************************************************************)
EXTENDS Integers, FiniteSets

CONSTANTS
    Inserters,  \* goroutines that hand over rounds and readings
    Readers,    \* goroutines that read what the rows feed
    Writers,    \* goroutines that write a row which must come after them
    Timers,     \* goroutines the buffer's timer may be running at a time
    Closer,     \* the goroutine that closes the store
    NoOne,      \* the gate is free
    Cap,        \* maxHeldRows
    Sizes,      \* rows in a unit
    MaxUnits    \* bound: units handed over in a behaviour

Procs == Inserters \union Readers \union Writers \union Timers \union {Closer}
Units == 1 .. MaxUnits

ASSUME ProcsAssumption == NoOne \notin Procs
ASSUME CapAssumption   == Cap \in Nat \ {0}
ASSUME SizesAssumption == Sizes \subseteq Nat \ {0}
ASSUME BoundAssumption == MaxUnits \in Nat

VARIABLES
    buf,        \* rounds and dns: the units that wait
    waiting,    \* rows waiting, those inside a running save included
    due,        \* is the timer set
    mine,       \* the timer goroutine whose deadline is still set, if any
    quiet,      \* quietUntil is ahead: saves made for readers stay away
    failing,    \* the last save failed
    missed,     \* a reader went on without the waiting rows
    closed, writtenOff,
    gate,       \* who runs a save
    handed,     \* units handed over
    size,       \* rows of each
    disk,       \* units in the database
    dropped,    \* the counter db.sample_rows_dropped
    gone,       \* history: units given up
    memo,       \* the recovery memo: its frontier, and the units it skipped
    moved,      \* readers that read recGen before it last moved
    pc,         \* where each goroutine is
    my,         \* its locals
    old         \* history: units older than recFrontierSlack

saysVars  == <<quiet, failing, missed>>
timerVars == <<due, mine>>
closeVars == <<closed, writtenOff>>
lossVars  == <<dropped, gone>>
unitVars  == <<handed, size>>
memoVars  == <<memo, moved>>
vars == <<buf, waiting, timerVars, saysVars, closeVars, gate, unitVars, disk,
          lossVars, memoVars, pc, my, old>>

NoMemo == [front |-> 0, skip |-> {}]

\* op: what SaveBuffered is called for; rows, every: what an inserter holds and
\* whether batching was on; batch: what a save took; nil: what it returned;
\* purge: is it to drop the read caches; owed: what waited when a writer called it;
\* since: units handed over when the work began; safe, seen: how far a reader
\* may remember, and the memo it read or made.
Blank == [op |-> "none", rows |-> 0, every |-> FALSE, batch |-> {},
          nil |-> FALSE, purge |-> FALSE, owed |-> {}, since |-> 0,
          safe |-> 0, seen |-> NoMemo]

Init ==
    /\ buf = {} /\ waiting = 0 /\ due = FALSE /\ mine = NoOne
    /\ quiet = FALSE /\ failing = FALSE /\ missed = FALSE
    /\ closed = FALSE /\ writtenOff = FALSE /\ gate = NoOne
    /\ handed = 0 /\ size = [u \in Units |-> 0]
    /\ disk = {} /\ dropped = 0 /\ gone = {}
    /\ memo = NoMemo /\ moved = Readers
    /\ pc = [p \in Procs |-> "idle"] /\ my = [p \in Procs |-> Blank]
    /\ old = 0

Goto(p, from, to) == pc[p] = from /\ pc' = [pc EXCEPT ![p] = to]
Return(p, from)   == Goto(p, from, "idle") /\ my' = [my EXCEPT ![p] = Blank]

\* A row is a place in its unit.
RowsOf(us) == UNION {{u} \X (1 .. size[u]) : u \in us}
Rows(us) == Cardinality(RowsOf(us))
Held     == buf \union UNION {my[p].batch : p \in Procs}

\* SaveRead and SaveRequest: a save made for a reader waits a tenth of a second.
Brief(p) == my[p].op = "read"

-----------------------------------------------------------------------------
(* Pieces that run under mu                                                *)

\* arm: an earlier deadline that is set may stand, unless it is replaced.
Arm(replace) ==
    /\ due' = TRUE
    /\ mine' = NoOne \/ (~replace /\ due /\ UNCHANGED mine)

Disarm == due' = FALSE /\ mine' = NoOne

\* dropOldest: whole units, oldest first, until no more than keep rows are left.
Oldest(us, keep) == {u \in us : Rows({v \in us : v >= u}) > keep}

\* readerGaveUp
ReaderGaveUp == quiet' = TRUE /\ missed' = TRUE

-----------------------------------------------------------------------------
(* SaveBuffered                                                            *)

\* Variant: only the buffer is looked at.
NothingWaits_InBuffer == buf = {}

\* waiting.Load(): rows that are inside a running save still wait.
NothingWaits == waiting = 0

EnterAt(why) ==
    IF NothingWaits THEN "after" ELSE IF why = "read" THEN "quiet" ELSE "wait"

\* It returns, nil or not: a full buffer is looked at again, a round larger than
\* it is written by its caller, a timer and an insert are done.
Back(p, from, nil) ==
    CASE my[p].op = "age" -> Return(p, from)
      [] OTHER -> /\ Goto(p, from, CASE my[p].op = "cap" -> "again"
                                     [] my[p].op = "big" -> "direct"
                                     [] OTHER -> "after")
                  /\ my' = [my EXCEPT ![p].batch = {}, ![p].purge = FALSE,
                                      ![p].nil = nil]

\* The call of somebody who held mu until now.
LoadWaiting(p) ==
    /\ IF NothingWaits THEN Back(p, "load", TRUE)
       ELSE Goto(p, "load", "wait") /\ UNCHANGED my
    /\ UNCHANGED <<buf, waiting, timerVars, saysVars, closeVars, gate, unitVars,
                   disk, lossVars, memoVars, old>>

\* enter, for a reader: kept away while such saves are to stay away.
LookQuiet(p) ==
    /\ IF quiet THEN Back(p, "quiet", FALSE)
       ELSE Goto(p, "quiet", "wait") /\ UNCHANGED my
    /\ missed' = (missed \/ quiet)
    /\ UNCHANGED <<buf, waiting, timerVars, quiet, failing, closeVars, gate,
                   unitVars, disk, lossVars, memoVars, old>>

\* enter: the gate is taken, or the wait for its holder runs out.
TakeGate(p) ==
    /\ gate = NoOne /\ gate' = p
    /\ Goto(p, "wait", "take")
    /\ UNCHANGED <<buf, waiting, timerVars, saysVars, closeVars, unitVars, disk,
                   lossVars, memoVars, my, old>>

TimeOut(p) ==
    /\ gate # NoOne
    /\ Goto(p, "wait", "late")
    /\ UNCHANGED <<buf, waiting, timerVars, saysVars, closeVars, gate, unitVars,
                   disk, lossVars, memoVars, my, old>>

\* The save in front did not finish: a reader goes on without the rows; any
\* other save sees to it that the ones still here are tried again.
GiveUp(p) ==
    /\ Back(p, "late", FALSE)
    /\ IF Brief(p) THEN ReaderGaveUp ELSE UNCHANGED <<quiet, missed>>
    /\ IF ~Brief(p) /\ ~closed /\ buf # {} /\ ~due THEN Arm(TRUE)
       ELSE UNCHANGED timerVars
    /\ UNCHANGED <<buf, waiting, failing, closeVars, gate, unitVars, disk,
                   lossVars, memoVars, old>>

\* Nothing is left to save: the save in front took it.  Or that save failed
\* while a reader waited for it.
LeaveRows(p) ==
    /\ buf = {} \/ (Brief(p) /\ quiet)
    /\ Back(p, "take", buf = {}) /\ gate' = NoOne
    /\ missed' = (missed \/ buf # {})
    /\ UNCHANGED <<buf, waiting, timerVars, quiet, failing, closeVars, unitVars,
                   disk, lossVars, memoVars, old>>

TakeRows(p) ==
    /\ buf # {} /\ ~(Brief(p) /\ quiet)
    /\ Goto(p, "take", "write")
    /\ my' = [my EXCEPT ![p].batch = buf]
    /\ buf' = {}
    /\ UNCHANGED <<waiting, timerVars, saysVars, closeVars, gate, unitVars, disk,
                   lossVars, memoVars, old>>

\* runSave: one transaction.  Only a reader's save gives up on a writer or a
\* connection that is taken.
RunSave(p) ==
    /\ \/ Goto(p, "write", "landed") /\ disk' = disk \union my[p].batch
       \/ Brief(p) /\ Goto(p, "write", "deferred") /\ UNCHANGED disk
       \/ Goto(p, "write", "failed") /\ UNCHANGED disk
    /\ UNCHANGED <<buf, waiting, timerVars, saysVars, closeVars, gate, unitVars,
                   lossVars, memoVars, my, old>>

\* The save went through: a new deadline for what arrived meanwhile, and the
\* caches go if a reader may have filled them without these rows.
Landed(p) ==
    /\ Goto(p, "landed", "finish")
    /\ waiting' = IF writtenOff THEN waiting ELSE waiting - Rows(my[p].batch)
    /\ quiet' = FALSE /\ failing' = FALSE /\ missed' = FALSE
    /\ IF buf # {} /\ ~closed THEN Arm(TRUE) ELSE Disarm
    /\ my' = [my EXCEPT ![p].batch = {}, ![p].purge = failing \/ missed]
    /\ UNCHANGED <<buf, closeVars, gate, unitVars, disk, lossVars, memoVars, old>>

\* dropOldest down to keep rows of the units given.
DropTo(us, keep) ==
    LET drop == Oldest(us, keep)
    IN /\ gone' = gone \union drop
       /\ dropped' = dropped + Rows(drop)

\* Variant: rows the close gave up come back into the buffer.
PutBack_AfterAll(p) ==
    LET all == buf \union my[p].batch
    IN /\ DropTo(all, Cap)
       /\ buf' = all \ Oldest(all, Cap)
       /\ waiting' = waiting - Rows(Oldest(all, Cap))

\* putBack: in front of what arrived meanwhile, and the cap holds.
PutBack(p) ==
    LET all == buf \union my[p].batch
    IN IF writtenOff THEN UNCHANGED <<buf, waiting, lossVars>>
       ELSE /\ DropTo(all, Cap)
            /\ buf' = all \ Oldest(all, Cap)
            /\ waiting' = waiting - Rows(Oldest(all, Cap))

\* The writer was taken: nothing has failed, and a deadline that is set stands.
Deferred(p) ==
    /\ Back(p, "deferred", FALSE) /\ gate' = NoOne
    /\ PutBack(p)
    /\ ReaderGaveUp
    /\ IF ~closed /\ ~due THEN Arm(FALSE) ELSE UNCHANGED timerVars
    /\ UNCHANGED <<failing, closeVars, unitVars, disk, memoVars, old>>

\* The save failed: it is tried again, and readers stay away until then.
Failed(p) ==
    /\ Back(p, "failed", FALSE) /\ gate' = NoOne
    /\ PutBack(p)
    /\ quiet' = TRUE /\ failing' = TRUE /\ missed' = (missed \/ Brief(p))
    /\ IF closed THEN UNCHANGED timerVars ELSE Arm(TRUE)
    /\ UNCHANGED <<closeVars, unitVars, disk, memoVars, old>>

\* invalidateReadCaches when there is reason to, then the gate is left.
Finish(p) ==
    /\ Back(p, "finish", TRUE)
    /\ gate' = NoOne
    /\ memo' = IF my[p].purge THEN NoMemo ELSE memo
    /\ moved' = IF my[p].purge THEN Readers ELSE moved
    /\ UNCHANGED <<buf, waiting, timerVars, saysVars, closeVars, unitVars, disk,
                   lossVars, old>>

SaveStep(p) ==
    \/ LoadWaiting(p) \/ LookQuiet(p) \/ TakeGate(p) \/ TimeOut(p) \/ GiveUp(p)
    \/ LeaveRows(p) \/ TakeRows(p) \/ RunSave(p) \/ Landed(p) \/ Deferred(p)
    \/ Failed(p) \/ Finish(p)

-----------------------------------------------------------------------------
(* Handing over a unit                                                     *)

\* What a goroutine begins its work with.
Begun(p) == [my[p] EXCEPT !.since = handed]

\* holdRound and holdDNS: with batching off and nothing waiting, or with a
\* round larger than the buffer, the caller writes the unit itself, in the
\* second case after what waits.
Insert(p) ==
    /\ handed < MaxUnits /\ ~closed
    /\ \E rows \in Sizes, batching \in BOOLEAN :
         LET unit   == [Begun(p) EXCEPT !.rows = rows, !.every = batching]
             direct == NothingWaits /\ (~batching \/ rows > Cap)
             behind == ~NothingWaits /\ rows > Cap
         IN /\ Goto(p, "idle", CASE direct -> "direct" [] behind -> "wait"
                                 [] OTHER -> "hold")
            /\ my' = [my EXCEPT ![p] =
                        IF behind THEN [unit EXCEPT !.op = "big", !.owed = Held]
                                  ELSE unit]
    /\ UNCHANGED <<buf, waiting, timerVars, saysVars, closeVars, gate, unitVars,
                   disk, lossVars, memoVars, old>>

\* A unit is numbered where the store takes it.
HandOver(p) ==
    /\ handed < MaxUnits
    /\ handed' = handed + 1
    /\ size' = [size EXCEPT ![handed + 1] = my[p].rows]

\* The caller's own write; an error is returned to it.
WriteDirect(p) ==
    /\ Return(p, "direct")
    /\ \/ HandOver(p) /\ disk' = disk \union {handed + 1}
       \/ UNCHANGED <<unitVars, disk>>
    /\ UNCHANGED <<buf, waiting, timerVars, saysVars, closeVars, gate, lossVars,
                   memoVars, old>>

\* The rest of hold: make room, put the unit in, and set the timer for it.
Put(p) ==
    LET room == Cap - my[p].rows
    IN /\ HandOver(p)
       /\ DropTo(buf, room)
       /\ buf' = (buf \ Oldest(buf, room)) \union {handed + 1}
       /\ waiting' = waiting - Rows(Oldest(buf, room)) + my[p].rows
       /\ IF ~failing /\ my[p].every THEN Arm(FALSE) ELSE UNCHANGED timerVars

\* hold on a store that was closed meanwhile: the caller's own write.
HoldClosed(p) ==
    /\ closed /\ pc[p] \in {"hold", "again"}
    /\ Goto(p, pc[p], "direct")
    /\ UNCHANGED <<buf, waiting, timerVars, saysVars, closeVars, gate, unitVars,
                   disk, lossVars, memoVars, my, old>>

Full(p) == Rows(buf) + my[p].rows > Cap

\* A full buffer is saved first, unless a save failed moments ago.
HoldFull(p) ==
    /\ ~closed /\ Full(p) /\ (~failing \/ ~quiet)
    /\ Goto(p, "hold", "load")
    /\ my' = [my EXCEPT ![p].op = "cap"]
    /\ UNCHANGED <<buf, waiting, timerVars, saysVars, closeVars, gate, unitVars,
                   disk, lossVars, memoVars, old>>

\* With the interval just set to 0, the unit is saved with those before it.
Hold(p) ==
    /\ ~closed
    /\ pc[p] = "again" \/ (pc[p] = "hold" /\ (Full(p) => failing /\ quiet))
    /\ Put(p)
    /\ IF my[p].every THEN Return(p, pc[p])
       ELSE Goto(p, pc[p], "load") /\ my' = [my EXCEPT ![p].op = "age", ![p].rows = 0]
    /\ UNCHANGED <<saysVars, closeVars, gate, disk, memoVars, old>>

-----------------------------------------------------------------------------
(* The other callers                                                       *)

\* A write that must come after the waiting rows: an event, a pause, a speed
\* row, a cleanup, a clear, an import; or the save main makes at the end.
Write(p) ==
    /\ ~closed
    /\ Goto(p, "idle", EnterAt("order"))
    /\ my' = [my EXCEPT ![p] =
                [Begun(p) EXCEPT !.op = "order", !.owed = Held, !.nil = TRUE]]
    /\ UNCHANGED <<buf, waiting, timerVars, saysVars, closeVars, gate, unitVars,
                   disk, lossVars, memoVars, old>>

\* A read of what the rows feed saves first.  What firstQuorumRecovery may
\* remember ends recFrontierSlack before the read began.
Read(p) ==
    /\ ~closed
    /\ Goto(p, "idle", EnterAt("read"))
    /\ my' = [my EXCEPT ![p] = [Begun(p) EXCEPT !.op = "read", !.nil = TRUE,
                                                !.safe = old]]
    /\ UNCHANGED <<buf, waiting, timerVars, saysVars, closeVars, gate, unitVars,
                   disk, lossVars, memoVars, old>>

\* firstQuorumRecovery: the memo and the generation are read together, after
\* the save; then the units past the frontier are scanned.
ReadMemo(p) ==
    /\ my[p].safe > memo.front
    /\ Goto(p, "after", "scan")
    /\ my' = [my EXCEPT ![p].seen = memo]
    /\ moved' = moved \ {p}
    /\ UNCHANGED <<buf, waiting, timerVars, saysVars, closeVars, gate, unitVars,
                   disk, lossVars, memo, old>>

Scan(p) ==
    /\ Goto(p, "scan", "publish")
    /\ my' = [my EXCEPT ![p].seen =
                [front |-> my[p].safe,
                 skip  |-> @.skip \union ((@.front + 1 .. my[p].safe) \ disk)]]
    /\ UNCHANGED <<buf, waiting, timerVars, saysVars, closeVars, gate, unitVars,
                   disk, lossVars, memoVars, old>>

\* Variant: the answer is remembered whatever was purged meanwhile.
Publish_Always(p) ==
    /\ Return(p, "publish")
    /\ memo' = my[p].seen
    /\ moved' = moved \union {p}
    /\ UNCHANGED <<buf, waiting, timerVars, saysVars, closeVars, gate, unitVars,
                   disk, lossVars, old>>

\* An answer is remembered only if the caches were not purged meanwhile.
Publish(p) ==
    /\ Return(p, "publish")
    /\ memo' = IF p \in moved THEN memo ELSE my[p].seen
    /\ moved' = moved \union {p}
    /\ UNCHANGED <<buf, waiting, timerVars, saysVars, closeVars, gate, unitVars,
                   disk, lossVars, old>>

\* The timer runs out: its goroutine is started ...
Expire(t) ==
    /\ due /\ mine = NoOne
    /\ Goto(t, "idle", "fired")
    /\ mine' = t
    /\ my' = [my EXCEPT ![t] = Begun(t)]
    /\ UNCHANGED <<buf, waiting, due, saysVars, closeVars, gate, unitVars, disk,
                   lossVars, memoVars, old>>

\* Variant: a timer that was replaced clears the deadline that replaced it.
TimedSave_Any(t) ==
    /\ due' = FALSE /\ mine' = NoOne
    /\ IF mine = t THEN Goto(t, "fired", "load") /\ my' = [my EXCEPT ![t].op = "age"]
       ELSE Return(t, "fired")
    /\ UNCHANGED <<buf, waiting, saysVars, closeVars, gate, unitVars, disk,
                   lossVars, memoVars, old>>

\* ... and saves, unless the timer was stopped or replaced meanwhile.
TimedSave(t) ==
    /\ IF mine = t
       THEN /\ Disarm
            /\ Goto(t, "fired", "load") /\ my' = [my EXCEPT ![t].op = "age"]
       ELSE Return(t, "fired") /\ UNCHANGED timerVars
    /\ UNCHANGED <<buf, waiting, saysVars, closeVars, gate, unitVars, disk,
                   lossVars, memoVars, old>>

\* finalSave: nothing is held from here on, and what waits is saved.
Close(p) ==
    /\ ~closed /\ closed' = TRUE
    /\ Disarm
    /\ Goto(p, "idle", "load")
    /\ my' = [my EXCEPT ![p] = [Begun(p) EXCEPT !.op = "stop"]]
    /\ UNCHANGED <<buf, waiting, saysVars, writtenOff, gate, unitVars, disk,
                   lossVars, memoVars, old>>

\* What is left is lost, the rows of a save that is still running included.
WriteOff(p) ==
    /\ my[p].op = "stop" /\ Return(p, "after")
    /\ gone' = gone \union Held /\ dropped' = dropped + waiting
    /\ buf' = {} /\ waiting' = 0
    /\ writtenOff' = (waiting # Rows(buf))
    /\ UNCHANGED <<timerVars, saysVars, closed, gate, unitVars, disk, memoVars,
                   old>>

\* A read or a write that saved first is over.
Done(p) ==
    /\ my[p].op \in {"order", "read"} /\ Return(p, "after")
    /\ UNCHANGED <<buf, waiting, timerVars, saysVars, closeVars, gate, unitVars,
                   disk, lossVars, memoVars, old>>

-----------------------------------------------------------------------------
(* Time                                                                    *)

\* quietUntil passes.
QuietEnds ==
    /\ quiet /\ quiet' = FALSE
    /\ UNCHANGED <<buf, waiting, timerVars, failing, missed, closeVars, gate,
                   unitVars, disk, lossVars, memoVars, pc, my, old>>

\* Five minutes pass since a unit was handed over.  Assumed: a save or a read
\* that was at work then is over by now.
Age ==
    /\ old < handed /\ old' = old + 1
    /\ \A p \in Procs : pc[p] # "idle" => my[p].since > old
    /\ UNCHANGED <<buf, waiting, timerVars, saysVars, closeVars, gate, unitVars,
                   disk, lossVars, memoVars, pc, my>>

Next ==
    \/ \E p \in Procs : SaveStep(p) \/ Done(p)
    \/ \E p \in Inserters :
         Insert(p) \/ HoldClosed(p) \/ HoldFull(p) \/ Hold(p) \/ WriteDirect(p)
    \/ \E p \in Writers : Write(p)
    \/ \E p \in Readers : Read(p) \/ ReadMemo(p) \/ Scan(p) \/ Publish(p)
    \/ \E t \in Timers : Expire(t) \/ TimedSave(t)
    \/ Close(Closer) \/ WriteOff(Closer)
    \/ QuietEnds \/ Age

Spec == Init /\ [][Next]_vars
-----------------------------------------------------------------------------
(* Properties                                                              *)

\* The rows counted as waiting are those in the buffer and in a running save,
\* until the close writes them off; the rows counted as dropped are those given
\* up, each once; every unit is in the database, given up or still held; and what
\* the close gave up does not come back.
Accounted ==
    /\ waiting = IF writtenOff THEN 0 ELSE Rows(Held)
    /\ dropped = Rows(gone)
    /\ 1 .. handed = disk \union gone \union Held
    /\ writtenOff => buf = {}

\* Will p look after the rows in the buffer?
Coming(p) ==
    \/ pc[p] \in {"write", "landed", "deferred", "failed"}
    \/ ~Brief(p) /\ pc[p] \in {"load", "wait", "late", "take"}

\* No reading is left behind: while rows wait, the timer is set or a save that
\* will set it, or take them, is on its way - whatever timers were replaced
\* after they ran out and whatever saves timed out behind one another.
NotStranded ==
    buf # {} /\ ~closed => due \/ \E p \in Procs : Coming(p)

\* SaveBuffered's nil is a promise to whoever writes after it (an event, so that
\* no outage is on disk ahead of the readings it rests on): what waited at the
\* call is in the database, or was given up and counted.
NilMeansSaved ==
    \A p \in Procs :
        pc[p] = "after" /\ my[p].nil => my[p].owed \subseteq disk \union gone

\* The recovery memo does not outlive the rows it did not see: once no save is
\* running, none of them is in the database (but for rows the close gave up).
MemoSound == gate = NoOne /\ ~writtenOff => memo.skip \intersect disk = {}
=============================================================================
