------------------------------ MODULE LogRing ------------------------------
(***************************************************************************)
(* The recent log lines (internal/logbuf: Ring) and their two copies: the  *)
(* snapshot on disk, rewritten on a timer and after a clear, and the pane  *)
(* of a dashboard that follows the ring with a cursor (web.go: logWindow,  *)
(* and the viewer of ui/index.html).  Lines are evicted under the reader,  *)
(* another tab wipes the ring, requests are lost or overtaken, a snapshot  *)
(* fails half way or is touched by somebody else, and the daemon dies and  *)
(* starts again from the snapshot, its sequence numbers from zero.         *)
(***************************************************************************)
EXTENDS Integers, Sequences, SequencesExt, FiniteSets, FiniteSetsExt

CONSTANTS Cap, MaxBytes,        \* Ring.cap, Ring.maxBytes
          Limit, ViewMax,       \* defaultLogLines, LOG_VIEW_MAX
          MaxLogged, MaxWipes, MaxCrashes, MaxTouches, MaxTicks, MaxPosts  \* bounds

ASSUME LogRingAssumption ==
    /\ {Cap, MaxBytes, Limit, ViewMax} \subseteq Nat \ {0}
    /\ {MaxLogged, MaxWipes, MaxCrashes, MaxTouches, MaxTicks, MaxPosts} \subseteq Nat

VARIABLES lrRing,     \* Ring.lines (numbered as they are logged), dropped, epoch
          lrFile,     \* logs.txt: its lines, and whether it is owner-only
          lrSaved,    \* Ring.saved
          lrSave,     \* the SaveFile that holds saveMu: whose, how far, what it copied
          lrWiping,   \* who is answered when the clear under way has saved
          lrReq,      \* the viewer's poll and post in flight
          lrNewest,   \* logsSeq: the request sent last
          lrPane,     \* logEntries, logEpoch, logCursor; open: is there a dashboard
          lrCount,    \* bounds: lines logged, clears, crashes, touches of the file, ticks, posts
          lrHeld,     \* (history) lines this epoch of the ring has held
          lrPromised, \* (history) the lines the last save to return nil copied
          lrGone      \* (history) lines wiped by a clear whose save returned nil

lrDisk == <<lrFile, lrSaved, lrSave, lrPromised, lrGone>>
lrViewer == <<lrReq, lrNewest, lrPane>>
lrVars == <<lrRing, lrDisk, lrWiping, lrViewer, lrCount, lrHeld>>

Gap == 0                         \* the seam the pane shows for lines it missed
NoSnapshot == [lines |-> <<>>, private |-> FALSE, there |-> FALSE]
NothingSaved == [written |-> FALSE]
NotSaving == [at |-> "free"]
NoRequest == [at |-> "idle"]
NoAnswer == [lines |-> <<>>]
Request(at, since, epoch) == [at |-> at, since |-> since, epoch |-> epoch, named |-> 0, answer |-> NoAnswer]
NoPromise == <<Gap>>

\* A line takes up one, a long one two, and in the snapshot each its framing more.
LongLine(line) == line % 2 = 1
BytesIn(lines, frame) == Len(lines) * (1 + frame) + Cardinality({i \in DOMAIN lines : LongLine(lines[i])})
LastOf(lines, n) == SubSeq(lines, Len(lines) - n + 1, Len(lines))
End == lrRing.dropped + Len(lrRing.lines)

LrInit ==
    /\ lrRing = [lines |-> <<>>, dropped |-> 0, epoch |-> 1]
    /\ lrFile = NoSnapshot /\ lrSaved = NothingSaved /\ lrSave = NotSaving
    /\ lrWiping = "nobody"
    /\ lrReq = [k \in {"poll", "post"} |-> NoRequest] /\ lrNewest = "poll"
    /\ lrPane \in [lines : {<<>>}, epoch : {0}, cursor : {0}, open : BOOLEAN]
    /\ lrCount \in [logged : {0}, clears : {0, MaxWipes}, crashes : {0, MaxCrashes}, touches : {0, MaxTouches},
                    ticks : 0..MaxTicks, posts : {0, MaxPosts}]
    /\ lrHeld = {} /\ lrPromised = NoPromise /\ lrGone = {}

Counted(what) == lrCount' = [lrCount EXCEPT ![what] = @ + 1]

-----------------------------------------------------------------------------
(* The ring.                                                               *)

\* trim: the oldest lines go until both ceilings hold, the newest never.
KeptOf(lines) ==
    Max({1} \cup {n \in 1..Len(lines) : n <= Cap /\ BytesIn(LastOf(lines, n), 0) <= MaxBytes})
Trimmed(lines, dropped) ==
    IF lines = <<>> THEN [lines |-> lines, dropped |-> dropped]
    ELSE [lines |-> LastOf(lines, KeptOf(lines)), dropped |-> dropped + Len(lines) - KeptOf(lines)]

Logged ==
    /\ lrCount.logged < MaxLogged /\ Counted("logged")
    /\ LET line == lrCount.logged + 1
           kept == Trimmed(Append(lrRing.lines, line), lrRing.dropped)
       IN  /\ lrRing' = [lrRing EXCEPT !.lines = kept.lines, !.dropped = kept.dropped]
           /\ lrHeld' = lrHeld \cup {line}
    /\ UNCHANGED <<lrDisk, lrWiping, lrViewer>>

\* Ring.Clear: wiped lines count as evicted, and the cursors of before are void.
Cleared_SameEpoch(ring) == [ring EXCEPT !.lines = <<>>, !.dropped = End]
Cleared(ring) == [lines |-> <<>>, dropped |-> End, epoch |-> ring.epoch + 1]

\* handleLogs with clear, for this pane's post or for another tab: the ring is
\* wiped, then saved (OnLogClear), then the post is answered.
Wiped(by) ==
    /\ lrWiping = "nobody" /\ lrCount.clears < MaxWipes /\ Counted("clears")
    /\ by = "pane" => lrReq["post"].at = "clear"
    /\ lrRing' = Cleared(lrRing) /\ lrHeld' = {}
    /\ lrWiping' = by
    /\ lrReq' = IF by = "pane" THEN [lrReq EXCEPT !["post"].at = "wait"] ELSE lrReq
    /\ UNCHANGED <<lrDisk, lrNewest, lrPane>>

-----------------------------------------------------------------------------
(* SaveFile, on the timer or for a clear.                                  *)

SaveTaken(by) ==
    /\ lrSave.at = "free"
    /\ IF by = "clear" THEN lrWiping # "nobody" /\ UNCHANGED lrCount
                      ELSE lrCount.ticks < MaxTicks /\ Counted("ticks")
    /\ lrSave' = [by |-> by, at |-> "copied", copy |-> lrRing.lines, epoch |-> lrRing.epoch, seq |-> End,
                  wiped |-> IF by = "clear" THEN (1..lrCount.logged) \ lrHeld ELSE {}, touched |-> FALSE]
    /\ UNCHANGED <<lrRing, lrFile, lrSaved, lrPromised, lrGone, lrWiping, lrViewer, lrHeld>>

\* Nothing was logged since the file that is there was written.
Skips ==
    /\ lrSaved.written /\ lrSaved.epoch = lrSave.epoch /\ lrSaved.seq = lrSave.seq
    /\ lrFile.there /\ BytesIn(lrFile.lines, 1) = lrSaved.size /\ lrFile.private

\* The lock is given up; a clear's post goes on to read its window.
SaveOver ==
    /\ lrSave' = NotSaving
    /\ IF lrSave.by = "clear"
       THEN /\ lrWiping' = "nobody"
            /\ lrReq' = IF lrWiping = "pane" /\ lrReq["post"].at = "wait"
                        THEN [lrReq EXCEPT !["post"].at = "asked"] ELSE lrReq
       ELSE UNCHANGED <<lrWiping, lrReq>>
    /\ UNCHANGED <<lrRing, lrNewest, lrPane, lrCount, lrHeld>>
SaveNil ==
    /\ SaveOver /\ lrGone' = lrGone \cup lrSave.wiped
    /\ lrPromised' = IF lrSave.touched THEN NoPromise ELSE lrSave.copy

SaveSkipped == lrSave.at = "copied" /\ Skips /\ SaveNil /\ UNCHANGED <<lrFile, lrSaved>>

SaveRenamed ==
    /\ lrSave.at = "copied" /\ ~Skips
    /\ lrFile' = [lines |-> lrSave.copy, private |-> TRUE, there |-> TRUE]
    /\ lrSave' = [lrSave EXCEPT !.at = "renamed"] /\ lrPromised' = NoPromise
    /\ UNCHANGED <<lrRing, lrSaved, lrGone, lrWiping, lrViewer, lrCount, lrHeld>>

SaveDone ==
    /\ lrSave.at = "renamed" /\ SaveNil
    /\ lrSaved' = [written |-> TRUE, epoch |-> lrSave.epoch, seq |-> lrSave.seq, size |-> BytesIn(lrSave.copy, 1)]
    /\ UNCHANGED lrFile

\* The scratch file, the rename, or after it the directory's sync fails.
SaveFailed == lrSave.at # "free" /\ SaveOver /\ UNCHANGED <<lrFile, lrSaved, lrPromised, lrGone>>

\* Somebody deletes the snapshot, cuts it short, or loosens its mode.
Touched ==
    /\ lrFile.there /\ lrCount.touches < MaxTouches /\ Counted("touches")
    /\ \/ lrFile' = NoSnapshot
       \/ \E n \in 0..Len(lrFile.lines) - 1 : lrFile' = [lrFile EXCEPT !.lines = SubSeq(@, 1, n)]
       \/ lrFile' = [lrFile EXCEPT !.private = FALSE]
    /\ lrPromised' = NoPromise /\ lrSave' = IF lrSave.at = "renamed" THEN [lrSave EXCEPT !.touched = TRUE] ELSE lrSave
    /\ UNCHANGED <<lrRing, lrSaved, lrGone, lrWiping, lrViewer, lrHeld>>

\* LoadFile reads MaxBytes from the tail, and drops the line it lands in, or
\* the whole line it lands in front of.
TailOf(lines) ==
    IF BytesIn(lines, 1) <= MaxBytes THEN lines
    ELSE LastOf(lines, Max({n \in 0..Len(lines) : BytesIn(LastOf(lines, n), 1) < MaxBytes}))

\* The process dies and starts again; requests in flight fail.
RingReseeded ==
    /\ lrCount.crashes < MaxCrashes /\ Counted("crashes")
    /\ LET seed == Trimmed(TailOf(lrFile.lines), 0)
       IN  /\ lrRing' = [lines |-> seed.lines, dropped |-> seed.dropped, epoch |-> lrRing.epoch + 1]
           /\ lrHeld' = ToSet(TailOf(lrFile.lines))
    /\ lrSaved' = NothingSaved /\ lrSave' = NotSaving /\ lrWiping' = "nobody"
    /\ lrReq' = [k \in {"poll", "post"} |-> NoRequest]
    /\ UNCHANGED <<lrFile, lrPromised, lrGone, lrNewest, lrPane>>

-----------------------------------------------------------------------------
(* The viewer and logWindow.                                               *)

\* loadLogs: one poll at a time, with the cursor and the epoch that issued it.
PollSent ==
    /\ lrPane.open /\ lrReq["poll"].at = "idle"
    /\ lrReq' = [lrReq EXCEPT !["poll"] = Request("asked", lrPane.cursor, lrPane.epoch)]
    /\ lrNewest' = "poll"
    /\ UNCHANGED <<lrRing, lrDisk, lrWiping, lrPane, lrCount, lrHeld>>

\* postLogs: a clear, or a setting, which is answered with a window as well.
PostSent(at) ==
    /\ lrPane.open /\ lrReq["post"].at = "idle"
    /\ lrCount.posts < MaxPosts /\ Counted("posts")
    /\ at = "clear" => lrCount.clears < MaxWipes
    /\ lrReq' = [lrReq EXCEPT !["post"] = Request(at, 0, 0)]
    /\ lrNewest' = "post"
    /\ UNCHANGED <<lrRing, lrDisk, lrWiping, lrPane, lrHeld>>

\* logWindow reads the epoch, and the window under another hold of the lock.
EpochRead(k) ==
    /\ lrReq[k].at = "asked"
    /\ lrReq' = [lrReq EXCEPT ![k].at = "named", ![k].named = lrRing.epoch]
    /\ UNCHANGED <<lrRing, lrDisk, lrWiping, lrNewest, lrPane, lrCount, lrHeld>>

NewestWindow == [lines |-> LastOf(lrRing.lines, Min({Limit, Len(lrRing.lines)})), next |-> End, dropped |-> 0]

\* Since: the oldest lines after the cursor, from the first still held.
SinceWindow(seq) ==
    LET from == Min({Max({seq, lrRing.dropped}), End}) - lrRing.dropped
        to == Min({from + Limit, Len(lrRing.lines)})
    IN  [lines |-> SubSeq(lrRing.lines, from + 1, to), next |-> lrRing.dropped + to,
         dropped |-> Max({lrRing.dropped - seq, 0})]

WindowRead(k) ==
    /\ lrReq[k].at = "named"
    /\ LET q == lrReq[k]
           w == IF q.epoch = q.named THEN SinceWindow(q.since) ELSE NewestWindow
       IN  lrReq' = [lrReq EXCEPT ![k].at = "answered",
                         ![k].answer = [epoch |-> q.named, lines |-> w.lines, next |-> w.next, dropped |-> w.dropped]]
    /\ UNCHANGED <<lrRing, lrDisk, lrWiping, lrNewest, lrPane, lrCount, lrHeld>>

RequestLost(k) ==
    /\ lrReq[k].at # "idle"
    /\ lrReq' = [lrReq EXCEPT ![k] = NoRequest]
    /\ UNCHANGED <<lrRing, lrDisk, lrWiping, lrNewest, lrPane, lrCount, lrHeld>>

\* logMerge
Mode(q) ==
    IF q.epoch = 0 \/ lrPane.lines = <<>> \/ q.answer.epoch # lrPane.epoch THEN "replace"
    ELSE IF q.answer.lines # <<>> \/ q.answer.dropped > 0 THEN "append" ELSE "skip"

Appended(q) ==
    LET seam == IF q.answer.dropped > 0 THEN <<Gap>> ELSE <<>>
        all == lrPane.lines \o seam \o q.answer.lines
    IN  LastOf(all, Min({ViewMax, Len(all)}))

\* renderLogs, for the newest request alone; a post that finds the ring it
\* knows changes nothing, and a selection puts it off, cursor and all.
Rendered(k) ==
    LET q == lrReq[k]
        stale == lrNewest # k \/ (k = "post" /\ q.answer.epoch = lrPane.epoch)
        shown == IF Mode(q) = "append" THEN Appended(q) ELSE q.answer.lines
    IN  /\ q.at = "answered"
        /\ lrReq' = [lrReq EXCEPT ![k] = NoRequest]
        /\ \/ UNCHANGED lrPane /\ (stale \/ Mode(q) # "skip")
           \/ ~stale /\ Mode(q) = "skip" /\ lrPane' = [lrPane EXCEPT !.cursor = q.answer.next]
           \/ ~stale /\ Mode(q) # "skip"
                /\ lrPane' = [lines |-> shown, epoch |-> q.answer.epoch, cursor |-> q.answer.next, open |-> TRUE]
        /\ UNCHANGED <<lrRing, lrDisk, lrWiping, lrNewest, lrCount, lrHeld>>

LrNext ==
    \/ Logged \/ \E by \in {"pane", "other"} : Wiped(by)
    \/ \E by \in {"timer", "clear"} : SaveTaken(by)
    \/ SaveSkipped \/ SaveRenamed \/ SaveDone \/ SaveFailed \/ Touched \/ RingReseeded
    \/ PollSent \/ \E at \in {"clear", "asked"} : PostSent(at)
    \/ \E k \in {"poll", "post"} : EpochRead(k) \/ WindowRead(k) \/ RequestLost(k) \/ Rendered(k)

LrSpec == LrInit /\ [][LrNext]_lrVars
-----------------------------------------------------------------------------
(* Properties.                                                             *)

LrTypeOK ==
    /\ lrRing.lines \in Seq(1..MaxLogged) /\ Len(lrRing.lines) <= Cap /\ lrRing.dropped \in Nat
    /\ lrFile.lines \in Seq(1..MaxLogged) /\ lrFile \in [lines : {lrFile.lines}, private : BOOLEAN, there : BOOLEAN]
    /\ lrPane.lines \in Seq(0..MaxLogged) /\ Len(lrPane.lines) <= ViewMax
    /\ lrWiping \in {"nobody", "pane", "other"} /\ lrNewest \in {"poll", "post"}

\* A pane that thinks it follows this ring shows lines of it and of no life
\* before it, in order, with a seam wherever one is missing, and its cursor
\* leaves out none of those still to come.
PaneTrue ==
    LET p == lrPane.lines
        Between(a, b) == {h \in lrHeld : a < h /\ h < b}
    IN  lrPane.epoch = lrRing.epoch =>
            /\ ToSet(p) \ {Gap} \subseteq lrHeld
            /\ \A i \in 1..(Len(p) - 1) : Gap \notin {p[i], p[i + 1]}
                   => p[i] < p[i + 1] /\ Between(p[i], p[i + 1]) = {}
            /\ p # <<>> => Cardinality({h \in lrHeld : h > Last(p)}) = End - lrPane.cursor

\* A save that returned nil left on disk the lines it copied, owner-only, even
\* where it wrote nothing because it took the file for its own; and what a
\* clear has wiped comes back with no restart.
SnapshotTrue ==
    /\ lrPromised # NoPromise => lrFile = [lines |-> lrPromised, private |-> TRUE, there |-> TRUE]
    /\ ToSet(lrFile.lines) \cap lrGone = {}

\* The ring's copies, the pane and the snapshot, tell the truth about it.
CopiesTrue == PaneTrue /\ SnapshotTrue
=============================================================================
