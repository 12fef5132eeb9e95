---------------------------- MODULE AccessScope ----------------------------
(***************************************************************************)
(* Who may reach the dashboard (internal/web/auth.go, web.go, main.go,     *)
(* settings.go): the stored scope and login, the -access flag, the hold a  *)
(* store rebuilt after corruption keeps, and the import of a backup's      *)
(* configuration, which replaces the login settings and then repairs them. *)
(* Loads come from the boot, a signal or the retry loop, and the import.   *)
(***************************************************************************)
EXTENDS Naturals

VARIABLES acDisk,    \* the settings table
          acMem,     \* the controller's values, and the hold as last judged
          acFlag,    \* -access: "none", or what it was passed as
          acStep,    \* how far a signal's load and an import have got
          acPre,     \* the login settings an import remembered
          acChosen   \* what this machine's operator last chose (history)

acVars == <<acDisk, acMem, acFlag, acStep, acPre, acChosen>>

Flags == {"none", "network", "local"}
Stopped == [up |-> FALSE, loaded |-> FALSE, user |-> "", enabled |-> FALSE, pass |-> FALSE,
            local |-> TRUE, seeded |-> TRUE, hold |-> "none", released |-> FALSE]
Resting == [signal |-> "idle", import |-> "idle"]
NoPre == [user |-> "", enabled |-> FALSE, pass |-> FALSE, local |-> TRUE]

AcInit ==
    /\ \E local \in {"unset", "yes", "no"}, enabled, pass \in BOOLEAN :
          /\ acDisk = [user |-> IF pass THEN "mine" ELSE "", enabled |-> enabled,
                       pass |-> pass, local |-> local, hold |-> FALSE]
          /\ acChosen = [login |-> enabled /\ pass, network |-> local = "no", failed |-> FALSE]
    /\ acMem = Stopped /\ acFlag = "none" /\ acStep = Resting /\ acPre = NoPre

-----------------------------------------------------------------------------
(* Loads, the hold and the flag.                                           *)

AuthActive(mem) == mem.enabled /\ mem.pass

LoadedFrom(disk, mem) ==
    [mem EXCEPT !.loaded = TRUE, !.user = disk.user, !.enabled = disk.enabled,
                !.pass = disk.pass,
                !.local = IF disk.local = "unset" THEN mem.seeded ELSE disk.local = "yes"]

\* AccessHoldAfterRebuild: the first reading that finds a login releases it.
HoldStands(disk) == disk.hold /\ ~(disk.pass /\ disk.enabled)
HoldRead(disk) == [disk EXCEPT !.hold = HoldStands(disk)]

\* accessSeedAtBoot: what the defaults are seeded from, before any settings.
\* A hold that cannot be read seeds what the flag asks, and refuses meanwhile.
Seeded(flag, read) ==
    [Stopped EXCEPT !.up = TRUE,
        !.hold = IF read = "fails" THEN "unread"
                 ELSE IF HoldStands(acDisk) THEN "rebuilt" ELSE "none",
        !.seeded = ~(flag = "network" /\ (read = "fails" \/ ~HoldStands(acDisk)))]

\* judgeAccessHold on a loaded controller: a standing hold withholds network
\* access from the flag and from a stored choice.
Withheld_Flag(mem, disk, flag) == HoldStands(disk) /\ flag = "network"
Withheld(mem, disk, flag) == HoldStands(disk) /\ (flag = "network" \/ ~mem.local)
Judged(mem, disk, flag, read) ==
    [mem EXCEPT !.hold = CASE read = "fails" -> "unread"
                           [] read # "fails" /\ Withheld(mem, disk, flag) -> "rebuilt"
                           [] OTHER -> "none"]

\* The flag is in force unless a hold, or one that cannot be read, stands
\* against -access network.
FlagInForce(disk, flag, read) ==
    flag # "none" /\ ~(flag = "network" /\ (read = "fails" \/ HoldStands(disk)))

SetLocal(pair, local) ==
    <<[pair[1] EXCEPT !.local = IF local THEN "yes" ELSE "no"],
      [pair[2] EXCEPT !.local = local]>>

\* applyExplicitAccess, after every load: judge the hold, then reconcileAccess.
ApplyExplicitAccess(disk, mem, flag, read, ok) ==
    LET judged == Judged(mem, disk, flag, read)
        known  == IF read = "ok" THEN HoldRead(disk) ELSE disk
        moves  == FlagInForce(disk, flag, read) /\ judged.local # (flag = "local")
    IN  IF moves /\ ok THEN SetLocal(<<known, judged>>, flag = "local") ELSE <<known, judged>>

\* The operator's flag is a choice; one that could not be stored is reported.
ChosenByFlag(disk, mem, flag, read, ok) ==
    IF ~FlagInForce(disk, flag, read) THEN acChosen
    ELSE [acChosen EXCEPT !.network = flag = "network",
                          !.failed = @ \/ (~ok /\ mem.local # (flag = "local"))]

AcBoot ==
    /\ ~acMem.up
    /\ \E flag \in Flags, seed, load, read \in {"ok", "fails"}, ok \in BOOLEAN :
          LET mem   == Seeded(flag, seed)
              disk  == IF seed = "ok" THEN HoldRead(acDisk) ELSE acDisk
              full  == LoadedFrom(disk, mem)
              after == ApplyExplicitAccess(disk, full, flag, read, ok)
              open  == [acChosen EXCEPT !.network = @ \/ (flag = "network" /\ mem.hold = "none")]
          IN  /\ acFlag' = flag
              /\ acDisk' = IF load = "ok" THEN after[1] ELSE disk
              /\ acMem'  = IF load = "ok" THEN after[2] ELSE [mem EXCEPT !.local = mem.seeded]
              /\ acChosen' = IF load = "ok" THEN ChosenByFlag(disk, full, flag, read, ok) ELSE open
    /\ acStep' = Resting /\ acPre' = NoPre

\* A signal, the retry loop or an import reads the table and publishes it ...
LoadAs(c, next) ==
    /\ acMem' = LoadedFrom(acDisk, acMem)
    /\ acStep' = [acStep EXCEPT ![c] = next]
    /\ UNCHANGED <<acDisk, acFlag, acPre, acChosen>>

\* ... and then runs the hook.
HookAs(c, next) ==
    /\ \E read \in {"ok", "fails"}, ok \in BOOLEAN :
          LET after == ApplyExplicitAccess(acDisk, acMem, acFlag, read, ok) IN
          /\ acDisk' = after[1] /\ acMem' = after[2]
          /\ acChosen' = ChosenByFlag(acDisk, acMem, acFlag, read, ok)
    /\ acStep' = [acStep EXCEPT ![c] = next]
    /\ UNCHANGED <<acFlag, acPre>>

SignalReload == acMem.up /\ acStep.signal = "idle" /\ LoadAs("signal", "hook")
SignalHook   == acStep.signal = "hook" /\ HookAs("signal", "idle")

-----------------------------------------------------------------------------
(* What is served.                                                         *)

Reconciling == acStep.import # "idle"

\* AccessHold.Enforced, and the network part of guard
Held == ~acMem.released /\ (acMem.hold = "rebuilt" \/ (acMem.hold = "unread" /\ acMem.loaded))
NetworkServed == acMem.up /\ ~Reconciling /\ acMem.loaded /\ ~acMem.local /\ ~Held

\* A request from anywhere reaches the data without a login.
OpenToAll == NetworkServed /\ ~AuthActive(acMem)

-----------------------------------------------------------------------------
(* The Access tab and Quick Setup, at this machine; importMu keeps them out *)
(* of an import.  Each save writes the table and then the values.           *)

Operates(disk, mem) ==
    /\ acMem.up /\ acMem.loaded /\ ~Reconciling
    /\ acDisk' = disk /\ acMem' = mem
    /\ acChosen' = [acChosen EXCEPT !.login = AuthActive(mem), !.network = ~mem.local]
    /\ UNCHANGED <<acFlag, acStep, acPre>>

\* SetAuthPassword switches the login on.
SetAuthPassword ==
    Operates([acDisk EXCEPT !.user = "mine", !.pass = TRUE, !.enabled = TRUE],
             [acMem EXCEPT !.user = "mine", !.pass = TRUE, !.enabled = TRUE])

SetAuthEnabled(on) ==
    Operates([acDisk EXCEPT !.enabled = on], [acMem EXCEPT !.enabled = on])

\* handleAccess with local_only: switching the network on releases the hold,
\* if the write succeeds; an echo of what is shown releases nothing.
SaveLocalOnly(local) ==
    \E ok \in BOOLEAN :
       LET shown    == acMem.local \/ (acMem.hold # "none" /\ ~acMem.released)
           releases == ~local /\ shown /\ ok
           disk     == [acDisk EXCEPT !.local = IF local THEN "yes" ELSE "no",
                                      !.hold = @ /\ ~releases]
       IN  Operates(disk, [acMem EXCEPT !.local = local, !.released = @ \/ releases])

-----------------------------------------------------------------------------
(* handleImport with a configuration.                                      *)

\* The first row closes the dashboard and remembers the login it replaces.
ImportConfig ==
    /\ acMem.up /\ acMem.loaded /\ ~Reconciling
    /\ acPre' = [user |-> acMem.user, enabled |-> acMem.enabled,
                 pass |-> acMem.pass, local |-> acMem.local]
    /\ acStep' = [acStep EXCEPT !.import = "rows"]
    /\ UNCHANGED <<acDisk, acMem, acFlag, acChosen>>

\* A backup carries a login name and whether login is on, but no password, no
\* scope and no hold.
LandLogin ==
    /\ acStep.import = "rows"
    /\ \E user \in {acDisk.user, "theirs"}, enabled \in BOOLEAN :
          acDisk' = [acDisk EXCEPT !.user = user, !.enabled = enabled]
    /\ acStep' = [acStep EXCEPT !.import = "load"]
    /\ UNCHANGED <<acMem, acFlag, acPre, acChosen>>

ImportLoads == acStep.import = "load" /\ LoadAs("import", "hook")
ImportHook  == acStep.import = "hook" /\ HookAs("import", "user")

\* Both tries to load failed: the remembered login and scope go back on disk,
\* over what a signal's load has stored there since, and one more load is
\* tried.
PutBack ==
    /\ acStep.import = "load"
    /\ \E ok \in BOOLEAN :
          LET mine(r) == [r EXCEPT !.user = IF acPre.user = "" THEN @ ELSE acPre.user,
                                   !.enabled = acPre.enabled]
              back == SetLocal(<<mine(acDisk), mine(acMem)>>, acPre.local)
          IN  /\ acDisk' = IF ok THEN back[1] ELSE acDisk
              /\ acMem' = IF ok THEN back[2] ELSE acMem
              /\ acChosen' = [acChosen EXCEPT !.failed = @ \/ ~ok,
                                              !.network = IF ok THEN ~acPre.local ELSE @]
              /\ acStep' = [acStep EXCEPT !.import = IF ok THEN "again" ELSE "idle"]
    /\ UNCHANGED <<acFlag, acPre>>

LoadAgain == acStep.import = "again" /\ LoadAs("import", "last")
LastHook  == acStep.import = "last" /\ HookAs("import", "idle")
GiveUp ==
    /\ acStep.import = "again"
    /\ acStep' = [acStep EXCEPT !.import = "idle"]
    /\ UNCHANGED <<acDisk, acMem, acFlag, acPre, acChosen>>

\* One repair: a save that may fail, which the import's answer reports.
Repair(at, next, needed, disk, mem) ==
    /\ acStep.import = at
    /\ \E ok \in BOOLEAN :
          /\ acDisk' = IF needed /\ ok THEN disk ELSE acDisk
          /\ acMem' = IF needed /\ ok THEN mem ELSE acMem
          /\ acChosen' = [acChosen EXCEPT !.failed = @ \/ (needed /\ ~ok)]
    /\ acStep' = [acStep EXCEPT !.import = next]
    /\ UNCHANGED <<acFlag, acPre>>

\* The password is this machine's, so its name is too.
KeepUser ==
    Repair("user", "login", acPre.pass /\ acMem.user # acPre.user,
           [acDisk EXCEPT !.user = acPre.user], [acMem EXCEPT !.user = acPre.user])

WasActive == acPre.enabled /\ acPre.pass

\* A login that protected this machine still does.
KeepLogin ==
    Repair("login", "disable", WasActive /\ ~AuthActive(acMem),
           [acDisk EXCEPT !.enabled = TRUE], [acMem EXCEPT !.enabled = TRUE])

\* A login that is on but has no password cannot be enforced: it goes off, and
\* the dashboard is for this machine only.
Unenforceable == acMem.enabled /\ ~acMem.pass

DisableLogin ==
    Repair("disable", IF Unenforceable THEN "scope" ELSE "idle", Unenforceable,
           [acDisk EXCEPT !.enabled = FALSE], [acMem EXCEPT !.enabled = FALSE])

ForceLocalOnly ==
    LET local == SetLocal(<<acDisk, acMem>>, TRUE) IN
    Repair("scope", "idle", ~acMem.local, local[1], local[2])

-----------------------------------------------------------------------------
(* The end of the process, and what happens to the store between two.      *)

\* Between an import's rows and its repairs the backup's login is on disk, and
\* a restart adopts it; that loss is reported nowhere.
AcCrash ==
    /\ acMem.up
    /\ acMem' = Stopped /\ acStep' = Resting /\ acPre' = NoPre
    /\ acChosen' = [acChosen EXCEPT !.failed = @ \/ acStep.import \notin {"idle", "rows"}]
    /\ UNCHANGED <<acDisk, acFlag>>

\* Open found the database damaged: an empty one, with the hold.
Rebuild ==
    /\ ~acMem.up
    /\ acDisk' = [user |-> "", enabled |-> FALSE, pass |-> FALSE, local |-> "unset", hold |-> TRUE]
    /\ acChosen' = [login |-> FALSE, network |-> FALSE, failed |-> FALSE]
    /\ UNCHANGED <<acMem, acFlag, acStep, acPre>>

\* An older release, which does not know the hold, stores a network scope.
OldRelease ==
    /\ ~acMem.up /\ acDisk.hold
    /\ acDisk' = [acDisk EXCEPT !.local = "no"]
    /\ UNCHANGED <<acMem, acFlag, acStep, acPre, acChosen>>

AcNext ==
    \/ AcBoot \/ AcCrash \/ Rebuild \/ OldRelease
    \/ SignalReload \/ SignalHook
    \/ SetAuthPassword \/ \E b \in BOOLEAN : SetAuthEnabled(b) \/ SaveLocalOnly(b)
    \/ ImportConfig \/ LandLogin \/ ImportLoads \/ ImportHook
    \/ PutBack \/ LoadAgain \/ LastHook \/ GiveUp
    \/ KeepUser \/ KeepLogin \/ DisableLogin \/ ForceLocalOnly

AcSpec == AcInit /\ [][AcNext]_acVars

-----------------------------------------------------------------------------
(* Properties.                                                             *)

AcTypeOK ==
    /\ acDisk \in [user : {"", "mine", "theirs"}, enabled : BOOLEAN, pass : BOOLEAN,
                   local : {"unset", "yes", "no"}, hold : BOOLEAN]
    /\ acMem.hold \in {"none", "rebuilt", "unread"}

\* A login the operator relies on is in force whenever the network is served:
\* through a restore of a backup that has none, a signal in the middle of it,
\* and loads that fail, as long as no save the code reports has failed.
LoginKept == NetworkServed /\ acChosen.login /\ ~acChosen.failed => AuthActive(acMem)

\* The dashboard is open to the network without a login only where this
\* machine's operator, or the flag, made it so: not by a restore, and not on a
\* store rebuilt after corruption, whatever is stored there and whenever its
\* hold can be read.
OpenedByChoice == OpenToAll /\ ~acChosen.failed => acChosen.network

\* Who may reach the dashboard, and with what, is the operator's choice.
AccessByChoice == LoginKept /\ OpenedByChoice
=============================================================================
