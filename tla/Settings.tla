------------------------------ MODULE Settings ------------------------------
(***************************************************************************)
(* The settings controller (internal/settings): values in memory over a    *)
(* sparse table on disk over the flags' defaults, one lock for every load  *)
(* and save, and the iperf3 servers' passwords, which are sealed on the    *)
(* way to disk and may be unreadable on the way back.  "form" stands for   *)
(* any key of the form; a password is one of the shapes below.             *)
(***************************************************************************)
EXTENDS Naturals

CONSTANTS Addrs,     \* the servers' addresses
          Forms,     \* the values of a form key; the shipped default is one
          Keys       \* key files a daemon may be started with

ASSUME SettingsAssumption ==
    /\ "shipped" \in Forms /\ Keys \subseteq STRING
    /\ Keys \cap {"absent", "blank", "clear", "nokey"} = {}

VARIABLES stDisk,    \* the settings table
          stMem,     \* the controller's values
          stHost,    \* the flag's default and the key file of this process
          stAct,     \* what each caller inside the controller has read
          stDirty,   \* an import's rows are on disk and not loaded
          stNamed    \* the addresses whose password the last save replaced (history)

stVars == <<stDisk, stMem, stHost, stAct, stDirty, stNamed>>

Shipped == "shipped"
Unset   == "unset"
NoKey   == "nokey"
Idle    == [step |-> "idle"]
Callers == {"signal", "import", "save"}

\* A server is listed without a password, with one in the clear, or with one
\* sealed under a key; or it is not listed.
DiskPasswords == {"absent", "blank", "clear"} \cup Keys
MemPasswords  == {"absent", "blank", "clear"}

StInit ==
    /\ stDisk \in [form : {Unset}, servers : [Addrs -> {"absent"}]]
    /\ stMem = [loaded |-> FALSE, form |-> Shipped, servers |-> stDisk.servers,
                sealed |-> [a \in Addrs |-> "blank"]]
    /\ stHost = [up |-> FALSE, flag |-> Shipped, key |-> NoKey]
    /\ stAct = [c \in Callers |-> Idle]
    /\ stDirty = FALSE
    /\ stNamed = {}

-----------------------------------------------------------------------------
(* Values and passwords.                                                   *)

\* overlay: a key that is stored outranks the default the process runs with.
Overlay(disk, flag) == IF disk.form = Unset THEN flag ELSE disk.form

\* unsealServers: what this key cannot open reads as blank (and so does every
\* sealed password when there is no key: normalize blanks it).
Unseal(servers, key) ==
    [a \in Addrs |-> CASE servers[a] \in MemPasswords -> servers[a]
                       [] servers[a] = key            -> "clear"
                       [] OTHER                       -> "blank"]

\* rememberSealed: the ciphertexts this process could not open.
Remembered(servers, key) ==
    [a \in Addrs |-> IF servers[a] \in Keys \ {key} THEN servers[a] ELSE "blank"]

\* A password stored before encryption existed, or by an import.
Legacy(servers, key) == key # NoKey /\ \E a \in Addrs : servers[a] = "clear"

RestoreSealed_None(servers, sealed) == servers

\* restoreSealed: a blank password gets back the ciphertext of its address.
RestoreSealed(servers, sealed) ==
    [a \in Addrs |-> IF servers[a] = "blank" THEN sealed[a] ELSE servers[a]]

\* sealServers: what is sealed already stays as it is.
SealServers(servers, key) ==
    [a \in Addrs |-> IF servers[a] = "clear" /\ key # NoKey THEN key ELSE servers[a]]

ToDisk(servers, mem) == SealServers(RestoreSealed(servers, mem.sealed), stHost.key)

\* mergeIperfPasswords: a blank in the form keeps the password in memory.
MergeIperfPasswords(incoming, stored) ==
    [a \in Addrs |-> IF incoming[a] = "blank" /\ stored[a] = "clear"
                     THEN "clear" ELSE incoming[a]]

\* mergeImportedIperfPasswords: a backup carries none, and keeps this host's.
MergeImported(incoming, existing) ==
    [a \in Addrs |-> IF incoming[a] = "blank" /\ existing[a] # "absent"
                     THEN existing[a] ELSE incoming[a]]

-----------------------------------------------------------------------------
(* Loads: New, and Reload from a signal, the retry loop or an import.      *)

\* wmu: one caller at a time is inside the controller.
Free_Unlocked == TRUE
Free == \A c \in Callers : stAct[c] = Idle

Loaded(disk, key, flag) ==
    [loaded |-> TRUE, form |-> Overlay(disk, flag),
     servers |-> Unseal(disk.servers, key), sealed |-> Remembered(disk.servers, key)]

\* A load that met a password in the clear seals it; the list it writes is the
\* one it read, and a failure leaves the settings loaded.
Reseal(read, mem, key, ok) ==
    stDisk' = IF ok /\ Legacy(read.servers, key)
              THEN [stDisk EXCEPT !.servers =
                       SealServers(RestoreSealed(mem.servers, mem.sealed), key)]
              ELSE stDisk

\* New: the flags and the key file of this start.
StBoot ==
    /\ ~stHost.up
    /\ \E flag \in Forms, key \in Keys \cup {NoKey}, reads, ok \in BOOLEAN :
          /\ stHost' = [up |-> TRUE, flag |-> flag, key |-> key]
          /\ IF reads
             THEN /\ stMem' = Loaded(stDisk, key, flag)
                  /\ Reseal(stDisk, stMem', key, ok)
             ELSE /\ stMem' = [stMem EXCEPT !.loaded = FALSE, !.form = flag,
                                            !.servers = [a \in Addrs |-> "absent"],
                                            !.sealed  = [a \in Addrs |-> "blank"]]
                  /\ UNCHANGED stDisk
    /\ stDirty' = FALSE /\ stNamed' = {}
    /\ UNCHANGED stAct

\* reload reads the table under the lock ...
ReloadRead(c) ==
    /\ stHost.up /\ Free
    /\ c = "signal" \/ (c = "import" /\ stDirty)
    /\ stAct' = [stAct EXCEPT ![c] = [step |-> "apply", read |-> stDisk]]
    /\ stNamed' = {}
    /\ UNCHANGED <<stDisk, stMem, stHost, stDirty>>

\* ... and broadcasts what it read before it writes anything.
ReloadApply(c) ==
    /\ stAct[c].step = "apply" /\ c # "save"
    /\ LET read == stAct[c].read IN
       /\ stMem' = Loaded(read, stHost.key, stHost.flag)
       /\ \E ok \in BOOLEAN : Reseal(read, stMem', stHost.key, ok)
       /\ stDirty' = (stDirty /\ read # stDisk)
    /\ stAct' = [stAct EXCEPT ![c] = Idle]
    /\ stNamed' = {}
    /\ UNCHANGED stHost

-----------------------------------------------------------------------------
(* Saves: Update with a patch, under the lock from its reads to its write. *)

\* mutateErr refuses while the settings are not loaded: the values in memory
\* are defaults, and the stored ones would be overwritten with them.
UpdateRead ==
    /\ stHost.up /\ stMem.loaded /\ Free
    /\ stAct' = [stAct EXCEPT !.save =
          [step |-> "write", stored |-> stDisk.form, cur |-> stMem]]
    /\ stNamed' = {}
    /\ UNCHANGED <<stDisk, stMem, stHost, stDirty>>

\* A submitted key is written when it differs from what a restart would read
\* back (the stored value, else the shipped default, never the flag's) or from
\* the running value.
FormWritten(submitted, stored, old) ==
    \/ submitted # IF stored = Unset THEN Shipped ELSE stored
    \/ submitted # old

\* The server list is sealed on disk, so it is compared with the running list.
UpdateWrite ==
    /\ stAct.save.step = "write"
    /\ \E form \in Forms \cup {Unset}, submits \in BOOLEAN,
          list \in [Addrs -> MemPasswords] :
          LET act     == stAct.save
              servers == IF submits THEN MergeIperfPasswords(list, act.cur.servers)
                                    ELSE act.cur.servers
              value   == IF form = Unset THEN act.cur.form ELSE form
          IN  /\ stMem' = [act.cur EXCEPT !.form = value, !.servers = servers]
              /\ stDisk' = [form |-> IF form # Unset /\ FormWritten(form, act.stored, act.cur.form)
                                     THEN form ELSE stDisk.form,
                            servers |-> IF servers # act.cur.servers
                                        THEN ToDisk(servers, act.cur) ELSE stDisk.servers]
              /\ stNamed' = IF submits THEN {a \in Addrs : list[a] # "blank"} ELSE {}
    /\ stAct' = [stAct EXCEPT !.save = Idle]
    /\ UNCHANGED <<stHost, stDirty>>

\* The stored baseline, the sealing or the transaction fails: nothing changes.
UpdateFails ==
    /\ stAct.save.step = "write"
    /\ stAct' = [stAct EXCEPT !.save = Idle]
    /\ stNamed' = {}
    /\ UNCHANGED <<stDisk, stMem, stHost, stDirty>>

-----------------------------------------------------------------------------
(* An import's rows land without the lock; the process may end anywhere.   *)

ImportRows ==
    /\ stHost.up /\ stMem.loaded /\ ~stDirty
    /\ \E form \in Forms, list \in [Addrs -> MemPasswords] :
          stDisk' = [form |-> form, servers |-> MergeImported(list, stDisk.servers)]
    /\ stDirty' = TRUE /\ stNamed' = Addrs
    /\ UNCHANGED <<stMem, stHost, stAct>>

StStop ==
    /\ stHost.up
    /\ stHost' = [stHost EXCEPT !.up = FALSE]
    /\ stMem' = [stMem EXCEPT !.loaded = FALSE]
    /\ stAct' = [c \in Callers |-> Idle]
    /\ stDirty' = FALSE /\ stNamed' = {}
    /\ UNCHANGED stDisk

StNext ==
    \/ StBoot \/ StStop
    \/ \E c \in {"signal", "import"} : ReloadRead(c) \/ ReloadApply(c)
    \/ UpdateRead \/ UpdateWrite \/ UpdateFails
    \/ ImportRows

StSpec == StInit /\ [][StNext]_stVars

-----------------------------------------------------------------------------
(* Properties.                                                             *)

StTypeOK ==
    /\ stDisk \in [form : Forms \cup {Unset}, servers : [Addrs -> DiskPasswords]]
    /\ stMem \in [loaded : BOOLEAN, form : Forms, servers : [Addrs -> MemPasswords],
                  sealed : [Addrs -> Keys \cup {"blank"}]]

\* What runs is what a restart with the same flags would load: no save and no
\* reload, in any order with the others, leaves memory and table apart, but
\* for an import whose rows have not been loaded.
SavedIsRunning ==
    stHost.up /\ stMem.loaded /\ ~stDirty =>
        /\ stMem.form = Overlay(stDisk, stHost.flag)
        /\ stMem.servers = Unseal(stDisk.servers, stHost.key)

\* A ciphertext this process cannot open leaves the disk only when its password
\* is replaced or its server removed or imported over; and a process that holds
\* a key writes no password in the clear.
SecretsKept ==
    [][\A a \in Addrs :
          /\ stDisk.servers[a] \in Keys \ {stHost.key} /\ stHost.up
                /\ stDisk'.servers[a] # stDisk.servers[a] => a \in stNamed'
          /\ stDisk'.servers[a] = "clear" /\ stDisk.servers[a] # "clear"
                => stHost.key = NoKey \/ stDirty']_stVars
=============================================================================
