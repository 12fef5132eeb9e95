------------------------------- MODULE SignIn -------------------------------
(***************************************************************************)
(* Signing in to the dashboard (internal/web/auth.go): the limiter one     *)
(* client's password checks go through, checks that run while the password *)
(* is being changed, the tokens they earn, and the epoch that revokes them *)
(* (internal/settings).  A credential is the number of the password change *)
(* that set it; a wrong guess is 0.                                        *)
(***************************************************************************)
EXTENDS Naturals, FiniteSets

CONSTANTS Workers,     \* requests being served
          MaxFails,    \* maxLoginFails
          BlockFor,    \* loginBlockFor, in ticks
          PruneAfter,  \* ten times that, in ticks
          MaxCred,     \* password changes followed
          MaxEpoch     \* sign-outs followed

ASSUME SignInAssumption ==
    /\ IsFiniteSet(Workers) /\ MaxFails \in Nat \ {0} /\ BlockFor \in Nat \ {0}
    /\ PruneAfter \in Nat /\ BlockFor < PruneAfter
    /\ MaxCred \in Nat \ {0} /\ MaxEpoch \in Nat

VARIABLES siCred,     \* the login name and password hash that are live
          siLimit,    \* this client's failState
          siCheck,    \* each worker's password check
          siGood,     \* the fingerprint of the last credential proved
          siEpoch,    \* the session epoch in memory and on disk
          siTokens,   \* tokens clients hold: what the MAC binds, and what was proved
          siRevoked,  \* tokens a sign-out has revoked (history)
          siStarted   \* checks admitted since the budget was last granted (history)

siVars == <<siCred, siLimit, siCheck, siGood, siEpoch, siTokens, siRevoked, siStarted>>

Creds == 1..MaxCred
Kinds == {"login", "basic", "stepup"}
NoCheck == [kind |-> "none"]
NoEntry == [known |-> FALSE, count |-> 0, pending |-> 0, age |-> 0]

SiInit ==
    /\ siCred = 1
    /\ siLimit = NoEntry
    /\ siCheck = [w \in Workers |-> NoCheck]
    /\ siGood = 0
    /\ siEpoch = [mem |-> 0, disk |-> 0]
    /\ siTokens = {}
    /\ siRevoked = {}
    /\ siStarted = 0

-----------------------------------------------------------------------------
(* The limiter.                                                            *)

\* prune, then the entry reserve works on
Pruned == IF siLimit.known /\ siLimit.age > PruneAfter THEN NoEntry ELSE siLimit

\* A served cool-down grants a fresh budget.
Granted(e) == IF e.count >= MaxFails /\ e.age >= BlockFor THEN [e EXCEPT !.count = 0] ELSE e

\* Checks in flight count against the budget with the recorded failures.
Admits_Recorded(e) == e.count < MaxFails
Admits(e) == e.count + e.pending < MaxFails

Blocked == siLimit.known /\ siLimit.count >= MaxFails /\ siLimit.age < BlockFor

\* knownGood: the pair passed a check earlier, and nothing has replaced it.
KnownGood(guess) == siGood = guess /\ guess = siCred

\* releaseFail: an entry that a success has deleted meanwhile is left alone.
ReleaseFail ==
    siLimit' = IF siLimit.known
               THEN [siLimit EXCEPT !.count = @ + 1, !.age = 0,
                                    !.pending = IF @ > 0 THEN @ - 1 ELSE 0]
               ELSE siLimit

-----------------------------------------------------------------------------
(* Checks.                                                                 *)

\* issueToken: the MAC is keyed on the credential and the epoch of that instant.
Token(cred, proved) == [cred |-> cred, epoch |-> siEpoch.mem, proved |-> proved]

Verifies(t) == t.cred = siCred /\ t.epoch = siEpoch.mem

\* handleLogin, authed and requireStepUp reserve first; guard refuses a Basic
\* header outright while its client is blocked.
Attempt(w, kind, guess) ==
    /\ siCheck[w] = NoCheck
    /\ ~(kind = "basic" /\ Blocked /\ ~KnownGood(guess))
    /\ LET e == Granted(Pruned) IN
       /\ Admits(e)
       /\ siLimit' = [e EXCEPT !.known = TRUE, !.pending = @ + 1, !.age = 0]
       /\ siStarted' = IF e = siLimit THEN siStarted + 1 ELSE 1
    /\ siCheck' = [siCheck EXCEPT ![w] = [kind |-> kind, guess |-> guess, cred |-> siCred]]
    /\ UNCHANGED <<siCred, siGood, siEpoch, siTokens, siRevoked>>

\* Over budget, a pair that is known good is let through without a check, and
\* any other is refused.
OverBudget(guess) ==
    /\ ~Admits(Granted(Pruned))
    /\ siLimit' = Granted(Pruned)
    /\ siStarted' = IF Granted(Pruned) = siLimit THEN siStarted ELSE 0
    /\ siTokens' = IF KnownGood(guess) THEN siTokens \cup {Token(guess, guess)} ELSE siTokens
    /\ UNCHANGED <<siCred, siCheck, siGood, siEpoch, siRevoked>>

\* The credential a token is minted for is the one the check ran against.
MintedFor_Fresh(check) == siCred
MintedFor(check) == check.cred

\* checkPassword: the compare ran against the credential read at the start,
\* and counts only if that one is still live ...
Passes(check) == check.guess = check.cred /\ siCred = check.cred

CheckPasses(w) ==
    /\ siCheck[w].kind \in {"login", "basic"}
    /\ Passes(siCheck[w])
    /\ siLimit' = NoEntry /\ siStarted' = 0
    /\ siGood' = siCheck[w].cred
    /\ siCheck' = [siCheck EXCEPT ![w] =
          IF @.kind = "basic" THEN NoCheck ELSE [@ EXCEPT !.kind = "mint"]]
    /\ UNCHANGED <<siCred, siEpoch, siTokens, siRevoked>>

\* ... and the token is issued after it, whatever has changed since.
Mint(w) ==
    /\ siCheck[w].kind = "mint"
    /\ siTokens' = siTokens \cup {Token(MintedFor(siCheck[w]), siCheck[w].guess)}
    /\ siCheck' = [siCheck EXCEPT ![w] = NoCheck]
    /\ UNCHANGED <<siCred, siLimit, siGood, siEpoch, siRevoked, siStarted>>

CheckFails(w) ==
    /\ siCheck[w].kind \in Kinds
    /\ ~Passes(siCheck[w])
    /\ ReleaseFail
    /\ siCheck' = [siCheck EXCEPT ![w] = NoCheck]
    /\ UNCHANGED <<siCred, siGood, siEpoch, siTokens, siRevoked, siStarted>>

\* handleAccess with a new password, after its step-up: the change commits,
\* and this browser is signed in again under it.  importMu holds other access
\* changes out, so the step-up's credential is still live.
ChangePassword(w) ==
    /\ siCheck[w].kind = "stepup" /\ Passes(siCheck[w])
    /\ siCred < MaxCred
    /\ siCred' = siCred + 1
    /\ siLimit' = NoEntry /\ siStarted' = 0
    /\ siGood' = siCred'
    /\ siTokens' = siTokens \cup {Token(siCred', siCred')}
    /\ siCheck' = [siCheck EXCEPT ![w] = NoCheck]
    /\ UNCHANGED <<siEpoch, siRevoked>>

-----------------------------------------------------------------------------
(* Sign-out, reloads and restarts.                                         *)

\* handleLogout with a session that is valid: BumpSessionEpoch advances memory
\* first and then writes it, which may fail.
Logout ==
    /\ siEpoch.mem < MaxEpoch
    /\ \E t \in siTokens : Verifies(t)
    /\ \E ok \in BOOLEAN :
          siEpoch' = [mem |-> siEpoch.mem + 1,
                      disk |-> IF ok THEN siEpoch.mem + 1 ELSE siEpoch.disk]
    /\ siRevoked' = siRevoked \cup {t \in siTokens : t.epoch <= siEpoch.mem}
    /\ UNCHANGED <<siCred, siLimit, siCheck, siGood, siTokens, siStarted>>

SeedSessionEpoch(mem, disk) == IF mem > disk THEN mem ELSE disk

SettingsReload ==
    /\ siEpoch' = [siEpoch EXCEPT !.mem = SeedSessionEpoch(siEpoch.mem, siEpoch.disk)]
    /\ UNCHANGED <<siCred, siLimit, siCheck, siGood, siTokens, siRevoked, siStarted>>

\* A restart forgets the limiter and every check; a sign-out it could not
\* write is forgotten with them.
WebRestart ==
    /\ siEpoch' = [siEpoch EXCEPT !.mem = SeedSessionEpoch(0, siEpoch.disk)]
    /\ siRevoked' = {t \in siRevoked : t.epoch < siEpoch.disk}
    /\ siLimit' = NoEntry /\ siStarted' = 0 /\ siGood' = 0
    /\ siCheck' = [w \in Workers |-> NoCheck]
    /\ UNCHANGED <<siCred, siTokens>>

\* The clock of failState.last.
LimitAges ==
    /\ siLimit.known /\ siLimit.age <= PruneAfter
    /\ siLimit' = [siLimit EXCEPT !.age = @ + 1]
    /\ UNCHANGED <<siCred, siCheck, siGood, siEpoch, siTokens, siRevoked, siStarted>>

SiNext ==
    \/ \E w \in Workers :
          \/ \E kind \in Kinds, guess \in 0..MaxCred : Attempt(w, kind, guess)
          \/ CheckPasses(w) \/ Mint(w) \/ CheckFails(w) \/ ChangePassword(w)
    \/ \E guess \in Creds : OverBudget(guess)
    \/ Logout \/ SettingsReload \/ WebRestart \/ LimitAges

SiSpec == SiInit /\ [][SiNext]_siVars

-----------------------------------------------------------------------------
(* Properties.                                                             *)

SiTypeOK ==
    /\ siCred \in Creds /\ siGood \in 0..MaxCred
    /\ siLimit.age \in 0..PruneAfter + 1 /\ siLimit.pending \in 0..Cardinality(Workers)
    /\ siEpoch \in [mem : 0..MaxEpoch, disk : 0..MaxEpoch]
    /\ siRevoked \subseteq siTokens

\* However the requests overlap, a client has at most its budget of password
\* checks between a success, or a cool-down it has served, and the next.
BudgetHeld == siStarted <= MaxFails

\* A session that verifies was earned with the password that is live: a check
\* that straddles a change earns nothing, and a session signed out stays out,
\* through any reload, and through a restart once the sign-out was written.
SessionsEarned ==
    \A t \in siTokens : Verifies(t) => t.proved = siCred /\ t \notin siRevoked
=============================================================================
