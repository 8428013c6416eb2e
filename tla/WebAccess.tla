------------------------------ MODULE WebAccess ------------------------------
(* Who may change things through the web interface (web/auth.go): the one-  *)
(* time setup token of a fresh install and the file it is also written to   *)
(* (config/setuptoken.go), the password and the three handlers that read or *)
(* replace it, sessions, the table of failed attempts, `set-password' on    *)
(* the command line and the installer that hands the token over.            *)
(* Handlers run concurrently and hash for long enough to be overtaken.      *)
(* A password, a setup token and a session are numbers; 0 is none.          *)
EXTENDS Naturals, FiniteSets, FiniteSetsExt

CONSTANTS
    Requests,       \* requests in flight at once
    Peers,          \* addresses requests come from
    TTL, MaxAge,    \* idle timeout and ceiling of a session
    Free,           \* failed attempts before a lockout
    BaseLockout, MaxLockout, Forget,
    MaxTracked,     \* failure records kept
    MaxPasswords, MaxTokens, MaxSessions, MaxCrashes, MaxAsked, Horizon   \* bounds

VARIABLES
    stored,     \* the hash in config.yaml
    current,    \* the hash in the daemon's configuration
    cleared,    \* the hash was once taken out of the file by hand
    up,         \* "down", "starting": token minted, not yet written, or "up"
    token,      \* the setup token in memory
    tokenFile,  \* the one in setup-token.txt
    sessions,   \* {[id, born, expires, used]}
    fails,      \* Peers -> {} or {[count, until, touched]}
    req,        \* Requests -> [at, peer, given, hash]
    installer,  \* [at, shown]
    clock, passwords, tokens, issued, crashes, asked

vars == <<stored, current, cleared, up, token, tokenFile, sessions, fails, req,
          installer, clock, passwords, tokens, issued, crashes, asked>>
counters == <<passwords, tokens, issued, crashes, asked>>

Idle == [at |-> "idle", peer |-> CHOOSE p \in Peers : TRUE, given |-> 0, hash |-> 0]

Min2(a, b) == IF a < b THEN a ELSE b

---------------------------------------------------------------------------
(* The table of failed attempts.                                           *)

SweptLazily(p) == fails[p]
Swept(p) == {f \in fails[p] : ~(clock - f.touched > Forget /\ clock > f.until)}
SweptFails == [p \in Peers |-> Swept(p)]
Tracked == Cardinality({p \in Peers : Swept(p) # {}})

Allowed(p) == IF Swept(p) = {} THEN Tracked < MaxTracked
              ELSE \A f \in Swept(p) : clock >= f.until

\* Doubling from one minute, capped.
Lockout(count) ==
    IF count < Free THEN 0
    ELSE Min2(MaxLockout, BaseLockout * 2 ^ Min2(count - Free, 8))

RecordFailure(p) ==
    LET was == IF Swept(p) = {} THEN [count |-> 0, until |-> 0, touched |-> 0]
               ELSE CHOOSE f \in Swept(p) : TRUE
        count == was.count + 1
    IN fails' = IF Swept(p) = {} /\ Tracked >= MaxTracked THEN SweptFails
                ELSE [SweptFails EXCEPT ![p] =
                        {[count |-> count, touched |-> clock,
                          until |-> IF count >= Free THEN clock + Lockout(count)
                                    ELSE was.until]}]

RecordSuccess(p) == fails' = [fails EXCEPT ![p] = {}]

---------------------------------------------------------------------------
(* Sessions.                                                               *)

DeadIdle(s) == clock > s.expires
Dead(s) == clock > s.expires \/ clock - s.born >= MaxAge

NewSession(live) ==
    /\ issued < MaxSessions
    /\ issued' = issued + 1
    /\ sessions' = {s \in live : ~Dead(s)} \cup
                   {[id |-> issued + 1, born |-> clock, expires |-> clock + TTL,
                     used |-> clock]}

\* valid extends a live session and forgets a dead one.
Extend(s) == {x \in sessions : x.id # s.id} \cup
             {[s EXCEPT !.expires = clock + TTL, !.used = clock]}

Serve ==
    /\ \E s \in sessions :
          sessions' = IF Dead(s) THEN sessions \ {s} ELSE Extend(s)
    /\ up = "up"
    /\ UNCHANGED <<stored, current, cleared, up, token, tokenFile, fails, req,
                   installer, clock>>
    /\ UNCHANGED counters

SignOut ==
    /\ \E s \in sessions : sessions' = sessions \ {s}
    /\ up = "up"
    /\ UNCHANGED <<stored, current, cleared, up, token, tokenFile, fails, req,
                   installer, clock>>
    /\ UNCHANGED counters

---------------------------------------------------------------------------
(* The three handlers.                                                     *)

Becomes(r, to) == req' = [req EXCEPT ![r] = to]
Goes(r, at) == Becomes(r, [req[r] EXCEPT !.at = at])

\* The routes behind requireAuth; signing in and the first setup are not.
Gated(kind) == kind = "change"

\* A request arrives, and is refused while its address is locked out.  A
\* change of password needs a live session, which it extends.
Arrive(r) ==
    /\ req[r].at = "idle" /\ up = "up" /\ asked < MaxAsked
    /\ asked' = asked + 1
    /\ \E p \in Peers, kind \in {"signin", "setup", "change"} :
        /\ \E given \in IF kind = "setup" THEN 1..tokens ELSE 0..passwords :
              Becomes(r, IF Allowed(p) THEN [at |-> kind, peer |-> p,
                                             given |-> given, hash |-> 0]
                         ELSE Idle)
        /\ IF Gated(kind)
           THEN \E s \in sessions : ~Dead(s) /\ sessions' = Extend(s)
           ELSE UNCHANGED sessions
    /\ fails' = SweptFails
    /\ UNCHANGED <<stored, current, cleared, up, token, tokenFile, installer,
                   clock, passwords, tokens, issued, crashes>>

\* The hash is read, and compared later.
ReadHash(r) ==
    /\ req[r].at \in {"signin", "change"}
    /\ IF req[r].at = "signin" /\ current = 0 THEN Becomes(r, Idle)
       ELSE Becomes(r, [req[r] EXCEPT
                !.at = IF @ = "signin" THEN "verify" ELSE "recheck",
                !.hash = current])
    /\ UNCHANGED <<stored, current, cleared, up, token, tokenFile, sessions, fails,
                   installer, clock>>
    /\ UNCHANGED counters

Verified(r) == req[r].hash # 0 /\ req[r].given = req[r].hash

HandleSignIn(r) ==
    /\ req[r].at = "verify"
    /\ Becomes(r, Idle)
    /\ IF Verified(r) THEN RecordSuccess(req[r].peer) /\ NewSession(sessions)
       ELSE RecordFailure(req[r].peer) /\ UNCHANGED <<sessions, issued>>
    /\ UNCHANGED <<stored, current, cleared, up, token, tokenFile, installer, clock,
                   passwords, tokens, crashes, asked>>

WrongCurrent(r) ==
    /\ req[r].at = "recheck" /\ ~Verified(r)
    /\ Becomes(r, Idle)
    /\ RecordFailure(req[r].peer)
    /\ UNCHANGED <<stored, current, cleared, up, token, tokenFile, sessions,
                   installer, clock>>
    /\ UNCHANGED counters

\* The token is spent before the hash is computed and stored; a password too
\* short is refused before it is spent.
HandleSetup(r) ==
    /\ req[r].at = "setup"
    /\ IF current # 0
       THEN Becomes(r, Idle) /\ UNCHANGED <<token, fails>>
       ELSE IF token # 0 /\ req[r].given = token
       THEN /\ Goes(r, "store")
            /\ token' = 0
            /\ UNCHANGED fails
       ELSE /\ Becomes(r, Idle)
            /\ RecordFailure(req[r].peer)
            /\ UNCHANGED token
    /\ UNCHANGED <<stored, current, cleared, up, tokenFile, sessions, installer,
                   clock>>
    /\ UNCHANGED counters

TooShort(r) ==
    /\ req[r].at = "setup" \/ (req[r].at = "recheck" /\ Verified(r))
    /\ Becomes(r, Idle)
    /\ UNCHANGED <<stored, current, cleared, up, token, tokenFile, sessions, fails,
                   installer, clock>>
    /\ UNCHANGED counters

\* SetPasswordHash: the file, the daemon's copy, and the token's file.
SetPasswordHash ==
    /\ passwords < MaxPasswords
    /\ passwords' = passwords + 1
    /\ stored' = passwords + 1
    /\ current' = passwords + 1
    /\ tokenFile' = 0

SetupStores(r) ==
    /\ req[r].at = "store"
    /\ SetPasswordHash
    /\ RecordSuccess(req[r].peer)
    /\ NewSession(sessions)
    /\ Becomes(r, Idle)
    /\ UNCHANGED <<cleared, up, token, installer, clock, tokens, crashes, asked>>

KeepSpent(r) == token' = token

\* Given back only when nobody set another meanwhile.
RestoreSetupToken(r) == token' = IF token = 0 THEN req[r].given ELSE token

SetupFails(r) ==
    /\ req[r].at = "store"
    /\ RestoreSetupToken(r)
    /\ Becomes(r, Idle)
    /\ UNCHANGED <<stored, current, cleared, up, tokenFile, sessions, fails,
                   installer, clock>>
    /\ UNCHANGED counters

ChangeStores(r) ==
    /\ req[r].at = "recheck" /\ Verified(r)
    /\ SetPasswordHash
    /\ Goes(r, "drop")
    /\ UNCHANGED <<cleared, up, token, sessions, fails, installer, clock, tokens,
                   issued, crashes, asked>>

\* Every session dies, and this browser gets a new one.
DropAll(r) ==
    /\ req[r].at = "drop"
    /\ NewSession({})
    /\ Becomes(r, Idle)
    /\ UNCHANGED <<stored, current, cleared, up, token, tokenFile, fails, installer,
                   clock, passwords, tokens, crashes, asked>>

ChangeFails(r) ==
    /\ req[r].at = "recheck" /\ Verified(r)
    /\ Becomes(r, Idle)
    /\ UNCHANGED <<stored, current, cleared, up, token, tokenFile, sessions, fails,
                   installer, clock>>
    /\ UNCHANGED counters

---------------------------------------------------------------------------
(* The daemon, the file, the command line and the installer.               *)

\* New: a first run mints a token; it is written once the server is built.
Start ==
    /\ up = "down"
    /\ up' = "starting"
    /\ current' = stored
    /\ IF stored = 0
       THEN /\ tokens < MaxTokens
            /\ tokens' = tokens + 1
            /\ token' = tokens + 1
       ELSE token' = 0 /\ UNCHANGED tokens
    /\ UNCHANGED <<stored, cleared, tokenFile, sessions, fails, req, installer,
                   clock, passwords, issued, crashes, asked>>

\* A file that cannot be protected is not left behind.
WriteSetupToken ==
    /\ up = "starting"
    /\ up' = "up"
    /\ tokenFile' \in IF current # 0 THEN {0} ELSE {0, token}
    /\ UNCHANGED <<stored, current, cleared, token, sessions, fails, req, installer,
                   clock>>
    /\ UNCHANGED counters

Stop ==
    /\ up # "down" /\ crashes < MaxCrashes
    /\ crashes' = crashes + 1
    /\ up' = "down"
    /\ token' = 0 /\ sessions' = {}
    /\ fails' = [p \in Peers |-> {}]
    /\ req' = [r \in Requests |-> Idle]
    /\ UNCHANGED <<stored, current, cleared, tokenFile, installer, clock, passwords,
                   tokens, issued, asked>>

\* `notifymatrix set-password': the file, not the daemon.
SetPassword ==
    /\ passwords < MaxPasswords
    /\ passwords' = passwords + 1
    /\ stored' = passwords + 1
    /\ tokenFile' = 0
    /\ UNCHANGED <<current, cleared, up, token, sessions, fails, req, installer,
                   clock, tokens, issued, crashes, asked>>

\* Somebody takes the hash out of config.yaml.
ClearByHand ==
    /\ stored # 0
    /\ stored' = 0
    /\ cleared' = TRUE
    /\ UNCHANGED <<current, up, token, tokenFile, sessions, fails, req, installer,
                   clock>>
    /\ UNCHANGED counters

\* The watcher puts a changed file into force.
Adopt ==
    /\ up = "up" /\ current # stored
    /\ current' = stored
    /\ UNCHANGED <<stored, cleared, up, token, tokenFile, sessions, fails, req,
                   installer, clock>>
    /\ UNCHANGED counters

\* handOverSetupToken, run by the installer after it asked for a start.
HandOver ==
    /\ installer.at = "installing"
    /\ installer' = [installer EXCEPT
                       !.at = IF stored # 0 THEN "signin" ELSE "waiting"]
    /\ UNCHANGED <<stored, current, cleared, up, token, tokenFile, sessions, fails,
                   req, clock>>
    /\ UNCHANGED counters

WaitForSetupToken ==
    /\ installer.at = "waiting"
    /\ \/ /\ tokenFile # 0
          /\ installer' = [at |-> "shown", shown |-> tokenFile]
       \/ installer' = [installer EXCEPT !.at = "told"]       \* waited too long
    /\ UNCHANGED <<stored, current, cleared, up, token, tokenFile, sessions, fails,
                   req, clock>>
    /\ UNCHANGED counters

\* awaitConfirmation: five tries at typing the word, or nobody is there.
AwaitConfirmation ==
    /\ installer.at = "shown"
    /\ \E end \in {"copied", "told"} : installer' = [installer EXCEPT !.at = end]
    /\ UNCHANGED <<stored, current, cleared, up, token, tokenFile, sessions, fails,
                   req, clock>>
    /\ UNCHANGED counters

\* `notifymatrix setup-token' shows whatever the file holds.
SetupTokenCmd ==
    /\ installer.at = "told" /\ tokenFile # 0
    /\ installer' = [at |-> "copied", shown |-> tokenFile]
    /\ UNCHANGED <<stored, current, cleared, up, token, tokenFile, sessions, fails,
                   req, clock>>
    /\ UNCHANGED counters

Tick ==
    /\ clock < Horizon
    /\ clock' = clock + 1
    /\ UNCHANGED <<stored, current, cleared, up, token, tokenFile, sessions, fails,
                   req, installer>>
    /\ UNCHANGED counters

Init ==
    /\ stored = 0 /\ current = 0 /\ cleared = FALSE
    /\ up = "down" /\ token = 0
    /\ tokenFile = 0
    /\ sessions = {} /\ fails = [p \in Peers |-> {}]
    /\ req = [r \in Requests |-> Idle]
    /\ installer = [at |-> "installing", shown |-> 0]
    /\ clock = 0 /\ passwords = 0 /\ tokens = 0 /\ issued = 0 /\ crashes = 0
    /\ asked = 0

Handle(r) == \/ Arrive(r) \/ ReadHash(r) \/ HandleSignIn(r) \/ WrongCurrent(r)
             \/ HandleSetup(r) \/ TooShort(r) \/ SetupStores(r) \/ SetupFails(r)
             \/ ChangeStores(r) \/ DropAll(r) \/ ChangeFails(r)

Next ==
    \/ \E r \in Requests : Handle(r)
    \/ Serve \/ SignOut \/ Start \/ WriteSetupToken \/ Stop \/ SetPassword
    \/ ClearByHand \/ Adopt \/ HandOver \/ WaitForSetupToken
    \/ AwaitConfirmation \/ SetupTokenCmd \/ Tick

Spec == Init /\ [][Next]_vars

---------------------------------------------------------------------------
(* Properties.                                                             *)

TypeOK ==
    /\ {stored, current} \subseteq 0..passwords
    /\ {token, tokenFile, installer.shown} \subseteq 0..tokens
    /\ up \in {"down", "starting", "up"}
    /\ \A s \in sessions : s.born \in 0..clock /\ s.id \in 1..issued
    /\ Cardinality({p \in Peers : fails[p] # {}}) <= MaxTracked
    /\ \A p \in Peers : Cardinality(fails[p]) <= 1

\* auth.go restoreSetupToken: a running installation without a password has a
\* setup token to set one with, unless a setup holds it just now.  (Taking the
\* hash out of the file by hand is the case this does not cover: no token is
\* minted for it until the next start.)
NotLockedOut ==
    up # "down" /\ current = 0 /\ ~cleared =>
        token # 0 \/ \E r \in Requests : req[r].at = "store"

\* auth.go sessionMaxAge: however much it is used, a session answers for less
\* than MaxAge after its password was typed, and not after an idle TTL.
SessionsEnd ==
    [][\A s \in sessions, t \in sessions' :
        s.id = t.id /\ t.used # s.used =>
            clock - s.born < MaxAge /\ clock - s.used <= TTL]_vars

\* auth.go allow and sweepLocked: nobody is kept out for ever.  An address that
\* has been quiet for the longest lockout may try again, and when all have been
\* quiet for the time failures are remembered, so may one the full table had no
\* room for.
QuietReopens ==
    \A p \in Peers :
        /\ (\E f \in fails[p] : clock - f.touched > MaxLockout) => Allowed(p)
        /\ (\A q \in Peers : \A f \in fails[q] :
                clock - f.touched > Forget /\ clock - f.touched > MaxLockout)
            => Allowed(p)

\* tokenhandoff.go:92-94 "COPY THIS NOW -- it is how you set the first
\* password": the token the installer shows is one the daemon would take, now
\* or once it has started.
TokenShownWorks ==
    [][installer.at = "waiting" /\ installer'.at = "shown" =>
        up = "up" /\ tokenFile = token]_vars
=============================================================================
