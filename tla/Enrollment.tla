----------------------------- MODULE Enrollment -----------------------------
(***************************************************************************)
(* How the daemon keeps, presents, loses and regains its identity.         *)
(*                                                                         *)
(* agent.yml (disk) holds three credentials: auth_token (auth), join_key   *)
(* (join) and prev_auth_token (prev), the proof of continuity of contract  *)
(* G-2.  The daemon works from cm.current (cur), a copy that is refreshed  *)
(* by ReloadIfChanged, Reload and the Persist methods only.  Four parties  *)
(* touch the file:                                                         *)
(*   session  the connectWebSocket goroutine: dials with cur, reloads once *)
(*            per connection, persists the enrollment the directory sends; *)
(*   ticker   the telemetry goroutine: ReloadIfChanged every 30 s;         *)
(*   tray     the tray IPC handler: reinit and set_auto_vpn;               *)
(*   cli      another process: reset-enrollment and config-set.            *)
(*                                                                         *)
(* ReloadIfChanged and Reload read the file OUTSIDE cm.mu and install what *)
(* they read later, and the cli works from its own copy, so loading and    *)
(* using a copy are two steps here.  The stat comparison of ReloadIfChanged*)
(* is kept as `seen': (lastSize, lastMod) still match the file.            *)
(*                                                                         *)
(* The directory is external: PROTOCOL.md 1.1 and the comments of          *)
(* connectWebSocket state what it does.                                    *)
(***************************************************************************)
EXTENDS Naturals, Sequences

CONSTANTS
    Tokens,         \* auth tokens the directory can mint
    None,           \* the empty string
    JoinKey,        \* the fleet's join key
    Env,            \* what the environment may do, a subset of EnvEvents
    Telemetry,      \* capabilities.telemetry: the ticker goroutine exists
    StartConfigs,   \* the agent.yml files the host may start with
    MaxMoves        \* bound on environment events (the counter `moves')

EnvEvents == {"overlap",        \* re-enroll commands race loads of agent.yml
              "operatorToken",  \* an operator pastes the token the admin UI shows
              "persistError",   \* agent.yml cannot be written
              "halfPersist",    \* written, then chmod or reload fails
              "reloadCommand",  \* the directory sends reload_config
              "rejectUpgrade"}  \* the upgrade is answered with 401 or 403

ASSUME EnrollmentConstants ==
    /\ None \notin Tokens
    /\ JoinKey \notin Tokens \union {None}
    /\ Env \subseteq EnvEvents
    /\ Telemetry \in BOOLEAN
    /\ MaxMoves \in Nat

MaybeToken == Tokens \union {None}
Config == [auth : MaybeToken, join : {JoinKey, None}, prev : MaybeToken]
NoConfig == [auth |-> None, join |-> None, prev |-> None]

ASSUME StartConfigsAssumption == StartConfigs \subseteq [auth : MaybeToken, join : {JoinKey, None}, prev : {None}]

Loaders == {"session", "ticker", "cli"}
Loads == {"none", "ifChanged", "always", "reset", "setJoin"}
CloseCodes == {4001, 4002, 4003, 4004}
Frame == [kind : {"config", "enrolled", "reload", "close"}, token : MaybeToken,
          code : CloseCodes \union {0}]

VARIABLES
    disk,       \* agent.yml
    cur,        \* cm.current
    seen,       \* lastSize/lastMod equal those of the file
    loading,    \* loader -> the load of agent.yml it is in the middle of
    snap,       \* loader -> the copy it has read
    reinit,     \* the tray has passed the guard of reinit, and not cleared yet
    fresh,      \* loader -> the file was not written since its os.Stat
    link,       \* where connectWebSocket stands
    conn,       \* the credential and prev token of the current dial
    shook,      \* directory: has this connection been admitted
    inbox,      \* frames in flight from the directory
    registered, \* directory: the token this host is registered with
    issued,     \* directory: every token minted so far
    held,       \* history: every token that was ever in agent.yml
    moves       \* environment events so far

vars == <<disk, cur, seen, loading, snap, reinit, fresh, link, conn, shook,
          inbox, registered, issued, held, moves>>
fileVars == <<disk, seen, fresh, held>>
loadVars == <<loading, snap, reinit>>
dirVars == <<registered, issued>>

TypeOK ==
    /\ disk \in Config
    /\ cur \in Config
    /\ seen \in BOOLEAN
    /\ loading \in [Loaders -> Loads]
    /\ snap \in [Loaders -> Config]
    /\ reinit \in BOOLEAN
    /\ fresh \in [Loaders -> BOOLEAN]
    /\ link \in {"down", "dialing", "syncing", "open", "retry", "backoff", "rejected"}
    /\ conn \in [cred : Tokens \union {JoinKey, None}, prev : MaybeToken]
    /\ shook \in {"pending", "in", "out"}
    /\ inbox \in Seq(Frame)
    /\ registered \in MaybeToken
    /\ issued \subseteq Tokens
    /\ held \subseteq Tokens
    /\ moves \in 0..MaxMoves

-----------------------------------------------------------------------------
(* The edits of agent.yml *)

Credential(c) == IF c.auth # None THEN c.auth ELSE c.join

\* mutant: the spent continuity proof stays in the file
EnrolledKeepingProof(file, token) == [file EXCEPT !.auth = token, !.join = None]

\* PersistEnrollment: the issued token in, join key and continuity proof spent.
Enrolled(file, token) == [auth |-> token, join |-> None, prev |-> None]

\* mutant: the pre-G-2 behaviour, the token is blanked outright
ClearedOutright(file, mem) == [file EXCEPT !.auth = None, !.prev = mem.prev]

\* mutant: the proof is whatever Credential() returns
ClearedToCredential(file, mem) ==
    [file EXCEPT !.auth = None, !.prev = Credential(mem)]

\* ClearEnrollment: file is the document just read, mem the in-memory copy that
\* the token to keep as proof is taken from.
Cleared(file, mem) ==
    [file EXCEPT !.auth = None,
                 !.prev = IF mem.auth # None THEN mem.auth ELSE mem.prev]

\* mutant: the guard is forgotten
MayClearAlways(c) == c \in Config

\* The guard of reset-enrollment and of the tray's reinit.
MayClear(c) == ~(c.join = None /\ c.auth # None)

-----------------------------------------------------------------------------
(* Shared steps *)

Move == moves < MaxMoves /\ moves' = moves + 1

\* Without "overlap" nobody else is between reading a configuration and using it.
Alone(p) ==
    \/ "overlap" \in Env
    \/ ~reinit /\ \A q \in Loaders \ {p} : loading[q] = "none"

Write(file) ==
    /\ disk' = file
    /\ seen' = FALSE
    /\ fresh' = [p \in Loaders |-> FALSE]
    /\ held' = held \union ({file.auth} \ {None})

\* A Persist method of ConfigManager: cm.mu is held from the read of the file to
\* the assignment of cm.current.
Persist(file) ==
    \/ Write(file) /\ cur' = file
    \/ "persistError" \in Env /\ UNCHANGED <<fileVars, cur>>
    \/ "halfPersist" \in Env /\ Write(file) /\ UNCHANGED cur

\* os.Stat and LoadConfig, before the lock is taken.
BeginLoad(p, kind) ==
    /\ loading[p] = "none"
    /\ loading' = [loading EXCEPT ![p] = kind]
    /\ snap' = [snap EXCEPT ![p] = disk]
    /\ fresh' = [fresh EXCEPT ![p] = TRUE]
    /\ UNCHANGED reinit

EndLoad(p) ==
    /\ loading' = [loading EXCEPT ![p] = "none"]
    /\ snap' = [snap EXCEPT ![p] = NoConfig]
    /\ UNCHANGED reinit

Hangup(next) == link' = next /\ inbox' = <<>> /\ shook' = "out"

-----------------------------------------------------------------------------
(* session: connectWebSocket *)

\* The top of the loop: cm.Get() and what the request will carry.
BeginDial ==
    /\ link = "down"
    /\ Credential(cur) # None
    /\ link' = "dialing"
    /\ conn' = [cred |-> Credential(cur),
                prev |-> IF cur.auth = None THEN cur.prev ELSE None]
    /\ UNCHANGED <<fileVars, loadVars, cur, shook, inbox, dirVars, moves>>

NoCredential ==
    /\ link = "down"
    /\ Credential(cur) = None
    /\ link' = "backoff"
    /\ UNCHANGED <<fileVars, loadVars, cur, conn, shook, inbox, dirVars, moves>>

DialError ==
    /\ link = "dialing"
    /\ Move
    /\ link' = "retry"
    /\ UNCHANGED <<fileVars, loadVars, cur, conn, shook, inbox, dirVars>>

\* The upgrade is refused: the loop sleeps and goes back to its top, where cm.Get()
\* returns the copy it has just been refused with.
DialRejected ==
    /\ "rejectUpgrade" \in Env
    /\ link = "dialing"
    /\ conn.cred \notin {registered, JoinKey}
    /\ link' = "rejected"
    /\ UNCHANGED <<fileVars, loadVars, cur, conn, shook, inbox, dirVars, moves>>

DialOk ==
    /\ link = "dialing"
    /\ link' = "syncing"
    /\ shook' = "pending"
    /\ inbox' = <<>>
    /\ UNCHANGED <<fileVars, loadVars, cur, conn, dirVars, moves>>

\* StartTelemetryLoop runs ReloadIfChanged before the read loop starts.
SyncUnchanged ==
    /\ link = "syncing" /\ loading["session"] = "none"
    /\ seen
    /\ link' = "open"
    /\ UNCHANGED <<fileVars, loadVars, cur, conn, shook, inbox, dirVars, moves>>

SyncLoad ==
    /\ link = "syncing"
    /\ ~seen
    /\ Alone("session")
    /\ BeginLoad("session", "ifChanged")
    /\ UNCHANGED <<disk, seen, held, cur, link, conn, shook, inbox, dirVars, moves>>

\* mutant: the tick reads the file but keeps the config it had
InstallNothing(p) ==
    /\ loading[p] \in {"ifChanged", "always"}
    /\ EndLoad(p)
    /\ seen' = IF loading[p] = "ifChanged" THEN fresh[p] ELSE seen
    /\ link' = IF p = "session" /\ link = "syncing" THEN "open" ELSE link
    /\ fresh' = [fresh EXCEPT ![p] = FALSE]
    /\ UNCHANGED <<disk, held, cur, conn, shook, inbox, dirVars, moves>>

\* The locked half of ReloadIfChanged and of Reload; only the former records
\* the stat of the file it read.
Install(p) ==
    /\ loading[p] \in {"ifChanged", "always"}
    /\ EndLoad(p)
    /\ cur' = snap[p]
    /\ seen' = IF loading[p] = "ifChanged" THEN fresh[p] ELSE seen
    /\ link' = IF p = "session" /\ link = "syncing" THEN "open" ELSE link
    /\ fresh' = [fresh EXCEPT ![p] = FALSE]
    /\ UNCHANGED <<disk, held, conn, shook, inbox, dirVars, moves>>

Reading == link = "open" /\ loading["session"] = "none"
Arrived(kind) == Reading /\ inbox # <<>> /\ Head(inbox).kind = kind

ReceiveConfig ==
    /\ Arrived("config")
    /\ inbox' = Tail(inbox)
    /\ UNCHANGED <<fileVars, loadVars, cur, link, conn, shook, dirVars, moves>>

ReceiveEnrolled ==
    /\ Arrived("enrolled")
    /\ Alone("session")
    /\ Persist(Enrolled(disk, Head(inbox).token))
    /\ inbox' = Tail(inbox)
    /\ UNCHANGED <<loadVars, link, conn, shook, dirVars, moves>>

ReceiveReload ==
    /\ Arrived("reload")
    /\ Alone("session")
    /\ BeginLoad("session", "always")
    /\ inbox' = Tail(inbox)
    /\ UNCHANGED <<disk, seen, held, cur, link, conn, shook, dirVars, moves>>

\* All four application close codes set authRejected.
ReceiveClose ==
    /\ Arrived("close")
    /\ Hangup("backoff")
    /\ UNCHANGED <<fileVars, loadVars, cur, conn, dirVars, moves>>

\* A read error, an expired read deadline, a server restart: what was in flight
\* is lost.
Drop ==
    /\ Reading
    /\ Move
    /\ Hangup("retry")
    /\ UNCHANGED <<fileVars, loadVars, cur, conn, dirVars>>

\* authRetryInterval or the 5 s pause has passed.
Retry ==
    /\ link \in {"retry", "backoff", "rejected"}
    /\ link' = "down"
    /\ UNCHANGED <<fileVars, loadVars, cur, conn, shook, inbox, dirVars, moves>>

-----------------------------------------------------------------------------
(* ticker, tray, cli, operator *)

TickReload ==
    /\ Telemetry
    /\ link = "open"
    /\ ~seen
    /\ Alone("ticker")
    /\ BeginLoad("ticker", "ifChanged")
    /\ UNCHANGED <<disk, seen, held, cur, link, conn, shook, inbox, dirVars, moves>>

\* reinit looks at cm.Get() and calls ClearEnrollment, which locks only then.
TrayReinit ==
    /\ Move
    /\ Alone("tray") /\ ~reinit
    /\ MayClear(cur)
    /\ reinit' = TRUE
    /\ UNCHANGED <<fileVars, loading, snap, cur, link, conn, shook, inbox, dirVars>>

TrayClear ==
    /\ reinit
    /\ Persist(Cleared(disk, cur))
    /\ reinit' = FALSE
    /\ UNCHANGED <<loading, snap, link, conn, shook, inbox, dirVars, moves>>

\* set_auto_vpn: rewrites one line and reloads; the credentials stay.
TrayAutoVPN ==
    /\ Move
    /\ Alone("tray")
    /\ Persist(disk)
    /\ UNCHANGED <<loadVars, link, conn, shook, inbox, dirVars>>

\* NewConfigManager in resetEnrollment, os.ReadFile in ApplyConfigValues.
CliBegin(op) ==
    /\ Move
    /\ Alone("cli")
    /\ BeginLoad("cli", op)
    /\ UNCHANGED <<disk, seen, held, cur, link, conn, shook, inbox, dirVars>>

\* ClearEnrollment reads the document again, but takes the token from its copy.
CliReset ==
    /\ loading["cli"] = "reset"
    /\ IF MayClear(snap["cli"]) THEN Write(Cleared(disk, snap["cli"]))
                                ELSE UNCHANGED fileVars
    /\ EndLoad("cli")
    /\ UNCHANGED <<cur, link, conn, shook, inbox, dirVars, moves>>

\* config-set join_key=...: the document it read, edited and renamed over the file.
CliSetJoin ==
    /\ loading["cli"] = "setJoin"
    /\ Write([snap["cli"] EXCEPT !.join = JoinKey])
    /\ EndLoad("cli")
    /\ UNCHANGED <<cur, link, conn, shook, inbox, dirVars, moves>>

OperatorToken ==
    /\ "operatorToken" \in Env
    /\ Move
    /\ Alone("operator")
    /\ registered # None
    /\ Write([disk EXCEPT !.auth = registered])
    /\ UNCHANGED <<loadVars, cur, link, conn, shook, inbox, dirVars>>

\* The daemon stops and starts again; NewConfigManager loads the file.
Restart ==
    /\ Move
    /\ cur' = disk
    /\ seen' = FALSE
    /\ loading' = [loading EXCEPT !["session"] = "none", !["ticker"] = "none"]
    /\ snap' = [snap EXCEPT !["session"] = NoConfig, !["ticker"] = NoConfig]
    /\ fresh' = [fresh EXCEPT !["session"] = FALSE, !["ticker"] = FALSE]
    /\ reinit' = FALSE
    /\ Hangup("down")
    /\ UNCHANGED <<disk, held, conn, dirVars>>

-----------------------------------------------------------------------------
(* The directory (external) *)

Connected == link \in {"syncing", "open"}
Send(kind, token, code) ==
    inbox' = Append(inbox, [kind |-> kind, token |-> token, code |-> code])

Admit ==
    /\ Connected /\ shook = "pending"
    /\ conn.cred \in Tokens
    /\ conn.cred = registered
    /\ shook' = "in"
    /\ Send("config", None, 0)
    /\ UNCHANGED <<fileVars, loadVars, cur, link, conn, dirVars, moves>>

\* Contract G-2.
ProvesContinuity == registered = None \/ conn.prev = registered

Enroll(token) ==
    /\ Connected /\ shook = "pending"
    /\ conn.cred = JoinKey
    /\ ProvesContinuity
    /\ token \notin issued
    /\ registered' = token
    /\ issued' = issued \union {token}
    /\ shook' = "in"
    /\ Send("enrolled", token, 0)
    /\ UNCHANGED <<fileVars, loadVars, cur, link, conn, moves>>

Refuse ==
    /\ Connected /\ shook = "pending"
    /\ IF conn.cred = JoinKey THEN ~ProvesContinuity ELSE conn.cred # registered
    /\ shook' = "out"
    /\ Send("close", None, 4001)
    /\ UNCHANGED <<fileVars, loadVars, cur, link, conn, dirVars, moves>>

\* Closes the live socket, if there is one.
Kick(code) == IF Connected /\ shook = "in"
              THEN Send("close", None, code) /\ shook' = "out"
              ELSE UNCHANGED <<inbox, shook>>

AdminDelete ==
    /\ Move
    /\ registered # None
    /\ registered' = None
    /\ Kick(4003)
    /\ UNCHANGED <<fileVars, loadVars, cur, link, conn, issued>>

\* POST /api/agent/enroll and token rotation: the token is shown to the admin.
AdminMint(token) ==
    /\ Move
    /\ token \notin issued
    /\ registered' = token
    /\ issued' = issued \union {token}
    /\ Kick(4004)
    /\ UNCHANGED <<fileVars, loadVars, cur, link, conn>>

Supersede ==
    /\ Move
    /\ Connected /\ shook = "in"
    /\ Kick(4002)
    /\ UNCHANGED <<fileVars, loadVars, cur, link, conn, dirVars>>

SendReload ==
    /\ "reloadCommand" \in Env
    /\ Move
    /\ Connected /\ shook = "in"
    /\ Send("reload", None, 0)
    /\ UNCHANGED <<fileVars, loadVars, cur, link, conn, shook, dirVars>>

-----------------------------------------------------------------------------
Init ==
    /\ disk \in StartConfigs
    /\ cur = disk
    /\ seen = FALSE
    /\ loading = [p \in Loaders |-> "none"]
    /\ snap = [p \in Loaders |-> NoConfig]
    /\ reinit = FALSE
    /\ fresh = [p \in Loaders |-> FALSE]
    /\ link = "down"
    /\ conn = [cred |-> None, prev |-> None]
    /\ shook = "out"
    /\ inbox = <<>>
    /\ registered = disk.auth
    /\ issued = {disk.auth} \ {None}
    /\ held = {disk.auth} \ {None}
    /\ moves = 0

Session ==
    \/ BeginDial \/ NoCredential \/ DialOk \/ DialRejected \/ DialError
    \/ SyncUnchanged \/ SyncLoad
    \/ ReceiveConfig \/ ReceiveEnrolled \/ ReceiveReload \/ ReceiveClose
    \/ Drop \/ Retry

Others ==
    \/ \E p \in {"session", "ticker"} : Install(p)
    \/ TickReload \/ TrayReinit \/ TrayClear \/ TrayAutoVPN
    \/ \E op \in {"reset", "setJoin"} : CliBegin(op)
    \/ CliReset \/ CliSetJoin
    \/ OperatorToken \/ Restart

Directory ==
    \/ Admit
    \/ \E token \in Tokens : Enroll(token) \/ AdminMint(token)
    \/ Refuse \/ AdminDelete \/ Supersede \/ SendReload

Next == Session \/ Others \/ Directory

Spec == Init /\ [][Next]_vars

\* The loop of connectWebSocket keeps going, loads end, the ticker ticks, a
\* started command finishes and the directory answers a new connection.
\* Nothing the environment may do is assumed to happen.
Fairness ==
    /\ WF_vars(BeginDial) /\ WF_vars(NoCredential) /\ WF_vars(DialOk)
    /\ WF_vars(SyncUnchanged \/ SyncLoad) /\ WF_vars(Retry)
    /\ WF_vars(ReceiveConfig \/ ReceiveEnrolled \/ ReceiveReload \/ ReceiveClose)
    /\ WF_vars(Install("session")) /\ WF_vars(Install("ticker"))
    /\ WF_vars(TickReload) /\ WF_vars(TrayClear)
    /\ WF_vars(CliReset \/ CliSetJoin)
    /\ WF_vars(Admit \/ (\E token \in Tokens : Enroll(token)) \/ Refuse)

FairSpec == Spec /\ Fairness

-----------------------------------------------------------------------------
(* Properties *)

\* Whenever the directory has this host registered under a token the host once
\* had in agent.yml, the host can still show that token: as its credential or
\* as the proof of continuity.  Otherwise a cleared host is refused 4001 on
\* every dial (ClearEnrollment, PersistEnrollment and resetEnrollment).
ContinuityProof ==
    registered \in held => registered \in {disk.auth, disk.prev}

\* No step leaves agent.yml without anything to authenticate with when it had
\* something: the guards of reinit and reset-enrollment, over a stale cur.
NeverStranded ==
    [][Credential(disk) # None => Credential(disk') # None]_vars

\* A host that is not connected comes to dial with the credential that its
\* agent.yml holds, without a restart (authRetryInterval), however often the
\* file changes meanwhile, unless the old credential is admitted after all.
\* agent.yml is looked at once a connection stands, so there are two ways out, and
\* no third: a daemon whose own copy holds no credential, and one whose upgrade is
\* refused.  Both sleep and start over with the same copy (websocket.go:181-185,
\* 196-199).
CredentialPickedUp ==
    (~Connected /\ conn.cred # Credential(disk))
        ~> (\/ conn.cred = Credential(disk) \/ shook = "in"
            \/ Credential(cur) = None \/ link = "rejected")

\* An edit of agent.yml reaches the running daemon while it is connected:
\* ReloadIfChanged heals every copy that a race has left stale.
ConfigConverges ==
    (link = "open" /\ cur # disk) ~> (cur = disk \/ link # "open")

-----------------------------------------------------------------------------
(* The inductive invariant behind ContinuityProof and NeverStranded, for an  *)
(* environment without "overlap", "operatorToken" and "halfPersist".         *)

Serialised == Env \intersect {"overlap", "operatorToken", "halfPersist"} = {}

\* One load of agent.yml at a time, and what it has read is still the file.
LoadsCurrent ==
    /\ \A p, q \in Loaders : loading[p] # "none" /\ loading[q] # "none" => p = q
    /\ \A p \in Loaders : loading[p] # "none" => snap[p] = disk

\* How far cm.current may lag behind agent.yml: it misses a reset-enrollment,
\* a new join key, and nothing else.
CopyLags ==
    /\ disk.auth # None => cur.auth = disk.auth
    /\ (cur.auth # None /\ disk.auth = None) => disk.prev = cur.auth
    /\ cur.auth = None => cur.prev = disk.prev
    /\ cur.join = JoinKey => disk.join = JoinKey

\* What the guard of reinit has established still holds when it clears.
GuardHolds ==
    reinit => MayClear(cur) /\ \A p \in Loaders : loading[p] = "none"

\* A host that holds a token keeps no older one as proof.
ProofSpent == disk.auth # None => disk.prev = None

\* An enrollment in flight is the first frame, and names the token the host is
\* registered with, unless the directory has moved on to one it never held.
InFlight ==
    /\ shook = "pending" => inbox = <<>>
    /\ \A i \in 1..Len(inbox) : inbox[i].kind = "enrolled" =>
          /\ i = 1
          /\ inbox[i].token \in issued
          /\ inbox[i].token = registered \/ registered \notin held

KnownTokens ==
    /\ held \subseteq issued
    /\ disk.auth # None => disk.auth \in held

EnrollmentInv ==
    /\ TypeOK
    /\ LoadsCurrent
    /\ CopyLags
    /\ GuardHolds
    /\ ProofSpent
    /\ InFlight
    /\ KnownTokens
    /\ ContinuityProof
=============================================================================
