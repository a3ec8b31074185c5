# theta-agent in TLA+

A verification project for the theta agent daemon: TLA+ models of the parts of
the daemon that keep state across goroutines, processes and restarts, TLC runs
over small instances, and TLAPS proofs of the invariants that carry the most
weight. Line numbers of the source for every definition are in `PROJECT.json`
(`map`), as are the hazards the properties were chosen for.

## 1. The system

The agent is a daemon on each managed host. It holds one WebSocket to the
directory and obeys commands that arrive over it. A desktop tray talks to it
over a local socket, and its command line edits the same configuration file
from another process.

| Component | State it keeps | Operations | Hard behaviour |
|---|---|---|---|
| Config and enrollment (`config.go`, `reset_enrollment.go`) | `agent.yml`; `cm.current`; size and mtime of the last load | load, reload if changed, persist/clear enrollment, `config-set`, `reset-enrollment` | the file is read outside the lock; two processes write it; a guard and the edit it guards are separate |
| WebSocket session (`websocket.go`) | connection, credential of this dial, backoff | dial, read loop, command dispatch, close codes, retry | lost frames, rejection, restart between two steps of an enrollment |
| Command dispatch (`websocket.go`, `verify.go`, `service_control.go`) | the command in hand | check signature, capability and payload, act, answer | two dozen early returns; several tools per command, each of which can fail; the connection or the process ends in the middle |
| IAM engine (`iam.go`) | sudoers file, key files, `access.conf`, sessions | apply rules, keys, login policy, revocation | files are replaced while sudo and logins read them; stops at the first error |
| Service registration (`service_registration.go`, `config.go`) | the lists in `agent.yml` | register, unregister, push the change | several processes rewrite one file in place; three ways the directory hears of it |
| Telemetry loop (`telemetry.go`) | ticker | reload the config, push metrics | reload races a persist |
| Service probes and cron (`service_extra_probes.go`, `cron_schedule.go`, `telemetry.go`) | CPU samples, run counters | one probe per kind of service, next and last run | bounded cache, reused names, runs between two probes |
| Self-update (`cli.go`, `update_*.go`, `platform_windows.go`, helper) | the binary, the staged file, the helper, the service | download, verify, stage, swap, restart | a detached helper with bounded waits; two updates at once |
| LDAP tunnel (`ldap_tunnel.go`) | listener, `t.conns`, conn counter | accept, pump up, deliver down, close | goroutines of an ended session live on; blocking writes |
| Home detection and tunnel policy (`home_detect.go`, `home_reach.go`) | `homeState`, cooldown, last tray status | tick, probe, auto-VPN, status push | four goroutines decide about one interface without a common lock |
| WireGuard operations (`platform_linuxops.go`, `wg_tools.go`) | peer config file, interface | persist, apply, connect, disconnect, remove | check-then-act over `ip link` and `wg-quick`, each of which can fail |
| Mesh enrolment (`wg_enroll.go`, `wg_identity.go`) | key file; exit selection | enrol, refresh exits, set exit | late answers overwrite newer ones |
| Tray IPC (`tray_server.go`, `tray_ipc.go`) | clients, last status | connect/disconnect VPN, set exit, auto-VPN, reinit, push | handlers run beside the session; writes to clients under the lock |
| Tray application (`cmd/theta-agent-tray`) | connection, last status, menu | redial, redraw, send clicks | clicks cross pushed statuses; stalls and restarts |
| Local discovery (`local_discovery.go`, `hosts_override.go`, `local_route*.go`, `discovery_verify.go`) | hosts block, host route, `currentlyOverridden`, `lastIP`, last sighting | poll, verify, override, revert | two writes that fail separately and outlive the process |
| Secrets, login configuration, rest of the Windows platform, installers | see section 8 | | |

How they interact. `connectWebSocket` is one goroutine: it dials with
`cm.Get()`, starts the telemetry ticker, one `ldapTunnel`, and
`ensureMeshIdentity` per connection, and handles commands one after the other in
its read loop. The home monitor, the discovery loop and the tray server are
goroutines that live as long as the daemon. They meet in shared state:
`agent.yml` and `cm.current` (session, ticker, tray, command line); `homeState`,
the peer config and the interface (monitor, tray, session, mesh); the hosts
file, the routing table and the sighting (discovery, monitor); and the channel
`discoveryChangedCh` (discovery, session).

What makes each part correct:

* enrollment: a host never loses the means to prove who it is, and a new
  credential is used without a restart (but for the two cases of section 6);
* LDAP tunnel: every local connection is a byte pipe of its own, over session
  boundaries, nothing leaks and nothing stays undelivered;
* tunnel policy: whatever interleaves, interface and tray status end up as the
  policy says;
* local discovery: hosts block, route and memory agree whatever fails;
* commands: nothing acts outside its gates, every command is answered once, and
  an ok is true;
* IAM engine: no push locks root out, and what was confirmed is in force;
* service registration: no edit of the list is lost in the daemon, and the
  directory ends up with the list in the file;
* probes: reported runs and rates are those of the service that is named;
* self-update: only a verified binary is ever in place, and the service runs it;
* tray: it comes to show what the daemon goes by, and the daemon keeps what was
  clicked.

## 2. Modules

    Enrollment      <- MCEnrollment, EnrollmentProofs
    BytePipe        <- LdapTunnel (INSTANCE) <- MCLdapTunnel, LdapTunnelProofs
    TunnelPolicy    <- MCTunnelPolicy, TunnelPolicyProofs
    LocalDiscovery  <- MCLocalDiscovery, HostProofs
    IamEngine       <- CommandDispatch       <- MCCommandDispatch, CommandProofs
    CronSchedule    <- ServiceProbes         <- MCServiceProbes, ServiceProbesProofs
    ServiceRegistry <- MCServiceRegistry, ServiceRegistryProofs
    SelfUpdate      <- MCSelfUpdate, HostProofs
    TrayLink        <- MCTrayLink, TrayLinkProofs

**Enrollment** composes the credential part of `agent.yml` with everyone who
touches it: the session, the telemetry ticker, the tray, the command line and
an operator with an editor, and with the directory (external; contract G-2 of
`PROTOCOL.md`). `disk` is the file, `cur` is `cm.current`, `seen` says whether
the recorded size and mtime are those of the file. `ReloadIfChanged` and
`Reload` read before they lock, so a load is `BeginLoad` and `Install`, with the
copy in `snap`. The tray's reinit is `TrayReinit` (its guard on `cm.Get()`) and
`TrayClear` (`ClearEnrollment`); the command line's is `CliBegin`, `CliReset`.
`link` is the position in the loop of `connectWebSocket`, `conn` what the dial
carried, `inbox` the frames in flight. `held` is a history variable: every token
that was ever in `agent.yml`.

**LdapTunnel** has successive sessions, each with its own listener and entries
in `conns`, one `handleConn` per client (`pc`), the read loop as
`HandleData`/`HandleClose`, and the directory's relay, the clients and their
socket buffers as external parts. `newConnID` is two steps, the read and the
write of a counter that is incremented without a lock.

**BytePipe** is the abstract specification of that tunnel: a pair of streams
per connection. `LdapTunnel!PureBytePump` instantiates it with `gotUp` mapped to
what the relay of the connection's conn_id received and `gotDown` to what was
written to its socket.

**TunnelPolicy** gives each of four goroutines a program counter and local
variables. `Tick`, `Probe`, `Decide`, `Push` are `checkAndPush`; `Check`,
`Truncate`, `Fill`, `Cycle`, `Down`, `Up`, `DownCheck`, `DownOnly` are the commands
of `linuxPlatformOps`; a continuation in `loc` says which caller gets the result.
The peer config is rewritten in place, so that others meet it `Empty` or, when two
writers cross or a write is cut short, `Torn`. `TriggerTrayStatusPush` reads
`homeState` under its lock (`Trigger`) and pushes after it (`Show`).

**LocalDiscovery** is the loop of `StartLocalDiscovery`, one step per write,
with crash and restart; `hosts` and `routes` survive, `currentlyOverridden` and
`lastIP` do not. A write of the hosts file fails before or after its truncation
(`WriteFails`); `wiped` remembers a revert that failed the second way.

**IamEngine** is `applyIAM`, one step per file operation: the temporary sudoers
file, `visudo`, the rename, the key files, the truncation and the rewrite of
`access.conf`, and the revocation user by user. Each step may fail, the process
may die between any two, and users log in under whatever `access.conf` says at
that moment (`Permits` is pam_access: the first line that names the user). A
`pkill` may fail, which is only logged; `spared` remembers whose session it left.

**CommandDispatch** extends it with the read loop and `handleCommand`. `log`
has an entry per frame read: the configuration it was judged by, whether it
acted, what was answered, whether the process ended in it. `Accepts` is what a
case checks before it acts; `h` is the position after that. Service control,
desktop control through logind, sssd and the IAM engine are modelled with their
own state; the commands other modules are about succeed or fail. `desk` is the loop
of `DesktopControl`: the sessions it has listed, those whose turn has not come,
those that have ended since, and whether a `loginctl` has failed (`firstErr`).

**CronSchedule** translates the parser and the searches as operators over a
calendar whose sizes are constants, so that a whole year can be enumerated.
**ServiceProbes** adds the cron probe with its run counter, one probe per kind of
service and the cache behind `cpuRateFor`. An entry's lines are its own and all of
`/etc/crontab` (`cronConfigLines`). The reference definition of cron (`Fires`,
`Valid`, `FiringsIn`) is written from crontab(5), not from the code: a day field
with a star anywhere in it restricts nothing by itself, the last weekday number is
Sunday again, and a line with a number outside its field is refused. `Alike` says
which lines mean the same to both; each of its conditions is needed, the run has a
crontab for each.

**ServiceRegistry** has `agent.yml` as a document (the `services` list in its two
spellings, the lists of other keys, the auto-VPN key, the rest), edited by
command lines, the read loop and the tray. `PersistService` is `Read`,
`Truncate`, `Fill`, `Load`, because the file is rewritten in place; the mutex is
the daemon's. Telemetry is `TickStat` to `pushTelemetry`. The directory's
`children` change with a frame of the daemon, a one-shot connection, or a
telemetry report.

**SelfUpdate** has both platforms (`os` is chosen initially) and both origins.
`UpdateBinary` and `runSelfUpdate` share `Download` and `CompareSHA`; on
Linux `Rename` puts the binary in place, on Windows `Stage` (or a copy across volumes),
`SpawnHelper` and the helper's `WaitOver`, `Swap`, `GiveUp` and `StartService`.
`InstallStop` and `InstallStart` are the installer's `service install`.

**TrayLink** is the other half of TunnelPolicy's tray: the server's lock, client
set and handlers, a bounded socket buffer in each direction, and the tray
application with its connection loop, menu and click goroutines. `intent` is a
history variable: the preference that was clicked last.

## 3. Runs

In the first four models every environment event is a member of the constant
`Env`, and their number is bounded by `MaxMoves` (`MaxCommands` for tray
commands); in the others updates, edits, clicks, frames and faults have a bound
each. The loops themselves are not bounded.

| Run | Checks | Instance |
|---|---|---|
| `enrollment_safety` | `TypeOK`, `ContinuityProof`, `EnrollmentInv`, `NeverStranded` | 5 tokens, 4 events, every start file, serialised edits |
| `enrollment_liveness` | `CredentialPickedUp`, `ConfigConverges` | 4 tokens, 3 events, overlapping loads, operator edits, half-finished writes and refused upgrades; hosts that start with a credential |
| `overlap_strands` (violation) | `NeverStranded` | overlapping edits |
| `commands` | `TypeOK`, `IamSafe`, `AnsweredOnce`, `GateContract`, `PolicyInForce`, `OkMeansDone`, `DesktopHonest` | 2 frames out of 30, 2 users, 2 services, 3 policies, 2 configurations, one edit or crash |
| `service_control` (violation) | `ServiceControlContract` | 1 frame of the same 30 |
| `registry` | `EditsKept`, `ConfigHeld`, `ChildrenConverge` | a command line, the directory and the tray; 2 edits, one fault |
| `self_update` | `VerifiedOnly`, `UpdateTakesEffect` | 2 releases, 2 updates, one fault, both platforms |
| `policy_converges` | `TypeOK`, `TunnelConverges`, `StatusConverges` | 2 exits, 1 event, 1 tray command, overlapping handlers |
| `tray` | `IntentKept`, `TrayConverges` | 1 tray, buffers of one, 1 click of any kind, 1 change of the exits, 2 faults |
| `discovery` | `TypeOK`, `BlockTracked`, `DiscoveryInv`, `NoHalfTeardown`, `PathConverges`, `SiteSensed` | 2 addresses, 5 events of any kind |
| `ldap_pump` | `TypeOK`, `NoStaleEntry`, `PureBytePump`, `NothingOwed` | 2 connections, 2 sessions, 1 byte up each, 2 bytes down on one of them, receive buffer of 1 |
| `probes` | `TypeOK`, `TriggeredExact`, `CronExact`, `RateSound` | a year of 24 minutes and a search of 20, 11 crontabs, all kinds of services in pairs, a cache of one entry |

Why the bounds are enough to be interesting.
*Enrollment*: a full cycle of reset, refusal or re-enrollment, a lost `enrolled`
frame and a second reset takes three to four events, and a token is consumed by
each minting, so tokens do not run out before events do.
*CommandDispatch*: two frames let one command follow, repeat or contradict
another; an edit between a frame's reading and its answer, or a crash inside an
application, needs one upset. Two users give the desktop loop a session that fails
before one that does not, and a revocation one that is spared.
*ServiceRegistry*: two edits in three places give every pair of writers the
chance to overlap, with a reload in between; a fault can hit between truncation
and write. About 375,000 states.
*SelfUpdate*: two updates are needed to share the staged file or to overtake a
helper; the one fault kills the command or the daemon, fails `systemctl restart`, or
runs the installer.
*TrayLink*: a click, a push that crosses it and a restart, or a stall with a full
buffer and a death of the tray under the lock, takes one click and two faults.
Two clicks with one fault (740,000 states) and the safety property with two trays
were checked as well and gave nothing new.
*ServiceProbes*: hours of two minutes, days of two hours, months of three days
and weeks of two days keep every carry of the calendar and let day-of-month and
day-of-week drift against each other; the clock runs past the year's end. The search
is shorter than the year, so that a date can lie beyond it, as 29 February lies
beyond the code's. A cache of one makes every second sample evict another.
*LdapTunnel*: two sessions are needed for a handler to outlive its own; two
connections for bytes to be mixed up; two bytes down and a buffer of one for a write
to block. About 910,000 states.
*TunnelPolicy*: one event and one command on top of an unbounded monitor give
every pair of handlers the chance to overlap. The device starts at home with auto-VPN
on and the config of an earlier run, or away with it off and none (`TwoStarts`): in
the first everything acts, in the second nothing may before a config is pushed.
*LocalDiscovery*: override, move of the announcement, failed revert, failed
route and restart is five events. One of the two addresses is what normal
resolution yields too, so the case without need of an override occurs.

What the properties say:

* `ContinuityProof`: while the directory knows the host by a token that was once
  in `agent.yml`, that token is still there, as credential or as proof.
* `NeverStranded`: no step takes the last credential out of the file.
* `CredentialPickedUp`: a credential in the file is dialled with sooner or later,
  unless the daemon has none in its copy or was refused the upgrade (section 6).
* `ConfigConverges`: while connected, the daemon's copy catches up with the file.
* `PureBytePump`: the refinement to `BytePipe`.
* `NoStaleEntry`, `NothingOwed`: no leaked entry; while session and connection
  last, what either side has written reaches the other, however full a buffer is
  meanwhile, and an orphaned connection ends at its client's next write.
* `TunnelConverges`, `StatusConverges`: interface and tray status settle on what
  policy and host state ask for.
* `BlockTracked`: the loop's memory and the hosts block agree, whatever write fails,
  but for a revert that failed halfway and until one succeeds.
* `NoHalfTeardown`: a route is not removed while the block points at its address.
* `PathConverges`, `SiteSensed`: the direct path is used exactly when it is
  announced, different and certified, unless a revert that failed halfway has left
  the loop believing in that path; home detection learns of the site and forgets it.
* `IamSafe`: sudo reads only rules visudo accepted, and root can log in, at every
  moment of an application and after any failure of it.
* `PolicyInForce`: after an ok the pushed policy is on the host, and a revoked
  user it keeps out has no session, whoever logged in meanwhile, but for one that
  outlived a failed `pkill`.
* `GateContract`: a command that acted had the signature and the capability that
  `PROTOCOL.md` 4.2 and the README's matrix ask for, and `service_restart` a service
  on the list; that the matrix's `service_control` holds for `systemd_action` too is
  `ServiceControlContract`, which fails. `AnsweredOnce`: one answer each, none to
  acknowledgements; `OkMeansDone`, `DesktopHonest`: an ok is only said of what was
  done to every target, and one session that fails makes the answer an error although
  the loop goes on with the next.
* `EditsKept`: edits that do not overlap across processes are all in the file and
  touch nothing else; `ConfigHeld`: a half-written file never becomes the
  configuration; `ChildrenConverge`: the directory's children become the list in
  the file, lost, doubled and overtaken messages notwithstanding.
* `VerifiedOnly`: the binary in place is whole and was vouched for;
  `UpdateTakesEffect`: the service ends up running the binary in place, and a
  release the directory was told of has been in place.
* `IntentKept`: the preference clicked last survives statuses that cross it and
  restarts; `TrayConverges`: checkbox, status and exit menu become what the daemon
  goes by.
* `CronExact`, `TriggeredExact`, `RateSound`: next and last run are those of
  crontab(5), and runs are counted once each, for lines that it and the agent read
  alike; a rate pairs two samples of the same process or unit.

Deadlock checking is off where frames, tokens, sessions, updates, clicks or the
clock are bounded, because such an instance comes to its end; it is on in
`policy_converges` and `discovery`, whose loops run for ever.

## 4. Fairness

Fairness belongs to the daemon or to the external parts that answer it. It is
weak but for `PushLock` and `Serve` of TrayLink, which wait for `ts.mu`: Go's
mutex hands a waiter the lock after a bounded number of failed attempts, so a
goroutine that waits for a lock that becomes free again and again gets it.

* a goroutine that can take its next step takes it (the Go scheduler), and a
  loop with a sleep wakes up;
* `connectWebSocket` retries for ever, so Enrollment's `DialOk` and TunnelPolicy's
  `Connect` are fair: the network comes back (dial errors are bounded events);
  LdapTunnel asks for no session after the one that is;
* the directory answers a new connection and reads its socket;
* a client of the LDAP socket reads what it is sent (`NothingOwed` is about
  such a client). Nobody is required to write, to hang up or to send a command;
* a started command line call finishes unless it is killed; systemd restarts the
  daemon (`Restart=always`), the Windows service manager does not, and only the
  helper and the installer start the service again;
* a stalled tray resumes or ends (`Resume`): without that, `Push` holds the lock for
  ever (section 6);
* the telemetry ticker keeps ticking while connected, and the directory reads what
  it is sent (ServiceRegistry).

Roaming, failures, restarts, administrator and operator actions are never
assumed to happen.

## 5. Proofs

Eight modules of theorems, checked by TLAPS for every value of the constants that
satisfies the named assumptions, state every invariant and every action property
the passing runs check, and the refinement; what is left to TLC is liveness. `HostProofs`
is about two components, SelfUpdate and LocalDiscovery, the others are about one
each. Below, per module: what is proved, and what had to be added to the
properties to make them inductive.

| Module | Theorems | Properties | Hypotheses beyond the ASSUMEs |
|---|---|---|---|
| `EnrollmentProofs` | `TypeCorrect`, `InvHolds`, `ContinuityHolds`, `NeverStrandedHolds` (and `StaleNoticedHolds`) | `TypeOK`, `EnrollmentInv`, `ContinuityProof`, `NeverStranded` | none for the first, `Serialised` for the next three; for the last `Env` without `overlap` or without `reloadCommand` |
| `LdapTunnelProofs` | `TypeCorrect`, `NoStaleEntryHolds`, `PureBytePumpHolds` (and `ConnInvHolds`, `TunnelInvHolds`, `PrefixedHolds`) | `TypeOK`, `NoStaleEntry`, `PureBytePump` | `FineGrainedClock` but for the first |
| `TunnelPolicyProofs` | `TypeCorrect` (and `LeftAloneHolds`) | `TypeOK` | none |
| `HostProofs` | `TypeCorrect`, `DiscoveryInvHolds`, `BlockTrackedHolds`, `NoHalfTeardownHolds`, `VerifiedOnlyHolds` (and `PathKeptHolds`) | `TypeOK`, `DiscoveryInv`, `BlockTracked`, `NoHalfTeardown`, `VerifiedOnly` | none |
| `CommandProofs` | `TypeCorrect`, `IamSafeHolds`, `GateContractHolds`, `AnsweredOnceHolds`, `PolicyInForceHolds`, `OkMeansDoneHolds`, `DesktopHonestHolds` | the same names | none |
| `ServiceProbesProofs` | `TypeCorrect`, `CronExactHolds`, `TriggeredExactHolds`, `RateSoundHolds` (and `ProbeInvHolds`, `CacheBoundedHolds`, `CronInvHolds`) | `TypeOK`, `CronExact`, `TriggeredExact`, `RateSound` | none |
| `ServiceRegistryProofs` | `EditsKeptHolds`, `ConfigHeldHolds` (and `RegistryInvHolds`, `ChildrenKeptHolds`) | `EditsKept`, `ConfigHeld` | start files are `Plain`, but for `ChildrenKeptHolds` |
| `TrayLinkProofs` | `IntentKeptHolds` (and `AgreementKeptHolds`) | `IntentKept` | none |

**Enrollment.** `TypeCorrect` holds for every `Env`. The others assume
`Serialised`: `Env` without `overlap`, `operatorToken` and `halfPersist`; the run
`overlap_strands` shows that this cannot be dropped. Nor can it be weakened: with
any one of the three TLC finds both properties violated. `ContinuityProof` is not
inductive: `ClearEnrollment` takes the token it keeps as proof from `cm.current`,
which may be stale, while it edits the file. `EnrollmentInv` therefore says how
stale it may be:

* `LoadsCurrent`: at most one load is under way and what it read is still the file;
* `CopyLags`: `cm.current` misses at most a `reset-enrollment` or a new join key;
* `GuardHolds`: what reinit's guard saw still holds when it clears;
* `ProofSpent`: a host with a token keeps no older one;
* `InFlight`: an enrollment on its way is the first frame and names the
  registered token, unless the directory has moved on to one the host never had;
* `KnownTokens`: held tokens were issued.

The step lemma (`InvStep`) has one case per action; `HostQuiet`, `HostPersist`,
`HostBeginLoad` and the `InFlight...` lemmas carry the frame reasoning.
`NeverStranded` then follows from the guards over the possibly stale copy.

`StaleNoticed` is the safety `ConfigConverges` rests on: a copy that differs from
the file is never taken for current, so `ReloadIfChanged` will load the file. It
holds for overlapping loads and half-finished writes, because only a load that began
after the last write is recorded (`FreshLoads`), and the hypothesis is exactly the
race the code has: `Reload`, on `reload_config`, installs what it has read without
comparing or recording it. Either nobody sends that command (`NoReload`), or nobody
else is at the file then (`OneAtFile`); with both in `Env`, TLC finds a reload that
read before `config-set`'s write and installs after the tick, and the copy stays
stale until the next write.

**LdapTunnel.** `ConnInv` is about names and entries: `Counted` bounds the
unsynchronized counter, `Named` and `Listed` say which conn_id each registered
connection has and that `t.conns` lists it, `Framed` which connection every frame on
the wire belongs to. `TunnelInv` adds `Findable` (a live connection is found under
its conn_id) and `Flows`, which follows every byte: a `Run` is a stretch of a
connection's numbered stream, and a `Flow` says that the frames of one connection
on a wire, whatever others lie between them, carry its stream without gap from
what its far end has received to what its near end has sent. With it,
`PureBytePumpHolds` is the refinement to `BytePipe`: the initial states map to an
initial state, and each step to one of `BytePipe`'s or a stutter. `PrefixedHolds`
states the consequence in the tunnel's own terms. A frame put on
or taken off a wire moves one end of one flow (lemmas over `Put` and `Taken`), a
broken session ends all of them.

`FineGrainedClock` (no two connections read the same `UnixNano`) is a hypothesis of
what follows `ConnInv`, because the code needs it: two connections that read the
same nanosecond and the same counter value share a conn_id, and then a relay.

**TunnelPolicy.** The properties of the run are liveness, but for the types; the
theorem states the safety they rest on. `LeftAlone` is the half of `TunnelConverges`
and `StatusConverges` that is safety: a tunnel that is as the policy wants it is not
touched by the monitor, whatever it has read so far in its tick, and a status that
is right stays right, until somebody asks for a change or the environment moves. TLC
shows that the system gets there, this theorem that it stays, for every set of exits
and every `Env`, overlapping handlers and failing writes included.

Nothing is proved about which config is persisted, because little holds: the four
goroutines share no lock, every write truncates the file first, and
`ConnectWireGuard` writes back what it has read (section 6).

**LocalDiscovery** needs no restriction of the environment. `BlockTracked` speaks
about the states between two polls; `DiscoveryInv` adds what holds between the two
writes of an override (`route`) and of a revert (`unroute`), and that a revert
starts only under an override. A hosts file without the block the loop believes in
is in both, as what `wiped` stands for. `PathKept` is the half of `PathConverges` that is
safety: when the hosts file gives the announced path if it is certified, and no other
(`PathRight`), the polls leave file and routes alone and do not wake the session,
until the network changes, an answer is lost or the agent restarts (`LinkMoves`).

**CommandDispatch.** `CommandInv` is the conjunction of

* `LogInv`: entries of the log have their type; every one but the command in hand
  has its answer, unless it is an acknowledgement or was cut off (`Settled`); what
  acted was accepted (`Gated`); `Standing` ties the position `h` to the kind of the
  command in hand;
* `IamInv`: at `rename` the temporary file holds rules visudo accepted
  (`RulesChecked`), and what there is of `access.conf` is empty or begins with
  root's line (`AccessOpen`; every beginning of the file the engine writes does,
  `PrefixOpen`). `IamSafe` is not inductive without them;
* `EngineInv`: what the engine has finished by its position, step by step, up to
  the sessions already ended or spared by a failing `pkill`; a user revoked earlier
  cannot be back, because by then the new `access.conf` keeps them out;
* `DeskInv`: while no `loginctl` has failed, every session listed whose turn is over
  is locked, or has ended;
* `PolicyHolds`, `LdapHolds`, `ServicesHold`: the last command of its kind to act
  that was answered ok is still in force.

`PolicyInForce` and `OkMeansDone` speak of the latest such command by a maximum over
the log; `GreatestIsGreatest` and `Governs` turn that into first-order facts.
`GateContract` follows from `Gated` by comparing the code's checks with the
contract, command by command.

**ServiceProbes.** Two invariants. `ProbeInv`: a pid was given out once, to one
process (`PidInv`), and what the cache holds under a subject is its latest sample,
of the current run for a process (`CacheInv`), whatever was evicted; `RateSound`
follows, and `CacheBounded` separately. For cron, the two minute-by-minute searches
are recursive functions. `WalkExists` exhibits a function that satisfies their
equation and `WalkEnds` shows that any that does ends at its first hit: by the least
element of a set, since the library's induction theorems cannot be used. Hence
`NextFound`, `PrevFound` and, over the lines of an entry, `NextRunFound` and
`LastRunFound`, for any calendar and any search window; `FiresMatches` compares
parser and matcher with crontab(5) for lines that are `Alike`, and `ValidParses` says
that a line cron takes is one the parser takes. `CronInv` then says that the last
run seen is a firing, that while the entry is probed steadily none lies between it
and the latest probe, and that the count equals the firings since the first. The
searches agree with the reference on minutes of one calendar; changes of daylight
saving time are not in it.

**ServiceRegistry.** `RegistryInv` says that one writer at a time is between
truncation and rewriting and has the right text in hand (`OneWriter`, with
`Locked` for the goroutines and `mixed` for overlaps across processes), and that
whatever the daemon has loaded or is about to store is whole (`Whole`). `EditRight`
is the lemma about the text edits: on a `Plain` text they do what was asked. The
hypothesis is on the start files only: their entries are indented and named once,
and no other list has items on lines of their own, as `install.sh` and
`PersistService` write them. Section 6 says what happens to others.

`ChildrenKept` is the half of `ChildrenConverge` that is safety, and needs no
hypothesis. That children and list are equal is not enough for it: an older report or
a registration half done could still change them. `InStep` says of everything the
daemon has loaded, everything asked for or half done and every frame on the wire that
it agrees with the list, in whatever order it arrives; only the beginning of an edit
ends that (`EditBegins`).

**SelfUpdate.** `UpdateInv`: what is being downloaded or verified is compared with
a checksum that was asked for, what is about to be installed was compared
(`Compared`), one update uses `<exe>.new` at a time and what a helper will take is
vouched for (`OneStager`, `StagedVouched`), unless two updates have shared it.

**TrayLink.** `TrayInv`: at most one tray has a click of the checkbox under way
(`OneClicked`), and what it has yet to write, or else the last such command in its
socket, is what was clicked last (`LastIsIntent`), as long as `astray` has not been
set by clicks that cross in two trays. `AgreementKept` is the half of `TrayConverges`
that is safety: when all trays show what the daemon goes by, and every status pushed
or waiting and every command written or in a socket says the same (`Agreed`), they
go on showing it, and the daemon going by it, whatever overtakes what, until somebody
clicks, the exits change or the daemon ends (`Asked`). `ClickReinit` is not among
these: a tray that asks for the enrollment to be cleared is refused.

Assumptions. Each ASSUME says only that constants have the shape their comment
gives them: bounds are numbers, model values that stand for "nothing" are not
members of the sets they extend (`NoneAssumption`, `KindAssumption`,
`EnrollmentConstants`, ...), goroutines are not command lines
(`WritersAssumption`), an `iam_apply` carries a policy or nothing
(`FramesAssumption`), processes are found among processes
(`NamesakesAssumption`), clients are finitely many (`TunnelConstants`), the cache
has room for one entry (`BoundsAssumption`; the code's is 1024). TLC evaluates
all of them in the runs.

Only model-checked: all liveness, since TLAPS proves neither fairness nor ENABLED:
`CredentialPickedUp`, `ConfigConverges`, `ChildrenConverge`, `UpdateTakesEffect`,
`TunnelConverges`, `StatusConverges`, `TrayConverges`, `PathConverges`, `SiteSensed`,
`NothingOwed`. Of `TunnelConverges`,
`StatusConverges`, `PathConverges`, `ChildrenConverge` and `TrayConverges` it is proved
that what is reached stays (`LeftAlone`, `PathKept`, `ChildrenKept`, `AgreementKept`),
of `ConfigConverges` that what has to be loaded is noticed (`StaleNoticed`); TLC alone
shows that it is reached.

## 6. Where code and documentation disagree

**Reinit can strand a host** (run `overlap_strands`). Reinit tests `cm.Get()` and
`ClearEnrollment` locks later. If the enrollment the daemon was waiting for is
persisted in between, both token and join key end up empty. `reset-enrollment`
has the same window between two processes.

**`service_control` does not gate `systemd_action`** (run `service_control`).
`README.md:47` says that only what `agent.yml` enables is executed, and `:74` makes
the list `service_control` the capability of service management. `service_restart`
asks for it (`websocket.go:643`); a signed `systemd_action` does not
(`websocket.go:598-618`) and stops or restarts any service.

Seen while modelling, and kept out of the properties by an exception, an
assumption or the start states (no run shows them):

* *Credential while disconnected*: without any credential (`websocket.go:181-185`)
  and after a 401 or 403 to the upgrade (`:196-199`) the loop sleeps and dials again
  with the copy it has; the only reload is under a connection. `websocket.go:35-37`
  says a re-enrollment is picked up without a restart. Per `PROTOCOL.md:85-87` the
  directory accepts every upgrade first, so the second takes a proxy or an older one.
* *Superseded*: close code 4002 is handled like a refused credential, with the long
  backoff (`websocket.go:314`); `PROTOCOL.md:93` says "Normal reconnect".
* *LDAP connections when the WebSocket is down*: only the listener is closed; an
  idle connection waits until its client writes (`ldap_tunnel.go:76` against
  `PROTOCOL.md:127-129`).
* *LDAP socket path*: closing the listener of an ended session unlinks the path,
  which is the next session's if that has already bound; nothing orders the two, and a
  token in `discoveryChangedCh` skips the backoff (`websocket.go:357-361`).
* *Peer config lost*: `PersistWireGuard` truncates in place, and `ConnectWireGuard`
  reads the file and writes it back (`platform_linuxops.go:317`, `:364`), so a config
  pushed meanwhile is replaced by an older one or by nothing; `PROTOCOL.md:395` says
  the config is always persisted. `wg-quick` brings up an empty one, and interface and
  tray then look right.
* *Auto-VPN off*: `PROTOCOL.md:400` says a pushed config then raises the tunnel only if
  it is already up; with a remote exit selected it is raised (`home_detect.go:206-208`).
* *Directory that omits the exit*: `PROTOCOL.md:428-429` says the agent stays on what
  it learned at enrolment; `SetMeshIdentity` is called all the same and clears the
  selection (`websocket.go:800`, `home_detect.go:107`).
* *Home through the tunnel*: a tunnel that carries the home LAN makes the probe
  succeed away from home, and auto-VPN takes it down and up (`home_reach.go:245`
  against `:220-223`).
* *A restart leaves a host route behind* (`local_discovery.go:59` against
  `local_discovery_revert_test.go:62-63`).
* *A revert that fails halfway*: `os.WriteFile` truncates the hosts file first
  (`hosts_override.go:89`). If it then fails, the block is gone, the loop still
  believes in it, and as long as the same address is announced with a good certificate
  it neither writes nor reverts (`wiped`).
* *Overlapping edits of `agent.yml`* by a command line and the daemon lose one
  another; a reader of a truncated file that then writes drops every other key,
  the credential included (`mixed` in ServiceRegistry).
* *`register` again after a failed push* is refused as already registered before
  it pushes, although `service_registration.go:430` says it can be re-run; and it
  reports success once the daemon took the request, connected or not.
* *List editing* looks for `- name` in the whole file, not in the `services` block
  (`config.go:460`, `:522`); an inline list gets a second key, an unindented one
  makes the file unreadable. The start files of the run have none of these.
* *Windows update from the command line* stages the binary and reports success,
  but nothing stops the service the helper waits for (`update_windows.go:39`);
  every update shares `<exe>.new` (`platform_windows.go:182`).
* *Linux update from the command line* reports success even if `systemctl restart`
  fails (`cli.go:314`); the old image runs on.
* *A suspended tray* blocks `Push` and with it the home monitor and every handler,
  as long as it is suspended (`tray_server.go:235`).
* *"Clear enrollment" in the tray* is refused for every desktop user on Linux
  (`tray_server.go:111`).
* *Revocation*: a `pkill` that fails is logged and `iam_apply` still answers ok
  (`iam.go:199-201`); `README.md:13` says the sessions of the revoked are dropped.
* *IAM*: the revision is not compared; empty lists leave the old rules and keys in
  place.
* *Desktop*: with no session found for a named user, lock and display_off lock
  everyone's; a configure_ldap that answers error has already replaced sssd.conf.
* *Cron*: of a day field that begins with a star the code takes only the star alone
  for unrestricted, so `*/2` beside a weekday is read as "or" where crontab(5) says
  "and" (`cron_schedule.go:165-167`: "implements cron's day-of-month / day-of-week
  rule"); weekday 7 never
  matches; numbers outside a field are accepted; a date further away than the search
  cap is reported as none.
* *Lines of other entries*: a cron entry is reported with every line of
  `/etc/crontab`, where the comment says "any matching lines"
  (`service_extra_probes.go:337-339` against `:372`).
* *Probes*: `findProcessByComm` matches names that begin like the one asked for and
  misses truncated ones, the opposite of its comment
  (`service_extra_probes.go:83-87`); a process registered by pid is active whether
  it exists or not; the cache evicts any entry, not the oldest (`telemetry.go:600`
  against `:622`).
* *A script that hangs* blocks the read loop: `Execute` has no timeout
  (`executor.go:24`).

## 7. Abstractions and assumptions

* Enrollment: only the three credentials of `agent.yml` are kept. The
  read-modify-write inside one Persist method is atomic there, between processes
  too; the windows modelled are those between a load or a guard and its use.
  `halfPersist` stands for an error after the file was written. The rewrite in
  place, and two processes inside it, are in ServiceRegistry.
* `seen` abstracts size and mtime: two writes are told apart by one of them; so
  does `stamp` in ServiceRegistry.
* CommandDispatch: a signature was made with a key over exactly this frame or it
  was not. A tool that does not run a service fails on it. The early returns of a
  command are one predicate (`Accepts`) with one refusal, so that each of them answers
  once is not checked; frames that are not JSON are left out (`websocket.go:330-333`).
  What the host looks like after a reboot is outside the model.
* IamEngine: a group is its one member; rule and key files are values. A `pkill` that
  succeeds ends all sessions of the user.
* ServiceProbes: a run of a process or unit has a number, and pids are not reused;
  a unit's counter that restarts higher than it was is not told apart, as in the
  code. `cronSearchCap` is shorter than the model's year, as the code's 366 days are
  shorter than the time between two 29ths of February. The crontab is not edited and
  the clock not set back.
* ServiceRegistry: a write that fails without the process ending has not truncated
  the file. The documents include an unindented list and a name that also
  stands in another list, and the editing operators do to them what the code does;
  the run starts from files as `install.sh` and the agent write them. The directory
  handles a frame when it reads it, and a report replaces the children.
* SelfUpdate: a checksum identifies a release. The helper's waits are untimed: a
  wait for the service ends when it stops or, if nobody is stopping it, may end any
  time; the retries of the swap outlast a service that is stopping, and not a
  command that keeps the file open.
* TrayLink: statuses hold the preference and the exits; the colours are in
  TunnelPolicy. A menu callback and a redraw are separate goroutines; the redraw
  of one status is two steps, the checkbox last.
* LdapTunnel: the Unix socket listener only. `UnixNano` gives distinct readings
  (`FineClock`): two connections accepted at the same nanosecond that also read
  the same counter would share a conn_id. A broken session
  keeps any beginning of what was on its way down and nothing of what was on its way
  up.
* TunnelPolicy: a peer config is identified with its exit; the device knows its
  own site; the daemon starts connected and enrolled; the reads of
  `wantWireGuardUp` are one step; a failed `set_exit` request changes nothing.
  The cooldown is one or two ticks. One predicate stands for the three signals of
  `detectHome`, and it does not depend on the tunnel.
* LocalDiscovery: the hosts block is the address it gives the hostname; the age
  of a sighting is counted in polls. A failed write of the hosts file has left it as
  it was or cut short before the block, which is its end; one cut inside the block, and
  the lines that are not the agent's, are left out.
* Waiting times are untimed: a backoff ends sooner or later.

## 8. Not modelled

* Secrets rendering: one request and a templated file; an operation that succeeds
  or fails in CommandDispatch.
* Host telemetry (load, disks, SMART, sensors): measurements without state.
* Login configuration: package manager and registry calls in sequence.
* The rest of the Windows platform: the same operations behind other calls, or
  collection.
* `reinitialize` of the command line: like `reset-enrollment` but without its guard
  and proof.
* The mesh key file, the teardown of the tunnel at shutdown, the second (TCP)
  listener of the LDAP tunnel, mDNS parsing.
* Argument parsing, help, completion, printing, icons, installers, the demo.

Cryptography and the text of YAML and hosts files are abstracted away.

## 9. Plan

Done, in this order: Enrollment, LdapTunnel over BytePipe, TunnelPolicy,
LocalDiscovery, CommandDispatch over IamEngine, ServiceProbes over CronSchedule,
ServiceRegistry, SelfUpdate, TrayLink.

Proved, in this order: enrollment, local discovery, the IAM engine, self-update,
tray, service registration, the rest of command dispatch, the LDAP tunnel with its
refinement, service probes with the cron searches, tunnel policy.

Next theorems: the safety that the deliveries of the LDAP tunnel (`NothingOwed`) rest
on, in the same way.

Next models, should the code around them grow: the mesh key file created by two
goroutines, and `reinitialize` beside Enrollment.
