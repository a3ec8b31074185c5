---------------------------- MODULE TunnelPolicy ----------------------------
(***************************************************************************)
(* Whether the mesh tunnel is up.  Four goroutines decide it without a     *)
(* common lock:                                                            *)
(*   monitor  checkAndPush, every 60 s: home detection and auto-VPN;       *)
(*   tray     the tray IPC handler: set_auto_vpn, vpn_connect,             *)
(*            vpn_disconnect, set_exit;                                    *)
(*   session  wireguard_apply and wireguard_remove from the directory;     *)
(*   mesh     ensureMeshIdentity, once per connection.                     *)
(* They share homeState, the persisted peer config and the interface.  Each*)
(* command run by the executor (ip link, wg-quick) and each use of the lock*)
(* of homeState is one step.                                               *)
(*                                                                         *)
(* A peer config is identified with the exit it routes through.            *)
(***************************************************************************)
EXTENDS Naturals, Sequences

CONSTANTS
    Exits,      \* site ids a device may exit through
    HomeSite,   \* this device's own site, one of Exits
    None,       \* nil: local breakout; no config; no interface
    Local,      \* a peer config with no exit: the mesh and nothing else
    Empty,      \* a config file that has been truncated
    Torn,       \* a config file holding pieces of two writes, or of one
    Starts,     \* auto-VPN preference, peer config and place a daemon starts with
    Env,        \* what the environment may do, a subset of EnvEvents
    MaxMoves,   \* bound on environment events
    MaxCommands \* bound on commands of the tray

EnvEvents == {"overlap",     \* a handler may start while another is running
              "disconnect",  \* the WebSocket goes down and comes back
              "wgFail",      \* wg-quick, or a write, fails for a reason of its own
              "roam",        \* the host comes home and leaves
              "remove"}      \* the directory sends wireguard_remove

ASSUME PolicyConstants ==
    /\ HomeSite \in Exits /\ {None, Local, Empty, Torn} \cap Exits = {}
    /\ None \notin {Local, Empty, Torn} /\ Local \notin {Empty, Torn} /\ Empty # Torn
    /\ Starts \subseteq [auto : BOOLEAN, conf : {None, Local}, home : BOOLEAN]
    /\ Env \subseteq EnvEvents
    /\ MaxMoves \in Nat /\ MaxCommands \in Nat

Threads == {"monitor", "tray", "session", "mesh"}
MaybeExit == Exits \union {None}
Whole == Exits \union {Local}
Conf == Whole \union {Empty, Torn, None}
\* Commands of the directory: a peer config, its removal (None), or the config
\* frame a new connection is greeted with.
Pushed == Whole \union {None, "config"}
ConfFor(exit) == IF exit = None THEN Local ELSE exit

VARIABLES
    connected,  \* wsConnected
    atHome,     \* the host is on its home network, and a home signal says so
    dirExit,    \* directory: the exit selected for this device
    pushes,     \* commands of the directory in flight
    hs,         \* homeState
    conf,       \* the peer config at confPath, None: no such file
    iface,      \* the config the interface runs with, None: no interface
    status,     \* the TrayStatus last pushed
    pc,         \* thread -> next step
    loc,        \* thread -> its local variables
    cooldown,   \* ticks for which lastAutoVPNChange still gates handleAutoVPN
    moves,
    commands

vars == <<connected, atHome, dirExit, pushes, hs, conf, iface, status, pc, loc,
          cooldown, moves, commands>>
wgVars == <<conf, iface>>
envVars == <<connected, atHome, dirExit, pushes, moves, commands>>

HomeState == [vpn : BOOLEAN, auto : BOOLEAN, exit : MaybeExit,
              home : BOOLEAN, known : BOOLEAN]
Status == [color : {"red", "blue", "green", "yellow"}, auto : BOOLEAN]
PCs == {"idle", "probe", "decide", "trigger", "show", "push",
        "check", "persist", "fill", "cycle", "down", "up", "downCheck", "downOnly",
        "store", "fillStore", "applyWant", "markUp", "markDown", "stored",
        "enroll", "identity", "fetch", "install"}
Locals == [connected : BOOLEAN, auto : BOOLEAN, vpn : BOOLEAN, home : BOOLEAN,
           exit : MaybeExit, conf : Conf, cont : PCs]
NoLocals == [connected |-> FALSE, auto |-> FALSE, vpn |-> FALSE, home |-> FALSE,
             exit |-> None, conf |-> None, cont |-> "idle"]

-----------------------------------------------------------------------------
(* The policy *)

\* remoteExitSelected, for a device that knows its own site
RemoteExit(h) == h.exit \notin {None, HomeSite}

TunnelShouldBeUp(h, home) == ~home \/ RemoteExit(h)

\* wantWireGuardUp, its reads taken together
WantUp(h, up) ==
    \/ RemoteExit(h)
    \/ ~h.auto /\ up
    \/ h.auto /\ h.known /\ TunnelShouldBeUp(h, h.home)

-----------------------------------------------------------------------------
(* Threads *)

Move == moves < MaxMoves /\ moves' = moves + 1 /\ UNCHANGED commands
Command == commands < MaxCommands /\ commands' = commands + 1 /\ UNCHANGED moves

\* Without "overlap" a handler starts only when no other is running.
MayStart(t) ==
    /\ pc[t] = "idle"
    /\ "overlap" \in Env \/ \A u \in Threads : pc[u] = "idle"

Goto(t, step) == pc' = [pc EXCEPT ![t] = step]
\* A handler ends, or goes on to the push: its local variables are gone.
Forget(t, step) == Goto(t, step) /\ loc' = [loc EXCEPT ![t] = NoLocals]
Done(t) == Forget(t, "idle")

Call(t, step, cont, c) ==
    /\ Goto(t, step)
    /\ loc' = [loc EXCEPT ![t].cont = cont, ![t].conf = c]

\* An operation returns nil or an error to its caller, which goes on at its
\* continuation.  Two callers go on after an error as well, handleAutoVPN and
\* wireguard_apply when it leaves the tunnel down; the others log or answer it,
\* and there is no push.
Return(t, ok) ==
    IF ok \/ loc[t].cont \in {"push", "stored"} THEN Goto(t, loc[t].cont) /\ UNCHANGED loc
    ELSE Done(t)

Quiet == UNCHANGED <<envVars, cooldown>>

-----------------------------------------------------------------------------
(* linuxPlatformOps *)

\* ConnectWireGuard: nothing to do when the interface exists; otherwise the
\* persisted config is read and applied.
Check(t) ==
    /\ pc[t] = "check"
    /\ IF iface # None THEN Return(t, TRUE)
       ELSE IF conf = None THEN Return(t, FALSE)
       ELSE Goto(t, "persist") /\ loc' = [loc EXCEPT ![t].conf = conf]
    /\ UNCHANGED <<hs, wgVars, status>> /\ Quiet

\* ApplyWireGuard: PersistWireGuard first, which is "store" when called alone.
\* os.WriteFile truncates the file in place ...
Truncate(t) ==
    /\ pc[t] \in {"persist", "store"}
    /\ conf' = Empty
    /\ Goto(t, IF pc[t] = "persist" THEN "fill" ELSE "fillStore")
    /\ UNCHANGED <<hs, iface, status, loc>> /\ Quiet

\* What a write from the start of the file makes of what it holds: another
\* thread has written there since it was truncated, or not.
Over(old, new) ==
    CASE old = Empty -> {new}
      [] new = Empty -> {old}
      [] old # Empty /\ new # Empty -> IF old = new THEN {new} ELSE {new, Torn}

\* ... and then writes it.
Fill(t) ==
    /\ pc[t] \in {"fill", "fillStore"}
    /\ conf' \in Over(conf, loc[t].conf)
    /\ IF pc[t] = "fill" THEN Goto(t, "cycle") /\ loc' = [loc EXCEPT ![t].conf = None]
                          ELSE Return(t, TRUE)
    /\ UNCHANGED <<hs, iface, status>> /\ Quiet

\* `ip link show', and a tunnel that exists is taken down first.
Cycle(t) ==
    /\ pc[t] = "cycle"
    /\ Goto(t, IF iface # None THEN "down" ELSE "up")
    /\ UNCHANGED <<hs, wgVars, status, loc>> /\ Quiet

\* wg-quick down fails when there is no interface, wg-quick up when there is.
\* It brings up a config of no bytes, and may refuse one in pieces.
Down(t) ==
    /\ pc[t] = "down"
    /\ IF iface # None THEN iface' = None /\ Goto(t, "up") /\ UNCHANGED loc
                       ELSE UNCHANGED iface /\ Return(t, FALSE)
    /\ UNCHANGED <<hs, conf, status>> /\ Quiet

Up(t) ==
    /\ pc[t] = "up"
    /\ \/ iface = None /\ iface' = conf /\ Return(t, TRUE)
       \/ (iface # None \/ conf \in {Empty, Torn}) /\ UNCHANGED iface /\ Return(t, FALSE)
    /\ UNCHANGED <<hs, conf, status>> /\ Quiet

\* DisconnectWireGuard asks for the state first, RemoveWireGuard does not.
\* wireguard_apply asks once more before it calls, which is no further case.
DownCheck(t) ==
    /\ pc[t] = "downCheck"
    /\ IF iface = None THEN Return(t, TRUE) ELSE Goto(t, "downOnly") /\ UNCHANGED loc
    /\ UNCHANGED <<hs, wgVars, status>> /\ Quiet

DownOnly(t) ==
    /\ pc[t] = "downOnly"
    /\ iface' = None
    /\ Return(t, iface # None)
    /\ UNCHANGED <<hs, conf, status>> /\ Quiet

\* A write that fails leaves what the truncation left, or a part of its own.
WgFail(t) ==
    /\ "wgFail" \in Env
    /\ pc[t] \in {"persist", "store", "fill", "fillStore", "down", "up", "downOnly"}
    /\ Move
    /\ Return(t, FALSE)
    /\ conf' \in IF pc[t] \in {"fill", "fillStore"} THEN {conf, Torn} ELSE {conf}
    /\ UNCHANGED <<connected, atHome, dirExit, pushes, hs, iface, status, cooldown>>

-----------------------------------------------------------------------------
(* monitor: checkAndPush *)

\* The snapshot of homeState and wsConnected, taken before the probes; vpn is
\* read again before it is used.
Tick ==
    /\ MayStart("monitor")
    /\ Goto("monitor", "probe")
    /\ loc' = [loc EXCEPT !["monitor"].auto = hs.auto, !["monitor"].connected = connected]
    /\ UNCHANGED <<hs, wgVars, status>> /\ Quiet

\* detectHome: never home without a connection; the first positive signal wins.
Probe ==
    /\ pc["monitor"] = "probe"
    /\ LET home == loc["monitor"].connected /\ atHome
       IN  /\ loc' = [loc EXCEPT !["monitor"].home = home]
           /\ hs' = [hs EXCEPT !.home = home, !.known = TRUE]
    /\ Goto("monitor", "decide")
    /\ UNCHANGED <<wgVars, status>> /\ Quiet

\* mutant: the decision is not taken while the tunnel is up
DecideUpOnly ==
    /\ pc["monitor"] = "decide"
    /\ hs' = [hs EXCEPT !.vpn = (iface # None)]
    /\ LET m == [loc["monitor"] EXCEPT !.vpn = (iface # None), !.cont = "push"]
       IN  /\ loc' = [loc EXCEPT !["monitor"] = m]
           /\ IF m.auto /\ m.connected /\ cooldown = 0 /\ ~m.vpn /\ TunnelShouldBeUp(hs, m.home)
              THEN Goto("monitor", "check") /\ cooldown' \in {1, 2}
              ELSE Goto("monitor", "push") /\ cooldown' = IF cooldown > 0 THEN cooldown - 1 ELSE 0
    /\ UNCHANGED <<wgVars, status, envVars>>

\* The interface is polled and handleAutoVPN decides; a change gates the next
\* tick, and the one after it or not.
Decide ==
    /\ pc["monitor"] = "decide"
    /\ hs' = [hs EXCEPT !.vpn = (iface # None)]
    /\ LET m == [loc["monitor"] EXCEPT !.vpn = (iface # None), !.cont = "push"]
           want == TunnelShouldBeUp(hs, m.home)
       IN  /\ loc' = [loc EXCEPT !["monitor"] = m]
           /\ IF m.auto /\ m.connected /\ cooldown = 0 /\ want # m.vpn
              THEN /\ Goto("monitor", IF want THEN "check" ELSE "downCheck")
                   /\ cooldown' \in {1, 2}
              ELSE /\ Goto("monitor", "push")
                   /\ cooldown' = IF cooldown > 0 THEN cooldown - 1 ELSE 0
    /\ UNCHANGED <<wgVars, status, envVars>>

-----------------------------------------------------------------------------
(* The tray's status *)

\* SetVPNActive after a command that succeeded.
MarkVPN(t) ==
    /\ pc[t] \in {"markUp", "markDown", "stored"}
    /\ hs' = [hs EXCEPT !.vpn = (pc[t] = "markUp")]
    /\ Forget(t, "trigger")
    /\ UNCHANGED <<wgVars, status>> /\ Quiet

\* UpdateTrayStatus: the icon
Color(isConnected, vpn, home) ==
    IF ~isConnected THEN "red" ELSE IF vpn THEN "blue"
    ELSE IF home THEN "green" ELSE "yellow"

\* mutant: the tunnel is left out of the status
ShownWithoutVPN(isConnected, h) == [color |-> Color(isConnected, FALSE, h.home), auto |-> h.auto]

Shown(isConnected, h) == [color |-> Color(isConnected, h.vpn, h.home), auto |-> h.auto]

\* TriggerTrayStatusPush: homeState is read under its lock ...
Trigger(t) ==
    /\ pc[t] = "trigger"
    /\ loc' = [loc EXCEPT ![t].vpn = hs.vpn, ![t].auto = hs.auto, ![t].home = hs.home]
    /\ Goto(t, "show")
    /\ UNCHANGED <<hs, wgVars, status>> /\ Quiet

\* ... and pushed after it; connected is passed as true.
Show(t) ==
    /\ pc[t] = "show"
    /\ status' = Shown(TRUE, loc[t])
    /\ Done(t)
    /\ UNCHANGED <<hs, wgVars>> /\ Quiet

\* checkAndPush ends with the values of its tick.
Push ==
    /\ pc["monitor"] = "push"
    /\ status' = Shown(loc["monitor"].connected, loc["monitor"])
    /\ Done("monitor")
    /\ UNCHANGED <<hs, wgVars>> /\ Quiet

-----------------------------------------------------------------------------
(* tray: handleCommand *)

\* set_auto_vpn writes the new value into the last status at once; the copy in
\* agent.yml is Enrollment's TrayAutoVPN.
SetAutoVPN(v) ==
    /\ Command
    /\ MayStart("tray")
    /\ hs' = [hs EXCEPT !.auto = v]
    /\ status' = [status EXCEPT !.auto = v]
    /\ Goto("tray", "trigger")
    /\ UNCHANGED <<connected, atHome, dirExit, pushes, wgVars, loc, cooldown>>

VpnConnect ==
    /\ Command
    /\ MayStart("tray")
    /\ Call("tray", "check", "markUp", None)
    /\ UNCHANGED <<connected, atHome, dirExit, pushes, hs, wgVars, status, cooldown>>

VpnDisconnect ==
    /\ Command
    /\ MayStart("tray")
    /\ Call("tray", "downCheck", "markDown", None)
    /\ UNCHANGED <<connected, atHome, dirExit, pushes, hs, wgVars, status, cooldown>>

\* set_exit: the directory records the choice and pushes the matching config
\* over the WebSocket, or the request fails and nothing else happens.
SetExit(e) ==
    /\ Command
    /\ MayStart("tray")
    /\ dirExit' = e
    /\ pushes' = IF connected THEN Append(pushes, ConfFor(e)) ELSE pushes
    /\ Goto("tray", "fetch")
    /\ UNCHANGED <<connected, atHome, hs, wgVars, status, loc, cooldown>>

-----------------------------------------------------------------------------
(* mesh: ensureMeshIdentity, and refreshMeshExits which the tray calls too *)

\* The answer of the directory to the enrolment, or the last error.
EnrollMesh ==
    /\ pc["mesh"] = "enroll"
    /\ \/ Goto("mesh", "identity") /\ loc' = [loc EXCEPT !["mesh"].exit = dirExit]
       \/ Done("mesh")
    /\ UNCHANGED <<hs, wgVars, status>> /\ Quiet

\* SetMeshIdentity
SetIdentity ==
    /\ pc["mesh"] = "identity"
    /\ hs' = [hs EXCEPT !.exit = loc["mesh"].exit]
    /\ Goto("mesh", "fetch")
    /\ UNCHANGED <<wgVars, status, loc>> /\ Quiet

\* refreshMeshExits ends: the tray pushes the status whatever came of it.
Refreshed(t) == Forget(t, IF t = "tray" THEN "trigger" ELSE "idle")

\* The current selection is asked for, or the request fails ...
Fetch(t) ==
    /\ pc[t] = "fetch"
    /\ \/ Goto(t, "install") /\ loc' = [loc EXCEPT ![t].exit = dirExit]
       \/ Refreshed(t)
    /\ UNCHANGED <<hs, wgVars, status>> /\ Quiet

\* ... and recorded later, with the list of exits.
InstallExit(t) ==
    /\ pc[t] = "install"
    /\ hs' = [hs EXCEPT !.exit = loc[t].exit]
    /\ Refreshed(t)
    /\ UNCHANGED <<wgVars, status>> /\ Quiet

-----------------------------------------------------------------------------
(* session: config, wireguard_apply, wireguard_remove *)

\* A config frame ends with a push of the tray's status.
HandleConfig ==
    /\ connected /\ pushes # <<>> /\ Head(pushes) = "config"
    /\ MayStart("session")
    /\ pushes' = Tail(pushes)
    /\ Goto("session", "trigger")
    /\ UNCHANGED <<connected, atHome, dirExit, moves, commands, hs, wgVars, status, loc, cooldown>>

\* mutant: a missing exitSiteId is not nil
ExitOfRaw(c) == c

\* optIntFromPayload: a missing or null exitSiteId is nil.
ExitOf(c) == IF c = Local THEN None ELSE c

\* SetMeshIdentity; PersistWireGuard is next.
HandleApply ==
    /\ connected /\ pushes # <<>> /\ Head(pushes) \notin {None, "config"}
    /\ MayStart("session")
    /\ LET c == Head(pushes)
       IN  /\ hs' = [hs EXCEPT !.exit = ExitOf(c)]
           /\ Call("session", "store", "applyWant", c)
    /\ pushes' = Tail(pushes)
    /\ UNCHANGED <<connected, atHome, dirExit, moves, commands, wgVars, status, cooldown>>

ApplyWant ==
    /\ pc["session"] = "applyWant"
    /\ IF WantUp(hs, iface # None)
       THEN Call("session", "persist", "markUp", loc["session"].conf)
       ELSE Call("session", "downCheck", "stored", None)
    /\ UNCHANGED <<hs, wgVars, status>> /\ Quiet

HandleRemove ==
    /\ connected /\ pushes # <<>> /\ Head(pushes) = None
    /\ MayStart("session")
    /\ pushes' = Tail(pushes)
    /\ Call("session", "downOnly", "markDown", None)
    /\ UNCHANGED <<connected, atHome, dirExit, moves, commands, hs, wgVars, status, cooldown>>

-----------------------------------------------------------------------------
(* The environment *)

Roam ==
    /\ "roam" \in Env /\ Move
    /\ atHome' = ~atHome
    /\ UNCHANGED <<connected, dirExit, pushes, hs, wgVars, status, pc, loc, cooldown>>

\* The read loop ends between two commands; what was in flight is lost.
Disconnect ==
    /\ "disconnect" \in Env /\ Move
    /\ connected /\ pc["session"] = "idle"
    /\ connected' = FALSE
    /\ pushes' = <<>>
    /\ UNCHANGED <<atHome, dirExit, hs, wgVars, status, pc, loc, cooldown>>

\* connectWebSocket starts ensureMeshIdentity; one that is still running from
\* the previous connection goes on beside it and asks the same question.
Connect ==
    /\ ~connected
    /\ connected' = TRUE
    /\ pushes' = <<"config">>
    /\ IF MayStart("mesh") THEN Goto("mesh", "enroll") ELSE UNCHANGED pc
    /\ UNCHANGED <<atHome, dirExit, hs, wgVars, status, loc, cooldown, moves, commands>>

SendRemove ==
    /\ "remove" \in Env /\ Move
    /\ connected
    /\ pushes' = Append(pushes, None)
    /\ UNCHANGED <<connected, atHome, dirExit, hs, wgVars, status, pc, loc, cooldown>>

-----------------------------------------------------------------------------
\* A daemon that has just connected and enrolled, before the first tick, with
\* the peer config of an earlier run or with none.
Init ==
    /\ connected = TRUE
    /\ dirExit = None
    /\ pushes = <<>>
    /\ \E start \in Starts :
        /\ hs = [vpn |-> FALSE, auto |-> start.auto, exit |-> None, home |-> FALSE,
                 known |-> FALSE]
        /\ conf = start.conf /\ atHome = start.home
    /\ iface = None
    /\ status = [color |-> "red", auto |-> FALSE]
    /\ pc = [t \in Threads |-> "idle"]
    /\ loc = [t \in Threads |-> NoLocals]
    /\ cooldown = 0
    /\ moves = 0 /\ commands = 0

WgStep(t) ==
    \/ Check(t) \/ Truncate(t) \/ Fill(t) \/ Cycle(t) \/ Down(t) \/ Up(t)
    \/ DownCheck(t) \/ DownOnly(t)
    \/ MarkVPN(t) \/ Trigger(t) \/ Show(t)

MonitorStep == Probe \/ Decide \/ Push \/ WgStep("monitor")
TrayStep == Fetch("tray") \/ InstallExit("tray") \/ WgStep("tray")
SessionStep == ApplyWant \/ WgStep("session")
MeshStep == EnrollMesh \/ SetIdentity \/ Fetch("mesh") \/ InstallExit("mesh")

TrayCommand ==
    \/ \E v \in BOOLEAN : SetAutoVPN(v)
    \/ VpnConnect \/ VpnDisconnect
    \/ \E e \in MaybeExit : SetExit(e)

Next ==
    \/ Tick \/ MonitorStep
    \/ TrayCommand \/ TrayStep
    \/ HandleConfig \/ HandleApply \/ HandleRemove \/ SessionStep
    \/ MeshStep
    \/ \E t \in {"monitor", "tray", "session"} : WgFail(t)
    \/ Roam \/ Connect \/ Disconnect \/ SendRemove

Spec == Init /\ [][Next]_vars

\* The goroutines run, the monitor ticks, commands are read, and
\* connectWebSocket gets its connection back.
Fairness ==
    /\ WF_vars(Tick) /\ WF_vars(MonitorStep) /\ WF_vars(TrayStep)
    /\ WF_vars(SessionStep) /\ WF_vars(MeshStep)
    /\ WF_vars(HandleConfig \/ HandleApply \/ HandleRemove) /\ WF_vars(Connect)

FairSpec == Spec /\ Fairness

-----------------------------------------------------------------------------
(* Properties *)

TypeOK ==
    /\ connected \in BOOLEAN /\ atHome \in BOOLEAN
    /\ dirExit \in MaybeExit
    /\ pushes \in Seq(Pushed)
    /\ hs \in HomeState
    /\ conf \in Conf /\ iface \in Conf
    /\ status \in Status
    /\ pc \in [Threads -> PCs]
    /\ loc \in [Threads -> Locals]
    /\ cooldown \in 0..2
    /\ moves \in 0..MaxMoves /\ commands \in 0..MaxCommands

\* A whole peer config is there, or is just being written.
HasConfig ==
    \/ conf \in Whole
    \/ \E t \in Threads : pc[t] \in {"fill", "fillStore"} /\ loc[t].conf \in Whole

\* Auto-VPN reaches the state the policy asks for and stays there, whatever the
\* tray, the directory and wg-quick did in between: up when away or when another
\* site's exit is selected, down at home otherwise (handleAutoVPN).  A daemon
\* whose config was lost in overlapping writes or a failed one is excepted.
TunnelConverges ==
    <>[](hs.auto /\ connected /\ HasConfig)
        => <>[]((iface # None) <=> TunnelShouldBeUp(hs, atHome))

\* The tray ends up showing the state of the host: pushes of stale snapshots
\* (UpdateTrayStatus, TriggerTrayStatusPush) are corrected by a later tick.
StatusConverges ==
    <>[](/\ status.color = Color(connected, iface # None, atHome)
         /\ status.auto = hs.auto)
=============================================================================
