-------------------------- MODULE CommandDispatch --------------------------
(***************************************************************************)
(* handleCommand (websocket.go) and what it drives on a Linux host: the    *)
(* commands of the directory are read one at a time, judged against the    *)
(* configuration in force when the frame is read, carried out and          *)
(* answered.  Around it the operator edits agent.yml, telemetry reloads    *)
(* it, the connection drops, users log in and out and the agent dies.      *)
(* Frames still on their way are the directory's: a frame appears when it  *)
(* is read, and one that never is was lost.                                *)
(*                                                                         *)
(* A frame is [type, sig, arg]: the key that signed exactly this type and  *)
(* payload (None: unsigned or not over these bytes) and the payload, None  *)
(* when a required field is missing.  What wireguard_apply, ldap_tunnel,   *)
(* config and update_binary do in detail is in the modules TunnelPolicy,   *)
(* LdapTunnel, Enrollment and SelfUpdate; here they succeed or fail.       *)
(***************************************************************************)
EXTENDS IamEngine, FiniteSets

CONSTANTS Frames,     \* the frames the directory may send
          Configs,    \* contents of agent.yml: [key, caps, services]
          SvcKind,    \* the manager that really runs each service
          Desk,       \* "x11" or "wayland": the desktop of each user
          MaxFrames,
          MaxUpsets   \* bounds the edits of agent.yml and the crashes

\* iam_apply carries a payload of the directory's, or one that is missing.
ASSUME FramesAssumption ==
  \A f \in Frames : f.type = "iam_apply" => f.arg \in Policies \cup {None}

Services == DOMAIN SvcKind

VARIABLES conn,     \* is the WebSocket up
          file,     \* agent.yml
          cur,      \* the configuration in force
          h,        \* where handleCommand is
          desk,     \* DesktopControl: [listed, left, ended, err], below
          log,      \* every frame read: [f, c, ans, ran, cut]
          svc,      \* is each service up
          sssd,     \* [conf, loaded]: sssd.conf and what sssd runs with
          locked,   \* users whose session is locked
          host,     \* "up", "stopping" or "off"
          upsets

cmdVars == <<conn, file, cur, h, desk, log, svc, sssd, locked, host, upsets>>
vars == <<iamVars, cmdVars>>
cfgs    == <<file, cur, upsets>>
machine == <<svc, sssd, locked, host>>

----------------------------------------------------------------------------
(* The dispatch table. *)

Desktop == {"desktop_control", "lock_session", "logout_user", "display_off",
            "sleep_host"}
SignedTypes ==
  {"update_binary", "reboot", "shutdown", "service_restart", "configure_ldap",
   "render_secrets", "iam_apply", "register_service", "unregister_service",
   "wireguard_apply", "wireguard_remove", "arbitrary_bash", "zpool_scrub"}
     \cup Desktop
Unsigned == {"ldap_tunnel", "reload_config", "fetch_logs", "config",
             "heartbeat_ack"}
Known == SignedTypes \cup Unsigned \cup {"systemd_action"}
Silent == {"ldap_tunnel", "heartbeat_ack"}

\* systemd_action: an absent action is "status", the one that is not signed.
ActionOf(f) == IF f.arg.action = None THEN "status" ELSE f.arg.action

NeedsSignature(f) ==
  \/ f.type \in SignedTypes
  \/ f.type = "systemd_action" /\ ActionOf(f) # "status"

\* verifySignature fails closed when no key is configured.
verifySignature(c, f) == c.key # None /\ f.sig = c.key

\* The capability each case asks for; the others have none of their own.
CapabilityOf(t) ==
  CASE t \in {"reboot", "shutdown"} -> "reboot"
    [] t = "configure_ldap" -> "configure_ldap"
    [] t = "render_secrets" -> "secrets"
    [] t = "iam_apply" -> "iam"
    [] t \in {"register_service", "unregister_service"} -> "service_registration"
    [] t \in {"wireguard_apply", "wireguard_remove"} -> "wireguard"
    [] t = "arbitrary_bash" -> "arbitrary_bash"
    [] t = "zpool_scrub" -> "storage"
    [] OTHER -> "any"

CanManageService(c, s) == s \in c.services

\* DesktopControl's verbs; an empty subAction stands for the type itself.
SubAction(f) == IF f.arg.sub = None THEN f.type ELSE f.arg.sub
Locks   == {"lock_session", "lock"}
Logouts == {"logout_user", "logout"}
DesktopVerbs == Locks \cup Logouts \cup {"display_off", "sleep_host", "sleep"}

PayloadOk(c, f) ==
  CASE f.type \in {"reload_config", "config", "reboot", "shutdown",
                   "render_secrets", "wireguard_remove"} \cup Silent -> TRUE
    [] f.type = "fetch_logs" ->
         f.arg \in {None, "theta-agent"} \/ CanManageService(c, f.arg)
    [] f.type = "service_restart" -> f.arg # None /\ CanManageService(c, f.arg)
    [] f.type \in Desktop -> SubAction(f) \in DesktopVerbs
    [] f.type = "systemd_action" -> f.arg.service # None
    [] OTHER -> f.arg # None

\* A dispatcher that takes the signature of service_restart for leave to
\* restart any service.
AcceptsUnlisted(c, f) ==
  /\ f.type \in Known
  /\ NeedsSignature(f) => verifySignature(c, f)
  /\ CapabilityOf(f.type) \in c.caps \cup {"any"}
  /\ PayloadOk(c, f) \/ (f.type = "service_restart" /\ f.arg # None)

\* Everything a case checks before it acts.
Accepts(c, f) ==
  /\ f.type \in Known
  /\ NeedsSignature(f) => verifySignature(c, f)
  /\ CapabilityOf(f.type) \in c.caps \cup {"any"}
  /\ PayloadOk(c, f)

----------------------------------------------------------------------------
(* Answers and the handler's position. *)

Current == log[Len(log)]
Frame   == Current.f

Answers(status) == [log EXCEPT ![Len(log)].ans =
                      Append(@, IF conn THEN status ELSE "lost")]
Ran == [log EXCEPT ![Len(log)].ran = TRUE]

NoDesk == [listed |-> {}, left |-> {}, ended |-> {}, err |-> FALSE]

Init ==
  /\ IamInit
  /\ conn = TRUE
  /\ file \in Configs /\ cur = file
  /\ h = "idle" /\ desk = NoDesk /\ log = <<>>
  /\ svc = [s \in Services |-> TRUE]
  /\ sssd = [conf |-> None, loaded |-> None]
  /\ locked = {} /\ host = "up" /\ upsets = 0

\* A read loop that starts a goroutine per frame.
TakeConcurrently(f) ==
  /\ conn
  /\ Len(log) < MaxFrames
  /\ log' = Append(log, [f |-> f, c |-> cur, ans |-> <<>>, ran |-> FALSE,
                         cut |-> FALSE])
  /\ h' = "check"
  /\ UNCHANGED <<iamVars, conn, cfgs, machine, desk>>

\* The read loop hands the next frame to handleCommand, which takes the
\* configuration in force (cm.Get) for the whole of it.
Take(f) ==
  /\ conn /\ h = "idle"
  /\ Len(log) < MaxFrames
  /\ log' = Append(log, [f |-> f, c |-> cur, ans |-> <<>>, ran |-> FALSE,
                         cut |-> FALSE])
  /\ h' = "check"
  /\ UNCHANGED <<iamVars, conn, cfgs, machine, desk>>

Refuse ==
  /\ h = "check" /\ ~Accepts(Current.c, Frame)
  /\ log' = Answers("error")
  /\ h' = "idle"
  /\ UNCHANGED <<iamVars, conn, cfgs, machine, desk>>

Accepted(types) == h = "check" /\ Accepts(Current.c, Frame) /\ Frame.type \in types

\* heartbeat_ack is ignored, ldap_tunnel handed to the byte pump.
Ignore ==
  /\ Accepted(Silent)
  /\ h' = "idle"
  /\ UNCHANGED <<iamVars, conn, cfgs, machine, desk, log>>

\* reload_config answers with the result of cm.Reload.
Reload ==
  /\ Accepted({"reload_config"})
  /\ \/ cur' = file /\ h' = "ok"
     \/ h' = "err" /\ UNCHANGED cur
  /\ log' = Ran
  /\ UNCHANGED <<iamVars, conn, machine, file, desk, upsets>>

\* One platform operation that succeeds or fails as a whole.
OneOp ==
  /\ Accepted({"fetch_logs", "config", "update_binary", "render_secrets",
               "register_service", "unregister_service", "wireguard_apply",
               "wireguard_remove", "arbitrary_bash", "zpool_scrub"})
  /\ h' \in IF Frame.type = "config" THEN {"ok"} ELSE {"ok", "err"}
  /\ log' = Ran
  /\ UNCHANGED <<iamVars, conn, cfgs, machine, desk>>

Reboot ==
  /\ Accepted({"reboot"})
  /\ \/ host' = "stopping" /\ h' = "ok"
     \/ h' = "err" /\ UNCHANGED host
  /\ log' = Ran
  /\ UNCHANGED <<iamVars, conn, cfgs, desk, svc, sssd, locked>>

\* shutdown answers first, so that the answer is out before the host goes.
AnswerShutdown ==
  /\ Accepted({"shutdown"})
  /\ log' = Answers("ok")
  /\ h' = "shutdown"
  /\ UNCHANGED <<iamVars, conn, cfgs, machine, desk>>

Shutdown ==
  /\ h = "shutdown"
  /\ host' \in {host, "stopping"}
  /\ log' = Ran
  /\ h' = "idle"
  /\ UNCHANGED <<iamVars, conn, cfgs, desk, svc, sssd, locked>>

----------------------------------------------------------------------------
(* systemd_action and service_restart. *)

ServiceActions == {"start", "stop", "restart", "reload", "status"}

Tool(subtype) ==
  IF subtype \in {"docker", "podman", "openrc"} THEN subtype ELSE "systemd"

\* controlService: the verbs each tool is given at all.
HasVerb(subtype, action) ==
  /\ action \in ServiceActions
  /\ Tool(subtype) \in {"docker", "podman"} => action # "reload"

\* The service, the tool and the action of a frame.
ServiceCall(f) ==
  IF f.type = "service_restart"
  THEN [service |-> f.arg, tool |-> "systemd", action |-> "restart"]
  ELSE [service |-> f.arg.service, tool |-> Tool(f.arg.subtype),
        action |-> ActionOf(f)]

\* The form before the CHANGELOG's fix: "ok" whatever the tool said.
ControlServiceOk ==
  /\ Accepted({"systemd_action", "service_restart"})
  /\ LET call == ServiceCall(Frame) IN
     \/ /\ HasVerb(call.tool, call.action) /\ SvcKind[call.service] = call.tool
        /\ svc' = [svc EXCEPT ![call.service] =
                     CASE call.action = "stop" -> FALSE
                       [] call.action = "status" -> @
                       [] OTHER -> TRUE]
     \/ UNCHANGED svc
  /\ h' = "ok"
  /\ log' = Ran
  /\ UNCHANGED <<iamVars, conn, cfgs, desk, sssd, locked, host>>

\* A tool that does not run the service does not know its name and fails.
ControlService ==
  /\ Accepted({"systemd_action", "service_restart"})
  /\ LET call == ServiceCall(Frame) IN
     \/ /\ HasVerb(call.tool, call.action) /\ SvcKind[call.service] = call.tool
        /\ svc' = [svc EXCEPT ![call.service] =
                     CASE call.action = "stop" -> FALSE
                       [] call.action = "status" -> @
                       [] OTHER -> TRUE]
        /\ h' = "ok"
     \/ UNCHANGED svc /\ h' = "err"
  /\ log' = Ran
  /\ UNCHANGED <<iamVars, conn, cfgs, desk, sssd, locked, host>>

----------------------------------------------------------------------------
(* Desktop control through logind: sessions are listed, then acted on one by
   one; users come and go meanwhile.  desk holds the sessions found, those
   whose turn has not come, those that have ended since, and whether a loginctl
   failed (firstErr). *)

Graphical(user) == {u \in Users : sess[u] /\ user \in {None, u}}
Live == {u \in Users : sess[u]}

\* A logout that names its user is one terminate-user, without a list.
OneByOne(f) ==
  \/ SubAction(f) \in Locks
  \/ SubAction(f) \in Logouts /\ f.arg.user = None

\* loginctl may fail to list a session, or all of them.
ListSessions ==
  /\ Accepted(Desktop)
  /\ \E found \in SUBSET Graphical(Frame.arg.user) :
       desk' = [listed |-> found, left |-> found, ended |-> {}, err |-> FALSE]
  /\ h' = "desktop"
  /\ log' = Ran
  /\ UNCHANGED <<iamVars, conn, cfgs, machine>>

\* A loop that keeps the outcome of its last command only.
TriedLast(u, ended, failed) ==
  desk' = [desk EXCEPT !.left = @ \ {u}, !.ended = @ \cup ended, !.err = failed]

\* The turn of u: the first error stays, and the loop goes on.
Tried(u, ended, failed) ==
  desk' = [desk EXCEPT !.left = @ \ {u}, !.ended = @ \cup ended,
                       !.err = @ \/ failed]

\* loginctl lock-session; a session that has ended meanwhile is an error.
LockSession(u) ==
  /\ h = "desktop" /\ SubAction(Frame) \in Locks /\ u \in desk.left
  /\ \/ u \notin desk.ended /\ locked' = locked \cup {u} /\ Tried(u, {}, FALSE)
     \/ Tried(u, {}, TRUE) /\ UNCHANGED locked
  /\ UNCHANGED <<iamVars, conn, cfgs, h, log, svc, sssd, host>>

\* loginctl terminate-session.
TerminateSession(u) ==
  /\ h = "desktop" /\ SubAction(Frame) \in Logouts /\ Frame.arg.user = None
  /\ u \in desk.left
  /\ \/ u \notin desk.ended /\ EndSessions({u}) /\ Tried(u, {u}, FALSE)
     \/ Tried(u, {}, TRUE) /\ UNCHANGED iamVars
  /\ UNCHANGED <<conn, cfgs, machine, h, log>>

Finish(outcome) == h' = outcome /\ desk' = NoDesk

\* Every session has had its turn.
EndLoop ==
  /\ h = "desktop" /\ OneByOne(Frame)
  /\ desk.listed # {} /\ desk.left = {}
  /\ Finish(IF desk.err THEN "err" ELSE "ok")
  /\ UNCHANGED <<iamVars, conn, cfgs, machine, log>>

\* loginctl lock-sessions: every session of the machine, listed or not.
LockAll ==
  \/ locked' = locked \cup Live /\ Finish("ok")
  \/ Finish("err") /\ UNCHANGED locked

NoneListed ==
  /\ h = "desktop" /\ OneByOne(Frame) /\ desk.listed = {}
  /\ IF SubAction(Frame) \in Locks THEN LockAll
     ELSE Finish("err") /\ UNCHANGED locked
  /\ UNCHANGED <<iamVars, conn, cfgs, log, svc, sssd, host>>

LogoutUser(u) ==
  /\ h = "desktop" /\ SubAction(Frame) \in Logouts /\ Frame.arg.user = u
  /\ \/ sess[u] /\ EndSessions({u}) /\ Finish("ok")
     \/ Finish("err") /\ UNCHANGED iamVars
  /\ UNCHANGED <<conn, cfgs, machine, log>>

\* display_off: the first X11 session that answers; else all are locked.
DisplayOff ==
  /\ h = "desktop" /\ SubAction(Frame) = "display_off"
  /\ \/ /\ \E u \in desk.listed \ desk.ended : Desk[u] = "x11"
        /\ Finish("ok") /\ UNCHANGED locked
     \/ LockAll
  /\ UNCHANGED <<iamVars, conn, cfgs, log, svc, sssd, host>>

SleepHost ==
  /\ h = "desktop" /\ SubAction(Frame) \in {"sleep_host", "sleep"}
  /\ \E outcome \in {"ok", "err"} : Finish(outcome)
  /\ UNCHANGED <<iamVars, conn, cfgs, machine, log>>

DesktopControl ==
  \/ EndLoop \/ NoneListed \/ DisplayOff \/ SleepHost
  \/ \E u \in Users : LockSession(u) \/ TerminateSession(u) \/ LogoutUser(u)

----------------------------------------------------------------------------
(* configure_ldap: sssd.conf, restart, and an install when that fails. *)

WriteSssd ==
  /\ Accepted({"configure_ldap"})
  /\ \/ sssd' = [sssd EXCEPT !.conf = Frame.arg] /\ h' = "restartSssd"
     \/ h' = "err" /\ UNCHANGED sssd
  /\ log' = Ran
  /\ UNCHANGED <<iamVars, conn, cfgs, desk, svc, locked, host>>

\* A restart that fails leaves sssd down; the missing packages are installed
\* and it is tried once more.
RestartSssd ==
  /\ h \in {"restartSssd", "retrySssd"}
  /\ \/ sssd' = [sssd EXCEPT !.loaded = sssd.conf] /\ h' = "ok"
     \/ /\ sssd' = [sssd EXCEPT !.loaded = None]
        /\ h' \in IF h = "restartSssd" THEN {"retrySssd", "err"} ELSE {"err"}
  /\ UNCHANGED <<iamVars, conn, cfgs, desk, log, svc, locked, host>>

----------------------------------------------------------------------------
(* iam_apply. *)

\* The policy applied in the background and answered at once.
BeginIamAsync ==
  /\ Accepted({"iam_apply"})
  /\ Begin(Frame.arg)
  /\ h' = "ok"
  /\ log' = Ran
  /\ UNCHANGED <<conn, cfgs, machine, desk>>

BeginIam ==
  /\ Accepted({"iam_apply"})
  /\ Begin(Frame.arg)
  /\ h' = "iam"
  /\ log' = Ran
  /\ UNCHANGED <<conn, cfgs, machine, desk>>

DoIam ==
  /\ h = "iam"
  /\ IamStep
  /\ UNCHANGED cmdVars

EndIam ==
  /\ h = "iam"
  /\ Return
  /\ h' = IF job.pc = "done" THEN "ok" ELSE "err"
  /\ UNCHANGED <<conn, cfgs, machine, desk, log>>

----------------------------------------------------------------------------

\* The one answer of a command that ran; update_binary then exits.
Answer ==
  /\ h \in {"ok", "err"}
  /\ log' = Answers(IF h = "ok" THEN "ok" ELSE "error")
  /\ h' = IF h = "ok" /\ Frame.type = "update_binary" THEN "exit" ELSE "idle"
  /\ UNCHANGED <<iamVars, conn, cfgs, machine, desk>>

Cut == [i \in DOMAIN log |-> IF i = Len(log) /\ h # "idle"
                               THEN [log[i] EXCEPT !.cut = TRUE] ELSE log[i]]

ProcessGone ==
  /\ log' = Cut /\ h' = "idle" /\ desk' = NoDesk
  /\ conn' = FALSE

\* The process ends, by SelfRestart or a fault; systemd starts it again and
\* it loads agent.yml.
Restart ==
  /\ \/ h = "exit" /\ UNCHANGED upsets
     \/ upsets < MaxUpsets /\ upsets' = upsets + 1
  /\ host # "off"
  /\ ProcessGone
  /\ Die
  /\ cur' = file
  /\ UNCHANGED <<machine, file>>

\* The host goes down, at any moment after reboot or shutdown was run.  What
\* it looks like after the next boot is outside the model.
HostDown ==
  /\ host = "stopping"
  /\ host' = "off"
  /\ ProcessGone
  /\ job' = NoJob /\ sess' = [u \in Users |-> FALSE] /\ spared' = {}
  /\ UNCHANGED <<cfgs, sudoTmp, sudoers, keys, access, svc, sssd, locked>>

\* The connection is lost, also in the middle of a command; it is dialled
\* again once the read loop has noticed.
Drop ==
  /\ conn
  /\ conn' = FALSE
  /\ UNCHANGED <<iamVars, cfgs, machine, h, desk, log>>

Dial ==
  /\ ~conn /\ h = "idle" /\ host # "off"
  /\ conn' = TRUE
  /\ UNCHANGED <<iamVars, cfgs, machine, h, desk, log>>

\* The operator edits agent.yml; a telemetry tick picks the edit up.
Edit(c) ==
  /\ upsets < MaxUpsets /\ c # file
  /\ file' = c /\ upsets' = upsets + 1
  /\ UNCHANGED <<iamVars, conn, machine, cur, h, desk, log>>

Tick ==
  /\ cur # file
  /\ cur' = file
  /\ UNCHANGED <<iamVars, conn, machine, file, h, desk, log, upsets>>

UserLogin(u) ==
  /\ host = "up"
  /\ Login(u)
  /\ locked' = locked \ {u}
  /\ UNCHANGED <<conn, cfgs, h, desk, log, svc, sssd, host>>

UserLogout(u) ==
  /\ sess[u]
  /\ EndSessions({u})
  /\ desk' = [desk EXCEPT !.ended = @ \cup ({u} \cap desk.listed)]
  /\ UNCHANGED <<conn, cfgs, machine, h, log>>

Handle ==
  \/ Refuse \/ Ignore \/ Reload \/ OneOp \/ Reboot
  \/ AnswerShutdown \/ Shutdown
  \/ ControlService
  \/ ListSessions \/ DesktopControl
  \/ WriteSssd \/ RestartSssd
  \/ BeginIam \/ DoIam \/ EndIam
  \/ Answer

Next ==
  \/ \E f \in Frames : Take(f)
  \/ Handle
  \/ Restart \/ HostDown \/ Drop \/ Dial
  \/ \E c \in Configs : Edit(c)
  \/ Tick
  \/ \E u \in Users : UserLogin(u) \/ UserLogout(u)

Spec == Init /\ [][Next]_vars

----------------------------------------------------------------------------

Done(e) == e.ran /\ e.ans = <<"ok">>

\* The latest command of some kind that acted on the machine.
Latest(Is(_)) ==
  LET those == {i \in DOMAIN log : log[i].ran /\ Is(log[i].f)}
  IN  IF those = {} THEN [ran |-> FALSE, ans |-> <<>>] ELSE log[Max(those)]

TypeOK ==
  /\ conn \in BOOLEAN
  /\ file \in Configs /\ cur \in Configs
  /\ h \in {"idle", "check", "ok", "err", "shutdown", "desktop", "restartSssd",
            "retrySssd", "iam", "exit"}
  /\ (h = "iam") = (job.pc # "idle")
  /\ desk \in [listed : SUBSET Users, left : SUBSET Users,
               ended : SUBSET Users, err : BOOLEAN]
  /\ locked \subseteq Users
  /\ svc \in [Services -> BOOLEAN] /\ host \in {"up", "stopping", "off"}
  /\ sess \in [Users -> BOOLEAN]

\* Every frame that was read to the end is answered exactly once, and the two
\* frames that are not commands never: the directory files each response
\* under the command it waits for (PROTOCOL.md 3.4; websocket.go, every
\* return of handleCommand).
AnsweredOnce ==
  \A i \in DOMAIN log :
    LET e == log[i] IN
    /\ Len(e.ans) <= IF e.f.type \in Silent THEN 0 ELSE 1
    /\ \/ Len(e.ans) = 1 \/ e.f.type \in Silent \/ e.cut
       \/ i = Len(log) /\ h # "idle"

\* The contract of PROTOCOL.md 4.2 and of README's capability matrix, written
\* down independently of the dispatcher: which commands act only when signed
\* with the key, and with the capability, in force when they were read.
ContractSigned ==
  {"reboot", "service_restart", "configure_ldap", "arbitrary_bash",
   "update_binary", "render_secrets", "iam_apply", "zpool_scrub",
   "register_service", "unregister_service", "shutdown", "wireguard_apply",
   "wireguard_remove", "desktop_control"}
ContractCapability ==
  [reboot |-> "reboot", shutdown |-> "reboot", iam_apply |-> "iam",
   configure_ldap |-> "configure_ldap", render_secrets |-> "secrets",
   arbitrary_bash |-> "arbitrary_bash", zpool_scrub |-> "storage",
   register_service |-> "service_registration",
   unregister_service |-> "service_registration",
   wireguard_apply |-> "wireguard", wireguard_remove |-> "wireguard"]

\* A command that acted satisfied that contract, also across edits and
\* reloads of agent.yml (websocket.go, the checks of every case); and
\* service_restart touched no service outside the service_control list.
GateContract ==
  \A i \in DOMAIN log :
    LET e == log[i] IN
    e.ran =>
      /\ \/ e.f.type \in ContractSigned
         \/ e.f.type = "systemd_action" /\ e.f.arg.action \notin {None, "status"}
         => e.c.key # None /\ e.f.sig = e.c.key
      /\ e.f.type \in DOMAIN ContractCapability
         => ContractCapability[e.f.type] \in e.c.caps
      /\ e.f.type = "service_restart" => e.f.arg \in e.c.services

\* README.md:47 says that only what agent.yml enables is executed, and :74
\* that service_control, a list of services, is the capability of service
\* management: so whatever command starts, stops, restarts or reloads a
\* service, the service is on that list.  systemd_action never asks
\* (websocket.go:598-618).
ServiceControlContract ==
  \A i \in DOMAIN log :
    LET e == log[i] IN
    /\ e.ran /\ e.f.type \in {"service_restart", "systemd_action"}
    /\ ServiceCall(e.f).action # "status"
    => ServiceCall(e.f).service \in e.c.services

\* After iam_apply was answered "ok", and until the next one, the host is as
\* the payload says: its rules, keys and login policy are in force, and a
\* revoked user whom that policy keeps out has no session but one that pkill
\* failed to end, whoever logged in meanwhile (iam.go:53: access control
\* before revocation; iam.go:199: a failing pkill is logged).
PolicyInForce ==
  LET e == Latest(LAMBDA f : f.type = "iam_apply") IN
  Done(e) =>
    LET p == e.f.arg IN
    /\ p.sudo # None => sudoers = p.sudo
    /\ \A u \in p.keys : keys[u] = p
    /\ p.groups # {} =>
         /\ access = AccessFile(p.groups)
         /\ \A u \in p.revoke \ p.groups : sess[u] => u \in spared

\* "ok" to configure_ldap means sssd runs with what was pushed, and "ok" to a
\* service command that the service is as asked, until the next command for
\* it acts (platform_linuxops.go:218, service_control.go:61).
OkMeansDone ==
  /\ LET e == Latest(LAMBDA f : f.type = "configure_ldap") IN
     Done(e) => sssd = [conf |-> e.f.arg, loaded |-> e.f.arg]
  /\ \A s \in Services :
       LET Of(f) == /\ f.type \in {"systemd_action", "service_restart"}
                    /\ ServiceCall(f).service = s
                    /\ ServiceCall(f).action # "status"
           e == Latest(Of)
       IN  Done(e) => svc[s] = (ServiceCall(e.f).action # "stop")

\* "Failures are reported rather than masked" (platform_linuxops.go:129): by
\* the time a lock or a logout of several sessions reports "ok", every session
\* it found that still exists is locked, or none of them exists any more,
\* however the users came and went between its commands and whichever of them
\* failed (platform_linuxops.go:152, :176).
DesktopHonest ==
  [][h = "desktop" /\ h' = "ok" /\ OneByOne(Frame) =>
       /\ SubAction(Frame) \in Locks => desk.listed \ desk.ended \subseteq locked'
       /\ SubAction(Frame) \in Logouts =>
            desk.listed # {} /\ desk.listed = desk.ended]_vars
=============================================================================
