------------------------------- MODULE TrayLink -------------------------------
(***************************************************************************)
(* The desktop tray and the daemon's socket for it (tray_server.go,        *)
(* tray_ipc.go, cmd/theta-agent-tray).                                     *)
(*                                                                         *)
(* The daemon pushes its status to every tray, under ts.mu and without a   *)
(* write deadline: from the home monitor once a minute, and from the       *)
(* goroutine of any tray whose command has changed something.  A tray runs *)
(* three kinds of goroutines over shared variables that no lock protects:  *)
(* connectWithRetry, which reads statuses and draws them; the menu loop;   *)
(* and one watcher per exit, which with it sends commands.                 *)
(*                                                                         *)
(* A status is the part of TrayStatus that the user can act on: auto_vpn   *)
(* and the exits.  How the daemon comes to it, and what the commands for   *)
(* the tunnel do, is in TunnelPolicy.                                      *)
(***************************************************************************)
EXTENDS Naturals, Sequences, FiniteSets

CONSTANTS Trays, Sites, None,
          SocketBuffer,            \* frames a socket holds in one direction
          MaxClicks, MaxOffers, MaxFaults

Exits    == [exits : SUBSET Sites, cur : Sites \cup {None}]
Status(auto, mesh) == [auto |-> auto, exits |-> mesh.exits, cur |-> mesh.cur]
NoExits  == [exits |-> {}, cur |-> None]

\* The zero TrayStatus, which is also what "Daemon not running" is drawn from.
Zero == Status(FALSE, NoExits)

\* What a tray may send.
Commands == [cmd : {"set_auto_vpn"}, value : BOOLEAN] \cup [cmd : {"reinit"}]
              \cup [cmd : {"set_exit"}, site : Sites \cup {None}]

ASSUME NoneAssumption == None \notin Commands

Monitor == "monitor"
Pushers == Trays \cup {Monitor}
Senders == {"menu", "exits"}

VARIABLES daemon,      \* "up" or "down"
          auto, saved, \* the auto_vpn preference, in memory and in agent.yml
          mesh,        \* the exits the daemon knows of
          status,      \* ts.status
          clients,     \* ts.clients
          mu,          \* who holds ts.mu
          push,        \* each pusher: its status and the clients it has left
          serving,     \* handleConn of each tray: "none", "enter" or "serve"
          open,        \* the connection of each tray is whole
          down, up,    \* statuses and commands in its socket
          proc,        \* each tray: "on", "stalled" or "gone"
          link,        \* connectWithRetry: "dial", "stream" or "sleep"
          ui, box,     \* currentStatus and the state of the checkbox
          menu,        \* exitMenu
          drawing,     \* the state updateUI has yet to give the checkbox
          sending,     \* sendCmd of each goroutine, past its check of ipcConn
          clicks, offers, faults,
          intent,      \* ghost: auto_vpn as the box was last clicked
          astray       \* ghost: such a click did not get through, or crossed one

policy   == <<auto, saved, mesh>>
srvVars  == <<status, clients, mu, push, serving>>
sockVars == <<open, down, up>>
drawn    == <<ui, box, menu, drawing>>
bounds   == <<clicks, offers, faults>>
ghosts   == <<intent, astray>>
vars == <<daemon, policy, srvVars, sockVars, proc, link, drawn, sending,
          bounds, ghosts>>

Blank == [shown |-> FALSE, sig |-> {}, items |-> {}, tick |-> None]

NoPush == [msg |-> Zero, left |-> {}, at |-> None, pc |-> "idle"]

Init ==
  /\ daemon = "up"
  /\ auto \in BOOLEAN /\ saved = auto /\ mesh = NoExits
  /\ status = Zero /\ clients = {} /\ mu = None
  /\ push = [p \in Pushers |-> NoPush]
  /\ serving = [t \in Trays |-> "none"]
  /\ open = [t \in Trays |-> FALSE]
  /\ down = [t \in Trays |-> <<>>] /\ up = [t \in Trays |-> <<>>]
  /\ proc = [t \in Trays |-> "on"]
  /\ link = [t \in Trays |-> "dial"]
  /\ ui = [t \in Trays |-> Zero] /\ box = [t \in Trays |-> FALSE]
  /\ menu = [t \in Trays |-> Blank]
  /\ drawing = [t \in Trays |-> None]
  /\ sending = [t \in Trays |-> [k \in Senders |-> None]]
  /\ clicks = 0 /\ offers = 0 /\ faults = 0
  /\ intent = auto /\ astray = FALSE

\* Something that goes wrong.
Fault == faults < MaxFaults /\ faults' = faults + 1

-----------------------------------------------------------------------------
(* The daemon: pushing. *)

\* A handler has put a status together and goes for the lock.
Pushing(t, msg) ==
  push' = [push EXCEPT ![t] = [NoPush EXCEPT !.msg = msg, !.pc = "lock"]]

\* checkAndPush, once a minute: it reads the preference, and looks for home
\* before it goes on.
checkAndPush ==
  /\ daemon = "up" /\ push[Monitor].pc = "idle"
  /\ push' = [push EXCEPT ![Monitor].pc = "read", ![Monitor].msg.auto = auto]
  /\ UNCHANGED <<daemon, policy, status, clients, mu, serving, sockVars, proc, link,
                 drawn, sending, bounds, ghosts>>

\* UpdateTrayStatus, of the monitor, reads the exits and goes for the lock.
UpdateTrayStatus ==
  /\ push[Monitor].pc = "read"
  /\ push' = [push EXCEPT ![Monitor].pc = "lock", ![Monitor].msg = Status(@.auto, mesh)]
  /\ UNCHANGED <<daemon, policy, status, clients, mu, serving, sockVars, proc, link,
                 drawn, sending, bounds, ghosts>>

\* Push: the status is kept for the trays to come and written to those there
\* are, in some order, each write waiting for room.
PushLock(p) ==
  /\ push[p].pc = "lock" /\ mu = None
  /\ status' = push[p].msg
  /\ IF clients = {}
     THEN push' = [push EXCEPT ![p] = NoPush] /\ UNCHANGED mu
     ELSE /\ mu' = p
          /\ \E t \in clients :
               push' = [push EXCEPT ![p].pc = "write", ![p].at = t, ![p].left = clients]
  /\ UNCHANGED <<daemon, policy, clients, serving, sockVars, proc, link, drawn,
                 sending, bounds, ghosts>>

\* A write to a tray that is gone fails, and closes the connection.
PushWrite(p) ==
  /\ push[p].pc = "write"
  /\ LET t == push[p].at
         rest == push[p].left \ {t}
     IN  /\ \/ /\ open[t] /\ Len(down[t]) < SocketBuffer
               /\ down' = [down EXCEPT ![t] = Append(@, push[p].msg)]
               /\ UNCHANGED <<up, astray>>
            \/ /\ ~open[t]
               /\ up' = [up EXCEPT ![t] = <<>>]
               /\ astray' = (astray \/ up[t] # <<>>)
               /\ UNCHANGED down
         /\ mu' = IF rest = {} THEN None ELSE p
         /\ push' \in IF rest = {} THEN {[push EXCEPT ![p] = NoPush]}
                     ELSE {[push EXCEPT ![p].left = rest, ![p].at = q] : q \in rest}
  /\ UNCHANGED <<daemon, policy, status, clients, serving, open, proc, link,
                 drawn, sending, bounds, intent>>

-----------------------------------------------------------------------------
(* The daemon: handleConn. *)

\* The tray is entered and greeted with the last status; its buffer is empty.
Enter(t) ==
  /\ serving[t] = "enter" /\ mu = None
  /\ clients' = clients \cup {t}
  /\ down' = [down EXCEPT ![t] = IF open[t] THEN Append(@, status) ELSE @]
  /\ serving' = [serving EXCEPT ![t] = "serve"]
  /\ UNCHANGED <<daemon, policy, status, mu, push, open, up, proc, link, drawn,
                 sending, bounds, ghosts>>

Next1(t) == Head(up[t])
Took(t) == up' = [up EXCEPT ![t] = Tail(@)]
Ready(t, cmd) == /\ serving[t] = "serve" /\ push[t].pc = "idle"
                 /\ up[t] # <<>> /\ Next1(t).cmd = cmd

\* The preference kept in memory only, as before it was written to agent.yml.
SetAutoVPNInMemory(t) ==
  /\ Ready(t, "set_auto_vpn") /\ mu = None
  /\ status' = [status EXCEPT !.auto = Next1(t).value]
  /\ auto' = Next1(t).value
  /\ Pushing(t, Status(auto', mesh))
  /\ Took(t)
  /\ UNCHANGED <<daemon, saved, mesh, clients, mu, serving, open, down, proc, link,
                 drawn, sending, bounds, ghosts>>

\* A preference that cannot be written is logged, and lost with the daemon.
SetAutoVPN(t) ==
  /\ Ready(t, "set_auto_vpn") /\ mu = None
  /\ status' = [status EXCEPT !.auto = Next1(t).value]
  /\ auto' = Next1(t).value
  /\ \/ saved' = auto' /\ UNCHANGED <<faults, astray>>
     \/ Fault /\ astray' = TRUE /\ UNCHANGED saved
  /\ Pushing(t, Status(auto', mesh))
  /\ Took(t)
  /\ UNCHANGED <<daemon, mesh, clients, mu, serving, open, down, proc, link,
                 drawn, sending, clicks, offers, intent>>

\* setMeshExit may be refused; refreshMeshExits reads what the directory now
\* holds, or leaves what was known.
SetExit(t) ==
  /\ Ready(t, "set_exit")
  /\ \/ /\ Next1(t).site \in mesh.exits \cup {None}
        /\ mesh' \in {mesh, [mesh EXCEPT !.cur = Next1(t).site]}
        /\ Pushing(t, Status(auto, mesh'))
     \/ UNCHANGED <<mesh, push>>
  /\ Took(t)
  /\ UNCHANGED <<daemon, auto, saved, status, clients, mu, serving, open, down, proc,
                 link, drawn, sending, bounds, ghosts>>

\* Clearing the enrollment is root's; a tray runs as the user of the desktop.
RefusePrivileged(t) ==
  /\ Ready(t, "reinit")
  /\ Took(t)
  /\ UNCHANGED <<daemon, policy, srvVars, open, down, proc, link, drawn, sending,
                 bounds, ghosts>>

\* The scanner has come to the end of the connection.
Forget(t) ==
  /\ serving[t] = "serve" /\ push[t].pc = "idle" /\ ~open[t] /\ up[t] = <<>>
  /\ mu = None
  /\ clients' = clients \ {t}
  /\ serving' = [serving EXCEPT ![t] = "none"]
  /\ UNCHANGED <<daemon, policy, status, mu, push, sockVars, proc, link, drawn,
                 sending, bounds, ghosts>>

-----------------------------------------------------------------------------
(* The tray: drawing. *)

\* An implementation that forgets the items when it hides the menu.
syncExitMenuCleared(m, s) ==
  IF s.exits = {} THEN [m EXCEPT !.shown = FALSE, !.items = {}]
  ELSE [shown |-> TRUE, sig |-> s.exits, tick |-> s.cur,
        items |-> IF s.exits # m.sig THEN s.exits ELSE m.items]

\* syncExitMenu: hidden when there is nothing to offer, and rebuilt only when
\* the set has another signature than the one that was built last.
syncExitMenu(m, s) ==
  IF s.exits = {} THEN [m EXCEPT !.shown = FALSE]
  ELSE [shown |-> TRUE, sig |-> s.exits, tick |-> s.cur,
        items |-> IF s.exits # m.sig THEN s.exits ELSE m.items]

\* updateUI, up to the checkbox, which the menu loop may set in between.
updateUI(t, s) ==
  /\ ui' = [ui EXCEPT ![t] = s]
  /\ menu' = [menu EXCEPT ![t] = syncExitMenu(@, s)]
  /\ drawing' = [drawing EXCEPT ![t] = s.auto]
  /\ UNCHANGED box

Alive(t) == proc[t] = "on"

\* ipcConn is not nil.
Connected(t) == link[t] = "stream"
Free(t)  == Alive(t) /\ drawing[t] = None

Dial(t) ==
  /\ Free(t) /\ link[t] = "dial" /\ daemon = "up" /\ serving[t] = "none"
  /\ link' = [link EXCEPT ![t] = "stream"]
  /\ open' = [open EXCEPT ![t] = TRUE]
  /\ serving' = [serving EXCEPT ![t] = "enter"]
  /\ UNCHANGED <<daemon, policy, status, clients, mu, push, down, up, proc, drawn,
                 sending, bounds, ghosts>>

DialFails(t) ==
  /\ Free(t) /\ link[t] = "dial" /\ daemon = "down"
  /\ updateUI(t, Zero)
  /\ link' = [link EXCEPT ![t] = "sleep"]
  /\ UNCHANGED <<daemon, policy, srvVars, sockVars, proc, sending, bounds, ghosts>>

streamStatus(t) ==
  /\ Free(t) /\ link[t] = "stream" /\ down[t] # <<>>
  /\ updateUI(t, Head(down[t]))
  /\ down' = [down EXCEPT ![t] = Tail(@)]
  /\ UNCHANGED <<daemon, policy, srvVars, open, up, proc, link, sending, bounds,
                 ghosts>>

SetCheckbox(t) ==
  /\ Alive(t) /\ drawing[t] # None
  /\ box' = [box EXCEPT ![t] = drawing[t]]
  /\ drawing' = [drawing EXCEPT ![t] = None]
  /\ UNCHANGED <<daemon, policy, srvVars, sockVars, proc, link, ui, menu, sending,
                 bounds, ghosts>>

\* The stream has ended; the icon stays as it is until a dial fails.
Lost(t) ==
  /\ Free(t) /\ link[t] = "stream" /\ ~open[t] /\ down[t] = <<>>
  /\ link' = [link EXCEPT ![t] = "sleep"]
  /\ UNCHANGED <<daemon, policy, srvVars, sockVars, proc, drawn, sending, bounds, ghosts>>

\* Five seconds later.
Retry(t) ==
  /\ Free(t) /\ link[t] = "sleep"
  /\ link' = [link EXCEPT ![t] = "dial"]
  /\ UNCHANGED <<daemon, policy, srvVars, sockVars, proc, drawn, sending, bounds,
                 ghosts>>

-----------------------------------------------------------------------------
(* The tray: clicks. *)

IsAuto(c) == c # None /\ c.cmd = "set_auto_vpn"
InFlight(t) == \/ \E i \in DOMAIN up[t] : IsAuto(up[t][i])
               \/ IsAuto(sending[t]["menu"])

\* A click, and sendCmd as far as its check: without a connection the command
\* is dropped.
Click(t, k, c) ==
  /\ Alive(t) /\ sending[t][k] = None
  /\ clicks < MaxClicks /\ clicks' = clicks + 1
  /\ sending' = [sending EXCEPT ![t][k] = IF Connected(t) THEN c ELSE None]

\* The box is set at once, the daemon's next status sets it again.
ClickAutoVPN(t) ==
  LET value == ~ui[t].auto IN
  /\ Click(t, "menu", [cmd |-> "set_auto_vpn", value |-> value])
  /\ ui' = [ui EXCEPT ![t].auto = value]
  /\ box' = [box EXCEPT ![t] = value]
  /\ intent' = value
  /\ astray' = (astray \/ ~Connected(t) \/ \E q \in Trays \ {t} : InFlight(q))
  /\ UNCHANGED <<daemon, policy, srvVars, sockVars, proc, link, menu, drawing,
                 offers, faults>>

ClickReinit(t) ==
  /\ Click(t, "menu", [cmd |-> "reinit"])
  /\ UNCHANGED <<daemon, policy, srvVars, sockVars, proc, link, drawn, offers,
                 faults, ghosts>>

\* The tick is left to the daemon.
watchExitClick(t) ==
  /\ menu[t].shown
  /\ \E site \in menu[t].items \cup {None} :
       Click(t, "exits", [cmd |-> "set_exit", site |-> site])
  /\ UNCHANGED <<daemon, policy, srvVars, sockVars, proc, link, drawn, offers,
                 faults, ghosts>>

\* The process ends; what it has written can still be read.
Ends(t) ==
  /\ proc' = [proc EXCEPT ![t] = "gone"]
  /\ open' = [open EXCEPT ![t] = FALSE]
  /\ down' = [down EXCEPT ![t] = <<>>]
  /\ sending' = [sending EXCEPT ![t] = [k \in Senders |-> None]]
  /\ link' = [link EXCEPT ![t] = "dial"]
  /\ ui' = [ui EXCEPT ![t] = Zero] /\ box' = [box EXCEPT ![t] = FALSE]
  /\ menu' = [menu EXCEPT ![t] = Blank] /\ drawing' = [drawing EXCEPT ![t] = None]

\* sendCmd writes to whatever ipcConn is by now: to nil it panics, and to a
\* connection whose other end is gone the command is lost.
sendCmd(t, k) ==
  /\ Alive(t) /\ sending[t][k] # None
  /\ \/ /\ Connected(t) /\ open[t] /\ Len(up[t]) < SocketBuffer
        /\ up' = [up EXCEPT ![t] = Append(@, sending[t][k])]
        /\ sending' = [sending EXCEPT ![t][k] = None]
        /\ UNCHANGED <<open, down, proc, link, drawn, astray>>
     \/ /\ Connected(t) /\ ~open[t]
        /\ sending' = [sending EXCEPT ![t][k] = None]
        /\ astray' = TRUE
        /\ UNCHANGED <<sockVars, proc, link, drawn>>
     \/ /\ ~Connected(t)
        /\ Ends(t)
        /\ astray' = TRUE
        /\ UNCHANGED up
  /\ UNCHANGED <<daemon, policy, srvVars, bounds, intent>>

-----------------------------------------------------------------------------
(* The rest of the world. *)

\* The directory offers other exits.
Offer(e) ==
  /\ daemon = "up" /\ offers < MaxOffers /\ e # mesh
  /\ mesh' = e /\ offers' = offers + 1
  /\ UNCHANGED <<daemon, auto, saved, srvVars, sockVars, proc, link, drawn, sending,
                 clicks, faults, ghosts>>

\* A tray is suspended.
Stall(t) ==
  /\ Fault /\ Alive(t)
  /\ proc' = [proc EXCEPT ![t] = "stalled"]
  /\ UNCHANGED <<daemon, policy, srvVars, sockVars, link, drawn, sending, clicks,
                 offers, ghosts>>

Resume(t) ==
  /\ proc[t] = "stalled"
  /\ proc' = [proc EXCEPT ![t] = "on"]
  /\ UNCHANGED <<daemon, policy, srvVars, sockVars, link, drawn, sending, bounds,
                 ghosts>>

Quit(t) ==
  /\ Fault /\ Alive(t)
  /\ Ends(t)
  /\ astray' = (astray \/ IsAuto(sending[t]["menu"]))
  /\ UNCHANGED <<daemon, policy, srvVars, up, clicks, offers, intent>>

\* The daemon ends, and with it what its goroutines were about to do; the next
\* one takes auto_vpn from agent.yml and knows no exits yet (runAgent).
Stop ==
  /\ Fault /\ daemon = "up"
  /\ daemon' = "down"
  /\ auto' = saved /\ mesh' = NoExits /\ status' = Zero
  /\ clients' = {} /\ mu' = None
  /\ push' = [p \in Pushers |-> NoPush]
  /\ serving' = [t \in Trays |-> "none"]
  /\ open' = [t \in Trays |-> FALSE] /\ up' = [t \in Trays |-> <<>>]
  /\ astray' = (astray \/ \E t \in Trays : InFlight(t))
  /\ UNCHANGED <<saved, down, proc, link, drawn, sending, clicks, offers, intent>>

Start ==
  /\ daemon = "down" /\ daemon' = "up"
  /\ UNCHANGED <<policy, srvVars, sockVars, proc, link, drawn, sending, bounds, ghosts>>

Serve(t) == Enter(t) \/ SetAutoVPN(t) \/ SetExit(t) \/ RefusePrivileged(t) \/ Forget(t)
Draw(t)  == Dial(t) \/ DialFails(t) \/ streamStatus(t) \/ SetCheckbox(t) \/ Lost(t)
              \/ Retry(t)

Next ==
  \/ checkAndPush \/ UpdateTrayStatus
  \/ \E p \in Pushers : PushLock(p) \/ PushWrite(p)
  \/ \E t \in Trays : \/ Serve(t) \/ Draw(t)
                      \/ ClickAutoVPN(t) \/ ClickReinit(t) \/ watchExitClick(t)
                      \/ Stall(t) \/ Resume(t) \/ Quit(t)
  \/ \E t \in Trays, k \in Senders : sendCmd(t, k)
  \/ \E e \in Exits : Offer(e)
  \/ Stop \/ Start

Spec == Init /\ [][Next]_vars

\* Every goroutine runs on, sync.Mutex lets everybody in sooner or later, a
\* suspended tray is resumed and the supervisor starts the daemon again.
FairSpec ==
  /\ Spec
  /\ WF_vars(checkAndPush) /\ WF_vars(UpdateTrayStatus) /\ WF_vars(Start)
  /\ \A p \in Pushers : SF_vars(PushLock(p)) /\ WF_vars(PushWrite(p))
  /\ \A t \in Trays : SF_vars(Serve(t)) /\ WF_vars(Draw(t)) /\ WF_vars(Resume(t))
  /\ \A t \in Trays, k \in Senders : WF_vars(sendCmd(t, k))

-----------------------------------------------------------------------------

MenuShows(m, s) == /\ m.shown = (s.exits # {})
                   /\ m.shown => m.items = s.exits /\ m.tick = s.cur

\* A tray that is running comes to show what the daemon goes by: the checkbox
\* its preference, the exit menu exactly the exits it knows and the one in use;
\* after clicks that were lost, refused or crossed by a status, after trays
\* that stalled or died under the lock, and after restarts of the daemon
\* (tray_server.go:224, cmd/theta-agent-tray/exit_menu.go:80).
TrayConverges ==
  <>[](\A t \in Trays :
         Alive(t) => /\ box[t] = auto
                     /\ ui[t] = Status(auto, mesh)
                     /\ MenuShows(menu[t], Status(auto, mesh)))

\* Once no click is under way the preference is the one that was clicked last,
\* in the daemon and in agent.yml, whatever statuses overtook the click and
\* however often the daemon restarted since; excepted are clicks that were lost
\* with a connection or made on two trays at once (tray_server.go:125).
IntentKept ==
  (~astray /\ \A t \in Trays : ~InFlight(t)) => saved = intent /\ auto = intent
=============================================================================
