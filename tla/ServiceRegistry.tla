--------------------------- MODULE ServiceRegistry ---------------------------
(***************************************************************************)
(* The `services:` list of agent.yml and the child resources the directory *)
(* derives from it (service_registration.go, config.go, telemetry.go,      *)
(* websocket.go).                                                          *)
(*                                                                         *)
(* Three parties rewrite agent.yml: `theta-agent register/unregister`, each*)
(* in a process of its own; the daemon's read loop, when the directory     *)
(* sends register_service; and the daemon's tray handler, for auto_vpn.    *)
(* Every rewrite is read, edit the text, truncate, write, load.  The       *)
(* daemon's are serialised by cm.mu; nothing serialises processes.         *)
(*                                                                         *)
(* Three things tell the directory: a register_service frame the daemon    *)
(* sends for the command line, the same frame over a one-shot connection   *)
(* when the daemon's socket is not there, and the full list in every       *)
(* telemetry frame, which is what heals the other two.                     *)
(***************************************************************************)
EXTENDS Naturals, Sequences, FiniteSets

CONSTANTS Names,        \* of services
          Existing,     \* those that exist on the host
          CLIs,         \* processes of the command line
          readLoop, trayConn,   \* the goroutines of the daemon that write
          StartDocs,    \* agent.yml at the start
          None,
          Faults,       \* subset of {"drop", "stop", "die"}
          MaxEdits, MaxFaults, MaxQueue

Goroutines == {readLoop, trayConn}
Writers    == CLIs \cup Goroutines
Process(w) == IF w \in CLIs THEN w ELSE "daemon"

\* The goroutines are the daemon's, and no command line is the daemon.
ASSUME WritersAssumption ==
  Goroutines \cap (CLIs \cup {None}) = {} /\ "daemon" \notin CLIs

\* A text of agent.yml: the object and the scalar entries under services:, the
\* scalar items of another list (capabilities.service_control), the auto_vpn
\* key and all the others; whether the entries are written without indentation,
\* which is legal YAML; whether the whole can be decoded.
Docs == [named : SUBSET Names, plain : SUBSET Names, control : SUBSET Names,
         flush : BOOLEAN, vpn : BOOLEAN, rest : BOOLEAN, readable : BOOLEAN]

Empty == [named |-> {}, plain |-> {}, control |-> {}, flush |-> FALSE,
          vpn |-> FALSE, rest |-> FALSE, readable |-> FALSE]

Services(d) == d.named \cup d.plain

Jobs == [op : {"add", "remove"}, name : Names] \cup [op : {"vpn"}, value : BOOLEAN]

VARIABLES disk,      \* agent.yml
          stamp,     \* its modification time and size
          daemon,    \* "up" or "down"
          current,   \* cm.current
          lastMod,   \* cm.lastMod and cm.lastSize, 0 before the first reload
          mu,        \* the goroutine that holds cm.mu
          pc, job, buf,     \* each writer: where it is, its edit, the new text
          tick,      \* StartTelemetryLoop: where it is and what it has read
          link,      \* "up" while currentWriter is set
          up, down,  \* frames to and from the directory
          asked,     \* commands written to the tray socket, not yet handled
          oneShot,   \* each command line's own connection
          children,  \* the directory's child resources of this host
          edits, faults,    \* counters for the bounds
          want,      \* ghost: the edits written so far, each applied whole
          mixed      \* ghost: two processes rewrote the file at once, or one died

fileVars   == <<disk, stamp>>
memVars    == <<current, lastMod>>
writerVars == <<mu, pc, job, buf>>
wireVars   == <<link, up, down>>
ghosts     == <<want, mixed>>
vars == <<fileVars, daemon, memVars, writerVars, tick, wireVars, asked, oneShot,
          children, edits, faults, ghosts>>

Idle == [pc |-> "off", stat |-> 0, cfg |-> Empty, first |-> FALSE]

Init ==
  /\ disk \in StartDocs /\ stamp = 1
  /\ daemon = "up" /\ current = disk /\ lastMod = 0
  /\ mu = None
  /\ pc = [w \in Writers |-> "idle"]
  /\ job = [w \in Writers |-> None]
  /\ buf = [w \in Writers |-> Empty]
  /\ tick = Idle
  /\ link = "down" /\ up = <<>> /\ down = <<>>
  /\ asked = [c \in CLIs |-> None]
  /\ oneShot = [c \in CLIs |-> "none"]
  /\ children = Services(disk)
  /\ edits = 0 /\ faults = 0
  /\ want = disk /\ mixed = FALSE

-----------------------------------------------------------------------------
(* Edits of the text. *)

\* addYamlListItem: refused when an item of that name is found anywhere in the
\* text.  The entry is indented by two spaces and put before the next line that
\* is not, which in a list without indentation is the list's first entry.
addYamlListItem(d, n) ==
  [d EXCEPT !.named = @ \cup {n},
            !.readable = ~(d.flush /\ Services(d) # {})]

MayAdd(d, n) == n \notin d.named \cup d.plain \cup d.control

\* removeYamlListItem: an object entry, or else every scalar item of that name.
removeYamlListItem(d, n) ==
  IF n \in d.named THEN [d EXCEPT !.named = @ \ {n}]
  ELSE [d EXCEPT !.plain = @ \ {n}, !.control = @ \ {n}]

MayRemove(d, n) == n \in d.named \cup d.plain \cup d.control

\* setYamlScalarValue; a text with a key in it can be decoded.
setYamlScalarValue(d, value) == [d EXCEPT !.vpn = value, !.readable = @ \/ d = Empty]

MayEdit(d, j) == CASE j.op = "add"    -> MayAdd(d, j.name)
                   [] j.op = "remove" -> MayRemove(d, j.name)
                   [] OTHER           -> TRUE

EditText(d, j) == CASE j.op = "add"    -> addYamlListItem(d, j.name)
                    [] j.op = "remove" -> removeYamlListItem(d, j.name)
                    [] OTHER           -> setYamlScalarValue(d, j.value)

\* What an edit is to do to the configuration.
Wanted(d, j) == CASE j.op = "add"    -> [d EXCEPT !.named = @ \cup {j.name}]
                  [] j.op = "remove" -> [d EXCEPT !.named = @ \ {j.name},
                                                  !.plain = @ \ {j.name}]
                  [] OTHER           -> [d EXCEPT !.vpn = j.value]

-----------------------------------------------------------------------------
(* PersistService and PersistAutoVPN, in whichever process. *)

Goto(w, to) == pc' = [pc EXCEPT ![w] = to]

Reply(w, result) ==
  /\ pc[w] = "read" \/ pc[w] = "load"
  /\ IF w = readLoop
     THEN up' = Append(up, [kind |-> result, job |-> job[w]])
     ELSE UNCHANGED up
  /\ Goto(w, "idle")
  /\ job' = [job EXCEPT ![w] = None]

\* The lock is taken, the file read and the new text made.
Overlaps(w) == \E v \in Writers : /\ Process(v) # Process(w)
                                  /\ pc[v] \in {"truncate", "fill"}

\* Goroutines of the daemon that do not exclude each other.
ReadUnlocked(w) ==
  /\ pc[w] = "read" /\ MayEdit(disk, job[w])
  /\ mu' = IF w \in Goroutines THEN w ELSE mu
  /\ buf' = [buf EXCEPT ![w] = EditText(disk, job[w])]
  /\ mixed' = (mixed \/ Overlaps(w))
  /\ Goto(w, "truncate")
  /\ UNCHANGED <<fileVars, daemon, memVars, job, tick, wireVars, asked, oneShot,
                 children, edits, faults, want>>

Read(w) ==
  /\ pc[w] = "read" /\ MayEdit(disk, job[w])
  /\ w \in Goroutines => mu = None
  /\ mu' = IF w \in Goroutines THEN w ELSE mu
  /\ buf' = [buf EXCEPT ![w] = EditText(disk, job[w])]
  /\ mixed' = (mixed \/ Overlaps(w))
  /\ Goto(w, "truncate")
  /\ UNCHANGED <<fileVars, daemon, memVars, job, tick, wireVars, asked, oneShot,
                 children, edits, faults, want>>

\* "already registered", "not registered": nothing is written or pushed.
Refused(w) ==
  /\ pc[w] = "read" /\ ~MayEdit(disk, job[w])
  /\ w \in Goroutines => mu = None
  /\ Len(up) < MaxQueue
  /\ Reply(w, "error")
  /\ UNCHANGED <<fileVars, daemon, memVars, mu, buf, tick, link, down, asked,
                 oneShot, children, edits, faults, ghosts>>

\* os.WriteFile truncates the file and then writes it.
Truncate(w) ==
  /\ pc[w] = "truncate"
  /\ disk' = Empty /\ stamp' = stamp + 1
  /\ Goto(w, "fill")
  /\ UNCHANGED <<daemon, memVars, mu, job, buf, tick, wireVars, asked, oneShot,
                 children, edits, faults, ghosts>>

Fill(w) ==
  /\ pc[w] = "fill"
  /\ disk' = buf[w] /\ stamp' = stamp + 1
  /\ want' = Wanted(want, job[w])
  /\ buf' = [buf EXCEPT ![w] = Empty]
  /\ Goto(w, "load")
  /\ UNCHANGED <<daemon, memVars, mu, job, tick, wireVars, asked, oneShot,
                 children, edits, faults, mixed>>

\* The new text is decoded; what another process has just truncated is not.
Load(w) ==
  /\ pc[w] = "load"
  /\ Len(up) < MaxQueue
  /\ mu' = IF w \in Goroutines THEN None ELSE mu
  /\ IF w \in CLIs
     THEN /\ IF disk.readable THEN Goto(w, "push") /\ UNCHANGED job
             ELSE Goto(w, "idle") /\ job' = [job EXCEPT ![w] = None]
          /\ UNCHANGED <<current, up>>
     ELSE /\ current' = IF disk.readable THEN disk ELSE current
          /\ Reply(w, IF disk.readable THEN "ok" ELSE "error")
  /\ UNCHANGED <<fileVars, daemon, lastMod, buf, tick, link, down, asked,
                 oneShot, children, edits, faults, ghosts>>

-----------------------------------------------------------------------------
(* The command line: register and unregister. *)

\* A typo fails before anything is written; what is gone can be unregistered.
validateServiceExists(j) == j.op = "remove" \/ j.name \in Existing

\* A command that is not valid, or that cannot load agent.yml, changes nothing.
registerService(c, j) ==
  /\ pc[c] = "idle" /\ edits < MaxEdits
  /\ validateServiceExists(j) /\ disk.readable
  /\ Goto(c, "read")
  /\ job' = [job EXCEPT ![c] = j]
  /\ edits' = edits + 1
  /\ UNCHANGED <<fileVars, daemon, memVars, mu, buf, tick, wireVars, asked,
                 oneShot, children, faults, ghosts>>

Exit(c) == Goto(c, "idle") /\ job' = [job EXCEPT ![c] = None]

\* pushServiceRegistration: done as soon as the daemon's socket has taken the
\* command, whatever the daemon can do with it.
AskDaemon(c) ==
  /\ pc[c] = "push" /\ daemon = "up"
  /\ asked' = [asked EXCEPT ![c] = job[c]]
  /\ Exit(c)
  /\ UNCHANGED <<fileVars, daemon, memVars, mu, buf, tick, wireVars, oneShot,
                 children, edits, faults, ghosts>>

\* No socket: a connection of its own, which takes the place of the daemon's.
DialOneShot(c) ==
  /\ pc[c] = "push" /\ daemon = "down"
  /\ \/ Goto(c, "send") /\ oneShot' = [d \in CLIs |-> IF d = c THEN "open" ELSE
                                         IF oneShot[d] = "open" THEN "lost"
                                         ELSE oneShot[d]]
        /\ UNCHANGED job
     \/ Exit(c) /\ UNCHANGED oneShot
  /\ UNCHANGED <<fileVars, daemon, memVars, mu, buf, tick, wireVars, asked,
                 children, edits, faults, ghosts>>

Apply(set, j) == IF j.op = "add" THEN set \cup {j.name} ELSE set \ {j.name}

\* Welcome read, frame sent and taken by the directory.
SendOneShot(c) ==
  /\ pc[c] = "send"
  /\ IF oneShot[c] = "open"
     THEN /\ children' = Apply(children, job[c])
          /\ Goto(c, "answer") /\ UNCHANGED <<job, oneShot>>
     ELSE /\ Exit(c)
          /\ oneShot' = [oneShot EXCEPT ![c] = "none"]
          /\ UNCHANGED children
  /\ UNCHANGED <<fileVars, daemon, memVars, mu, buf, tick, wireVars, asked, edits,
                 faults, ghosts>>

AnswerOneShot(c) ==
  /\ pc[c] = "answer"
  /\ Exit(c)
  /\ oneShot' = [oneShot EXCEPT ![c] = "none"]
  /\ UNCHANGED <<fileVars, daemon, memVars, mu, buf, tick, wireVars, asked,
                 children, edits, faults, ghosts>>

-----------------------------------------------------------------------------
(* The daemon's connections. *)

\* handleCommand of the tray server and pushServiceFrame.
pushServiceFrame(c) ==
  /\ daemon = "up" /\ asked[c] # None /\ Len(up) < MaxQueue
  /\ up' = IF link = "up" THEN Append(up, [kind |-> "frame", job |-> asked[c]])
           ELSE up
  /\ asked' = [asked EXCEPT ![c] = None]
  /\ UNCHANGED <<fileVars, daemon, memVars, writerVars, tick, link, down, oneShot,
                 children, edits, faults, ghosts>>

\* set_auto_vpn from the tray.
SetAutoVPN(value) ==
  /\ daemon = "up" /\ pc[trayConn] = "idle" /\ edits < MaxEdits
  /\ Goto(trayConn, "read")
  /\ job' = [job EXCEPT ![trayConn] = [op |-> "vpn", value |-> value]]
  /\ edits' = edits + 1
  /\ UNCHANGED <<fileVars, daemon, memVars, mu, buf, tick, wireVars, asked,
                 oneShot, children, faults, ghosts>>

\* The read loop takes register_service, signed and permitted, once the first
\* frames are out.
TakeCommand ==
  /\ link = "up" /\ ~tick.first /\ pc[readLoop] = "idle" /\ down # <<>>
  /\ Goto(readLoop, "read")
  /\ job' = [job EXCEPT ![readLoop] = Head(down)]
  /\ down' = Tail(down)
  /\ UNCHANGED <<fileVars, daemon, memVars, mu, buf, tick, link, up, asked,
                 oneShot, children, edits, faults, ghosts>>

Connect ==
  /\ daemon = "up" /\ link = "down" /\ current.rest /\ pc[readLoop] = "idle"
  /\ link' = "up" /\ up' = <<>> /\ down' = <<>>
  /\ tick' = [Idle EXCEPT !.pc = "stat", !.first = TRUE]
  /\ oneShot' = [c \in CLIs |-> IF oneShot[c] = "open" THEN "lost" ELSE oneShot[c]]
  /\ UNCHANGED <<fileVars, daemon, memVars, writerVars, asked, children, edits,
                 faults, ghosts>>

-----------------------------------------------------------------------------
(* StartTelemetryLoop: reload, then report the whole list. *)

\* ReloadIfChanged, first half: an unchanged file is not read.
TickStat ==
  /\ tick.pc = "stat"
  /\ tick' = [tick EXCEPT !.stat = stamp,
                          !.pc = IF stamp = lastMod THEN "get" ELSE "load"]
  /\ UNCHANGED <<fileVars, daemon, memVars, writerVars, wireVars, asked, oneShot,
                 children, edits, faults, ghosts>>

\* An empty file taken for an empty configuration.
TickLoadAny ==
  /\ tick.pc = "load"
  /\ tick' = [tick EXCEPT !.cfg = disk, !.pc = "store"]
  /\ UNCHANGED <<fileVars, daemon, memVars, writerVars, wireVars, asked, oneShot,
                 children, edits, faults, ghosts>>

\* A file that cannot be decoded is left for the next tick.
TickLoad ==
  /\ tick.pc = "load"
  /\ tick' = IF disk.readable THEN [tick EXCEPT !.cfg = disk, !.pc = "store"]
             ELSE [tick EXCEPT !.pc = "get"]
  /\ UNCHANGED <<fileVars, daemon, memVars, writerVars, wireVars, asked, oneShot,
                 children, edits, faults, ghosts>>

\* ... stored with the time stamp of when the file is stored.
TickStoreLate ==
  /\ tick.pc = "store" /\ mu = None
  /\ current' = tick.cfg /\ lastMod' = stamp
  /\ tick' = [tick EXCEPT !.pc = "get"]
  /\ UNCHANGED <<fileVars, daemon, writerVars, wireVars, asked, oneShot,
                 children, edits, faults, ghosts>>

\* Second half, under the lock, with the time stamp from before the read.
TickStore ==
  /\ tick.pc = "store" /\ mu = None
  /\ current' = tick.cfg /\ lastMod' = tick.stat
  /\ tick' = [tick EXCEPT !.pc = "get", !.cfg = Empty]
  /\ UNCHANGED <<fileVars, daemon, writerVars, wireVars, asked, oneShot,
                 children, edits, faults, ghosts>>

\* The list is fixed before the services are probed; without the telemetry
\* capability only the first report is sent.
TickGet ==
  /\ tick.pc = "get" /\ mu = None
  /\ tick' = [tick EXCEPT !.cfg = current,
                          !.pc = IF tick.first \/ current.rest THEN "send" ELSE "wait"]
  /\ UNCHANGED <<fileVars, daemon, memVars, writerVars, wireVars, asked, oneShot,
                 children, edits, faults, ghosts>>

pushTelemetry ==
  /\ tick.pc = "send" /\ Len(up) < MaxQueue
  /\ up' = Append(up, [kind |-> "report", list |-> Services(tick.cfg)])
  /\ tick' = [Idle EXCEPT !.pc = "wait"]
  /\ UNCHANGED <<fileVars, daemon, memVars, writerVars, link, down, asked, oneShot,
                 children, edits, faults, ghosts>>

\* Thirty seconds later.
TickAgain ==
  /\ tick.pc = "wait"
  /\ tick' = [tick EXCEPT !.pc = "stat"]
  /\ UNCHANGED <<fileVars, daemon, memVars, writerVars, wireVars, asked, oneShot,
                 children, edits, faults, ghosts>>

-----------------------------------------------------------------------------
(* The directory.  External: how it reads the frames is taken from the      *)
(* comments in telemetry.go and service_registration.go.                    *)

Receive ==
  /\ up # <<>>
  /\ up' = Tail(up)
  /\ LET f == Head(up)
     IN  children' = CASE f.kind = "report"              -> f.list
                       [] f.kind = "frame"               -> Apply(children, f.job)
                       [] f.kind = "ok" /\ f.job.op # "vpn" -> Apply(children, f.job)
                       [] OTHER                          -> children
  /\ UNCHANGED <<fileVars, daemon, memVars, writerVars, tick, link, down, asked,
                 oneShot, edits, faults, ghosts>>

\* An administrator registers a service from the directory.
Command(j) ==
  /\ link = "up" /\ edits < MaxEdits
  /\ down' = Append(down, j)
  /\ edits' = edits + 1
  /\ UNCHANGED <<fileVars, daemon, memVars, writerVars, tick, link, up, asked,
                 oneShot, children, faults, ghosts>>

-----------------------------------------------------------------------------
(* Faults. *)

Fault(kind) == kind \in Faults /\ faults < MaxFaults /\ faults' = faults + 1

\* The connection breaks; frames in flight are lost.
Drop ==
  /\ Fault("drop") /\ link = "up"
  /\ link' = "down" /\ up' = <<>> /\ down' = <<>>
  /\ tick' = Idle
  /\ UNCHANGED <<fileVars, daemon, memVars, writerVars, asked, oneShot, children,
                 edits, ghosts>>

\* The daemon stops, in the middle of a rewrite or not.
Stop ==
  /\ Fault("stop") /\ daemon = "up"
  /\ daemon' = "down" /\ link' = "down" /\ up' = <<>> /\ down' = <<>>
  /\ tick' = Idle /\ mu' = None
  /\ pc' = [w \in Writers |-> IF w \in Goroutines THEN "idle" ELSE pc[w]]
  /\ job' = [w \in Writers |-> IF w \in Goroutines THEN None ELSE job[w]]
  /\ buf' = [w \in Writers |-> IF w \in Goroutines THEN Empty ELSE buf[w]]
  /\ asked' = [c \in CLIs |-> None]
  /\ mixed' = (mixed \/ \E w \in Goroutines : pc[w] = "fill")
  /\ UNCHANGED <<fileVars, memVars, oneShot, children, edits, want>>

\* runAgent: a file that cannot be loaded ends the start.
Start ==
  /\ daemon = "down" /\ disk.readable
  /\ daemon' = "up" /\ current' = disk /\ lastMod' = 0
  /\ UNCHANGED <<fileVars, writerVars, tick, wireVars, asked, oneShot, children,
                 edits, faults, ghosts>>

\* A command line process is killed.
Die(c) ==
  /\ Fault("die") /\ pc[c] # "idle"
  /\ Exit(c)
  /\ buf' = [buf EXCEPT ![c] = Empty]
  /\ oneShot' = [oneShot EXCEPT ![c] = "none"]
  /\ mixed' = (mixed \/ pc[c] = "fill")
  /\ UNCHANGED <<fileVars, daemon, memVars, mu, tick, wireVars, asked, children,
                 edits, want>>

-----------------------------------------------------------------------------

ServiceJobs == {j \in Jobs : j.op # "vpn"}

Persist(w) == Read(w) \/ Refused(w) \/ Truncate(w) \/ Fill(w) \/ Load(w)

Push(c) == AskDaemon(c) \/ DialOneShot(c) \/ SendOneShot(c) \/ AnswerOneShot(c)

Ticker == \/ TickStat \/ TickLoad \/ TickStore \/ TickGet \/ pushTelemetry
          \/ TickAgain

Next ==
  \/ \E w \in Writers : Persist(w)
  \/ \E c \in CLIs : Push(c) \/ pushServiceFrame(c) \/ Die(c)
  \/ \E c \in CLIs, j \in ServiceJobs : registerService(c, j)
  \/ \E value \in BOOLEAN : SetAutoVPN(value)
  \/ \E j \in ServiceJobs : Command(j)
  \/ TakeCommand \/ Connect \/ Ticker \/ Receive
  \/ Drop \/ Stop \/ Start

Spec == Init /\ [][Next]_vars

\* Goroutines and processes run on, the ticker ticks, the daemon redials and is
\* started again by its supervisor; nobody has to edit or to fail.
FairSpec ==
  /\ Spec
  /\ \A w \in Writers : WF_vars(Persist(w))
  /\ \A c \in CLIs : WF_vars(Push(c)) /\ WF_vars(pushServiceFrame(c))
  /\ WF_vars(TakeCommand) /\ WF_vars(Connect) /\ WF_vars(Ticker)
  /\ WF_vars(Receive) /\ WF_vars(Start)

-----------------------------------------------------------------------------

Settled == \A w \in Writers : pc[w] # "fill"

\* Edits of agent.yml that do not overlap across processes are all in the file,
\* and the file holds nothing else that is new: no edit of the daemon's own
\* goroutines is lost to another, no other list, key or entry is touched, and
\* the result can be loaded (config.go:422, :467, :524).
EditsKept ==
  (~mixed /\ Settled) =>
    /\ Services(disk) = Services(want)
    /\ disk.vpn = want.vpn /\ disk.control = want.control
    /\ disk.rest /\ disk.readable

\* A half-written file never takes the running agent's configuration away
\* (config.go:235).
ConfigHeld == (~mixed /\ daemon = "up") => current.rest

\* Whatever frames were lost, sent twice, refused or overtaken by a report made
\* from an older list, the directory's children end up as the list in agent.yml
\* once edits and faults have stopped, also after two processes have overwritten
\* each other's edit (telemetry.go:801, service_registration.go:433).  Excepted
\* is a daemon whose own edit read the file another process had just truncated:
\* it has lost its credential and, when not connected, never loads the file again.
ChildrenConverge ==
  <>[](disk.readable /\ disk.rest /\ current.rest => children = Services(disk))
=============================================================================
