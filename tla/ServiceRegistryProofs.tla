------------------------ MODULE ServiceRegistryProofs ------------------------
(***************************************************************************)
(* Proofs about ServiceRegistry, for every set of services and of command  *)
(* line processes, and any number of edits, faults and queued frames.      *)
(***************************************************************************)
EXTENDS ServiceRegistry, TLAPS

\* A text the line edits were written for: entries of services: are indented
\* and named once, and no other list has items on lines of their own, as in
\* the agent.yml of install.sh and of PersistService.
Plain(d) ==
  /\ d \in Docs
  /\ d.control = {} /\ ~d.flush /\ d.named \cap d.plain = {}
  /\ d.rest /\ d.readable

\* The text holds the wanted configuration.
Holds(d, w) ==
  /\ Plain(d) /\ w \in Docs /\ w.control = {}
  /\ Services(d) = Services(w) /\ d.vpn = w.vpn

Busy == {"truncate", "fill"}

\* Where everybody is and what they hold.
Writing ==
  /\ pc \in [Writers -> {"idle", "read", "truncate", "fill", "load", "push",
                         "send", "answer"}]
  /\ DOMAIN job = Writers
  /\ \A w \in Writers : pc[w] # "idle" => job[w] \in Jobs
  /\ down \in Seq(Jobs)
  /\ DOMAIN buf = Writers
  /\ mixed \in BOOLEAN

\* cm.mu is held by the goroutine that rewrites the file.
Locked == \A w \in Goroutines : pc[w] \in Busy \cup {"load"} => mu = w

\* One writer at a time, which has the next text in hand and the file empty
\* only in between.
OneWriter ==
  /\ \A v, w \in Writers : pc[v] \in Busy /\ pc[w] \in Busy => v = w
  /\ \A w \in Writers : pc[w] \in Busy => Holds(buf[w], Wanted(want, job[w]))
  /\ (\A w \in Writers : pc[w] # "fill") => Holds(disk, want)
  /\ want \in Docs /\ want.control = {}
  /\ disk = Empty \/ Plain(disk)

FileInv == Writing /\ Locked /\ (mixed \/ OneWriter)

\* What the daemon has loaded, or is about to store, is a whole configuration.
Whole ==
  /\ daemon = "up" => current.rest
  /\ tick.pc = "store" => tick.cfg.rest

TickShape ==
  tick = [pc |-> tick.pc, stat |-> tick.stat, cfg |-> tick.cfg, first |-> tick.first]

\* The inductive invariant behind EditsKept and ConfigHeld.
RegistryInv == FileInv /\ TickShape /\ (mixed \/ Whole)

\* An edit the text admits does to a plain text what it is to do.
LEMMA EditRight ==
  ASSUME NEW d, NEW w, NEW j \in Jobs, Holds(d, w), MayEdit(d, j)
  PROVE  Holds(EditText(d, j), Wanted(w, j))
<1> DEFINE e == EditText(d, j)
           v == Wanted(w, j)
<1>0. /\ d \in Docs /\ d.control = {} /\ d.flush = FALSE /\ d.named \cap d.plain = {}
      /\ d.rest = TRUE /\ d.readable = TRUE
      /\ w \in Docs /\ w.control = {} /\ d.vpn = w.vpn
      /\ d.named \cup d.plain = w.named \cup w.plain
    BY DEF Holds, Plain, Services, Docs
<1>f. /\ d.named \in SUBSET Names /\ d.plain \in SUBSET Names
      /\ w.named \in SUBSET Names /\ w.plain \in SUBSET Names
    BY <1>0 DEF Docs
<1>1. CASE j.op = "add"
    <2>1. j.name \in Names /\ j.name \notin d.plain
        BY <1>1 DEF Jobs, MayEdit, MayAdd
    <2>2. e = [d EXCEPT !.named = d.named \cup {j.name}, !.readable = TRUE]
        BY <1>0, <1>1 DEF EditText, addYamlListItem
    <2>3. v = [w EXCEPT !.named = w.named \cup {j.name}]
        BY <1>1 DEF Wanted
    <2>4. /\ e \in Docs /\ e.named = d.named \cup {j.name} /\ e.plain = d.plain
          /\ e.control = {} /\ e.flush = FALSE /\ e.vpn = d.vpn /\ e.rest = TRUE /\ e.readable = TRUE
        <3> HIDE DEF e
        <3> QED BY <1>0, <2>1, <2>2 DEF Docs
    <2>5. /\ v \in Docs /\ v.named = w.named \cup {j.name} /\ v.plain = w.plain
          /\ v.control = {} /\ v.vpn = w.vpn
        <3> HIDE DEF v
        <3> QED BY <1>0, <2>1, <2>3 DEF Docs
    <2>6. /\ e.named \cap e.plain = {}
          /\ e.named \cup e.plain = v.named \cup v.plain
        <3> HIDE DEF e, v
        <3> QED BY <1>0, <2>1, <2>4, <2>5
    <2> HIDE DEF e, v
    <2>7. Holds(e, v)
        BY <1>0, <2>4, <2>5, <2>6 DEF Holds, Plain, Services
    <2> QED
        BY <2>7 DEF e, v
<1>2. CASE j.op = "remove"
    <2>1. j.name \in Names
        BY <1>2 DEF Jobs
    <2>2. v = [w EXCEPT !.named = w.named \ {j.name}, !.plain = w.plain \ {j.name}]
        BY <1>2 DEF Wanted
    <2>3. /\ v \in Docs /\ v.named = w.named \ {j.name} /\ v.plain = w.plain \ {j.name}
          /\ v.control = {} /\ v.vpn = w.vpn
        <3> HIDE DEF v
        <3> QED BY <1>0, <2>1, <2>2 DEF Docs
    <2>4. /\ e \in Docs /\ e.named = d.named \ {j.name} /\ e.plain = d.plain \ {j.name}
          /\ e.control = {} /\ e.flush = FALSE /\ e.vpn = d.vpn /\ e.rest = TRUE /\ e.readable = TRUE
        <3>1. CASE j.name \in d.named
            <4>1. e = [d EXCEPT !.named = d.named \ {j.name}]
                BY <1>2, <3>1 DEF EditText, removeYamlListItem
            <4>2. d.plain = d.plain \ {j.name}
                BY <1>0, <3>1
            <4> HIDE DEF e
            <4> QED
                BY <1>0, <4>1, <4>2 DEF Docs
        <3>2. CASE j.name \notin d.named
            <4>1. e = [d EXCEPT !.plain = d.plain \ {j.name}, !.control = d.control \ {j.name}]
                BY <1>2, <3>2 DEF EditText, removeYamlListItem
            <4>2. d.named = d.named \ {j.name} /\ d.control \ {j.name} = {}
                BY <1>0, <3>2
            <4> HIDE DEF e
            <4> QED
                BY <1>0, <4>1, <4>2 DEF Docs
        <3> QED
            BY <3>1, <3>2
    <2>5. /\ e.named \cap e.plain = {}
          /\ e.named \cup e.plain = v.named \cup v.plain
        <3> HIDE DEF e, v
        <3> QED BY <1>0, <2>3, <2>4
    <2> HIDE DEF e, v
    <2>6. Holds(e, v)
        BY <1>0, <2>3, <2>4, <2>5 DEF Holds, Plain, Services
    <2> QED
        BY <2>6 DEF e, v
<1>3. CASE j.op = "vpn"
    <2>1. j.value \in BOOLEAN
        BY <1>3 DEF Jobs
    <2>2. e = [d EXCEPT !.vpn = j.value, !.readable = TRUE]
        BY <1>0, <1>3 DEF EditText, setYamlScalarValue
    <2>3. v = [w EXCEPT !.vpn = j.value]
        BY <1>3 DEF Wanted
    <2>4. /\ e \in Docs /\ e.named = d.named /\ e.plain = d.plain
          /\ e.control = {} /\ e.flush = FALSE /\ e.vpn = j.value /\ e.rest = TRUE /\ e.readable = TRUE
        <3> HIDE DEF e
        <3> QED BY <1>0, <2>1, <2>2 DEF Docs
    <2>5. /\ v \in Docs /\ v.named = w.named /\ v.plain = w.plain
          /\ v.control = {} /\ v.vpn = j.value
        <3> HIDE DEF v
        <3> QED BY <1>0, <2>1, <2>3 DEF Docs
    <2> HIDE DEF e, v
    <2>6. Holds(e, v)
        BY <1>0, <2>4, <2>5 DEF Holds, Plain, Services
    <2> QED
        BY <2>6 DEF e, v
<1> QED
    BY <1>1, <1>2, <1>3 DEF Jobs

\* What holds, whatever else the text is.
LEMMA HoldsWhole ==
  ASSUME NEW d, NEW w, Holds(d, w)
  PROVE  Plain(d) /\ d.rest /\ d.readable /\ d # Empty
BY DEF Holds, Plain, Empty

\* A writer that is not rewriting the file goes on, or gives the lock back.
LEMMA QuietMove ==
  ASSUME FileInv, NEW w \in Writers, pc[w] \notin Busy,
         NEW to \in {"idle", "read", "push", "send", "answer"},
         pc' = [pc EXCEPT ![w] = to],
         job' = job \/ (\E x : job' = [job EXCEPT ![w] = x] /\ (to # "idle" => x \in Jobs)),
         to # "idle" => job'[w] \in Jobs,
         \/ mu' = mu
         \/ w \in Goroutines /\ pc[w] = "load" /\ mu' = None,
         down' \in Seq(Jobs), UNCHANGED <<disk, buf, want, mixed>>
  PROVE  FileInv'
<1>1. /\ pc \in [Writers -> {"idle", "read", "truncate", "fill", "load", "push",
                              "send", "answer"}]
      /\ pc'[w] = to /\ \A v \in Writers \ {w} : pc'[v] = pc[v]
    BY DEF FileInv, Writing
<1>2. \A v \in Writers \ {w} : job'[v] = job[v]
    BY DEF FileInv, Writing
<1>3. DOMAIN job' = Writers
    BY DEF FileInv, Writing
<1>4. Writing'
    BY <1>1, <1>2, <1>3 DEF FileInv, Writing
<1>5. \A v \in Writers : pc'[v] \in Busy <=> pc[v] \in Busy /\ v # w
    BY <1>1 DEF Busy
<1>6. Locked'
    <2> SUFFICES ASSUME NEW v \in Goroutines, pc'[v] \in Busy \cup {"load"} PROVE mu' = v
        BY DEF Locked
    <2>1. v \in Writers /\ v # w /\ pc[v] \in Busy \cup {"load"}
        BY <1>1 DEF Writers, Busy
    <2>2. mu = v
        BY <2>1 DEF FileInv, Locked
    <2>3. ~(w \in Goroutines /\ pc[w] = "load")
        BY <2>1, <2>2 DEF FileInv, Locked
    <2> QED
        BY <2>2, <2>3
<1>7. OneWriter => OneWriter'
    <2> SUFFICES ASSUME OneWriter PROVE OneWriter'
        OBVIOUS
    <2>1. \A v, u \in Writers : pc'[v] \in Busy /\ pc'[u] \in Busy => v = u
        BY <1>5 DEF OneWriter
    <2>2. \A v \in Writers : pc'[v] \in Busy => Holds(buf[v], Wanted(want, job'[v]))
        BY <1>2, <1>5 DEF OneWriter
    <2>3. (\A v \in Writers : pc'[v] # "fill") => (\A v \in Writers : pc[v] # "fill")
        BY <1>1 DEF Busy
    <2> QED
        BY <2>1, <2>2, <2>3 DEF OneWriter
<1> QED
    BY <1>4, <1>6, <1>7 DEF FileInv

\* PersistService and PersistAutoVPN read the file: what they make of it is
\* the wanted text, or two processes are at it at once.
LEMMA ReadRight ==
  ASSUME FileInv, NEW w \in Writers, Read(w)
  PROVE  FileInv'
<1>1. /\ pc[w] = "read" /\ MayEdit(disk, job[w]) /\ (w \in Goroutines => mu = None)
      /\ pc' = [pc EXCEPT ![w] = "truncate"] /\ buf' = [buf EXCEPT ![w] = EditText(disk, job[w])]
      /\ mu' = IF w \in Goroutines THEN w ELSE mu
      /\ UNCHANGED <<disk, job, down, want>>
    BY DEF Read, Goto, fileVars, wireVars
<1>2. /\ pc'[w] = "truncate" /\ \A v \in Writers \ {w} : pc'[v] = pc[v] /\ buf'[v] = buf[v]
      /\ buf'[w] = EditText(disk, job[w]) /\ job[w] \in Jobs
    BY <1>1 DEF FileInv, Writing
<1>3. mixed' \in BOOLEAN /\ (~mixed' => ~mixed /\ ~Overlaps(w))
    BY Zenon DEF Read
<1>4. Writing'
    BY <1>1, <1>3 DEF FileInv, Writing
<1>5. Locked'
    <2> SUFFICES ASSUME NEW v \in Goroutines, pc'[v] \in Busy \cup {"load"} PROVE mu' = v
        BY DEF Locked
    <2>1. CASE v = w
        BY <1>1, <2>1
    <2>2. CASE v # w
        <3>1. mu = v /\ v # None
            BY <1>2, <2>2, WritersAssumption DEF FileInv, Locked, Writers
        <3> QED
            BY <1>1, <3>1
    <2> QED
        BY <2>1, <2>2
<1>6. ASSUME ~mixed' PROVE OneWriter'
    <2>1. \A v \in Writers : pc[v] \notin Busy
        <3> SUFFICES ASSUME NEW v \in Writers, pc[v] \in Busy PROVE FALSE
            OBVIOUS
        <3>1. Process(v) = Process(w)
            BY <1>3, <1>6 DEF Overlaps, Busy
        <3>2. v # w
            BY <1>1 DEF Busy
        <3>3. v \in Goroutines /\ w \in Goroutines
            BY <3>1, <3>2, WritersAssumption DEF Process, Writers
        <3>4. mu = v /\ mu = None
            BY <1>1, <3>3 DEF FileInv, Locked
        <3> QED
            BY <3>3, <3>4, WritersAssumption
    <2>2. OneWriter /\ Holds(disk, want)
        BY <1>3, <1>6, <2>1 DEF FileInv, OneWriter, Busy
    <2>3. Holds(buf'[w], Wanted(want, job[w]))
        BY <1>1, <1>2, <2>2, EditRight
    <2>4. \A v \in Writers : pc'[v] \in Busy => v = w
        BY <1>2, <2>1
    <2> QED
        BY <1>1, <2>2, <2>3, <2>4 DEF OneWriter
<1> QED
    BY <1>4, <1>5, <1>6 DEF FileInv

\* The file is truncated by the one writer that has the next text in hand.
LEMMA TruncateRight ==
  ASSUME FileInv, NEW w \in Writers, Truncate(w)
  PROVE  FileInv'
<1>1. /\ pc[w] = "truncate" /\ disk' = Empty /\ pc' = [pc EXCEPT ![w] = "fill"]
      /\ UNCHANGED <<mu, job, buf, down, want, mixed>>
    BY DEF Truncate, Goto, wireVars, ghosts
<1>2. pc'[w] = "fill" /\ \A v \in Writers \ {w} : pc'[v] = pc[v]
    BY <1>1 DEF FileInv, Writing
<1>3. Writing' /\ Locked'
    BY <1>1, <1>2 DEF FileInv, Writing, Locked, Busy, Writers
<1>4. OneWriter => OneWriter'
    BY <1>1, <1>2 DEF OneWriter, Busy
<1> QED
    BY <1>1, <1>3, <1>4 DEF FileInv

\* It is written: it holds what is wanted now.
LEMMA FillRight ==
  ASSUME FileInv, NEW w \in Writers, Fill(w)
  PROVE  FileInv'
<1>1. /\ pc[w] = "fill" /\ disk' = buf[w] /\ want' = Wanted(want, job[w])
      /\ buf' = [buf EXCEPT ![w] = Empty] /\ pc' = [pc EXCEPT ![w] = "load"]
      /\ UNCHANGED <<mu, job, down, mixed>>
    BY DEF Fill, Goto, wireVars
<1>2. pc'[w] = "load" /\ \A v \in Writers \ {w} : pc'[v] = pc[v]
    BY <1>1 DEF FileInv, Writing
<1>3. Writing' /\ Locked'
    BY <1>1, <1>2 DEF FileInv, Writing, Locked, Busy, Writers
<1>4. OneWriter => OneWriter'
    <2> SUFFICES ASSUME OneWriter PROVE OneWriter'
        OBVIOUS
    <2>1. Holds(disk', want')
        BY <1>1 DEF OneWriter, Busy
    <2>2. \A v \in Writers : pc'[v] \notin Busy
        BY <1>1, <1>2 DEF OneWriter, Busy
    <2> QED
        BY <2>1, <2>2 DEF OneWriter, Holds
<1> QED
    BY <1>1, <1>3, <1>4 DEF FileInv

\* The daemon stops: a goroutine's edit not yet begun is given up, one that has
\* emptied the file is noted.
LEMMA StopRight ==
  ASSUME FileInv, Stop
  PROVE  FileInv'
<1>1. /\ pc' = [w \in Writers |-> IF w \in Goroutines THEN "idle" ELSE pc[w]]
      /\ job' = [w \in Writers |-> IF w \in Goroutines THEN None ELSE job[w]]
      /\ buf' = [w \in Writers |-> IF w \in Goroutines THEN Empty ELSE buf[w]]
      /\ down' = <<>> /\ UNCHANGED <<disk, want>>
    BY DEF Stop, fileVars
<1>2. mixed' \in BOOLEAN /\ (~mixed' => ~mixed /\ ~\E w \in Goroutines : pc[w] = "fill")
    BY Zenon DEF Stop
<1>3. Writing'
    BY <1>1, <1>2 DEF FileInv, Writing
<1>4. Locked'
    BY <1>1 DEF Locked, Busy, Writers
<1>5. ASSUME ~mixed' PROVE OneWriter'
    <2>1. OneWriter /\ \A w \in Goroutines : pc[w] # "fill"
        BY <1>2, <1>5 DEF FileInv
    <2>2. \A w \in Writers : pc'[w] \in Busy =>
            pc[w] \in Busy /\ job'[w] = job[w] /\ buf'[w] = buf[w]
        BY <1>1 DEF Busy
    <2>3. (\A w \in Writers : pc'[w] # "fill") => (\A w \in Writers : pc[w] # "fill")
        BY <1>1, <2>1
    <2> QED
        BY <1>1, <2>1, <2>2, <2>3 DEF OneWriter
<1> QED
    BY <1>3, <1>4, <1>5 DEF FileInv

\* A command line is killed: likewise.
LEMMA DieRight ==
  ASSUME FileInv, NEW c \in CLIs, Die(c)
  PROVE  FileInv'
<1>1. /\ pc' = [pc EXCEPT ![c] = "idle"] /\ job' = [job EXCEPT ![c] = None]
      /\ buf' = [buf EXCEPT ![c] = Empty] /\ UNCHANGED <<disk, want, mu, down>>
    BY DEF Die, Exit, Goto, fileVars, wireVars
<1>2. mixed' \in BOOLEAN /\ (~mixed' => ~mixed /\ pc[c] # "fill")
    BY Zenon DEF Die
<1>3. /\ c \in Writers /\ pc'[c] = "idle"
      /\ \A w \in Writers \ {c} : pc'[w] = pc[w] /\ job'[w] = job[w] /\ buf'[w] = buf[w]
    BY <1>1 DEF FileInv, Writing, Writers
<1>4. Writing' /\ Locked'
    BY <1>1, <1>2, <1>3 DEF FileInv, Writing, Locked, Busy, Writers
<1>5. ASSUME ~mixed' PROVE OneWriter'
    <2>1. OneWriter /\ pc[c] # "fill"
        BY <1>2, <1>5 DEF FileInv
    <2>2. \A w \in Writers : pc'[w] \in Busy =>
            pc[w] \in Busy /\ job'[w] = job[w] /\ buf'[w] = buf[w]
        BY <1>3 DEF Busy
    <2>3. (\A w \in Writers : pc'[w] # "fill") => (\A w \in Writers : pc[w] # "fill")
        BY <1>3, <2>1
    <2> QED
        BY <1>1, <2>1, <2>2, <2>3 DEF OneWriter
<1> QED
    BY <1>4, <1>5 DEF FileInv

\* One step of a writer, the daemon, the directory or a fault keeps the file
\* as wanted.
LEMMA NextFileInv == FileInv /\ [Next]_vars => FileInv'
<1> SUFFICES ASSUME FileInv, [Next]_vars PROVE FileInv'
    OBVIOUS
<1> USE DEF fileVars, memVars, wireVars, ghosts, Goto
<1>0. CASE UNCHANGED <<disk, writerVars, want, mixed>> /\ down' \in Seq(Jobs)
    BY <1>0 DEF writerVars, FileInv, Writing, Locked, OneWriter
<1>d. down \in Seq(Jobs) /\ <<>> \in Seq(Jobs) /\ ServiceJobs \subseteq Jobs
    BY DEF FileInv, Writing, ServiceJobs
<1>1. ASSUME NEW w \in Writers, Read(w) PROVE FileInv'
    BY <1>1, ReadRight
<1>2. ASSUME NEW w \in Writers, Refused(w) PROVE FileInv'
    BY <1>2, <1>d, QuietMove DEF Refused, Reply, Busy
<1>3. ASSUME NEW w \in Writers, Truncate(w) PROVE FileInv'
    BY <1>3, TruncateRight
<1>4. ASSUME NEW w \in Writers, Fill(w) PROVE FileInv'
    BY <1>4, FillRight
<1>5. ASSUME NEW w \in Writers, Load(w) PROVE FileInv'
    <2>1. /\ pc[w] = "load" /\ job[w] \in Jobs
          /\ UNCHANGED <<disk, buf, want, mixed, down>>
        BY <1>5 DEF Load, FileInv, Writing
    <2>2. mu' = mu \/ (w \in Goroutines /\ mu' = None)
        BY <1>5 DEF Load
    <2>3. CASE pc' = [pc EXCEPT ![w] = "push"] /\ job' = job
        BY <1>d, <2>1, <2>2, <2>3, QuietMove DEF Busy
    <2>4. CASE pc' = [pc EXCEPT ![w] = "idle"] /\ job' = [job EXCEPT ![w] = None]
        BY <1>d, <2>1, <2>2, <2>4, QuietMove DEF Busy
    <2> QED
        BY <1>5, <2>3, <2>4 DEF Load, Reply
<1>6. ASSUME NEW c \in CLIs, NEW j \in ServiceJobs, registerService(c, j) PROVE FileInv'
    <2>1. job'[c] = j /\ c \in Writers
        BY <1>6 DEF registerService, FileInv, Writing, Writers
    <2> QED
        BY <1>6, <1>d, <2>1, QuietMove DEF registerService, Busy
<1>7. ASSUME NEW c \in CLIs, AskDaemon(c) \/ AnswerOneShot(c) PROVE FileInv'
    BY <1>7, <1>d, QuietMove DEF AskDaemon, AnswerOneShot, Exit, Busy, Writers
<1>8. ASSUME NEW c \in CLIs, DialOneShot(c) \/ SendOneShot(c) PROVE FileInv'
    <2>1. pc[c] \in {"push", "send"} /\ c \in Writers /\ job[c] \in Jobs
        BY <1>8 DEF DialOneShot, SendOneShot, FileInv, Writing, Writers
    <2>2. UNCHANGED <<disk, mu, buf, want, mixed, down>>
        BY <1>8 DEF DialOneShot, SendOneShot
    <2>3. CASE pc' = [pc EXCEPT ![c] = "idle"] /\ job' = [job EXCEPT ![c] = None]
        BY <1>d, <2>1, <2>2, <2>3, QuietMove DEF Busy
    <2>4. CASE pc' = [pc EXCEPT ![c] = "send"] /\ job' = job
        BY <1>d, <2>1, <2>2, <2>4, QuietMove DEF Busy
    <2>5. CASE pc' = [pc EXCEPT ![c] = "answer"] /\ job' = job
        BY <1>d, <2>1, <2>2, <2>5, QuietMove DEF Busy
    <2> QED
        BY <1>8, <2>3, <2>4, <2>5 DEF DialOneShot, SendOneShot, Exit
<1>9. ASSUME NEW value \in BOOLEAN, SetAutoVPN(value) PROVE FileInv'
    <2>1. trayConn \in Writers /\ [op |-> "vpn", value |-> value] \in Jobs
        BY DEF Writers, Goroutines, Jobs
    <2>2. job'[trayConn] \in Jobs
        BY <1>9, <2>1 DEF SetAutoVPN, FileInv, Writing
    <2> QED
        BY <1>9, <1>d, <2>1, <2>2, QuietMove DEF SetAutoVPN, Busy
<1>10. CASE TakeCommand
    <2>1. readLoop \in Writers /\ Head(down) \in Jobs /\ Tail(down) \in Seq(Jobs)
        BY <1>10, <1>d DEF TakeCommand, Writers, Goroutines
    <2>2. job'[readLoop] \in Jobs
        BY <1>10, <2>1 DEF TakeCommand, FileInv, Writing
    <2> QED
        BY <1>10, <2>1, <2>2, QuietMove DEF TakeCommand, Busy
<1>11. ASSUME NEW j \in ServiceJobs, Command(j) PROVE FileInv'
    <2>1. Append(down, j) \in Seq(Jobs)
        BY <1>d
    <2> QED
        BY <1>0, <1>11, <2>1 DEF Command, writerVars
<1>12. CASE Stop
    BY <1>12, StopRight
<1>13. ASSUME NEW c \in CLIs, Die(c) PROVE FileInv'
    BY <1>13, DieRight
<1>14. ASSUME NEW c \in CLIs, pushServiceFrame(c) PROVE FileInv'
    BY <1>0, <1>d, <1>14 DEF pushServiceFrame
<1>15. CASE Connect \/ Drop \/ Receive \/ Start
    BY <1>0, <1>d, <1>15 DEF Connect, Drop, Receive, Start
<1>16. CASE Ticker
    BY <1>0, <1>d, <1>16 DEF Ticker, TickStat, TickLoad, TickStore, TickGet,
                            pushTelemetry, TickAgain
<1>17. CASE UNCHANGED vars
    BY <1>0, <1>d, <1>17 DEF vars
<1> QED
    BY <1>1, <1>2, <1>3, <1>4, <1>5, <1>6, <1>7, <1>8, <1>9, <1>10, <1>11, <1>12,
       <1>13, <1>14, <1>15, <1>16, <1>17 DEF Next, Persist, Push

\* What can be decoded is whole, unless two processes wrote at once.
LEMMA ReadableWhole ==
  ASSUME FileInv, ~mixed, disk.readable
  PROVE  disk.rest
BY DEF FileInv, OneWriter, Plain, Empty

\* Neither is what the daemon has loaded taken away from it.
LEMMA NextWhole ==
  FileInv /\ TickShape /\ (mixed \/ Whole) /\ [Next]_vars
    => TickShape' /\ (mixed' \/ Whole')
<1> SUFFICES ASSUME FileInv, TickShape, mixed \/ Whole, [Next]_vars
             PROVE  TickShape' /\ (mixed' \/ Whole')
    OBVIOUS
<1> USE DEF fileVars, memVars, wireVars, ghosts, Goto
<1>r. ~mixed => (disk.readable => disk.rest)
    BY ReadableWhole
<1>0. CASE UNCHANGED <<daemon, current, tick, mixed>>
    BY <1>0 DEF TickShape, Whole
<1>1. ASSUME NEW w \in Writers, Read(w) PROVE TickShape' /\ (mixed' \/ Whole')
    <2>1. ~mixed' => ~mixed
        BY <1>1, Zenon DEF Read
    <2> QED
        BY <1>1, <2>1 DEF Read, TickShape, Whole
<1>2. ASSUME NEW w \in Writers, Refused(w) \/ Truncate(w) \/ Fill(w)
      PROVE  TickShape' /\ (mixed' \/ Whole')
    BY <1>0, <1>2 DEF Refused, Truncate, Fill
<1>3. ASSUME NEW w \in Writers, Load(w) PROVE TickShape' /\ (mixed' \/ Whole')
    <2>1. UNCHANGED <<daemon, tick, mixed>>
        BY <1>3 DEF Load
    <2>2. current' = current \/ (disk.readable /\ current' = disk)
        BY <1>3 DEF Load
    <2> QED
        BY <1>r, <2>1, <2>2 DEF TickShape, Whole
<1>4. ASSUME NEW c \in CLIs, Push(c) \/ pushServiceFrame(c)
      PROVE  TickShape' /\ (mixed' \/ Whole')
    BY <1>0, <1>4 DEF Push, AskDaemon, DialOneShot, SendOneShot, AnswerOneShot, pushServiceFrame
<1>5. ASSUME NEW c \in CLIs, Die(c) PROVE TickShape' /\ (mixed' \/ Whole')
    <2>1. ~mixed' => ~mixed
        BY <1>5, Zenon DEF Die
    <2> QED
        BY <1>5, <2>1 DEF Die, TickShape, Whole
<1>6. ASSUME NEW c \in CLIs, NEW j \in ServiceJobs, registerService(c, j)
      PROVE  TickShape' /\ (mixed' \/ Whole')
    BY <1>0, <1>6 DEF registerService
<1>7. ASSUME NEW value \in BOOLEAN, SetAutoVPN(value) PROVE TickShape' /\ (mixed' \/ Whole')
    BY <1>0, <1>7 DEF SetAutoVPN
<1>8. ASSUME NEW j \in ServiceJobs, Command(j) PROVE TickShape' /\ (mixed' \/ Whole')
    BY <1>0, <1>8 DEF Command
<1>9. CASE TakeCommand \/ Receive
    BY <1>0, <1>9 DEF TakeCommand, Receive
<1>10. CASE Connect \/ Drop
    <2>1. CASE Connect
        <3>1. tick' = [pc |-> "stat", stat |-> 0, cfg |-> Empty, first |-> TRUE]
            BY <2>1 DEF Connect, Idle
        <3>2. TickShape' /\ tick'.pc = "stat"
            BY <3>1 DEF TickShape
        <3>3. Whole => Whole'
            BY <2>1, <3>2 DEF Connect, Whole
        <3> QED
            BY <2>1, <3>2, <3>3 DEF Connect
    <2>2. CASE Drop
        BY <2>2 DEF Drop, Idle, TickShape, Whole
    <2> QED
        BY <1>10, <2>1, <2>2
<1>11. CASE TickStat
    BY <1>11 DEF TickStat, TickShape, Whole
<1>12. CASE TickLoad
    <2>1. CASE disk.readable
        <3>1. tick' = [tick EXCEPT !.cfg = disk, !.pc = "store"]
            BY <1>12, <2>1 DEF TickLoad
        <3>2. tick' = [pc |-> "store", stat |-> tick.stat, cfg |-> disk, first |-> tick.first]
            BY <3>1 DEF TickShape
        <3>3. TickShape' /\ tick'.cfg = disk
            BY <3>2 DEF TickShape
        <3> QED
            BY <1>12, <1>r, <2>1, <3>3 DEF TickLoad, Whole
    <2>2. CASE ~disk.readable
        BY <1>12, <2>2 DEF TickLoad, TickShape, Whole
    <2> QED
        BY <2>1, <2>2
<1>13. CASE TickStore
    BY <1>13 DEF TickStore, TickShape, Whole
<1>14. CASE TickGet
    BY <1>14 DEF TickGet, TickShape, Whole
<1>15. CASE pushTelemetry \/ TickAgain
    BY <1>15 DEF pushTelemetry, TickAgain, Idle, TickShape, Whole
<1>16. CASE Stop
    <2>1. ~mixed' => ~mixed
        BY <1>16, Zenon DEF Stop
    <2> QED
        BY <1>16, <2>1 DEF Stop, Idle, TickShape, Whole
<1>17. CASE Start
    BY <1>17, <1>r DEF Start, TickShape, Whole
<1>18. CASE UNCHANGED vars
    BY <1>0, <1>18 DEF vars
<1> QED
    BY <1>1, <1>2, <1>3, <1>4, <1>5, <1>6, <1>7, <1>8, <1>9, <1>10, <1>11, <1>12,
       <1>13, <1>14, <1>15, <1>16, <1>17, <1>18 DEF Next, Persist, Ticker

\* A plain agent.yml that nobody is rewriting yet.
LEMMA InitRegistryInv ==
  ASSUME \A d \in StartDocs : Plain(d), Init
  PROVE  RegistryInv
<1>1. Plain(disk) /\ want = disk /\ current = disk
    BY DEF Init
<1>2. FileInv
    <2>0. down = <<>> /\ <<>> \in Seq(Jobs)
        BY DEF Init
    <2>1. Writing
        BY <2>0 DEF Init, Writing
    <2>2. Locked /\ OneWriter
        BY <1>1 DEF Init, Locked, OneWriter, Busy, Holds, Plain, Writers
    <2> QED
        BY <2>1, <2>2 DEF FileInv
<1>3. TickShape /\ Whole
    BY <1>1 DEF Init, Idle, TickShape, Whole, Plain
<1> QED
    BY <1>2, <1>3 DEF RegistryInv

\* The inductive invariant of agent.yml under its three kinds of writers holds
\* in every behaviour that starts with a plain file.
THEOREM RegistryInvHolds ==
  ASSUME \A d \in StartDocs : Plain(d)
  PROVE  Spec => []RegistryInv
<1>1. Init => RegistryInv
    BY InitRegistryInv
<1>2. RegistryInv /\ [Next]_vars => RegistryInv'
    BY NextFileInv, NextWhole DEF RegistryInv
<1> QED
    BY <1>1, <1>2, PTL DEF Spec

\* However the command lines, the read loop, the tray and the ticker interleave
\* and whoever dies, edits that do not overlap across processes are all in
\* agent.yml, which holds nothing else that is new and can be loaded
\* (PersistService, PersistAutoVPN, ReloadIfChanged).
THEOREM EditsKeptHolds ==
  ASSUME \A d \in StartDocs : Plain(d)
  PROVE  Spec => []EditsKept
<1>1. RegistryInv => EditsKept
    BY DEF RegistryInv, FileInv, OneWriter, Holds, Plain, EditsKept, Settled
<1> QED
    BY <1>1, RegistryInvHolds, PTL

\* A running agent keeps a whole configuration, also when the ticker or a
\* writer meets the file half-written (config.go, ReloadIfChanged).
THEOREM ConfigHeldHolds ==
  ASSUME \A d \in StartDocs : Plain(d)
  PROVE  Spec => []ConfigHeld
<1>1. RegistryInv => ConfigHeld
    BY DEF RegistryInv, Whole, ConfigHeld
<1> QED
    BY <1>1, RegistryInvHolds, PTL

-----------------------------------------------------------------------------
(* The directory's children are left alone when they are the list.          *)

\* Registrations that change nothing, and what may be on the way to the directory.
Harmless == {j \in ServiceJobs : Apply(Services(disk), j) = Services(disk)}
Honest == [kind : {"report"}, list : {Services(disk)}]
            \cup [kind : {"frame", "ok"}, job : Harmless]
            \cup [kind : {"error"}, job : Jobs]

\* The directory has the list of agent.yml, nobody is rewriting it, and whatever
\* is loaded, asked for, half done or on the wire says the same.
InStep ==
  /\ disk.readable
  /\ children = Services(disk) /\ Services(current) = Services(disk)
  /\ TickShape
  /\ tick.pc \in {"store", "send"} => Services(tick.cfg) = Services(disk)
  /\ up \in Seq(Honest)
  /\ asked \in [CLIs -> Harmless \cup {None}]
  /\ pc \in [Writers -> {"idle", "load", "push", "send", "answer"}]
  /\ job \in [Writers -> Jobs \cup {None}]
  /\ \A w \in CLIs \cup {readLoop} : pc[w] # "idle" => job[w] \in Harmless

\* A command line, the tray or the directory begins an edit of agent.yml.
EditBegins ==
  \/ \E c \in CLIs, j \in ServiceJobs : registerService(c, j)
  \/ \E value \in BOOLEAN : SetAutoVPN(value)
  \/ TakeCommand

\* The half of ChildrenConverge that is safety.  Once everybody agrees, no report,
\* repeated frame, one-shot connection, restart or lost connection changes the
\* children, in whatever order they arrive (telemetry.go, pushServiceRegistration).
ChildrenKept ==
  [][InStep => (InStep' /\ UNCHANGED <<children, disk>>) \/ EditBegins]_vars

\* A writer that is not at an edit of the file ends what it does, in step.
LEMMA WriterInStep ==
  ASSUME InStep, NEW w \in Writers, UNCHANGED <<disk, children, tick, asked>>,
         Services(current') = Services(disk), up' \in Seq(Honest),
         \/ UNCHANGED <<pc, job>>
         \/ /\ \E to \in {"idle", "push", "send", "answer"} : Goto(w, to)
            /\ UNCHANGED job /\ pc[w] # "idle"
         \/ Goto(w, "idle") /\ job' = [job EXCEPT ![w] = None]
  PROVE  InStep'
<1>1. Harmless' = Harmless /\ Honest' = Honest
    BY DEF Harmless, Honest
<1>2. /\ pc' \in [Writers -> {"idle", "load", "push", "send", "answer"}]
      /\ job' \in [Writers -> Jobs \cup {None}]
    BY DEF InStep, Goto
<1>3. ASSUME NEW v \in CLIs \cup {readLoop}, pc'[v] # "idle" PROVE job'[v] \in Harmless
    <2>1. v \in Writers
        BY DEF Writers, Goroutines
    <2>2. pc[v] # "idle" /\ job'[v] = job[v]
        BY <1>3, <2>1 DEF InStep, Goto
    <2> QED
        BY <2>2 DEF InStep
<1> QED
    BY <1>1, <1>2, <1>3 DEF InStep, TickShape

\* Steps of the writers: only a goroutine's answer and a one-shot frame leave.
LEMMA PersistInStep ==
  ASSUME InStep, NEW w \in Writers, Persist(w)
  PROVE  InStep' /\ UNCHANGED <<children, disk>>
<1> USE DEF fileVars, memVars, wireVars, ghosts
<1>1. Load(w)
    BY DEF InStep, Persist, Read, Refused, Truncate, Fill
<1>2. UNCHANGED <<disk, children, tick, asked>> /\ disk.readable /\ pc[w] = "load"
    BY <1>1 DEF Load, InStep
<1>3. Services(current') = Services(disk)
    BY <1>1, <1>2 DEF Load, InStep
<1>4. CASE w \in CLIs
    <2>1. UNCHANGED up /\ Goto(w, "push") /\ UNCHANGED job
        BY <1>1, <1>2, <1>4 DEF Load
    <2>2. up' \in Seq(Honest)
        BY <2>1 DEF InStep
    <2> QED
        BY <1>2, <1>3, <2>1, <2>2, WriterInStep
<1>5. CASE w \notin CLIs
    <2>1. Goto(w, "idle") /\ job' = [job EXCEPT ![w] = None]
        BY <1>1, <1>2, <1>5 DEF Load, Reply
    <2>2. up' \in Seq(Honest)
        <3>1. CASE w = readLoop
            <4>1. [kind |-> "ok", job |-> job[w]] \in Honest
                BY <1>2, <3>1 DEF InStep, Honest
            <4>2. up' = Append(up, [kind |-> "ok", job |-> job[w]])
                BY <1>1, <1>2, <1>5, <3>1 DEF Load, Reply
            <4> QED
                BY <4>1, <4>2 DEF InStep
        <3>2. CASE w # readLoop
            BY <1>1, <1>5, <3>2 DEF Load, Reply, InStep
        <3> QED
            BY <3>1, <3>2
    <2> QED
        BY <1>2, <1>3, <2>1, <2>2, WriterInStep
<1> QED
    BY <1>2, <1>4, <1>5

\* What a command line still has to say changes nothing.
LEMMA PushInStep ==
  ASSUME InStep, NEW c \in CLIs, Push(c) \/ pushServiceFrame(c)
  PROVE  InStep' /\ UNCHANGED <<children, disk>>
<1> USE DEF fileVars, memVars, wireVars, ghosts, writerVars
<1>0. c \in Writers /\ UNCHANGED <<disk, current, tick>>
    BY DEF Writers, Push, AskDaemon, DialOneShot, SendOneShot, AnswerOneShot, pushServiceFrame
<1>1. Harmless' = Harmless /\ Honest' = Honest
    BY <1>0 DEF Harmless, Honest
<1>2. CASE AskDaemon(c)
    <2>1. job[c] \in Harmless /\ asked' \in [CLIs -> Harmless \cup {None}]
        BY <1>2 DEF AskDaemon, InStep
    <2>2. /\ pc' \in [Writers -> {"idle", "load", "push", "send", "answer"}]
          /\ job' \in [Writers -> Jobs \cup {None}]
        BY <1>0, <1>2 DEF AskDaemon, Exit, Goto, InStep
    <2>3. ASSUME NEW v \in CLIs \cup {readLoop}, pc'[v] # "idle" PROVE job'[v] \in Harmless
        <3>1. v \in Writers
            BY DEF Writers, Goroutines
        <3> QED
            BY <1>0, <1>2, <2>3, <3>1 DEF AskDaemon, Exit, Goto, InStep
    <2> QED
        BY <1>0, <1>1, <1>2, <2>1, <2>2, <2>3 DEF AskDaemon, InStep, TickShape
<1>3. CASE DialOneShot(c) \/ AnswerOneShot(c)
    <2>1. UNCHANGED <<children, asked, up>> /\ pc[c] # "idle"
        BY <1>3 DEF DialOneShot, AnswerOneShot
    <2>2. \/ Goto(c, "send") /\ UNCHANGED job
          \/ Goto(c, "idle") /\ job' = [job EXCEPT ![c] = None]
        BY <1>3 DEF DialOneShot, AnswerOneShot, Exit
    <2>3. up' \in Seq(Honest) /\ Services(current') = Services(disk)
        BY <1>0, <2>1 DEF InStep
    <2> QED
        BY <1>0, <2>1, <2>2, <2>3, WriterInStep
<1>4. CASE SendOneShot(c)
    <2>1. UNCHANGED <<asked, up>> /\ pc[c] # "idle" /\ job[c] \in Harmless
        BY <1>4 DEF SendOneShot, InStep
    <2>2. UNCHANGED children
        BY <1>4, <2>1 DEF SendOneShot, InStep, Harmless
    <2>3. \/ Goto(c, "answer") /\ UNCHANGED job
          \/ Goto(c, "idle") /\ job' = [job EXCEPT ![c] = None]
        BY <1>4 DEF SendOneShot, Exit
    <2>4. up' \in Seq(Honest) /\ Services(current') = Services(disk)
        BY <1>0, <2>1 DEF InStep
    <2> QED
        BY <1>0, <2>1, <2>2, <2>3, <2>4, WriterInStep
<1>5. CASE pushServiceFrame(c)
    <2>1. asked[c] \in Harmless
        BY <1>5 DEF pushServiceFrame, InStep
    <2>2. asked' \in [CLIs -> Harmless \cup {None}]
        BY <1>5 DEF pushServiceFrame, InStep
    <2>3. up' \in Seq(Honest)
        <3>1. [kind |-> "frame", job |-> asked[c]] \in Honest
            BY <2>1 DEF Honest
        <3> QED
            BY <1>5, <3>1 DEF pushServiceFrame, InStep
    <2> QED
        BY <1>0, <1>1, <1>5, <2>2, <2>3 DEF pushServiceFrame, InStep, TickShape
<1> QED
    BY <1>0, <1>2, <1>3, <1>4, <1>5 DEF Push, AskDaemon, DialOneShot, AnswerOneShot, SendOneShot,
                                        pushServiceFrame

\* The ticker reports the list that is in force, whenever it has read it.
LEMMA TickerInStep ==
  ASSUME InStep, Ticker
  PROVE  InStep' /\ UNCHANGED <<children, disk>>
<1> USE DEF fileVars, memVars, wireVars, ghosts, writerVars
<1>0. UNCHANGED <<disk, children, asked, pc, job>>
    BY DEF Ticker, TickStat, TickLoad, TickStore, TickGet, pushTelemetry, TickAgain
<1>1. Harmless' = Harmless /\ Honest' = Honest
    BY <1>0 DEF Harmless, Honest
<1>2. TickShape'
    BY DEF Ticker, TickStat, TickLoad, TickStore, TickGet, pushTelemetry, TickAgain, Idle,
           InStep, TickShape
<1>3. tick'.pc \in {"store", "send"} => Services(tick'.cfg) = Services(disk)
    <2>1. CASE TickLoad
        BY <2>1 DEF TickLoad, InStep, TickShape
    <2>2. CASE TickGet
        <3>1. tick'.cfg = current
            BY <2>2 DEF TickGet, InStep, TickShape
        <3> QED
            BY <3>1 DEF InStep
    <2>3. CASE TickStat \/ TickStore \/ pushTelemetry \/ TickAgain
        <3>1. tick'.pc \in {"get", "load", "wait", "stat"}
            BY <2>3 DEF TickStat, TickStore, pushTelemetry, TickAgain, Idle, InStep, TickShape
        <3> QED
            BY <3>1
    <2> QED
        BY <2>1, <2>2, <2>3 DEF Ticker
<1>4. Services(current') = Services(disk)
    BY DEF Ticker, TickStat, TickLoad, TickStore, TickGet, pushTelemetry, TickAgain, InStep
<1>5. up' \in Seq(Honest)
    <2>1. CASE pushTelemetry
        <3>1. [kind |-> "report", list |-> Services(tick.cfg)] \in Honest
            BY <2>1 DEF pushTelemetry, InStep, Honest
        <3> QED
            BY <2>1, <3>1 DEF pushTelemetry, InStep
    <2>2. CASE ~pushTelemetry
        BY <2>2 DEF Ticker, TickStat, TickLoad, TickStore, TickGet, TickAgain, InStep
    <2> QED
        BY <2>1, <2>2
<1> QED
    BY <1>0, <1>1, <1>2, <1>3, <1>4, <1>5 DEF InStep

\* What the directory reads tells it what it knows.
LEMMA ReceiveInStep ==
  ASSUME InStep, Receive
  PROVE  InStep' /\ UNCHANGED <<children, disk>>
<1> USE DEF fileVars, memVars, wireVars, ghosts, writerVars
<1>1. Head(up) \in Honest /\ up' \in Seq(Honest)
    BY DEF Receive, InStep
<1>2. children' = children
    <2> DEFINE f == Head(up)
    <2>1. children = Services(disk)
        BY DEF InStep
    <2>2. CASE f.kind = "report"
        BY <1>1, <2>1, <2>2 DEF Receive, Honest
    <2>3. CASE f.kind = "error"
        BY <2>3 DEF Receive
    <2>4. CASE f.kind \in {"frame", "ok"}
        <3>1. f.job \in Harmless
            BY <1>1, <2>4 DEF Honest
        <3>2. Apply(children, f.job) = children
            BY <2>1, <3>1 DEF Harmless
        <3> QED
            BY <2>4, <3>2 DEF Receive
    <2>5. f.kind \in {"report", "frame", "ok", "error"}
        BY <1>1 DEF Honest
    <2> QED
        BY <2>2, <2>3, <2>4, <2>5
<1>3. Harmless' = Harmless /\ Honest' = Honest
    BY DEF Receive, Harmless, Honest
<1> QED
    BY <1>1, <1>2, <1>3 DEF Receive, InStep, TickShape

\* Nor does a connection that is made, breaks or ends with a process matter.
LEMMA FaultInStep ==
  ASSUME InStep, \/ Connect \/ Drop \/ Stop \/ Start \/ UNCHANGED vars
                 \/ \E j \in ServiceJobs : Command(j)
                 \/ \E c \in CLIs : Die(c)
  PROVE  InStep' /\ UNCHANGED <<children, disk>>
<1> USE DEF fileVars, memVars, wireVars, ghosts, writerVars
<1>0. UNCHANGED <<disk, children>>
    BY DEF Connect, Drop, Stop, Start, Command, Die, vars
<1>1. Harmless' = Harmless /\ Honest' = Honest /\ <<>> \in Seq(Honest)
    BY <1>0 DEF Harmless, Honest
<1>2. CASE Connect \/ Drop
    <2>1. up' \in Seq(Honest)
        BY <1>1, <1>2 DEF Connect, Drop
    <2>2. TickShape' /\ tick'.pc \notin {"store", "send"}
        <3>1. tick' = [pc |-> "stat", stat |-> 0, cfg |-> Empty, first |-> TRUE] \/ tick' = Idle
            BY <1>2 DEF Connect, Drop, Idle
        <3> QED
            BY <3>1 DEF Idle, TickShape
    <2>3. UNCHANGED <<current, asked, pc, job>>
        BY <1>2 DEF Connect, Drop
    <2> QED
        BY <1>0, <1>1, <2>1, <2>2, <2>3 DEF InStep
<1>3. CASE Stop
    <2>1. up' \in Seq(Honest) /\ asked' \in [CLIs -> Harmless \cup {None}]
        BY <1>1, <1>3 DEF Stop
    <2>2. TickShape' /\ tick'.pc \notin {"store", "send"}
        BY <1>3 DEF Stop, Idle, TickShape
    <2>3. /\ pc' \in [Writers -> {"idle", "load", "push", "send", "answer"}]
          /\ job' \in [Writers -> Jobs \cup {None}]
        BY <1>3 DEF Stop, InStep
    <2>4. ASSUME NEW v \in CLIs \cup {readLoop}, pc'[v] # "idle" PROVE job'[v] \in Harmless
        <3>1. v \in Writers
            BY DEF Writers, Goroutines
        <3> QED
            BY <1>3, <2>4, <3>1 DEF Stop, InStep
    <2>5. UNCHANGED current
        BY <1>3 DEF Stop
    <2> QED
        BY <1>0, <1>1, <2>1, <2>2, <2>3, <2>4, <2>5 DEF InStep
<1>4. CASE Start
    BY <1>0, <1>1, <1>4 DEF Start, InStep, TickShape
<1>5. ASSUME NEW c \in CLIs, Die(c) PROVE InStep'
    <2>1. UNCHANGED <<disk, children, tick, asked, current, up>> /\ c \in Writers
        BY <1>5 DEF Die, Writers
    <2>2. Goto(c, "idle") /\ job' = [job EXCEPT ![c] = None]
        BY <1>5 DEF Die, Exit
    <2>3. up' \in Seq(Honest) /\ Services(current') = Services(disk)
        BY <2>1 DEF InStep
    <2> QED
        BY <2>1, <2>2, <2>3, WriterInStep
<1>6. CASE UNCHANGED vars \/ \E j \in ServiceJobs : Command(j)
    <2>1. UNCHANGED <<disk, children, tick, asked, current, up, pc, job>>
        BY <1>6 DEF Command, vars
    <2> QED
        BY <1>1, <2>1 DEF InStep, TickShape
<1> QED
    BY <1>0, <1>2, <1>3, <1>4, <1>5, <1>6

\* The children stay the list in agent.yml until somebody edits it: reports,
\* repeated frames and new connections confirm them (pushTelemetry, Receive).
THEOREM ChildrenKeptHolds == Spec => ChildrenKept
<1> DEFINE Kept == InStep' /\ UNCHANGED <<children, disk>>
<1>1. [Next]_vars => [InStep => Kept \/ EditBegins]_vars
    BY PersistInStep, PushInStep, TickerInStep, ReceiveInStep, FaultInStep DEF Next, EditBegins
<1> QED
    BY <1>1, PTL DEF Spec, ChildrenKept
=============================================================================
