------------------------- MODULE TunnelPolicyProofs -------------------------
(***************************************************************************)
(* Proofs about TunnelPolicy, for every set of exits, every bound and every*)
(* Env: handlers overlap, writes and wg-quick fail, the host roams and the *)
(* connection breaks at any moment.                                        *)
(***************************************************************************)
EXTENDS TunnelPolicy, TLAPS

-----------------------------------------------------------------------------
(* The types *)

\* The policy's own values are Booleans.
LEMMA PolicyTypes ==
    ASSUME NEW h \in HomeState, NEW home \in BOOLEAN, NEW up \in BOOLEAN
    PROVE  TunnelShouldBeUp(h, home) \in BOOLEAN /\ WantUp(h, up) \in BOOLEAN
BY Zenon DEF TunnelShouldBeUp, WantUp

\* Whatever is shown has the type of a status.
LEMMA ShownType ==
    ASSUME NEW c \in BOOLEAN, NEW h, h.vpn \in BOOLEAN, h.home \in BOOLEAN,
           h.auto \in BOOLEAN
    PROVE  Shown(c, h) \in Status
BY DEF Shown, Color, Status

\* A call keeps program counters and local variables typed.
LEMMA CallType ==
    ASSUME TypeOK, NEW t \in Threads, NEW step \in PCs, NEW cont \in PCs,
           NEW c \in Conf, Call(t, step, cont, c)
    PROVE  pc' \in [Threads -> PCs] /\ loc' \in [Threads -> Locals]
BY DEF TypeOK, Call, Goto, Locals

\* So does the end of a handler, or its way to the push, ...
LEMMA ForgetType ==
    ASSUME TypeOK, NEW t \in Threads, NEW step \in PCs, Forget(t, step)
    PROVE  pc' \in [Threads -> PCs] /\ loc' \in [Threads -> Locals]
<1>1. NoLocals \in Locals
    BY DEF NoLocals, Locals, PCs, MaybeExit, Conf
<1> QED
    BY <1>1 DEF TypeOK, Forget, Goto

\* ... and so does a return, whatever the operation answered.
LEMMA ReturnType ==
    ASSUME TypeOK, NEW t \in Threads, NEW ok, Return(t, ok)
    PROVE  pc' \in [Threads -> PCs] /\ loc' \in [Threads -> Locals]
<1>1. loc[t].cont \in PCs /\ "idle" \in PCs
    BY DEF TypeOK, Locals, PCs
<1>2. CASE Goto(t, loc[t].cont) /\ UNCHANGED loc
    BY <1>1, <1>2 DEF TypeOK, Goto
<1>3. CASE Forget(t, "idle")
    BY <1>1, <1>3, ForgetType
<1> QED
    BY <1>2, <1>3 DEF Return, Done

\* A handler that ends is idle.
LEMMA DoneType ==
    ASSUME TypeOK, NEW t \in Threads, Done(t)
    PROVE  pc' \in [Threads -> PCs] /\ loc' \in [Threads -> Locals]
BY ForgetType DEF Done, PCs

\* The local variables stay typed when one of them is set.
LEMMA LocalsTypes ==
    ASSUME NEW r \in Locals, NEW b \in BOOLEAN, NEW e \in MaybeExit, NEW c \in Conf,
           NEW cont \in PCs
    PROVE  /\ [r EXCEPT !.auto = b] \in Locals /\ [r EXCEPT !.vpn = b] \in Locals
           /\ [r EXCEPT !.home = b] \in Locals /\ [r EXCEPT !.connected = b] \in Locals
           /\ [r EXCEPT !.exit = e] \in Locals /\ [r EXCEPT !.conf = c] \in Locals
           /\ [r EXCEPT !.cont = cont] \in Locals
<1> HIDE DEF PCs, Conf, MaybeExit
<1> QED
    BY DEF Locals

\* So does the shared state.
LEMMA HomeFields ==
    ASSUME NEW h \in HomeState
    PROVE  h.vpn \in BOOLEAN /\ h.auto \in BOOLEAN /\ h.home \in BOOLEAN
BY DEF HomeState

\* It stays typed when one of its fields is set.
LEMMA HomeTypes ==
    ASSUME NEW h \in HomeState, NEW b \in BOOLEAN, NEW e \in MaybeExit
    PROVE  /\ [h EXCEPT !.vpn = b] \in HomeState /\ [h EXCEPT !.auto = b] \in HomeState
           /\ [h EXCEPT !.exit = e] \in HomeState
           /\ [h EXCEPT !.home = b, !.known = TRUE] \in HomeState
BY DEF HomeState

\* A step of an operation, of whichever handler, keeps the types.
LEMMA WgStepType ==
    ASSUME TypeOK, NEW t \in Threads, WgStep(t)
    PROVE  TypeOK'
<1> USE DEF Quiet, envVars, wgVars
<1>0. ASSUME NEW step \in PCs, Goto(t, step) PROVE pc' \in [Threads -> PCs]
    BY <1>0 DEF Goto, TypeOK
<1>1. CASE Check(t)
    <2>1. CASE \E ok \in BOOLEAN : Return(t, ok)
        BY <1>1, <2>1, ReturnType DEF Check, TypeOK
    <2>2. CASE Goto(t, "persist") /\ loc' = [loc EXCEPT ![t].conf = conf]
        BY <1>1, <2>2 DEF Check, Goto, TypeOK, PCs, Locals
    <2> QED
        BY <1>1, <2>1, <2>2 DEF Check
<1>2. CASE Truncate(t)
    <2>1. pc' \in [Threads -> PCs]
        BY <1>0, <1>2 DEF Truncate, PCs
    <2> QED
        BY <1>2, <2>1 DEF Truncate, TypeOK, Conf
<1>3. CASE Fill(t)
    <2>1. conf' \in Conf
        <3>1. conf \in Conf /\ loc[t].conf \in Conf /\ Torn \in Conf
            BY DEF TypeOK, Locals, Conf
        <3>2. \A old, new \in Conf : Over(old, new) \subseteq {old, new, Torn}
            BY DEF Over
        <3> QED
            BY <1>3, <3>1, <3>2 DEF Fill
    <2>2. CASE Goto(t, "cycle") /\ loc' = [loc EXCEPT ![t].conf = None]
        <3>1. None \in Conf /\ "cycle" \in PCs
            BY DEF Conf, PCs
        <3>2. loc' = [loc EXCEPT ![t] = [loc[t] EXCEPT !.conf = None]]
            BY <2>2 DEF TypeOK
        <3>3. [loc[t] EXCEPT !.conf = None] \in Locals
            BY <3>1 DEF TypeOK, Locals
        <3> QED
            BY <1>0, <1>3, <2>1, <2>2, <3>1, <3>2, <3>3 DEF Fill, TypeOK
    <2>3. CASE Return(t, TRUE)
        BY <1>3, <2>1, <2>3, ReturnType DEF Fill, TypeOK
    <2> QED
        BY <1>3, <2>2, <2>3 DEF Fill
<1>4. CASE Cycle(t)
    <2>1. pc' \in [Threads -> PCs]
        BY <1>0, <1>4 DEF Cycle, PCs
    <2> QED
        BY <1>4, <2>1 DEF Cycle, TypeOK
<1>5. CASE Down(t)
    <2>1. pc' \in [Threads -> PCs] /\ loc' \in [Threads -> Locals]
        BY <1>0, <1>5, ReturnType DEF Down, TypeOK, PCs
    <2> QED
        BY <1>5, <2>1 DEF Down, TypeOK, Conf
<1>6. CASE Up(t)
    <2>1. pc' \in [Threads -> PCs] /\ loc' \in [Threads -> Locals]
        BY <1>6, ReturnType DEF Up
    <2> QED
        BY <1>6, <2>1 DEF Up, TypeOK
<1>7. CASE DownCheck(t)
    <2>1. pc' \in [Threads -> PCs] /\ loc' \in [Threads -> Locals]
        BY <1>0, <1>7, ReturnType DEF DownCheck, TypeOK, PCs
    <2> QED
        BY <1>7, <2>1 DEF DownCheck, TypeOK
<1>8. CASE DownOnly(t)
    <2>1. pc' \in [Threads -> PCs] /\ loc' \in [Threads -> Locals]
        BY <1>8, ReturnType DEF DownOnly
    <2> QED
        BY <1>8, <2>1 DEF DownOnly, TypeOK, Conf
<1>9. CASE MarkVPN(t)
    <2>1. hs' \in HomeState
        BY <1>9 DEF MarkVPN, TypeOK, HomeState
    <2>2. pc' \in [Threads -> PCs] /\ loc' \in [Threads -> Locals]
        BY <1>9, ForgetType DEF MarkVPN, PCs
    <2> QED
        BY <1>9, <2>1, <2>2 DEF MarkVPN, TypeOK
<1>10. CASE Trigger(t)
    <2>1. hs.vpn \in BOOLEAN /\ hs.auto \in BOOLEAN /\ hs.home \in BOOLEAN
        BY HomeFields DEF TypeOK
    <2> DEFINE l1 == [loc[t] EXCEPT !.vpn = hs.vpn]
               l2 == [l1 EXCEPT !.auto = hs.auto]
               l3 == [l2 EXCEPT !.home = hs.home]
    <2>2. l1 \in Locals
        BY <2>1, LocalsTypes DEF TypeOK
    <2>3. l2 \in Locals
        BY <2>1, <2>2, LocalsTypes DEF TypeOK
    <2>4. l3 \in Locals
        BY <2>1, <2>3, LocalsTypes DEF TypeOK
    <2>5. loc' = [loc EXCEPT ![t] = l3]
        BY <1>10 DEF Trigger, TypeOK
    <2> HIDE DEF l3
    <2>6. pc' \in [Threads -> PCs]
        BY <1>0, <1>10 DEF Trigger, PCs
    <2> QED
        BY <1>10, <2>4, <2>5, <2>6 DEF Trigger, TypeOK
<1>11. CASE Show(t)
    <2>1. status' \in Status
        <3>1. loc[t].vpn \in BOOLEAN /\ loc[t].auto \in BOOLEAN /\ loc[t].home \in BOOLEAN
            BY DEF TypeOK, Locals
        <3>2. Shown(TRUE, loc[t]) \in Status
            BY <3>1 DEF Shown, Color, Status
        <3> QED
            BY <1>11, <3>2 DEF Show
    <2> QED
        BY <1>11, <2>1, DoneType DEF Show, TypeOK
<1> QED
    BY <1>1, <1>2, <1>3, <1>4, <1>5, <1>6, <1>7, <1>8, <1>9, <1>10, <1>11 DEF WgStep

\* So does a step of the monitor, ...
LEMMA MonitorType ==
    ASSUME TypeOK, Tick \/ Probe \/ Decide \/ Push
    PROVE  TypeOK'
<1> USE DEF Quiet, envVars, wgVars, Threads
<1>1. CASE Tick
    <2> DEFINE l1 == [loc["monitor"] EXCEPT !.auto = hs.auto]
               l2 == [l1 EXCEPT !.connected = connected]
    <2>1. l1 \in Locals
        BY LocalsTypes, HomeFields DEF TypeOK
    <2>3. l2 \in Locals
        BY <2>1, LocalsTypes DEF TypeOK
    <2>4. loc' = [loc EXCEPT !["monitor"] = l2]
        BY <1>1 DEF Tick, TypeOK
    <2> HIDE DEF l2
    <2>5. loc' \in [Threads -> Locals]
        BY <2>3, <2>4 DEF TypeOK
    <2>6. pc' \in [Threads -> PCs]
        BY <1>1 DEF Tick, Goto, TypeOK, PCs
    <2> QED
        BY <1>1, <2>5, <2>6 DEF Tick, TypeOK
<1>2. CASE Probe
    <2> DEFINE home == loc["monitor"].connected /\ atHome
    <2>1. home \in BOOLEAN
        BY Zenon DEF TypeOK
    <2>2. loc' = [loc EXCEPT !["monitor"].home = home]
        BY <1>2 DEF Probe
    <2>3. hs' = [hs EXCEPT !.home = home, !.known = TRUE]
        BY <1>2 DEF Probe
    <2> HIDE DEF home
    <2>4. loc' = [loc EXCEPT !["monitor"] = [loc["monitor"] EXCEPT !.home = home]]
        BY <2>2 DEF TypeOK
    <2>5. [loc["monitor"] EXCEPT !.home = home] \in Locals
        BY <2>1, LocalsTypes DEF TypeOK
    <2>6. hs' \in HomeState
        BY <2>1, <2>3, HomeTypes DEF TypeOK
    <2> QED
        BY <1>2, <2>4, <2>5, <2>6 DEF Probe, Goto, TypeOK, PCs
<1>3. CASE Decide
    <2> DEFINE vpn == iface # None
    <2>1. vpn \in BOOLEAN
        BY Zenon
    <2>2. hs' = [hs EXCEPT !.vpn = vpn]
        BY <1>3 DEF Decide
    <2>3. loc' = [loc EXCEPT !["monitor"] = [loc["monitor"] EXCEPT !.vpn = vpn, !.cont = "push"]]
        BY <1>3 DEF Decide
    <2> HIDE DEF vpn
    <2>4. hs' \in HomeState /\ loc' \in [Threads -> Locals]
        <3>1. hs' \in HomeState
            BY <2>1, <2>2, HomeTypes DEF TypeOK
        <3> DEFINE l1 == [loc["monitor"] EXCEPT !.vpn = vpn]
        <3>2. l1 \in Locals /\ "push" \in PCs
            BY <2>1, LocalsTypes DEF TypeOK, PCs
        <3>3. [l1 EXCEPT !.cont = "push"] \in Locals
            BY <3>2, LocalsTypes DEF TypeOK
        <3>4. loc' = [loc EXCEPT !["monitor"] = [l1 EXCEPT !.cont = "push"]]
            BY <2>3 DEF TypeOK
        <3> QED
            BY <3>1, <3>3, <3>4 DEF TypeOK
    <2>5. /\ \E step \in {"check", "downCheck", "push"} : Goto("monitor", step)
          /\ cooldown' \in {1, 2} \/ cooldown' = IF cooldown > 0 THEN cooldown - 1 ELSE 0
        BY <1>3 DEF Decide
    <2>6. pc' \in [Threads -> PCs]
        BY <2>5 DEF Goto, TypeOK, PCs
    <2>7. cooldown' \in 0..2
        BY <2>5 DEF TypeOK
    <2> QED
        BY <1>3, <2>4, <2>6, <2>7 DEF Decide, TypeOK
<1>4. CASE Push
    <2>1. status' \in Status
        BY <1>4, ShownType DEF Push, TypeOK, Locals
    <2> QED
        BY <1>4, <2>1, DoneType DEF Push, TypeOK
<1> QED
    BY <1>1, <1>2, <1>3, <1>4

\* ... the tray's commands, ...
LEMMA TrayType ==
    ASSUME TypeOK, TrayCommand
    PROVE  TypeOK'
<1> USE DEF wgVars, Threads
<1>1. commands' \in 0..MaxCommands /\ moves' = moves
    BY PolicyConstants DEF TrayCommand, SetAutoVPN, VpnConnect, VpnDisconnect, SetExit,
                           Command, TypeOK
<1>2. ASSUME NEW v \in BOOLEAN, SetAutoVPN(v) PROVE TypeOK'
    <2>1. hs' \in HomeState
        BY <1>2, HomeTypes DEF SetAutoVPN, TypeOK, HomeState
    <2>2. status' \in Status
        BY <1>2 DEF SetAutoVPN, TypeOK, Status
    <2> QED
        BY <1>1, <1>2, <2>1, <2>2 DEF SetAutoVPN, Goto, TypeOK, PCs
<1>3. CASE VpnConnect \/ VpnDisconnect
    <2>1. pc' \in [Threads -> PCs] /\ loc' \in [Threads -> Locals]
        <3>1. PICK step \in PCs, cont \in PCs : Call("tray", step, cont, None)
            BY <1>3 DEF VpnConnect, VpnDisconnect, PCs
        <3>2. None \in Conf
            BY DEF Conf
        <3> QED
            BY <3>1, <3>2, CallType
    <2> QED
        BY <1>1, <1>3, <2>1 DEF VpnConnect, VpnDisconnect, TypeOK
<1>4. ASSUME NEW e \in MaybeExit, SetExit(e) PROVE TypeOK'
    <2>1. pushes' \in Seq(Pushed)
        <3>1. ConfFor(e) \in Pushed
            BY DEF ConfFor, Pushed, Whole, MaybeExit
        <3> QED
            BY <1>4, <3>1 DEF SetExit, TypeOK
    <2> QED
        BY <1>1, <1>4, <2>1 DEF SetExit, Goto, TypeOK, PCs
<1> QED
    BY <1>2, <1>3, <1>4 DEF TrayCommand

\* ... enrolment and the refreshing of the exits, ...
LEMMA MeshType ==
    ASSUME TypeOK, MeshStep \/ Fetch("tray") \/ InstallExit("tray")
    PROVE  TypeOK'
<1> USE DEF Quiet, envVars, wgVars
<1> "mesh" \in Threads /\ "tray" \in Threads
    BY DEF Threads
<1>1. ASSUME NEW t \in Threads, loc' = [loc EXCEPT ![t].exit = dirExit]
      PROVE  loc' \in [Threads -> Locals]
    <2>1. [loc[t] EXCEPT !.exit = dirExit] \in Locals
        BY DEF TypeOK, Locals
    <2>2. loc' = [loc EXCEPT ![t] = [loc[t] EXCEPT !.exit = dirExit]]
        BY <1>1 DEF TypeOK
    <2> QED
        BY <2>1, <2>2 DEF TypeOK
<1>2. ASSUME NEW t \in Threads, hs' = [hs EXCEPT !.exit = loc[t].exit]
      PROVE  hs' \in HomeState
    <2>1. loc[t].exit \in MaybeExit
        BY DEF TypeOK, Locals
    <2> QED
        BY <1>2, <2>1 DEF TypeOK, HomeState
<1>3. ASSUME NEW t \in Threads, Refreshed(t)
      PROVE  pc' \in [Threads -> PCs] /\ loc' \in [Threads -> Locals]
    BY <1>3, ForgetType DEF Refreshed, PCs
<1>4. CASE EnrollMesh
    <2>1. pc' \in [Threads -> PCs] /\ loc' \in [Threads -> Locals]
        BY <1>1, <1>4, DoneType DEF EnrollMesh, Goto, TypeOK, PCs
    <2> QED
        BY <1>4, <2>1 DEF EnrollMesh, TypeOK
<1>5. CASE SetIdentity
    BY <1>2, <1>5 DEF SetIdentity, Goto, TypeOK, PCs
<1>6. ASSUME NEW t \in Threads, Fetch(t) PROVE TypeOK'
    <2>1. pc' \in [Threads -> PCs] /\ loc' \in [Threads -> Locals]
        BY <1>1, <1>3, <1>6 DEF Fetch, Goto, TypeOK, PCs
    <2> QED
        BY <1>6, <2>1 DEF Fetch, TypeOK
<1>7. ASSUME NEW t \in Threads, InstallExit(t) PROVE TypeOK'
    BY <1>2, <1>3, <1>7 DEF InstallExit, TypeOK
<1> QED
    BY <1>4, <1>5, <1>6, <1>7 DEF MeshStep

\* ... what the directory sends, ...
LEMMA SessionType ==
    ASSUME TypeOK, HandleConfig \/ HandleApply \/ HandleRemove \/ ApplyWant
    PROVE  TypeOK'
<1> USE DEF Quiet, envVars, wgVars
<1>0. "session" \in Threads /\ None \in Conf
    BY DEF Threads, Conf
<1>1. CASE HandleConfig
    <2>1. pushes' \in Seq(Pushed)
        BY <1>1 DEF HandleConfig, TypeOK
    <2>2. pc' \in [Threads -> PCs]
        BY <1>1 DEF HandleConfig, Goto, TypeOK, PCs
    <2> QED
        BY <1>1, <2>1, <2>2 DEF HandleConfig, TypeOK
<1>2. CASE HandleApply
    <2> DEFINE c == Head(pushes)
    <2>1. c \in Whole /\ c \in Conf /\ pushes' \in Seq(Pushed)
        BY <1>2 DEF HandleApply, TypeOK, Pushed, Conf
    <2>2. ExitOf(c) \in MaybeExit
        BY <2>1 DEF ExitOf, MaybeExit, Whole
    <2>3. hs' \in HomeState
        BY <1>2, <2>2 DEF HandleApply, TypeOK, HomeState
    <2>4. Call("session", "store", "applyWant", c) /\ "store" \in PCs /\ "applyWant" \in PCs
        BY <1>2 DEF HandleApply, PCs
    <2>5. pc' \in [Threads -> PCs] /\ loc' \in [Threads -> Locals]
        BY <1>0, <2>1, <2>4, CallType
    <2> QED
        BY <1>2, <2>1, <2>3, <2>5 DEF HandleApply, TypeOK
<1>3. CASE HandleRemove
    <2>1. Call("session", "downOnly", "markDown", None) /\ "downOnly" \in PCs
              /\ "markDown" \in PCs
        BY <1>3 DEF HandleRemove, PCs
    <2>2. pc' \in [Threads -> PCs] /\ loc' \in [Threads -> Locals]
        BY <1>0, <2>1, CallType
    <2>3. pushes' \in Seq(Pushed)
        BY <1>3 DEF HandleRemove, TypeOK
    <2> QED
        BY <1>3, <2>2, <2>3 DEF HandleRemove, TypeOK
<1>4. CASE ApplyWant
    <2>1. \E step \in PCs, cont \in PCs, c \in Conf : Call("session", step, cont, c)
        <3>1. loc["session"].conf \in Conf
            BY <1>0 DEF TypeOK, Locals
        <3> QED
            BY <1>0, <1>4, <3>1 DEF ApplyWant, PCs
    <2>2. pc' \in [Threads -> PCs] /\ loc' \in [Threads -> Locals]
        BY <1>0, <2>1, CallType
    <2> QED
        BY <1>4, <2>2 DEF ApplyWant, TypeOK
<1> QED
    BY <1>1, <1>2, <1>3, <1>4

\* ... and what happens around the daemon.
LEMMA EnvironmentType ==
    ASSUME TypeOK, \/ \E t \in {"monitor", "tray", "session"} : WgFail(t)
                   \/ Roam \/ Connect \/ Disconnect \/ SendRemove
    PROVE  TypeOK'
<1> USE PolicyConstants DEF wgVars
<1>1. ASSUME NEW t \in Threads, WgFail(t) PROVE TypeOK'
    <2>1. pc' \in [Threads -> PCs] /\ loc' \in [Threads -> Locals]
        BY <1>1, ReturnType DEF WgFail
    <2>2. conf' \in Conf
        BY <1>1 DEF WgFail, TypeOK, Conf
    <2> QED
        BY <1>1, <2>1, <2>2 DEF WgFail, Move, TypeOK
<1>2. CASE Roam
    <2>1. atHome' \in BOOLEAN
        BY <1>2, Zenon DEF Roam
    <2> QED
        BY <1>2, <2>1 DEF Roam, Move, TypeOK
<1>3. CASE Connect
    <2>1. pushes' \in Seq(Pushed)
        BY <1>3 DEF Connect, Pushed
    <2>2. pc' \in [Threads -> PCs]
        BY <1>3 DEF Connect, Goto, TypeOK, PCs
    <2>3. connected' \in BOOLEAN
        BY <1>3 DEF Connect
    <2> QED
        BY <1>3, <2>1, <2>2, <2>3 DEF Connect, TypeOK
<1>4. CASE Disconnect
    <2>1. pushes' = <<>> /\ connected' = FALSE
        BY <1>4, Zenon DEF Disconnect
    <2>2. UNCHANGED <<atHome, dirExit, hs, conf, iface, status, pc, loc, cooldown>> /\ Move
        BY <1>4, Zenon DEF Disconnect
    <2>3. pushes' \in Seq(Pushed)
        BY <2>1, <<>> \in Seq(Pushed)
    <2>5. connected' \in BOOLEAN
        BY <2>1, Zenon
    <2>4. moves' \in 0..MaxMoves /\ commands' \in 0..MaxCommands
        BY <2>2 DEF Move, TypeOK
    <2> QED
        BY <2>2, <2>3, <2>4, <2>5 DEF TypeOK
<1>5. CASE SendRemove
    <2>1. pushes' \in Seq(Pushed)
        BY <1>5 DEF SendRemove, TypeOK, Pushed, Conf
    <2> QED
        BY <1>5, <2>1 DEF SendRemove, Move, TypeOK
<1> QED
    BY <1>1, <1>2, <1>3, <1>4, <1>5 DEF Threads

\* Every step keeps the state well typed.
LEMMA TypeStep == TypeOK /\ [Next]_vars => TypeOK'
<1> SUFFICES ASSUME TypeOK, [Next]_vars PROVE TypeOK'
    OBVIOUS
<1>1. CASE \E t \in Threads : WgStep(t)
    BY <1>1, WgStepType
<1>2. CASE UNCHANGED vars
    BY <1>2 DEF vars, TypeOK
<1> QED
    BY <1>1, <1>2, MonitorType, TrayType, MeshType, SessionType, EnvironmentType
       DEF Next, MonitorStep, TrayStep, SessionStep, Threads

\* A daemon that has just started is well typed.
LEMMA TypeInit == Init => TypeOK
<1> SUFFICES ASSUME Init PROVE TypeOK
    OBVIOUS
<1> USE PolicyConstants
<1>1. NoLocals \in Locals /\ "idle" \in PCs
    BY DEF NoLocals, Locals, PCs, MaybeExit, Conf
<1>2. PICK start \in Starts :
        /\ hs = [vpn |-> FALSE, auto |-> start.auto, exit |-> None, home |-> FALSE,
                 known |-> FALSE]
        /\ conf = start.conf /\ atHome = start.home
    BY DEF Init
<1>3. hs \in HomeState /\ conf \in Conf /\ atHome \in BOOLEAN
    BY <1>2 DEF HomeState, Conf, Whole, MaybeExit
<1>4. connected \in BOOLEAN /\ status \in Status
    BY DEF Init, Status
<1>5. /\ dirExit \in MaybeExit /\ iface \in Conf /\ pushes \in Seq(Pushed)
      /\ cooldown \in 0..2 /\ moves \in 0..MaxMoves /\ commands \in 0..MaxCommands
    BY DEF Init, MaybeExit, Conf
<1>6. pc \in [Threads -> PCs] /\ loc \in [Threads -> Locals]
    BY <1>1 DEF Init
<1> QED
    BY <1>3, <1>4, <1>5, <1>6 DEF TypeOK

\* The four threads are where their code can be, with values of the right kind,
\* however handlers overlap (checkAndPush, handleCommand, the read loop and
\* ensureMeshIdentity).
THEOREM TypeCorrect == Spec => []TypeOK
BY TypeInit, TypeStep, PTL DEF Spec

-----------------------------------------------------------------------------
(* The tunnel is left alone when it is as it should be.                     *)

OthersStay(t) == \A u \in Threads : u # t => pc'[u] = pc[u] /\ loc'[u] = loc[u]

\* Connected, auto-VPN on, the tunnel as the policy wants it; nobody but the
\* monitor is at work, and what it has read so far in this tick still holds.
Steady ==
    /\ connected /\ hs.auto /\ pushes = <<>>
    /\ (iface # None) <=> TunnelShouldBeUp(hs, atHome)
    /\ \A t \in Threads \ {"monitor"} : pc[t] = "idle"
    /\ LET m == loc["monitor"]
       IN  /\ pc["monitor"] \in {"idle", "probe", "decide", "push"}
           /\ pc["monitor"] # "idle" => m.auto /\ m.connected
           /\ pc["monitor"] \in {"decide", "push"} => m.home = atHome
           /\ pc["monitor"] = "push" => m.vpn = (iface # None)

\* The tray shows the host as it is.
StatusRight ==
    /\ status.color = Color(connected, iface # None, atHome)
    /\ status.auto = hs.auto

\* The half of TunnelConverges and StatusConverges that is safety.  Once the
\* tunnel is as the policy wants it, the monitor does not touch it, whatever it
\* probes, and a right status stays right, until the host roams, the connection
\* breaks or somebody asks for a change (checkAndPush, handleAutoVPN).
LeftAlone ==
    [][Steady => \/ Steady' /\ UNCHANGED wgVars /\ (StatusRight => StatusRight')
                 \/ TrayCommand \/ Roam \/ Disconnect \/ SendRemove]_vars

\* Of the handlers only the monitor can move in a steady state.
LEMMA OnlyMonitorMoves ==
    ASSUME Steady, [Next]_vars
    PROVE  \/ Tick \/ Probe \/ Decide \/ Push
           \/ TrayCommand \/ Roam \/ Disconnect \/ SendRemove
           \/ UNCHANGED vars
<1>1. /\ connected /\ pushes = <<>>
      /\ pc["tray"] = "idle" /\ pc["session"] = "idle" /\ pc["mesh"] = "idle"
      /\ pc["monitor"] \in {"idle", "probe", "decide", "push"}
    BY DEF Steady, Threads
<1>2. \A t \in {"monitor", "tray", "session"} : ~WgStep(t) /\ ~WgFail(t)
    BY <1>1 DEF WgStep, Check, Truncate, Fill, Cycle, Down, Up, DownCheck, DownOnly, MarkVPN,
                Trigger, Show, WgFail
<1>3. ~TrayStep /\ ~MeshStep
    BY <1>1, <1>2 DEF TrayStep, MeshStep, Fetch, InstallExit, EnrollMesh, SetIdentity
<1>4. ~SessionStep /\ ~Connect
    BY <1>1, <1>2 DEF SessionStep, ApplyWant, Connect
<1>5. ~HandleConfig /\ ~HandleApply /\ ~HandleRemove
    BY <1>1 DEF HandleConfig, HandleApply, HandleRemove
<1> QED
    BY <1>2, <1>3, <1>4, <1>5 DEF Next, MonitorStep

\* A tick leaves a steady tunnel alone, whichever of its steps it takes.
LEMMA TickLeavesAlone ==
    ASSUME TypeOK, Steady, Tick \/ Probe \/ Decide \/ Push
    PROVE  Steady' /\ UNCHANGED wgVars /\ (StatusRight => StatusRight')
<1> USE DEF Quiet, envVars, wgVars
<1> DEFINE m == loc["monitor"]
           up == iface # None
<1>0. /\ "monitor" \in Threads
      /\ UNCHANGED <<iface, conf, connected, atHome, pushes>>
      /\ hs'.auto = hs.auto /\ hs'.exit = hs.exit
    BY DEF Tick, Probe, Decide, Push, Threads, TypeOK, HomeState
<1>1. TunnelShouldBeUp(hs, atHome)' <=> TunnelShouldBeUp(hs, atHome)
    BY <1>0, Zenon DEF TunnelShouldBeUp, RemoteExit
<1>2. ASSUME OthersStay("monitor"),
             pc'["monitor"] \in {"idle", "probe", "decide", "push"},
             pc'["monitor"] # "idle" => m'.auto /\ m'.connected,
             pc'["monitor"] \in {"decide", "push"} => m'.home = atHome,
             pc'["monitor"] = "push" => m'.vpn = up
      PROVE  Steady'
    <2>1. \A t \in Threads \ {"monitor"} : pc'[t] = "idle"
        BY <1>2 DEF Steady, OthersStay
    <2>2. connected' /\ hs'.auto /\ pushes' = <<>>
        BY <1>0 DEF Steady
    <2>3. (iface' # None) <=> TunnelShouldBeUp(hs, atHome)'
        BY <1>0, <1>1 DEF Steady
    <2>4. m'.home = atHome => m'.home = atHome'
        BY <1>0
    <2>5. m'.vpn = up => m'.vpn = (iface # None)'
        BY <1>0
    <2> QED
        BY <1>2, <2>1, <2>2, <2>3, <2>4, <2>5, Zenon DEF Steady
<1>3. status' = status => (StatusRight => StatusRight')
    BY <1>0 DEF StatusRight, Color
<1>4. CASE Tick
    <2>1. OthersStay("monitor") /\ pc'["monitor"] = "probe" /\ status' = status
        BY <1>0, <1>4 DEF Tick, Goto, TypeOK, OthersStay
    <2>2. m'.auto = hs.auto /\ m'.connected = connected
        BY <1>0, <1>4 DEF Tick, TypeOK, Locals
    <2>3. m'.auto /\ m'.connected
        BY <2>2, Zenon DEF Steady
    <2> QED
        BY <1>0, <1>2, <1>3, <2>1, <2>3
<1>5. CASE Probe
    <2>1. OthersStay("monitor") /\ pc'["monitor"] = "decide" /\ status' = status
        BY <1>0, <1>5 DEF Probe, Goto, TypeOK, OthersStay
    <2>2. m.auto /\ m.connected /\ pc["monitor"] = "probe"
        BY <1>5 DEF Probe, Steady
    <2>3. (m.connected /\ atHome) = atHome
        BY <2>2, Zenon DEF TypeOK
    <2>4. loc' = [loc EXCEPT !["monitor"].home = atHome]
        BY <1>5, <2>3, Zenon DEF Probe
    <2>5. m'.auto = m.auto /\ m'.connected = m.connected /\ m'.home = atHome
        BY <1>0, <2>4 DEF TypeOK, Locals
    <2>6. m'.auto /\ m'.connected
        BY <2>2, <2>5, Zenon
    <2> QED
        BY <1>0, <1>2, <1>3, <2>1, <2>5, <2>6
<1>6. CASE Decide
    <2>1. pc["monitor"] = "decide" /\ m.auto /\ m.connected /\ m.home = atHome
        BY <1>6 DEF Decide, Steady
    <2>2. TunnelShouldBeUp(hs, m.home) = up
        BY <2>1, PolicyTypes, Zenon DEF Steady, TypeOK
    <2>3. Goto("monitor", "push")
        BY <1>6, <2>2 DEF Decide, TypeOK, Locals
    <2>4. OthersStay("monitor") /\ pc'["monitor"] = "push" /\ status' = status
        BY <1>0, <1>6, <2>3 DEF Decide, Goto, TypeOK, OthersStay
    <2>5. loc' = [loc EXCEPT !["monitor"] = [m EXCEPT !.vpn = up, !.cont = "push"]]
        BY <1>6 DEF Decide
    <2> HIDE DEF up
    <2>6. m'.auto = m.auto /\ m'.connected = m.connected /\ m'.home = m.home /\ m'.vpn = up
        BY <1>0, <2>5 DEF TypeOK, Locals
    <2>7. m'.auto /\ m'.connected /\ m'.home = atHome
        BY <2>1, <2>6, Zenon
    <2> QED
        BY <1>0, <1>2, <1>3, <2>4, <2>6, <2>7
<1>7. CASE Push
    <2>1. pc["monitor"] = "push" /\ m.auto /\ m.connected /\ m.home = atHome /\ m.vpn = up
        BY <1>7, Zenon DEF Push, Steady
    <2>2. OthersStay("monitor") /\ pc'["monitor"] = "idle"
        BY <1>0, <1>7 DEF Push, Done, Forget, Goto, TypeOK, OthersStay
    <2>3. status' = Shown(m.connected, m) /\ connected /\ hs.auto
        BY <1>7 DEF Push, Steady
    <2>4. status'.color = Color(m.connected, m.vpn, m.home) /\ status'.auto = m.auto
        BY <2>3 DEF Shown
    <2>5. status'.color = Color(connected, up, atHome)
        BY <2>1, <2>3, <2>4 DEF Color
    <2>6. status'.auto = hs.auto
        <3>1. m.auto = TRUE /\ hs.auto = TRUE
            BY <2>1, <2>3, HomeFields, Zenon DEF TypeOK, Locals
        <3> QED
            BY <2>4, <3>1
    <2>7. StatusRight'
        BY <1>0, <2>5, <2>6 DEF StatusRight
    <2> QED
        BY <1>0, <1>2, <2>2, <2>7
<1> QED
    BY <1>4, <1>5, <1>6, <1>7

\* The monitor does not touch a steady tunnel, and a right status stays right
\* (checkAndPush, handleAutoVPN).
THEOREM LeftAloneHolds == Spec => LeftAlone
<1> DEFINE Asked == TrayCommand \/ Roam \/ Disconnect \/ SendRemove
           Kept == Steady' /\ UNCHANGED wgVars /\ (StatusRight => StatusRight')
<1>1. TypeOK /\ [Next]_vars => [Steady => Kept \/ Asked]_vars
    BY OnlyMonitorMoves, TickLeavesAlone
<1> QED
    BY <1>1, TypeCorrect, PTL DEF Spec, LeftAlone
=============================================================================
