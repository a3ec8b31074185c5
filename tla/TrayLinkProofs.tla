--------------------------- MODULE TrayLinkProofs ---------------------------
(***************************************************************************)
(* Proofs about TrayLink, for every set of trays and exits, sockets of any *)
(* size, and any number of clicks and faults.                              *)
(***************************************************************************)
EXTENDS TrayLink, TLAPS

Queues ==
  /\ up \in [Trays -> Seq(Commands)]
  /\ sending \in [Trays -> [Senders -> Commands \cup {None}]]
  /\ \A t \in Trays : ~IsAuto(sending[t]["exits"])

Statuses == [auto : BOOLEAN, exits : SUBSET Sites, cur : Sites \cup {None}]
Menus    == [shown : BOOLEAN, sig : SUBSET Sites, items : SUBSET Sites,
             tick : Sites \cup {None}]
Pushes   == [msg : Statuses, left : SUBSET Trays, at : Trays \cup {None},
             pc : {"idle", "read", "lock", "write"}]

\* What the daemon knows, pushes and what the trays draw from it.
Shown ==
  /\ auto \in BOOLEAN /\ saved \in BOOLEAN /\ mesh \in Exits
  /\ status \in Statuses /\ clients \in SUBSET Trays
  /\ push \in [Pushers -> Pushes]
  /\ down \in [Trays -> Seq(Statuses)]
  /\ ui \in [Trays -> Statuses] /\ menu \in [Trays -> Menus]

\* Only one tray has a click of the checkbox under way.
OneClicked == \A t, q \in Trays : InFlight(t) /\ InFlight(q) => t = q

\* What that tray has yet to write is what was clicked last; otherwise that is
\* the last such command in its socket.
LastIsIntent ==
  \A t \in Trays :
    /\ IsAuto(sending[t]["menu"]) => sending[t]["menu"].value = intent
    /\ ~IsAuto(sending[t]["menu"]) =>
         \A i \in DOMAIN up[t] :
           /\ IsAuto(up[t][i])
           /\ \A j \in DOMAIN up[t] : j > i => ~IsAuto(up[t][j])
           => up[t][i].value = intent

\* The inductive invariant behind IntentKept.
TrayInv ==
  /\ Queues
  /\ astray \in BOOLEAN
  /\ astray \/ (OneClicked /\ LastIsIntent)
  /\ IntentKept

\* The daemon goes by agent.yml and nobody has clicked yet.
LEMMA InitTrayInv == Init => TrayInv
<1> SUFFICES ASSUME Init PROVE TrayInv
    OBVIOUS
<1>1. Queues
    BY DEF Init, Queues, Senders, IsAuto
<1>2. \A t \in Trays : up[t] = <<>> /\ sending[t]["menu"] = None
    BY DEF Init, Senders
<1>3. \A t \in Trays : ~InFlight(t)
    BY <1>2 DEF InFlight, IsAuto
<1>4. LastIsIntent
    BY <1>2 DEF LastIsIntent, IsAuto
<1> QED
    BY <1>1, <1>3, <1>4 DEF Init, TrayInv, OneClicked, IntentKept

\* Before the first tray there is nothing to show.
LEMMA InitShown == Init => Shown
BY DEF Init, Shown, Statuses, Menus, Pushes, Exits, NoExits, Zero, Status, NoPush, Blank

\* A status made from the preference and the exits is one.
LEMMA StatusOf ==
  ASSUME NEW a \in BOOLEAN, NEW m \in Exits
  PROVE  Status(a, m) \in Statuses
BY DEF Status, Statuses, Exits

\* Drawing a status leaves a menu.
LEMMA MenuOf ==
  ASSUME NEW m \in Menus, NEW s \in Statuses
  PROVE  syncExitMenu(m, s) \in Menus
BY DEF syncExitMenu, Menus, Statuses

\* A pusher that goes on to its next client is one.
LEMMA PushOn ==
  ASSUME NEW f \in [Pushers -> Pushes], NEW p \in Pushers,
         NEW l \in SUBSET Trays, NEW a \in Trays
  PROVE  /\ [f EXCEPT ![p].pc = "write", ![p].at = a, ![p].left = l] \in [Pushers -> Pushes]
         /\ [f EXCEPT ![p].left = l, ![p].at = a] \in [Pushers -> Pushes]
<1> DEFINE x == [f[p] EXCEPT !.pc = "write", !.at = a, !.left = l]
           y == [f[p] EXCEPT !.left = l, !.at = a]
<1>1. x \in Pushes /\ y \in Pushes
    BY DEF Pushes
<1>2. /\ [f EXCEPT ![p].pc = "write", ![p].at = a, ![p].left = l] = [f EXCEPT ![p] = x]
      /\ [f EXCEPT ![p].left = l, ![p].at = a] = [f EXCEPT ![p] = y]
    OBVIOUS
<1> QED
    BY <1>1, <1>2

\* And so is one that has read the preference.
LEMMA PushRead ==
  ASSUME NEW f \in [Pushers -> Pushes], NEW p \in Pushers, NEW on \in BOOLEAN
  PROVE  [f EXCEPT ![p].pc = "read", ![p].msg.auto = on] \in [Pushers -> Pushes]
<1> DEFINE m == [f[p].msg EXCEPT !.auto = on]
           z == [f[p] EXCEPT !.pc = "read", !.msg = m]
<1>1. m \in Statuses
    BY DEF Pushes, Statuses
<1>2. z \in Pushes
    <2> HIDE DEF m
    <2> QED BY <1>1 DEF Pushes
<1>3. [f EXCEPT ![p].pc = "read", ![p].msg.auto = on] = [f EXCEPT ![p] = z]
    OBVIOUS
<1> QED
    BY <1>2, <1>3

\* No step puts anything but offered exits in front of the user.
LEMMA NextShown == Shown /\ Queues /\ [Next]_vars => Shown'
<1> SUFFICES ASSUME Shown, Queues, [Next]_vars PROVE Shown'
    OBVIOUS
<1> USE DEF policy, srvVars, sockVars, drawn, bounds, ghosts
<1>z. Zero \in Statuses /\ NoPush \in Pushes /\ NoExits \in Exits /\ Blank \in Menus
    BY DEF Zero, Status, NoExits, Statuses, NoPush, Pushes, Exits, Blank, Menus
<1>0. CASE UNCHANGED <<auto, saved, mesh, status, clients, push, down, ui, menu>>
    BY <1>0 DEF Shown
<1>1. CASE checkAndPush
    <2>1. push' \in [Pushers -> Pushes]
        BY <1>1, PushRead DEF checkAndPush, Shown, Pushers
    <2> QED
        BY <1>1, <2>1 DEF checkAndPush, Shown
<1>2. CASE UpdateTrayStatus
    <2>1. push[Monitor] \in Pushes /\ push[Monitor].msg.auto \in BOOLEAN
        BY DEF Shown, Pushers, Pushes, Statuses
    <2>2. Status(push[Monitor].msg.auto, mesh) \in Statuses
        BY <2>1, StatusOf DEF Shown
    <2> QED
        BY <1>2, <2>2 DEF UpdateTrayStatus, Shown, Pushes
<1>3. ASSUME NEW p \in Pushers, PushLock(p) PROVE Shown'
    <2>1. push[p] \in Pushes /\ push[p].msg \in Statuses
        BY DEF Shown, Pushes
    <2>2. push' \in [Pushers -> Pushes]
        <3>1. CASE push' = [push EXCEPT ![p] = NoPush]
            BY <1>z, <3>1 DEF Shown
        <3>2. ASSUME NEW t \in clients,
                     push' = [push EXCEPT ![p].pc = "write", ![p].at = t, ![p].left = clients]
              PROVE  push' \in [Pushers -> Pushes]
            BY <3>2, PushOn DEF Shown
        <3> QED
            BY <1>3, <3>1, <3>2 DEF PushLock
    <2> QED
        BY <1>3, <2>1, <2>2 DEF PushLock, Shown
<1>4. ASSUME NEW p \in Pushers, PushWrite(p) PROVE Shown'
    <2>1. push[p] \in Pushes /\ push[p].msg \in Statuses
        BY DEF Shown, Pushes
    <2>2. push' \in [Pushers -> Pushes]
        <3> DEFINE rest == push[p].left \ {push[p].at}
        <3>1. CASE push' = [push EXCEPT ![p] = NoPush]
            BY <1>z, <3>1 DEF Shown
        <3>2. ASSUME NEW q \in rest, push' = [push EXCEPT ![p].left = rest, ![p].at = q]
              PROVE  push' \in [Pushers -> Pushes]
            <4>1. rest \in SUBSET Trays
                BY <2>1 DEF Pushes
            <4> HIDE DEF rest
            <4> QED
                BY <3>2, <4>1, PushOn DEF Shown
        <3> QED
            BY <1>4, <3>1, <3>2 DEF PushWrite
    <2>3. down' \in [Trays -> Seq(Statuses)]
        <3>1. CASE down' = down
            BY <3>1 DEF Shown
        <3>2. CASE down' = [down EXCEPT ![push[p].at] = Append(@, push[p].msg)]
            <4>1. \A t \in Trays : Append(down[t], push[p].msg) \in Seq(Statuses)
                BY <2>1 DEF Shown
            <4> QED
                BY <3>2, <4>1 DEF Shown
        <3> QED
            BY <1>4, <3>1, <3>2 DEF PushWrite
    <2> QED
        BY <1>4, <2>2, <2>3 DEF PushWrite, Shown
<1>5. ASSUME NEW t \in Trays, Enter(t) \/ Forget(t) PROVE Shown'
    <2>1. Append(down[t], status) \in Seq(Statuses)
        BY DEF Shown
    <2>2. down' \in [Trays -> Seq(Statuses)]
        BY <1>5, <2>1 DEF Enter, Forget, Shown
    <2> QED
        BY <1>5, <2>2 DEF Enter, Forget, Shown
<1>6. ASSUME NEW t \in Trays, NEW a \in BOOLEAN, NEW m \in Exits, Pushing(t, Status(a, m))
      PROVE  push' \in [Pushers -> Pushes]
    BY <1>6, <1>z, StatusOf DEF Pushing, Shown, Pushes
<1>7. ASSUME NEW t \in Trays, SetAutoVPN(t) PROVE Shown'
    <2>1. up[t] \in Seq(Commands) /\ up[t] # <<>> /\ Next1(t).cmd = "set_auto_vpn"
        BY <1>7 DEF SetAutoVPN, Ready, Queues
    <2>2. Next1(t) \in Commands
        BY <2>1 DEF Next1
    <2>3. Next1(t).value \in BOOLEAN
        BY <2>1, <2>2 DEF Commands
    <2>4. push' \in [Pushers -> Pushes]
        BY <1>6, <1>7, <2>3 DEF SetAutoVPN, Shown
    <2>5. status' \in Statuses
        BY <1>7, <2>3 DEF SetAutoVPN, Shown, Statuses
    <2> QED
        BY <1>7, <2>3, <2>4, <2>5 DEF SetAutoVPN, Shown
<1>8. ASSUME NEW t \in Trays, SetExit(t) PROVE Shown'
    <2>1. mesh' \in Exits
        BY <1>8 DEF SetExit, Shown, Exits
    <2>2. push' \in [Pushers -> Pushes]
        BY <1>6, <1>8, <2>1 DEF SetExit, Shown
    <2> QED
        BY <1>8, <2>1, <2>2 DEF SetExit, Shown
<1>9. ASSUME NEW t \in Trays, NEW s \in Statuses, updateUI(t, s)
      PROVE  ui' \in [Trays -> Statuses] /\ menu' \in [Trays -> Menus]
    BY <1>9, MenuOf DEF updateUI, Shown
<1>10. ASSUME NEW t \in Trays, Draw(t) PROVE Shown'
    <2>1. CASE DialFails(t)
        BY <1>9, <1>z, <2>1 DEF DialFails, Shown
    <2>2. CASE streamStatus(t)
        <3>1. Head(down[t]) \in Statuses /\ down' \in [Trays -> Seq(Statuses)]
            BY <2>2 DEF streamStatus, Shown
        <3> QED
            BY <1>9, <2>2, <3>1 DEF streamStatus, Shown
    <2>3. CASE Dial(t) \/ SetCheckbox(t) \/ Lost(t) \/ Retry(t)
        BY <1>0, <2>3 DEF Dial, SetCheckbox, Lost, Retry
    <2> QED
        BY <1>10, <2>1, <2>2, <2>3 DEF Draw
<1>11. ASSUME NEW t \in Trays, ClickAutoVPN(t) PROVE Shown'
    <2> DEFINE value == ~ui[t].auto
    <2>1. value \in BOOLEAN
        OBVIOUS
    <2>2. ui' = [ui EXCEPT ![t].auto = value]
        BY <1>11 DEF ClickAutoVPN
    <2>3. ui' \in [Trays -> Statuses]
        <3> HIDE DEF value
        <3> QED BY <2>1, <2>2 DEF Shown, Statuses
    <2> QED
        BY <1>11, <2>3 DEF ClickAutoVPN, Shown
<1>12. ASSUME NEW t \in Trays, RefusePrivileged(t) \/ ClickReinit(t) \/ watchExitClick(t)
                                 \/ Stall(t) \/ Resume(t)
       PROVE  Shown'
    BY <1>0, <1>12 DEF RefusePrivileged, ClickReinit, watchExitClick, Stall, Resume
<1>13. ASSUME NEW t \in Trays, Ends(t)
       PROVE  /\ down' \in [Trays -> Seq(Statuses)]
              /\ ui' \in [Trays -> Statuses] /\ menu' \in [Trays -> Menus]
    BY <1>13, <1>z DEF Ends, Shown
<1>14. ASSUME NEW t \in Trays, Quit(t) PROVE Shown'
    BY <1>13, <1>14 DEF Quit, Shown
<1>15. ASSUME NEW t \in Trays, NEW k \in Senders, sendCmd(t, k) PROVE Shown'
    BY <1>0, <1>13, <1>15 DEF sendCmd, Shown
<1>16. ASSUME NEW e \in Exits, Offer(e) PROVE Shown'
    BY <1>16 DEF Offer, Shown
<1>17. CASE Stop
    BY <1>17, <1>z DEF Stop, Shown
<1>18. CASE Start \/ UNCHANGED vars
    BY <1>0, <1>18 DEF Start, vars
<1> QED
    BY <1>1, <1>2, <1>3, <1>4, <1>5, <1>7, <1>8, <1>10, <1>11, <1>12, <1>14, <1>15,
       <1>16, <1>17, <1>18 DEF Next, Serve

\* Steps that leave alone what is under way and the preference.
LEMMA ElsewhereTray ==
  ASSUME TrayInv, UNCHANGED <<up, sending, astray, intent, saved, auto>>
  PROVE  TrayInv'
BY DEF TrayInv, Queues, OneClicked, LastIsIntent, IntentKept, InFlight, IsAuto

\* A command leaves the front of a socket: the rest of it is what follows.
LEMMA TailOf ==
  ASSUME NEW s \in Seq(Commands), s # <<>>
  PROVE  /\ Tail(s) \in Seq(Commands) /\ Head(s) = s[1] /\ Head(s) \in Commands
         /\ 1 \in DOMAIN s
         /\ \A i \in DOMAIN Tail(s) : i + 1 \in DOMAIN s /\ Tail(s)[i] = s[i + 1]
         /\ \A i \in DOMAIN s : i = 1 \/ (i - 1 \in DOMAIN Tail(s) /\ Tail(s)[i - 1] = s[i])
OBVIOUS

\* A command enters a socket at the end.
LEMMA AppendOf ==
  ASSUME NEW s \in Seq(Commands), NEW c \in Commands
  PROVE  /\ Append(s, c) \in Seq(Commands)
         /\ Len(s) + 1 \in DOMAIN Append(s, c) /\ Append(s, c)[Len(s) + 1] = c
         /\ \A i \in DOMAIN s : i \in DOMAIN Append(s, c) /\ Append(s, c)[i] = s[i] /\ i < Len(s) + 1
         /\ \A i \in DOMAIN Append(s, c) : i \in DOMAIN s \/ i = Len(s) + 1
OBVIOUS

\* Whatever is taken from the front, the last one stays the last.
LEMMA TailKeepsLast ==
  ASSUME Queues, LastIsIntent, NEW t \in Trays, up[t] # <<>>, Took(t),
         UNCHANGED <<sending, intent>>
  PROVE  LastIsIntent'
<1> DEFINE s == up[t]
           r == up'[t]
<1>1. /\ r = Tail(s) /\ s \in Seq(Commands)
      /\ \A q \in Trays \ {t} : up'[q] = up[q]
    BY DEF Queues, Took
<1>2. /\ \A i \in DOMAIN r : i + 1 \in DOMAIN s /\ r[i] = s[i + 1]
      /\ \A i \in DOMAIN s : i = 1 \/ (i - 1 \in DOMAIN r /\ r[i - 1] = s[i])
    BY <1>1, TailOf
<1>3. (\A i \in DOMAIN s : i \in Nat) /\ (\A i \in DOMAIN r : i \in Nat)
    BY <1>1, TailOf
<1>4. ASSUME ~IsAuto(sending[t]["menu"]), NEW i \in DOMAIN r, IsAuto(r[i]),
             \A j \in DOMAIN r : j > i => ~IsAuto(r[j])
      PROVE  r[i].value = intent
    <2>1. \A j \in DOMAIN s : j > i + 1 => ~IsAuto(s[j])
        <3> SUFFICES ASSUME NEW j \in DOMAIN s, j > i + 1 PROVE ~IsAuto(s[j])
            OBVIOUS
        <3>1. j - 1 \in DOMAIN r /\ r[j - 1] = s[j] /\ j - 1 > i
            <4> HIDE DEF s, r
            <4> QED BY <1>2, <1>3
        <3> QED
            BY <1>4, <3>1
    <2>2. i + 1 \in DOMAIN s /\ s[i + 1] = r[i]
        BY <1>2
    <2> QED
        BY <1>4, <2>1, <2>2 DEF LastIsIntent
<1>5. ASSUME NEW q \in Trays, ~IsAuto(sending[q]["menu"]), NEW i \in DOMAIN up'[q],
             IsAuto(up'[q][i]), \A j \in DOMAIN up'[q] : j > i => ~IsAuto(up'[q][j])
      PROVE  up'[q][i].value = intent
    <2>1. CASE q = t
        BY <1>4, <1>5, <2>1
    <2>2. CASE q # t
        BY <1>1, <1>5, <2>2 DEF LastIsIntent
    <2> QED
        BY <2>1, <2>2
<1>6. sending' = sending /\ intent' = intent
    OBVIOUS
<1> HIDE DEF s, r
<1> QED
    BY <1>5, <1>6 DEF LastIsIntent, IsAuto

\* A command of another kind is taken: the checkbox's are as they were.
LEMMA OtherTaken ==
  ASSUME TrayInv, NEW t \in Trays, up[t] # <<>>, ~IsAuto(Next1(t)), Took(t),
         UNCHANGED <<sending, astray, intent, saved, auto>>
  PROVE  TrayInv'
<1> DEFINE s == up[t]
           r == up'[t]
<1>1. /\ up' \in [Trays -> Seq(Commands)] /\ r = Tail(s) /\ s \in Seq(Commands)
      /\ \A q \in Trays \ {t} : up'[q] = up[q]
    BY TailOf DEF TrayInv, Queues, Took
<1>2. /\ 1 \in DOMAIN s /\ ~IsAuto(s[1])
      /\ \A i \in DOMAIN r : i + 1 \in DOMAIN s /\ r[i] = s[i + 1]
      /\ \A i \in DOMAIN s : i = 1 \/ (i - 1 \in DOMAIN r /\ r[i - 1] = s[i])
    BY <1>1, TailOf DEF Next1
<1>3. \A i \in DOMAIN s : i \in Nat
    BY <1>1
<1>3a. \A i \in DOMAIN r : i \in Nat
    BY <1>1, TailOf
<1>4. InFlight(t)' = InFlight(t)
    <2> HIDE DEF s, r
    <2>1. (\E i \in DOMAIN r : IsAuto(r[i])) <=> (\E i \in DOMAIN s : IsAuto(s[i]))
        BY <1>2
    <2> QED
        BY <2>1 DEF InFlight, IsAuto, s, r
<1>5. \A q \in Trays : InFlight(q)' = InFlight(q)
    BY <1>1, <1>4 DEF InFlight, IsAuto
<1>6. LastIsIntent => LastIsIntent'
    BY TailKeepsLast DEF TrayInv
<1> QED
    BY <1>1, <1>5, <1>6 DEF TrayInv, Queues, OneClicked, IntentKept

\* A click of the checkbox is taken and stored.
LEMMA AutoTaken ==
  ASSUME TrayInv, NEW t \in Trays, up[t] # <<>>, IsAuto(Next1(t)), Took(t),
         auto' = Next1(t).value, saved' = auto',
         UNCHANGED <<sending, astray, intent>>
  PROVE  TrayInv'
<1> DEFINE s == up[t]
           r == up'[t]
<1>1. /\ up' \in [Trays -> Seq(Commands)] /\ r = Tail(s) /\ s \in Seq(Commands)
      /\ \A q \in Trays \ {t} : up'[q] = up[q]
    BY TailOf DEF TrayInv, Queues, Took
<1>2. /\ 1 \in DOMAIN s /\ IsAuto(s[1]) /\ s[1] = Next1(t)
      /\ \A i \in DOMAIN r : i + 1 \in DOMAIN s /\ r[i] = s[i + 1]
      /\ \A i \in DOMAIN s : i = 1 \/ (i - 1 \in DOMAIN r /\ r[i - 1] = s[i])
    BY <1>1, TailOf DEF Next1
<1>3. \A i \in DOMAIN s : i \in Nat
    BY <1>1
<1>3a. \A i \in DOMAIN r : i \in Nat
    BY <1>1, TailOf
<1>4. InFlight(t)
    BY <1>2 DEF InFlight
<1>5. /\ \A q \in Trays \ {t} : InFlight(q)' = InFlight(q)
      /\ InFlight(t)' => InFlight(t)
    BY <1>1, <1>2 DEF InFlight, IsAuto
<1>6. LastIsIntent => LastIsIntent'
    BY TailKeepsLast DEF TrayInv
<1>7. ASSUME ~astray, \A q \in Trays : ~InFlight(q)'
      PROVE  saved' = intent /\ auto' = intent
    <2>1. ~InFlight(t)'
        BY <1>7
    <2>2. ~IsAuto(sending[t]["menu"]) /\ \A i \in DOMAIN r : ~IsAuto(r[i])
        BY <2>1 DEF InFlight, IsAuto
    <2>3. \A j \in DOMAIN s : j > 1 => ~IsAuto(s[j])
        <3> HIDE DEF s, r
        <3> QED BY <1>2, <1>3, <2>2
    <2>4. s[1].value = intent
        BY <1>2, <1>7, <2>2, <2>3 DEF TrayInv, LastIsIntent
    <2> QED
        BY <1>2, <2>4
<1> QED
    BY <1>1, <1>5, <1>6, <1>7 DEF TrayInv, Queues, OneClicked, IntentKept

\* A lost click excuses everything that follows.
LEMMA Astray ==
  ASSUME TrayInv, Queues', astray' = TRUE
  PROVE  TrayInv'
BY DEF TrayInv, IntentKept

\* A click of the checkbox: it is the only one under way, or noted as astray.
LEMMA Clicked ==
  ASSUME TrayInv, NEW t \in Trays, ClickAutoVPN(t)
  PROVE  TrayInv'
<1> DEFINE value == ~ui[t].auto
           c == [cmd |-> "set_auto_vpn", value |-> value]
<1>1. c \in Commands /\ IsAuto(c) /\ c.value = value
    <2>1. value \in BOOLEAN
        OBVIOUS
    <2>2. c \in Commands /\ c.value = value /\ c.cmd = "set_auto_vpn"
        <3> HIDE DEF value
        <3> QED BY <2>1 DEF Commands
    <2> QED
        BY <2>2, NoneAssumption DEF IsAuto
<1>2. Queues' /\ up' = up /\ astray' \in BOOLEAN /\ intent' = value
    <2>1. up' = up /\ astray' \in BOOLEAN /\ intent' = value
        BY DEF ClickAutoVPN, sockVars
    <2>2. \E x \in Commands \cup {None} : sending' = [sending EXCEPT ![t]["menu"] = x]
        BY <1>1 DEF ClickAutoVPN, Click
    <2>3. sending' \in [Trays -> [Senders -> Commands \cup {None}]]
        BY <2>2 DEF TrayInv, Queues, Senders
    <2>4. \A q \in Trays : sending'[q]["exits"] = sending[q]["exits"]
        BY <2>2 DEF TrayInv, Queues, Senders
    <2> QED
        BY <2>1, <2>3, <2>4 DEF TrayInv, Queues, IsAuto
<1>3. CASE astray'
    BY <1>2, <1>3, Astray
<1>4. CASE ~astray'
    <2>1. /\ ~astray /\ Connected(t)
          /\ \A q \in Trays \ {t} : ~InFlight(q)
        BY <1>4 DEF ClickAutoVPN
    <2>2. sending'[t]["menu"] = c
        BY <2>1 DEF ClickAutoVPN, Click, TrayInv, Queues, Senders
    <2>3. \A q \in Trays \ {t} : sending'[q] = sending[q]
        BY DEF ClickAutoVPN, Click, TrayInv, Queues, Senders
    <2>4. \A q \in Trays \ {t} : ~InFlight(q)'
        BY <1>2, <2>1, <2>3 DEF InFlight, IsAuto
    <2>5. InFlight(t)'
        BY <1>1, <2>2 DEF InFlight, IsAuto
    <2>6. LastIsIntent'
        <3>1. \A q \in Trays \ {t} : /\ ~IsAuto(sending'[q]["menu"])
                                     /\ \A i \in DOMAIN up'[q] : ~IsAuto(up'[q][i])
            BY <2>4 DEF InFlight, IsAuto
        <3> QED
            BY <1>1, <1>2, <2>2, <3>1 DEF LastIsIntent, IsAuto
    <2> QED
        BY <1>2, <2>4, <2>5, <2>6 DEF TrayInv, OneClicked, IntentKept
<1> QED
    BY <1>2, <1>3, <1>4

\* A goroutine's command of another kind, new or given up: the checkbox's are
\* as they were.
LEMMA OtherSent ==
  ASSUME TrayInv, NEW t \in Trays, ~IsAuto(sending[t]["menu"]),
         Queues', ~IsAuto(sending'[t]["menu"]),
         \A q \in Trays \ {t} : sending'[q] = sending[q],
         UNCHANGED <<up, astray, intent, saved, auto>>
  PROVE  TrayInv'
<1>1. \A q \in Trays : IsAuto(sending'[q]["menu"]) = IsAuto(sending[q]["menu"])
    BY DEF IsAuto
<1>2. \A q \in Trays : InFlight(q)' = InFlight(q)
    BY <1>1 DEF InFlight, IsAuto
<1>3. LastIsIntent => LastIsIntent'
    BY <1>1 DEF LastIsIntent, IsAuto
<1> QED
    BY <1>2, <1>3 DEF TrayInv, OneClicked, IntentKept

\* The menu loop's or a watcher's command is written to the socket.
LEMMA Written ==
  ASSUME TrayInv, NEW t \in Trays, NEW k \in Senders, sending[t][k] # None,
         up' = [up EXCEPT ![t] = Append(@, sending[t][k])],
         sending' = [sending EXCEPT ![t][k] = None],
         UNCHANGED <<astray, intent, saved, auto>>
  PROVE  TrayInv'
<1> DEFINE s == up[t]
           c == sending[t][k]
           r == up'[t]
<1>1. s \in Seq(Commands) /\ c \in Commands
    BY DEF TrayInv, Queues
<1>2. r = Append(s, c) /\ \A q \in Trays \ {t} : up'[q] = up[q] /\ sending'[q] = sending[q]
    BY DEF TrayInv, Queues
<1>3. sending'[t] = [sending[t] EXCEPT ![k] = None]
    BY DEF TrayInv, Queues
<1>4. Queues'
    <2>1. up' \in [Trays -> Seq(Commands)]
        BY <1>1, AppendOf DEF TrayInv, Queues
    <2>2. sending' \in [Trays -> [Senders -> Commands \cup {None}]]
        BY DEF TrayInv, Queues, Senders
    <2>3. \A q \in Trays : sending'[q]["exits"] \in {sending[q]["exits"], None}
        BY DEF TrayInv, Queues, Senders
    <2> QED
        BY <2>1, <2>2, <2>3 DEF TrayInv, Queues, IsAuto
<1>5. /\ Len(s) + 1 \in DOMAIN r /\ r[Len(s) + 1] = c
      /\ \A i \in DOMAIN s : i \in DOMAIN r /\ r[i] = s[i] /\ i < Len(s) + 1
      /\ \A i \in DOMAIN r : i \in DOMAIN s \/ i = Len(s) + 1
    BY <1>1, <1>2, AppendOf
<1>6. CASE k = "menu"
    <2>1. sending'[t]["menu"] = None
        BY <1>3, <1>6 DEF TrayInv, Queues, Senders
    <2>2. InFlight(t)' = InFlight(t)
        <3> HIDE DEF s, c, r
        <3>1. (\E i \in DOMAIN r : IsAuto(r[i])) <=> (\E i \in DOMAIN s : IsAuto(s[i])) \/ IsAuto(c)
            BY <1>5
        <3> QED
            BY <1>6, <2>1, <3>1 DEF InFlight, IsAuto, s, c, r
    <2>3. \A q \in Trays : InFlight(q)' = InFlight(q)
        BY <1>2, <2>2 DEF InFlight, IsAuto
    <2>4. ASSUME LastIsIntent, NEW i \in DOMAIN r, IsAuto(r[i]),
                 \A j \in DOMAIN r : j > i => ~IsAuto(r[j])
          PROVE  r[i].value = intent
        <3>1. CASE i = Len(s) + 1
            BY <1>5, <1>6, <2>4, <3>1 DEF LastIsIntent
        <3>2. CASE i \in DOMAIN s
            <4>1. ~IsAuto(c)
                BY <1>5, <2>4, <3>2
            <4>2. \A j \in DOMAIN s : j > i => ~IsAuto(s[j])
                BY <1>5, <2>4
            <4>3. s[i] = r[i]
                BY <1>5, <3>2
            <4> QED
                BY <1>6, <2>4, <3>2, <4>1, <4>2, <4>3 DEF LastIsIntent
        <3> QED
            BY <1>5, <3>1, <3>2
    <2>5. LastIsIntent => LastIsIntent'
        <3> SUFFICES ASSUME LastIsIntent PROVE LastIsIntent'
            OBVIOUS
        <3>1. ASSUME NEW q \in Trays, ~IsAuto(sending'[q]["menu"]), NEW i \in DOMAIN up'[q],
                     IsAuto(up'[q][i]), \A j \in DOMAIN up'[q] : j > i => ~IsAuto(up'[q][j])
              PROVE  up'[q][i].value = intent
            <4>1. CASE q = t
                BY <2>4, <3>1, <4>1
            <4>2. CASE q # t
                BY <1>2, <3>1, <4>2 DEF LastIsIntent
            <4> QED
                BY <4>1, <4>2
        <3>2. ASSUME NEW q \in Trays, IsAuto(sending'[q]["menu"])
              PROVE  sending'[q]["menu"].value = intent
            BY <1>2, <2>1, <3>2 DEF LastIsIntent, IsAuto
        <3> HIDE DEF s, c, r
        <3> QED
            BY <3>1, <3>2 DEF LastIsIntent, IsAuto
    <2> QED
        BY <1>4, <2>3, <2>5 DEF TrayInv, OneClicked, IntentKept
<1>7. CASE k # "menu" /\ ~IsAuto(c)
    <2>1. sending'[t]["menu"] = sending[t]["menu"]
        BY <1>3, <1>7 DEF TrayInv, Queues, Senders
    <2>2. InFlight(t)' = InFlight(t)
        <3> HIDE DEF s, c, r
        <3>1. (\E i \in DOMAIN r : IsAuto(r[i])) <=> (\E i \in DOMAIN s : IsAuto(s[i]))
            BY <1>5, <1>7
        <3> QED
            BY <2>1, <3>1 DEF InFlight, IsAuto, s, r
    <2>3. \A q \in Trays : InFlight(q)' = InFlight(q)
        BY <1>2, <2>2 DEF InFlight, IsAuto
    <2>4. ASSUME LastIsIntent, ~IsAuto(sending[t]["menu"]), NEW i \in DOMAIN r, IsAuto(r[i]),
                 \A j \in DOMAIN r : j > i => ~IsAuto(r[j])
          PROVE  r[i].value = intent
        <3>1. i \in DOMAIN s /\ s[i] = r[i]
            BY <1>5, <1>7, <2>4
        <3>2. \A j \in DOMAIN s : j > i => ~IsAuto(s[j])
            BY <1>5, <2>4
        <3> QED
            BY <2>4, <3>1, <3>2 DEF LastIsIntent
    <2>5. LastIsIntent => LastIsIntent'
        <3> SUFFICES ASSUME LastIsIntent PROVE LastIsIntent'
            OBVIOUS
        <3>0. \A q \in Trays : sending'[q]["menu"] = sending[q]["menu"]
            BY <1>2, <2>1
        <3>1. ASSUME NEW q \in Trays, ~IsAuto(sending[q]["menu"]), NEW i \in DOMAIN up'[q],
                     IsAuto(up'[q][i]), \A j \in DOMAIN up'[q] : j > i => ~IsAuto(up'[q][j])
              PROVE  up'[q][i].value = intent
            <4>1. CASE q = t
                BY <2>4, <3>1, <4>1
            <4>2. CASE q # t
                BY <1>2, <3>1, <4>2 DEF LastIsIntent
            <4> QED
                BY <4>1, <4>2
        <3> HIDE DEF s, c, r
        <3> QED
            BY <3>0, <3>1 DEF LastIsIntent, IsAuto
    <2> QED
        BY <1>4, <2>3, <2>5 DEF TrayInv, OneClicked, IntentKept
<1> QED
    BY <1>6, <1>7 DEF TrayInv, Queues, Senders

\* One step of the daemon, a tray, the directory or a fault keeps it.
LEMMA NextTrayInv == Shown /\ TrayInv /\ [Next]_vars => TrayInv'
<1> SUFFICES ASSUME Shown, TrayInv, [Next]_vars PROVE TrayInv'
    OBVIOUS
<1> USE DEF policy, srvVars, sockVars, drawn, bounds, ghosts
<1>0. CASE UNCHANGED <<up, sending, astray, intent, saved, auto>>
    BY <1>0, ElsewhereTray
<1>1. CASE checkAndPush \/ UpdateTrayStatus
    BY <1>0, <1>1 DEF checkAndPush, UpdateTrayStatus
<1>2. ASSUME NEW p \in Pushers, PushLock(p) PROVE TrayInv'
    BY <1>0, <1>2 DEF PushLock
<1>3. ASSUME NEW p \in Pushers, PushWrite(p) PROVE TrayInv'
    <2> DEFINE t == push[p].at
    <2>1. CASE UNCHANGED <<up, astray>>
        BY <1>0, <1>3, <2>1 DEF PushWrite
    <2>2. CASE up' = [up EXCEPT ![t] = <<>>] /\ astray' = (astray \/ up[t] # <<>>)
        <3>0. UNCHANGED <<sending, intent, saved, auto>>
            BY <1>3 DEF PushWrite
        <3>a. <<>> \in Seq(Commands)
            OBVIOUS
        <3>1. up' \in [Trays -> Seq(Commands)]
            BY <2>2, <3>a DEF TrayInv, Queues
        <3>2. Queues'
            BY <3>0, <3>1 DEF TrayInv, Queues, IsAuto
        <3>3. CASE up[t] = <<>>
            <4>1. up' = up
                BY <2>2, <3>3 DEF TrayInv, Queues
            <4>2. astray' = astray
                BY <2>2, <3>3 DEF TrayInv
            <4> QED
                BY <1>0, <3>0, <4>1, <4>2
        <3>4. CASE up[t] # <<>>
            BY <2>2, <3>2, <3>4, Astray
        <3> QED
            BY <3>3, <3>4
    <2> QED
        BY <1>3, <2>1, <2>2 DEF PushWrite
<1>4. ASSUME NEW t \in Trays, Enter(t) \/ Forget(t) PROVE TrayInv'
    BY <1>0, <1>4 DEF Enter, Forget
<1>5. ASSUME NEW t \in Trays, SetAutoVPN(t) PROVE TrayInv'
    <2>1. up[t] # <<>> /\ Next1(t).cmd = "set_auto_vpn" /\ Took(t) /\ auto' = Next1(t).value
        BY <1>5 DEF SetAutoVPN, Ready
    <2>2. Next1(t) \in Commands /\ up' \in [Trays -> Seq(Commands)]
        BY <2>1, TailOf DEF Next1, Took, TrayInv, Queues
    <2>3. IsAuto(Next1(t))
        BY <2>1, <2>2, NoneAssumption DEF IsAuto
    <2>4. CASE saved' = auto' /\ UNCHANGED astray
        BY <1>5, <2>1, <2>3, <2>4, AutoTaken DEF SetAutoVPN
    <2>5. CASE astray' = TRUE
        <3>1. Queues'
            BY <1>5, <2>2 DEF SetAutoVPN, TrayInv, Queues, IsAuto
        <3> QED
            BY <2>5, <3>1, Astray
    <2> QED
        BY <1>5, <2>4, <2>5 DEF SetAutoVPN
<1>6. ASSUME NEW t \in Trays, SetExit(t) \/ RefusePrivileged(t) PROVE TrayInv'
    <2>1. up[t] # <<>> /\ ~IsAuto(Next1(t)) /\ Took(t)
        BY <1>6 DEF SetExit, RefusePrivileged, Ready, IsAuto
    <2> QED
        BY <1>6, <2>1, OtherTaken DEF SetExit, RefusePrivileged
<1>7. ASSUME NEW t \in Trays, Draw(t) PROVE TrayInv'
    BY <1>0, <1>7 DEF Draw, Dial, DialFails, updateUI, streamStatus, SetCheckbox, Lost, Retry
<1>8. ASSUME NEW t \in Trays, ClickAutoVPN(t) PROVE TrayInv'
    BY <1>8, Clicked
<1>9. ASSUME NEW t \in Trays, NEW k \in Senders, NEW c \in Commands, ~IsAuto(c), Click(t, k, c),
             UNCHANGED <<up, astray, intent, saved, auto>>
      PROVE  TrayInv'
    <2>1. \E x \in Commands \cup {None} :
            ~IsAuto(x) /\ sending[t][k] = None /\ sending' = [sending EXCEPT ![t][k] = x]
        BY <1>9 DEF Click, IsAuto
    <2>2. PICK x \in Commands \cup {None} :
            ~IsAuto(x) /\ sending[t][k] = None /\ sending' = [sending EXCEPT ![t][k] = x]
        BY <2>1
    <2>3. sending' \in [Trays -> [Senders -> Commands \cup {None}]]
        BY <2>2 DEF TrayInv, Queues
    <2>4. \A q \in Trays \ {t} : sending'[q] = sending[q]
        BY <2>2 DEF TrayInv, Queues
    <2>5. \A l \in Senders : sending'[t][l] = sending[t][l] \/ (sending[t][l] = None /\ sending'[t][l] = x)
        BY <2>2 DEF TrayInv, Queues
    <2>6. \A l \in Senders : IsAuto(sending'[t][l]) = IsAuto(sending[t][l])
        BY <2>2, <2>5 DEF IsAuto
    <2>7. Queues'
        BY <1>9, <2>3, <2>4, <2>6 DEF TrayInv, Queues, IsAuto, Senders
    <2>8. CASE ~IsAuto(sending[t]["menu"])
        BY <1>9, <2>4, <2>6, <2>7, <2>8, OtherSent DEF Senders
    <2>9. CASE IsAuto(sending[t]["menu"])
        <3>1. k # "menu"
            BY <2>2, <2>9 DEF IsAuto
        <3>2. \A q \in Trays : sending'[q]["menu"] = sending[q]["menu"]
            BY <2>2, <3>1 DEF TrayInv, Queues, Senders
        <3>3. \A q \in Trays : InFlight(q)' = InFlight(q)
            BY <1>9, <3>2 DEF InFlight, IsAuto
        <3>4. LastIsIntent => LastIsIntent'
            BY <1>9, <3>2 DEF LastIsIntent, IsAuto
        <3> QED
            BY <1>9, <2>7, <3>3, <3>4 DEF TrayInv, OneClicked, IntentKept
    <2> QED
        BY <2>8, <2>9
<1>10. ASSUME NEW t \in Trays, ClickReinit(t) PROVE TrayInv'
    <2>1. [cmd |-> "reinit"] \in Commands /\ ~IsAuto([cmd |-> "reinit"])
        BY DEF Commands, IsAuto
    <2> QED
        BY <1>9, <1>10, <2>1 DEF ClickReinit, Senders
<1>11. ASSUME NEW t \in Trays, watchExitClick(t) PROVE TrayInv'
    <2>1. PICK site \in menu[t].items \cup {None} :
            Click(t, "exits", [cmd |-> "set_exit", site |-> site])
        BY <1>11 DEF watchExitClick
    <2>2. site \in Sites \cup {None}
        BY DEF Shown, Menus
    <2>3. /\ [cmd |-> "set_exit", site |-> site] \in Commands
          /\ ~IsAuto([cmd |-> "set_exit", site |-> site])
        BY <2>2 DEF Commands, IsAuto
    <2> QED
        BY <1>9, <1>11, <2>1, <2>3 DEF watchExitClick, Senders
<1>12. ASSUME NEW t \in Trays, Stall(t) \/ Resume(t) PROVE TrayInv'
    BY <1>0, <1>12 DEF Stall, Resume
<1>13. ASSUME NEW t \in Trays, Ends(t), up' = up
       PROVE  /\ Queues' /\ sending'[t]["menu"] = None
              /\ \A q \in Trays \ {t} : sending'[q] = sending[q]
    BY <1>13 DEF Ends, TrayInv, Queues, Senders, IsAuto
<1>14. ASSUME NEW t \in Trays, Quit(t) PROVE TrayInv'
    <2>1. CASE IsAuto(sending[t]["menu"])
        BY <1>13, <1>14, <2>1, Astray DEF Quit
    <2>2. CASE ~IsAuto(sending[t]["menu"])
        <3>1. ~IsAuto(sending'[t]["menu"]) /\ astray' = astray
            BY <1>13, <1>14, <2>2 DEF Quit, IsAuto, TrayInv
        <3> QED
            BY <1>13, <1>14, <2>2, <3>1, OtherSent DEF Quit
    <2> QED
        BY <2>1, <2>2
<1>15. ASSUME NEW t \in Trays, NEW k \in Senders, sendCmd(t, k) PROVE TrayInv'
    <2>1. CASE up' = [up EXCEPT ![t] = Append(@, sending[t][k])] /\ UNCHANGED astray
               /\ sending' = [sending EXCEPT ![t][k] = None]
        BY <1>15, <2>1, Written DEF sendCmd
    <2>2. CASE sending' = [sending EXCEPT ![t][k] = None] /\ astray' = TRUE /\ up' = up
        <3>1. sending' \in [Trays -> [Senders -> Commands \cup {None}]]
            BY <2>2 DEF TrayInv, Queues
        <3>2. \A q \in Trays : sending'[q]["exits"] \in {sending[q]["exits"], None}
            BY <2>2 DEF TrayInv, Queues, Senders
        <3>3. Queues'
            BY <2>2, <3>1, <3>2 DEF TrayInv, Queues, IsAuto
        <3> QED
            BY <2>2, <3>3, Astray
    <2>3. CASE Ends(t) /\ astray' = TRUE /\ up' = up
        BY <1>13, <2>3, Astray
    <2> QED
        BY <1>15, <2>1, <2>2, <2>3 DEF sendCmd
<1>16. ASSUME NEW e \in Exits, Offer(e) PROVE TrayInv'
    BY <1>0, <1>16 DEF Offer
<1>17. CASE Stop
    <2>1. Queues' /\ \A t \in Trays : up'[t] = <<>>
        BY <1>17 DEF Stop, TrayInv, Queues, IsAuto
    <2>2. CASE \E t \in Trays : InFlight(t)
        BY <1>17, <2>1, <2>2, Astray DEF Stop
    <2>3. CASE \A t \in Trays : ~InFlight(t)
        <3>1. astray' = astray /\ sending' = sending /\ intent' = intent /\ saved' = saved
              /\ auto' = saved
            BY <1>17, <2>3 DEF Stop, TrayInv
        <3>2. \A t \in Trays : ~IsAuto(sending[t]["menu"])
            BY <2>3 DEF InFlight
        <3>3. \A t \in Trays : ~InFlight(t)'
            BY <2>1, <3>1, <3>2 DEF InFlight, IsAuto
        <3>4. LastIsIntent'
            BY <2>1, <3>1, <3>2 DEF LastIsIntent, IsAuto
        <3> QED
            BY <2>1, <2>3, <3>1, <3>3, <3>4 DEF TrayInv, OneClicked, IntentKept
    <2> QED
        BY <2>2, <2>3
<1>18. CASE Start \/ UNCHANGED vars
    BY <1>0, <1>18 DEF Start, vars
<1> QED
    BY <1>1, <1>2, <1>3, <1>4, <1>5, <1>6, <1>7, <1>8, <1>10, <1>11, <1>12, <1>14, <1>15,
       <1>16, <1>17, <1>18 DEF Next, Serve

\* Once no click is under way the daemon and agent.yml hold what was clicked
\* last, for any number of trays, clicks, restarts and statuses that overtake
\* them (TrayServer.handleCommand, sendCmd, the menu loop).
THEOREM IntentKeptHolds == Spec => []IntentKept
<1>1. Init => Shown /\ TrayInv
    BY InitShown, InitTrayInv
<1>2. (Shown /\ TrayInv) /\ [Next]_vars => (Shown /\ TrayInv)'
    BY NextShown, NextTrayInv DEF TrayInv
<1>3. TrayInv => IntentKept
    BY DEF TrayInv
<1> QED
    BY <1>1, <1>2, <1>3, PTL DEF Spec

-----------------------------------------------------------------------------
(* A tray that shows what the daemon goes by is left alone.                 *)

\* What the daemon goes by, and commands that ask for nothing else.
Now == Status(auto, mesh)
Pointless == [cmd : {"set_auto_vpn"}, value : {auto}] \cup [cmd : {"reinit"}]
               \cup [cmd : {"set_exit"}, site : {mesh.cur}]

\* Every status that is being pushed or waits in a socket is that one, ...
PushesAgree ==
  \A p \in Pushers : /\ push[p].pc \in {"lock", "write"} => push[p].msg = Now
                     /\ push[p].pc = "read" => push[p].msg.auto = auto
WiresAgree ==
  /\ down \in [Trays -> Seq({Now})] /\ up \in [Trays -> Seq(Pointless)]
  /\ sending \in [Trays -> [Senders -> Pointless \cup {None}]]

\* ... and every tray that has not ended shows it.
Drawn(t) ==
  /\ box[t] = auto /\ ui[t] = Now /\ MenuShows(menu[t], Now)
  /\ drawing[t] \in {None, auto}

\* A process is running, stopped for now, or has ended.
Living == proc \in [Trays -> {"on", "stalled", "gone"}]

Agreed ==
  /\ daemon = "up" /\ status = Now
  /\ PushesAgree /\ WiresAgree
  /\ \A t \in Trays : proc[t] # "gone" => Drawn(t)

\* Somebody asks for something else, or the daemon ends.
Asked ==
  \/ \E t \in Trays : ClickAutoVPN(t) \/ watchExitClick(t)
  \/ \E e \in Exits : Offer(e)
  \/ Stop

\* The half of TrayConverges that is safety.  Once all agree, no push, greeting,
\* repeated command, stall, end of a tray or new connection makes checkbox, status
\* or menu show anything else (TrayServer.Push, updateUI, syncExitMenu).
AgreementKept == [][Agreed => (Agreed' /\ UNCHANGED <<auto, mesh>>) \/ Asked]_vars

\* What the daemon goes by is a status.
LEMMA NowType ==
  ASSUME Shown
  PROVE  Now \in Statuses /\ Now.auto = auto
BY StatusOf DEF Shown, Now, Status

\* The next command of a tray asks for nothing new.
LEMMA NextPointless ==
  ASSUME Agreed, NEW t \in Trays, up[t] # <<>>
  PROVE  /\ Next1(t) \in Pointless /\ Tail(up[t]) \in Seq(Pointless)
         /\ Next1(t).cmd = "set_auto_vpn" => Next1(t).value = auto
         /\ Next1(t).cmd = "set_exit" => Next1(t).site = mesh.cur
<1>1. up[t] \in Seq(Pointless)
    BY DEF Agreed, WiresAgree
<1>2. Next1(t) \in Pointless /\ Tail(up[t]) \in Seq(Pointless)
    BY <1>1 DEF Next1
<1> QED
    BY <1>2 DEF Pointless

\* Handling it changes neither the preference nor the exits; what is pushed to the
\* trays to come is what the last push was.
LEMMA PolicyStays ==
  ASSUME Shown, Agreed, [Next]_vars, ~Asked
  PROVE  UNCHANGED <<auto, mesh, daemon>> /\ status' = Now
<1> USE DEF policy, srvVars, sockVars, drawn, bounds, ghosts
<1>1. ASSUME NEW t \in Trays, SetAutoVPN(t)
      PROVE  UNCHANGED <<auto, mesh, daemon>> /\ status' = Now
    <2>1. Next1(t).value = auto
        BY <1>1, NextPointless DEF SetAutoVPN, Ready
    <2>2. UNCHANGED <<auto, mesh, daemon>> /\ status' = [status EXCEPT !.auto = auto]
        BY <1>1, <2>1 DEF SetAutoVPN
    <2>3. [status EXCEPT !.auto = auto] = status
        BY NowType DEF Agreed, Statuses
    <2> QED
        BY <2>2, <2>3 DEF Agreed
<1>2. ASSUME NEW t \in Trays, SetExit(t)
      PROVE  UNCHANGED <<auto, mesh, daemon>> /\ status' = Now
    <2>1. Next1(t).site = mesh.cur
        BY <1>2, NextPointless DEF SetExit, Ready
    <2>2. [mesh EXCEPT !.cur = mesh.cur] = mesh
        BY DEF Shown, Exits
    <2>3. mesh' = mesh
        BY <1>2, <2>1, <2>2 DEF SetExit
    <2> QED
        BY <1>2, <2>3 DEF SetExit, Agreed
<1>3. ASSUME NEW p \in Pushers, PushLock(p) \/ PushWrite(p)
      PROVE  UNCHANGED <<auto, mesh, daemon>> /\ status' = Now
    BY <1>3 DEF PushLock, PushWrite, Agreed, PushesAgree
<1>4. CASE checkAndPush \/ UpdateTrayStatus \/ Start \/ UNCHANGED vars
    BY <1>4 DEF checkAndPush, UpdateTrayStatus, Start, vars, Agreed
<1>5. ASSUME NEW t \in Trays, \/ Enter(t) \/ RefusePrivileged(t) \/ Forget(t) \/ Draw(t)
                              \/ ClickReinit(t) \/ Stall(t) \/ Resume(t) \/ Quit(t)
      PROVE  UNCHANGED <<auto, mesh, daemon>> /\ status' = Now
    BY <1>5 DEF Enter, RefusePrivileged, Forget, Draw, Dial, DialFails, streamStatus, SetCheckbox,
                Lost, Retry, ClickReinit, Stall, Resume, Quit, Agreed
<1>6. ASSUME NEW t \in Trays, NEW k \in Senders, sendCmd(t, k)
      PROVE  UNCHANGED <<auto, mesh, daemon>> /\ status' = Now
    BY <1>6 DEF sendCmd, Agreed
<1> QED
    BY <1>1, <1>2, <1>3, <1>4, <1>5, <1>6 DEF Next, Serve, Asked

\* A goroutine that sets out to push, or goes on with it, pushes what there is.
LEMMA PushesStay ==
  ASSUME Shown, Agreed, [Next]_vars, ~Asked
  PROVE  PushesAgree'
<1> USE DEF policy, srvVars, sockVars, drawn, bounds, ghosts
<1>0. UNCHANGED <<auto, mesh>> /\ Now' = Now
    BY PolicyStays DEF Now
<1>1. ASSUME NEW p \in Pushers, \A q \in Pushers \ {p} : push'[q] = push[q],
             push'[p].pc \in {"lock", "write"} => push'[p].msg = Now,
             push'[p].pc = "read" => push'[p].msg.auto = auto
      PROVE  PushesAgree'
    BY <1>0, <1>1 DEF Agreed, PushesAgree
<1>2. CASE UNCHANGED push
    BY <1>0, <1>2 DEF Agreed, PushesAgree
<1>3. push \in [Pushers -> Pushes]
    BY DEF Shown
<1>4. ASSUME NEW p \in Pushers, push' = [push EXCEPT ![p] = NoPush] PROVE PushesAgree'
    BY <1>1, <1>3, <1>4 DEF NoPush
<1>5. CASE checkAndPush
    <2>1. Monitor \in Pushers /\ push[Monitor] \in Pushes /\ push[Monitor].msg \in Statuses
        BY <1>3 DEF Pushers, Pushes
    <2>2. push'[Monitor].pc = "read" /\ push'[Monitor].msg.auto = auto
        BY <1>3, <1>5, <2>1 DEF checkAndPush, Pushes, Statuses
    <2>3. \A q \in Pushers \ {Monitor} : push'[q] = push[q]
        BY <1>3, <1>5 DEF checkAndPush
    <2> QED
        BY <1>1, <2>1, <2>2, <2>3
<1>6. CASE UpdateTrayStatus
    <2>1. Monitor \in Pushers /\ push[Monitor] \in Pushes /\ push[Monitor].msg.auto = auto
        BY <1>3, <1>6 DEF UpdateTrayStatus, Pushers, Agreed, PushesAgree
    <2>2. push'[Monitor].pc = "lock" /\ push'[Monitor].msg = Now
        BY <1>3, <1>6, <2>1 DEF UpdateTrayStatus, Pushes, Now
    <2>3. \A q \in Pushers \ {Monitor} : push'[q] = push[q]
        BY <1>3, <1>6 DEF UpdateTrayStatus
    <2> QED
        BY <1>1, <2>1, <2>2, <2>3
<1>7. ASSUME NEW p \in Pushers, PushLock(p) \/ PushWrite(p) PROVE PushesAgree'
    <2>1. push[p].msg = Now /\ push[p].pc \in {"lock", "write"} /\ push[p] \in Pushes
        BY <1>3, <1>7 DEF PushLock, PushWrite, Agreed, PushesAgree
    <2>2. CASE push' = [push EXCEPT ![p] = NoPush]
        BY <1>4, <2>2
    <2>3. ASSUME NEW x, NEW l,
                 push' = [push EXCEPT ![p].pc = "write", ![p].at = x, ![p].left = l]
          PROVE  PushesAgree'
        <3>1. push'[p].msg = Now /\ push'[p].pc = "write"
            BY <1>3, <2>1, <2>3 DEF Pushes
        <3>2. \A q \in Pushers \ {p} : push'[q] = push[q]
            BY <1>3, <2>3
        <3> QED
            BY <1>1, <3>1, <3>2
    <2>4. ASSUME NEW x, NEW l, push' = [push EXCEPT ![p].left = l, ![p].at = x]
          PROVE  PushesAgree'
        <3>1. push'[p].msg = Now /\ push'[p].pc = push[p].pc
            BY <1>3, <2>1, <2>4 DEF Pushes
        <3>2. \A q \in Pushers \ {p} : push'[q] = push[q]
            BY <1>3, <2>4
        <3> QED
            BY <1>1, <2>1, <3>1, <3>2
    <2>5. CASE PushLock(p)
        BY <2>2, <2>3, <2>5 DEF PushLock
    <2>6. CASE PushWrite(p)
        <3> DEFINE rest == push[p].left \ {push[p].at}
        <3>1. push' \in IF rest = {} THEN {[push EXCEPT ![p] = NoPush]}
                        ELSE {[push EXCEPT ![p].left = rest, ![p].at = q] : q \in rest}
            BY <2>6 DEF PushWrite
        <3>2. CASE rest = {}
            BY <2>2, <3>1, <3>2
        <3>3. CASE rest # {}
            <4>1. PICK q \in rest : push' = [push EXCEPT ![p].left = rest, ![p].at = q]
                BY <3>1, <3>3
            <4> QED
                BY <2>4, <4>1
        <3> QED
            BY <3>2, <3>3
    <2> QED
        BY <1>7, <2>5, <2>6
<1>8. ASSUME NEW t \in Trays, SetAutoVPN(t) \/ SetExit(t) PROVE PushesAgree'
    <2>1. t \in Pushers
        BY DEF Pushers
    <2>2. CASE Pushing(t, Now')
        <3>1. push'[t].pc = "lock" /\ push'[t].msg = Now
            BY <1>0, <1>3, <2>1, <2>2 DEF Pushing, NoPush
        <3>2. \A q \in Pushers \ {t} : push'[q] = push[q]
            BY <1>3, <2>2 DEF Pushing
        <3> QED
            BY <1>1, <2>1, <3>1, <3>2
    <2>3. Pushing(t, Now') \/ UNCHANGED push
        BY <1>0, <1>8 DEF SetAutoVPN, SetExit, Now
    <2> QED
        BY <1>2, <2>2, <2>3
<1>9. ASSUME NEW t \in Trays, \/ Enter(t) \/ RefusePrivileged(t) \/ Forget(t) \/ Draw(t)
                              \/ ClickReinit(t) \/ Stall(t) \/ Resume(t) \/ Quit(t)
      PROVE  UNCHANGED push
    BY <1>9 DEF Enter, RefusePrivileged, Forget, Draw, Dial, DialFails, streamStatus, SetCheckbox,
                Lost, Retry, ClickReinit, Stall, Resume, Quit
<1>10. ASSUME NEW t \in Trays, NEW k \in Senders, sendCmd(t, k) PROVE UNCHANGED push
    BY <1>10 DEF sendCmd
<1>11. CASE Start \/ UNCHANGED vars
    BY <1>2, <1>11 DEF Start, vars
<1> QED
    BY <1>2, <1>5, <1>6, <1>7, <1>8, <1>9, <1>10, <1>11 DEF Next, Serve, Asked

\* What enters a socket says the same.
LEMMA WiresStay ==
  ASSUME Shown, Queues, Agreed, [Next]_vars, ~Asked
  PROVE  WiresAgree'
<1> USE DEF policy, srvVars, sockVars, drawn, bounds, ghosts
<1>0. Now' = Now /\ Pointless' = Pointless
    BY PolicyStays DEF Now, Pointless
<1>a. <<>> \in Seq({Now}) /\ <<>> \in Seq(Pointless)
    OBVIOUS
<1>b. /\ down \in [Trays -> Seq({Now})] /\ up \in [Trays -> Seq(Pointless)]
      /\ sending \in [Trays -> [Senders -> Pointless \cup {None}]]
    BY DEF Agreed, WiresAgree
<1>c. \A t \in Trays : Append(down[t], Now) \in Seq({Now})
    BY <1>b
<1> SUFFICES /\ down' \in [Trays -> Seq({Now})] /\ up' \in [Trays -> Seq(Pointless)]
             /\ sending' \in [Trays -> [Senders -> Pointless \cup {None}]]
    BY <1>0 DEF WiresAgree
<1> DEFINE Goal == /\ down' \in [Trays -> Seq({Now})] /\ up' \in [Trays -> Seq(Pointless)]
                   /\ sending' \in [Trays -> [Senders -> Pointless \cup {None}]]
<1>1. CASE UNCHANGED <<down, up, sending>>
    BY <1>1, <1>b
<1>2. ASSUME NEW p \in Pushers, PushWrite(p) PROVE Goal
    <2>1. push[p].msg = Now /\ sending' = sending
        BY <1>2 DEF PushWrite, Agreed, PushesAgree
    <2>2. \/ /\ down' = [down EXCEPT ![push[p].at] = Append(@, Now)]
             /\ up' = up
          \/ /\ up' = [up EXCEPT ![push[p].at] = <<>>]
             /\ down' = down
        BY <1>2, <2>1 DEF PushWrite
    <2>3. CASE down' = [down EXCEPT ![push[p].at] = Append(@, Now)] /\ up' = up
        BY <1>b, <1>c, <2>1, <2>3
    <2>4. CASE up' = [up EXCEPT ![push[p].at] = <<>>] /\ down' = down
        BY <1>a, <1>b, <2>1, <2>4
    <2> QED
        BY <2>2, <2>3, <2>4
<1>3. ASSUME NEW t \in Trays, Enter(t) PROVE Goal
    <2>1. down' = [down EXCEPT ![t] = IF open[t] THEN Append(@, Now) ELSE @]
              /\ UNCHANGED <<up, sending>>
        BY <1>3 DEF Enter, Agreed
    <2> QED
        BY <1>b, <1>c, <2>1
<1>4. ASSUME NEW t \in Trays, SetAutoVPN(t) \/ SetExit(t) \/ RefusePrivileged(t) PROVE Goal
    <2>1. up[t] # <<>> /\ Took(t) /\ UNCHANGED <<down, sending>>
        BY <1>4 DEF SetAutoVPN, SetExit, RefusePrivileged, Ready
    <2>2. Tail(up[t]) \in Seq(Pointless)
        BY <2>1, NextPointless
    <2> QED
        BY <1>b, <2>1, <2>2 DEF Took
<1>5. ASSUME NEW t \in Trays, Draw(t) PROVE Goal
    <2>1. CASE streamStatus(t)
        <3>1. Tail(down[t]) \in Seq({Now})
            BY <1>b, <2>1 DEF streamStatus
        <3> QED
            BY <1>b, <2>1, <3>1 DEF streamStatus
    <2>2. CASE ~streamStatus(t)
        BY <1>1, <1>5, <2>2 DEF Draw, Dial, DialFails, SetCheckbox, Lost, Retry
    <2> QED
        BY <2>1, <2>2
<1>6. ASSUME NEW t \in Trays, ClickReinit(t) PROVE Goal
    <2> DEFINE c == IF Connected(t) THEN [cmd |-> "reinit"] ELSE None
    <2>1. c \in Pointless \cup {None}
        BY DEF Pointless
    <2>2. sending' = [sending EXCEPT ![t]["menu"] = c] /\ UNCHANGED <<down, up>>
        BY <1>6 DEF ClickReinit, Click
    <2> HIDE DEF c
    <2> QED
        BY <1>b, <2>1, <2>2
<1>7. ASSUME NEW t \in Trays, Ends(t)
      PROVE  /\ down' \in [Trays -> Seq({Now})]
             /\ sending' \in [Trays -> [Senders -> Pointless \cup {None}]]
    BY <1>7, <1>a, <1>b DEF Ends
<1>8. ASSUME NEW t \in Trays, Quit(t) PROVE Goal
    BY <1>7, <1>8, <1>b DEF Quit
<1>9. ASSUME NEW t \in Trays, NEW k \in Senders, sendCmd(t, k) PROVE Goal
    <2>1. CASE Ends(t) /\ UNCHANGED up
        BY <1>7, <1>b, <2>1
    <2>2. CASE sending' = [sending EXCEPT ![t][k] = None] /\ UNCHANGED sockVars
        BY <1>b, <2>2
    <2>3. CASE /\ up' = [up EXCEPT ![t] = Append(@, sending[t][k])]
               /\ sending' = [sending EXCEPT ![t][k] = None] /\ down' = down
        <3>1. sending[t][k] \in Pointless
            BY <1>9, <1>b DEF sendCmd
        <3>2. Append(up[t], sending[t][k]) \in Seq(Pointless)
            BY <1>b, <3>1
        <3> QED
            BY <1>b, <2>3, <3>2
    <2> QED
        BY <1>9, <2>1, <2>2, <2>3 DEF sendCmd
<1>10. ASSUME NEW t \in Trays, Forget(t) \/ Stall(t) \/ Resume(t) PROVE Goal
    BY <1>1, <1>10 DEF Forget, Stall, Resume
<1>11. ASSUME NEW p \in Pushers, PushLock(p) PROVE Goal
    BY <1>1, <1>11 DEF PushLock
<1>12. CASE checkAndPush \/ UpdateTrayStatus \/ Start \/ UNCHANGED vars
    BY <1>1, <1>12 DEF checkAndPush, UpdateTrayStatus, Start, vars
<1> QED
    BY <1>2, <1>3, <1>4, <1>5, <1>6, <1>8, <1>9, <1>10, <1>11, <1>12 DEF Next, Serve, Asked

\* A menu that shows a status shows it after it is drawn once more.
LEMMA MenuStays ==
  ASSUME NEW m \in Menus, NEW s \in Statuses, MenuShows(m, s)
  PROVE  MenuShows(syncExitMenu(m, s), s)
<1>1. CASE s.exits = {}
    <2>1. syncExitMenu(m, s).shown = FALSE
        BY <1>1 DEF syncExitMenu, Menus
    <2>2. (s.exits # {}) = FALSE
        BY <1>1
    <2> QED
        BY <2>1, <2>2, Zenon DEF MenuShows
<1>2. CASE s.exits # {}
    <2>1. (s.exits # {}) = TRUE
        BY <1>2
    <2>2. m.shown = TRUE
        BY <2>1, Zenon DEF MenuShows
    <2>3. m.items = s.exits
        BY <2>2 DEF MenuShows
    <2>4. /\ syncExitMenu(m, s).shown = TRUE /\ syncExitMenu(m, s).items = s.exits
          /\ syncExitMenu(m, s).tick = s.cur
        BY <1>2, <2>3 DEF syncExitMenu
    <2> QED
        BY <2>1, <2>4, Zenon DEF MenuShows
<1> QED
    BY <1>1, <1>2

\* No step makes a process anything else.
LEMMA NextLiving == Living /\ [Next]_vars => Living'
<1> SUFFICES ASSUME Living, [Next]_vars PROVE Living'
    OBVIOUS
<1>1. CASE UNCHANGED proc
    BY <1>1 DEF Living
<1>2. ASSUME NEW t \in Trays, Stall(t) \/ Resume(t) \/ Ends(t) PROVE Living'
    BY <1>2 DEF Living, Stall, Resume, Ends
<1>3. ASSUME NEW t \in Trays, NEW k \in Senders, sendCmd(t, k) PROVE Living'
    BY <1>1, <1>2, <1>3 DEF sendCmd
<1>4. ASSUME NEW t \in Trays, Serve(t) \/ Draw(t) PROVE Living'
    BY <1>1, <1>4 DEF Serve, Enter, SetAutoVPN, SetExit, RefusePrivileged, Forget, Draw, Dial,
                      DialFails, streamStatus, SetCheckbox, Lost, Retry
<1>5. ASSUME NEW t \in Trays, ClickAutoVPN(t) \/ ClickReinit(t) \/ watchExitClick(t)
      PROVE  Living'
    BY <1>1, <1>5 DEF ClickAutoVPN, ClickReinit, watchExitClick
<1>6. ASSUME NEW p \in Pushers, PushLock(p) \/ PushWrite(p) PROVE Living'
    BY <1>1, <1>6 DEF PushLock, PushWrite
<1>7. CASE \/ checkAndPush \/ UpdateTrayStatus \/ (\E e \in Exits : Offer(e)) \/ Stop \/ Start
           \/ UNCHANGED vars
    BY <1>1, <1>7 DEF checkAndPush, UpdateTrayStatus, Offer, Stop, Start, vars
<1> QED
    BY <1>2, <1>3, <1>4, <1>5, <1>6, <1>7 DEF Next, Quit

\* What a tray draws is what it shows.
LEMMA DrawnStays ==
  ASSUME Shown, Living, Agreed, [Next]_vars, ~Asked, NEW q \in Trays, proc'[q] # "gone"
  PROVE  Drawn(q)'
<1> USE DEF policy, srvVars, sockVars, drawn, bounds, ghosts
<1>0. UNCHANGED <<auto, mesh>> /\ Now' = Now
    BY PolicyStays DEF Now
<1>1. ASSUME proc[q] # "gone", UNCHANGED <<box[q], ui[q], menu[q], drawing[q]>> PROVE Drawn(q)'
    BY <1>0, <1>1 DEF Agreed, Drawn, MenuShows
<1>2. CASE UNCHANGED <<drawn, proc>>
    BY <1>1, <1>2
<1>3. ASSUME NEW t \in Trays, Draw(t) PROVE Drawn(q)'
    <2>0. UNCHANGED proc /\ proc[q] # "gone" /\ Drawn(q)
        BY <1>3 DEF Draw, Dial, DialFails, streamStatus, SetCheckbox, Lost, Retry, Agreed
    <2>1. CASE streamStatus(t)
        <3>1. Head(down[t]) = Now
            BY <2>1 DEF streamStatus, Agreed, WiresAgree
        <3>2. updateUI(t, Now)
            BY <2>1, <3>1 DEF streamStatus
        <3>3. CASE q = t
            <4>1. /\ ui'[q] = Now /\ menu'[q] = syncExitMenu(menu[q], Now) /\ box'[q] = box[q]
                BY <3>2, <3>3 DEF updateUI, Shown
            <4>2. drawing'[q] \in {drawing[q], Now.auto}
                BY <3>2, <3>3 DEF updateUI
            <4>3. MenuShows(menu'[q], Now)
                BY <2>0, <4>1, MenuStays, NowType DEF Drawn, Shown
            <4> QED
                BY <1>0, <2>0, <4>1, <4>2, <4>3, NowType DEF Drawn, MenuShows
        <3>4. CASE q # t
            BY <1>1, <2>0, <3>2, <3>4 DEF updateUI
        <3> QED
            BY <3>3, <3>4
    <2>2. CASE SetCheckbox(t)
        <3>1. UNCHANGED <<ui, menu>>
            BY <2>2 DEF SetCheckbox
        <3>2. box'[q] = auto /\ drawing'[q] \in {None, auto}
            BY <2>0, <2>2 DEF SetCheckbox, Drawn
        <3> QED
            BY <1>0, <2>0, <3>1, <3>2 DEF Drawn, MenuShows
    <2>3. CASE Dial(t) \/ Lost(t) \/ Retry(t)
        BY <1>2, <2>3 DEF Dial, Lost, Retry
    <2>4. ~DialFails(t)
        BY DEF DialFails, Agreed
    <2> QED
        BY <1>3, <2>1, <2>2, <2>3, <2>4 DEF Draw
<1>4. ASSUME NEW t \in Trays, Stall(t) \/ Resume(t) PROVE Drawn(q)'
    <2>1. proc[q] # "gone"
        BY <1>4 DEF Stall, Resume, Alive, Living
    <2> QED
        BY <1>1, <1>4, <2>1 DEF Stall, Resume
<1>5. ASSUME NEW t \in Trays, Ends(t) PROVE Drawn(q)'
    <2>1. q # t /\ proc[q] # "gone"
        BY <1>5 DEF Ends, Living
    <2> QED
        BY <1>1, <1>5, <2>1 DEF Ends
<1>6. ASSUME NEW t \in Trays, Quit(t) PROVE Drawn(q)'
    BY <1>5, <1>6 DEF Quit
<1>7. ASSUME NEW t \in Trays, NEW k \in Senders, sendCmd(t, k) PROVE Drawn(q)'
    BY <1>2, <1>5, <1>7 DEF sendCmd
<1>8. ASSUME NEW t \in Trays, \/ Serve(t) \/ ClickReinit(t)
      PROVE  Drawn(q)'
    BY <1>2, <1>8 DEF Serve, Enter, SetAutoVPN, SetExit, RefusePrivileged, Forget, ClickReinit
<1>9. ASSUME NEW p \in Pushers, PushLock(p) \/ PushWrite(p) PROVE Drawn(q)'
    BY <1>2, <1>9 DEF PushLock, PushWrite
<1>10. CASE checkAndPush \/ UpdateTrayStatus \/ Start \/ UNCHANGED vars
    BY <1>2, <1>10 DEF checkAndPush, UpdateTrayStatus, Start, vars
<1> QED
    BY <1>3, <1>4, <1>6, <1>7, <1>8, <1>9, <1>10 DEF Next, Asked

\* Every tray goes on showing what the daemon goes by until somebody clicks, the
\* exits change or the daemon ends (TrayServer.Push, updateUI, syncExitMenu).
THEOREM AgreementKeptHolds == Spec => AgreementKept
<1> DEFINE Kept == Agreed' /\ UNCHANGED <<auto, mesh>>
<1>1. Init => Shown /\ TrayInv /\ Living
    BY InitShown, InitTrayInv DEF Init, Living
<1>2. (Shown /\ TrayInv /\ Living) /\ [Next]_vars => (Shown /\ TrayInv /\ Living)'
    BY NextShown, NextTrayInv, NextLiving DEF TrayInv
<1>3. Shown /\ TrayInv /\ Living /\ [Next]_vars => [Agreed => Kept \/ Asked]_vars
    <2> SUFFICES ASSUME Shown, TrayInv, Living, [Next]_vars, Agreed, ~Asked PROVE Kept
        OBVIOUS
    <2>1. Now' = Now /\ Queues
        BY PolicyStays DEF Now, TrayInv
    <2> QED
        BY <2>1, PolicyStays, PushesStay, WiresStay, DrawnStays DEF Agreed
<1> QED
    BY <1>1, <1>2, <1>3, PTL DEF Spec, AgreementKept
=============================================================================
