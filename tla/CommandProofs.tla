--------------------------- MODULE CommandProofs ---------------------------
(***************************************************************************)
(* Proofs about CommandDispatch with the IamEngine inside it, for every    *)
(* set of users, frames, configurations and policies, and for any number   *)
(* of frames, edits and crashes.  One inductive invariant, CommandInv,     *)
(* carries every theorem.  Its parts, in the order of this module:         *)
(*   IamInv     the engine's files: what sudo reads and who gets in;       *)
(*   LogInv     the log of frames, and what holds of the frame in hand at  *)
(*              each place of the handler;                                 *)
(*   EngineInv  how far an application of a policy has come, and that what *)
(*              it has passed is in force;                                 *)
(*   PolicyHolds, LdapHolds, ServicesHold                                  *)
(*              what the last successful command of each kind promised;    *)
(*   TypeInv, CfgInv, Engaged                                              *)
(*              types.                                                     *)
(***************************************************************************)
EXTENDS CommandDispatch, TLAPS, WellFoundedInduction

\* What keeps root in: access.conf is empty, or begins with root's own line.
AccessOpen ==
  \/ access = <<>>
  \/ /\ DOMAIN access \subseteq Nat \ {0} /\ 1 \in DOMAIN access
     /\ access[1] = Allow({Root})

\* What sudo reads, and what is about to be renamed into its place, was
\* accepted by visudo.
RulesChecked ==
  /\ SudoersChecked
  /\ job.pc = "rename" => sudoTmp \in ValidRules

JobShape == job = [p |-> job.p, pc |-> job.pc, left |-> job.left]

\* The inductive invariant behind IamSafe.
IamInv == JobShape /\ RulesChecked /\ AccessOpen

\* The least member of a nonempty set of stage numbers.
LEMMA LeastIsLeast ==
  ASSUME NEW S \in SUBSET (1..5), S # {}
  PROVE  Min(S) \in S /\ \A y \in S : Min(S) <= y
<1>1. \E x \in S : \A y \in S : x <= y
    <2>1. CASE 1 \in S
        BY <2>1
    <2>2. CASE 1 \notin S /\ 2 \in S
        BY <2>2
    <2>3. CASE 1 \notin S /\ 2 \notin S /\ 3 \in S
        BY <2>3
    <2>4. CASE 1 \notin S /\ 2 \notin S /\ 3 \notin S /\ 4 \in S
        BY <2>4
    <2>5. CASE 1 \notin S /\ 2 \notin S /\ 3 \notin S /\ 4 \notin S
        <3>1. \A y \in S : y = 5
            BY <2>5
        <3>2. PICK z \in S : TRUE
            OBVIOUS
        <3>3. \A y \in S : z <= y
            BY <3>1
        <3> QED
            BY <3>3
    <2> QED
        BY <2>1, <2>2, <2>3, <2>4, <2>5
<1> QED
    BY <1>1 DEF Min

\* The stage that follows has work, and those between have none.
LEMMA NextStage ==
  ASSUME NEW p, NEW i \in 0..4
  PROVE  \E k \in (i + 1)..5 :
           /\ StageAfter(p, i) = Stages[k]
           /\ \A j \in (i + 1)..5 : j < k => ~HasWork(p, Stages[j])
<1> DEFINE S == {j \in (i + 1)..Len(Stages) : HasWork(p, Stages[j])}
<1>1. Len(Stages) = 5
    BY DEF Stages
<1>2. S \in SUBSET (1..5)
    BY <1>1
<1>3. HasWork(p, Stages[5])
    BY DEF HasWork, Stages
<1>4. 5 \in S
    BY <1>1, <1>3
<1>5. Min(S) \in S /\ \A y \in S : Min(S) <= y
    <2> HIDE DEF S
    <2> QED
        BY <1>2, <1>4, LeastIsLeast
<1> DEFINE k == Min(S)
<1>6. k \in (i + 1)..5 /\ StageAfter(p, i) = Stages[k]
    BY <1>1, <1>5 DEF StageAfter
<1>7. ASSUME NEW j \in (i + 1)..5, j < k PROVE ~HasWork(p, Stages[j])
    <2>1. j \notin S
        <3> HIDE DEF S
        <3>1. k \in Int /\ j \in Int
            BY <1>6 
        <3> QED
            BY <1>5, <1>7, <3>1
    <2> QED
        BY <1>1, <2>1
<1> QED
    BY <1>6, <1>7

PastSudo   == {"keys", "access", "writeAccess", "revoke", "done"}
PastKeys   == {"access", "writeAccess", "revoke", "done"}
PastAccess == {"revoke", "done"}

\* A stage is left out only if there is nothing to do for it.
LEMMA StageSkips ==
  ASSUME NEW p, NEW i \in 0..4
  PROVE  LET n == StageAfter(p, i) IN
         /\ n \in {"sudo", "keys", "access", "revoke", "done"}
         /\ i = 0 /\ n \in PastSudo => p.sudo = None
         /\ i <= 1 /\ n \in PastKeys => p.keys = {}
         /\ i <= 2 /\ n \in PastAccess => p.groups = {}
         /\ i <= 3 /\ n = "done" => p.revoke = {}
         /\ n = "sudo" => i = 0
         /\ n = "keys" => i <= 1
         /\ n = "access" => i <= 2
         /\ n = "revoke" => i <= 3
<1>1. PICK k \in (i + 1)..5 :
           /\ StageAfter(p, i) = Stages[k]
           /\ \A j \in (i + 1)..5 : j < k => ~HasWork(p, Stages[j])
    BY NextStage
<1>2. /\ Stages[1] = "sudo" /\ Stages[2] = "keys" /\ Stages[3] = "access"
      /\ Stages[4] = "revoke" /\ Stages[5] = "done"
    BY DEF Stages
<1>4. k \in 1..5
    OBVIOUS
<1>5. ASSUME i < 1, 1 < k PROVE p.sudo = None
    <2>1. 1 \in (i + 1)..5
        BY <1>5
    <2>2. ~HasWork(p, Stages[1])
        BY <1>1, <1>5, <2>1
    <2>3. ~HasWork(p, "sudo")
        BY <1>2, <2>2
    <2> QED
        BY <2>3 DEF HasWork
<1>6. ASSUME i < 2, 2 < k PROVE p.keys = {}
    <2>1. 2 \in (i + 1)..5
        BY <1>6
    <2>2. ~HasWork(p, Stages[2])
        BY <1>1, <1>6, <2>1
    <2>3. ~HasWork(p, "keys")
        BY <1>2, <2>2
    <2> QED
        BY <2>3 DEF HasWork
<1>7. ASSUME i < 3, 3 < k PROVE p.groups = {}
    <2>1. 3 \in (i + 1)..5
        BY <1>7
    <2>2. ~HasWork(p, Stages[3])
        BY <1>1, <1>7, <2>1
    <2>3. ~HasWork(p, "access")
        BY <1>2, <2>2
    <2> QED
        BY <2>3 DEF HasWork
<1>8. ASSUME i < 4, 4 < k PROVE p.revoke = {}
    <2>1. 4 \in (i + 1)..5
        BY <1>8
    <2>2. ~HasWork(p, Stages[4])
        BY <1>1, <1>8, <2>1
    <2>3. ~HasWork(p, "revoke")
        BY <1>2, <2>2
    <2> QED
        BY <2>3 DEF HasWork
<1>9. CASE k = 1
    BY <1>1, <1>2, <1>9 DEF PastSudo, PastKeys, PastAccess
<1>10. CASE k = 2
    BY <1>1, <1>2, <1>5, <1>10 DEF PastSudo, PastKeys, PastAccess
<1>11. CASE k = 3
    BY <1>1, <1>2, <1>5, <1>6, <1>11 DEF PastSudo, PastKeys, PastAccess
<1>12. CASE k = 4
    BY <1>1, <1>2, <1>5, <1>6, <1>7, <1>12 DEF PastSudo, PastKeys, PastAccess
<1>13. CASE k = 5
    BY <1>1, <1>2, <1>5, <1>6, <1>7, <1>8, <1>13 DEF PastSudo, PastKeys, PastAccess
<1> QED
    BY <1>4, <1>9, <1>10, <1>11, <1>12, <1>13

\* The positions of the stages.
LEMMA StagePositions ==
  /\ PosOf("sudo") = 1 /\ PosOf("keys") = 2 /\ PosOf("access") = 3 /\ PosOf("revoke") = 4
<1>1. PosOf("sudo") = 1
    BY DEF PosOf, Stages
<1>2. PosOf("keys") = 2
    BY DEF PosOf, Stages
<1>3. PosOf("access") = 3
    BY DEF PosOf, Stages
<1>4. PosOf("revoke") = 4
    BY DEF PosOf, Stages
<1> QED
    BY <1>1, <1>2, <1>3, <1>4

\* No stage leads straight to the rename: it is reached through visudo only
\* (applySudoRules).
LEMMA StageNeverRename ==
  ASSUME NEW p, NEW i \in 0..4
  PROVE  StageAfter(p, i) # "rename"
BY StageSkips

----------------------------------------------------------------------------

\* The first line of a file that begins with root's line decides for root.
LEMMA RootFirst ==
  ASSUME AccessOpen
  PROVE  RootCanLogIn
<1> DEFINE N == {i \in DOMAIN access : Root \in access[i].who}
<1>1. CASE access = <<>>
    <2>1. N = {}
        BY <1>1
    <2> QED
        BY <2>1 DEF RootCanLogIn, Permits
<1>2. CASE access # <<>>
    <2>1. /\ DOMAIN access \subseteq Nat \ {0} /\ 1 \in DOMAIN access
          /\ access[1] = Allow({Root})
        BY <1>2 DEF AccessOpen
    <2>2. 1 \in N
        BY <2>1 DEF Allow
    <2>3. \A i \in N : i \in Nat /\ 1 <= i
        BY <2>1
    <2>4. Min(N) = 1
        <3> HIDE DEF N
        <3>1. Min(N) \in N /\ \A y \in N : Min(N) <= y
            BY <2>2, <2>3 DEF Min
        <3> QED
            BY <2>2, <2>3, <3>1
    <2> QED
        BY <2>1, <2>4 DEF RootCanLogIn, Permits, Allow
<1> QED
    BY <1>1, <1>2

\* Every beginning of the file applyAccessControl writes lets root in, so a
\* write that is cut short does as well (iam.go:180).
LEMMA PrefixOpen ==
  ASSUME NEW groups, NEW n \in 0..3
  PROVE  LET conf == SubSeq(AccessFile(groups), 1, n)
         IN  n > 0 => /\ DOMAIN conf = 1..n
                      /\ conf[1] = Allow({Root})
BY DEF AccessFile

\* The shortest of them is the file just truncated.
LEMMA EmptyPrefix ==
  ASSUME NEW groups
  PROVE  SubSeq(AccessFile(groups), 1, 0) = <<>>
BY DEF AccessFile

----------------------------------------------------------------------------

\* A user without a session, or with one that pkill failed to end.
Out(u) == sess[u] => u \in spared

\* Ending sessions keeps everybody out who was.
LEMMA EndedOut ==
  ASSUME NEW who, EndSessions(who)
  PROVE  \A u \in Users : Out(u) => Out(u)'
BY DEF EndSessions, Out

\* A step of DesktopControl touches desk, locks and sessions only, and ends
\* with an outcome or is one turn of a loop.
LEMMA DesktopSteps ==
  ASSUME DesktopControl
  PROVE  /\ h = "desktop"
         /\ \/ h' = h
            \/ h' \in {"ok", "err"} /\ desk' = NoDesk
         /\ UNCHANGED <<conn, file, cur, upsets, log, svc, sssd, host, job, sudoTmp,
                        sudoers, keys, access>>
         /\ UNCHANGED <<sess, spared>> \/ \E u \in Users : EndSessions({u})
<1> USE DEF iamVars, cfgs, machine, Finish
<1>1. CASE EndLoop \/ SleepHost
    BY <1>1 DEF EndLoop, SleepHost
<1>2. CASE NoneListed \/ DisplayOff
    BY <1>2 DEF NoneListed, DisplayOff, LockAll
<1>3. ASSUME NEW u \in Users, LockSession(u)
      PROVE  /\ h = "desktop" /\ h' = h
             /\ UNCHANGED <<iamVars, conn, file, cur, upsets, log, svc, sssd, host>>
    BY <1>3 DEF LockSession
<1>4. ASSUME NEW u \in Users, TerminateSession(u)
      PROVE  /\ h = "desktop" /\ h' = h
             /\ UNCHANGED <<conn, file, cur, upsets, log, svc, sssd, host, job, sudoTmp,
                            sudoers, keys, access>>
             /\ UNCHANGED <<sess, spared>> \/ EndSessions({u})
    BY <1>4 DEF TerminateSession, EndSessions
<1>5. ASSUME NEW u \in Users, LogoutUser(u)
      PROVE  /\ h = "desktop" /\ h' \in {"ok", "err"} /\ desk' = NoDesk
             /\ UNCHANGED <<conn, file, cur, upsets, log, svc, sssd, host, job, sudoTmp,
                            sudoers, keys, access>>
             /\ UNCHANGED <<sess, spared>> \/ EndSessions({u})
    BY <1>5 DEF LogoutUser, EndSessions
<1> QED
    BY <1>1, <1>2, <1>3, <1>4, <1>5 DEF DesktopControl

\* The host before any push: no file of the engine's, nothing under way.
LEMMA InitIamInv == Init => IamInv
BY DEF Init, IamInit, IamInv, JobShape, NoJob, RulesChecked, SudoersChecked, AccessOpen

\* A step of the engine keeps it.
LEMMA StepIamInv ==
  ASSUME IamInv, IamStep
  PROVE  IamInv'
<1> USE DEF IamInv, JobShape, RulesChecked, SudoersChecked, Goto, Fail, Leave
<1>0. \A s \in {"sudo", "keys", "access", "revoke"} :
        StageAfter(job.p, PosOf(s)) # "rename"
    BY StageNeverRename, StagePositions
<1>1. CASE WriteSudoTmp
    BY <1>1 DEF WriteSudoTmp, AccessOpen
<1>2. CASE Visudo
    BY <1>2 DEF Visudo, AccessOpen
<1>3. CASE RenameSudo
    BY <1>0, <1>3 DEF RenameSudo, AccessOpen
<1>4. CASE WriteKeys
    BY <1>0, <1>4 DEF WriteKeys, AccessOpen
<1>5. CASE TruncateAccess
    BY <1>5 DEF TruncateAccess, AccessOpen
<1>6. CASE WriteAccess
    <2>1. JobShape' /\ RulesChecked'
        BY <1>0, <1>6 DEF WriteAccess
    <2>2. CASE access' = AccessFile(job.p.groups)
        <3>1. AccessOpen'
            BY <2>2 DEF AccessOpen, AccessFile
        <3> QED
            BY <2>1, <3>1
    <2>3. ASSUME NEW n \in 0..(Len(AccessFile(job.p.groups)) - 1),
                 access' = SubSeq(AccessFile(job.p.groups), 1, n)
          PROVE  IamInv'
        <3>1. n \in 0..3
            BY DEF AccessFile
        <3>2. CASE n = 0
            <4>1. access' = <<>>
                BY <2>3, <3>2, EmptyPrefix
            <4> QED
                BY <2>1, <4>1 DEF AccessOpen
        <3>3. CASE n > 0
            <4>1. DOMAIN access' = 1..n /\ access'[1] = Allow({Root})
                BY <2>3, <3>1, <3>3, PrefixOpen
            <4> QED
                BY <2>1, <3>1, <3>3, <4>1 DEF AccessOpen
        <3> QED
            BY <3>1, <3>2, <3>3
    <2> QED
        BY <1>6, <2>2, <2>3 DEF WriteAccess
<1>7. ASSUME NEW u \in Users, Revoke(u)
      PROVE  IamInv'
    BY <1>0, <1>7 DEF Revoke, AccessOpen
<1> QED
    BY <1>1, <1>2, <1>3, <1>4, <1>5, <1>6, <1>7 DEF IamStep

\* A step that leaves the engine's files alone, and its work in progress alone
\* or abandoned, keeps it.
LEMMA FilesKept ==
  ASSUME IamInv, UNCHANGED <<sudoTmp, sudoers, keys, access>>, job' = job \/ job' = NoJob
  PROVE  IamInv'
BY DEF IamInv, JobShape, NoJob, RulesChecked, SudoersChecked, AccessOpen

\* One step of the dispatcher, the operator, the users or the host keeps it.
LEMMA NextIamInv == IamInv /\ [Next]_vars => IamInv'
<1> SUFFICES ASSUME IamInv, [Next]_vars PROVE IamInv'
    OBVIOUS
<1> USE DEF iamVars, cmdVars
<1>1. CASE BeginIam
    <2>1. job'.pc # "rename" /\ JobShape'
        BY <1>1, StageNeverRename DEF BeginIam, Begin, JobShape
    <2> QED
        BY <1>1, <2>1 DEF BeginIam, Begin, IamInv, RulesChecked, SudoersChecked, AccessOpen
<1>2. CASE DoIam
    BY <1>2, StepIamInv DEF DoIam
<1>3. CASE EndIam
    BY <1>3, FilesKept DEF EndIam, Return
<1>4. CASE DesktopControl
    BY <1>4, FilesKept, DesktopSteps
<1>5. CASE Restart
    BY <1>5, FilesKept DEF Restart, Die
<1>6. CASE HostDown
    BY <1>6, FilesKept DEF HostDown
<1>7. ASSUME NEW u \in Users, UserLogin(u) \/ UserLogout(u)
      PROVE  IamInv'
    BY <1>7, FilesKept DEF UserLogin, Login, UserLogout, EndSessions
<1>8. CASE UNCHANGED iamVars
    BY <1>8, FilesKept
<1>9. CASE Refuse \/ Ignore \/ Reload \/ OneOp \/ Reboot \/ AnswerShutdown
           \/ Shutdown \/ ControlService \/ Answer
    BY <1>8, <1>9 DEF Refuse, Ignore, Reload, OneOp, Reboot, AnswerShutdown,
                      Shutdown, ControlService, Answer
<1>10. CASE ListSessions \/ WriteSssd \/ RestartSssd
    BY <1>8, <1>10 DEF ListSessions, WriteSssd, RestartSssd
<1>11. CASE Drop \/ Dial \/ Tick
    BY <1>8, <1>11 DEF Drop, Dial, Tick
<1>12. ASSUME NEW f \in Frames, Take(f)
       PROVE  IamInv'
    BY <1>8, <1>12 DEF Take
<1>13. ASSUME NEW c \in Configs, Edit(c)
       PROVE  IamInv'
    BY <1>8, <1>13 DEF Edit
<1>14. CASE UNCHANGED vars
    BY <1>8, <1>14 DEF vars
<1> QED
    BY <1>1, <1>2, <1>3, <1>4, <1>5, <1>6, <1>7, <1>9, <1>10, <1>11, <1>12,
       <1>13, <1>14 DEF Next, Handle

----------------------------------------------------------------------------
(* The log of the frames read, and where the handler is in the last one.   *)

Places == {"idle", "check", "ok", "err", "shutdown", "desktop", "restartSssd",
           "retrySssd", "iam", "exit"}
Statuses == {"ok", "error", "lost"}
Entries == [f : Frames, c : Configs, ans : Seq(Statuses), ran : BOOLEAN,
            cut : BOOLEAN]

Logged == log \in Seq(Entries)

\* Nothing acts, or answers twice, before its turn.
Standing ==
  /\ h \in Places
  /\ h # "idle" => Len(log) # 0
  /\ h \notin {"idle", "check"} => Accepts(Current.c, Frame) /\ Frame.type \notin Silent
  /\ h \notin {"idle", "shutdown", "exit"} => Current.ans = <<>>
  /\ h \in {"shutdown", "exit"} => Len(Current.ans) = 1
  /\ h \in {"check", "shutdown"} => ~Current.ran
  /\ h \in {"ok", "err", "iam", "restartSssd", "retrySssd", "desktop"} => Current.ran
  /\ h = "shutdown" => Frame.type = "shutdown"
  /\ h = "iam" => Frame.type = "iam_apply"
  /\ h \in {"restartSssd", "retrySssd"} => Frame.type = "configure_ldap"
  /\ h = "desktop" => Frame.type \in Desktop

Gated == \A i \in 1..Len(log) : log[i].ran => Accepts(log[i].c, log[i].f)

\* A frame that is done with has its answer, if it is to have one.
Settled ==
  \A i \in 1..Len(log) :
    /\ log[i].f.type \in Silent => log[i].ans = <<>>
    /\ Len(log[i].ans) \in {0, 1}
    /\ i < Len(log) \/ h = "idle" =>
         Len(log[i].ans) = 1 \/ log[i].f.type \in Silent \/ log[i].cut

LogInv == Logged /\ Standing /\ Gated /\ Settled

\* The three ways a step touches the entry of the frame in hand.
LEMMA EntryMoves ==
  ASSUME NEW e \in Entries, NEW s \in Statuses
  PROVE  /\ [e EXCEPT !.ans = Append(@, s)] \in Entries
         /\ [e EXCEPT !.ran = TRUE] \in Entries
         /\ [e EXCEPT !.cut = TRUE] \in Entries
<1>1. Append(e.ans, s) \in Seq(Statuses)
    BY DEF Entries
<1> QED
    BY <1>1 DEF Entries

\* Replacing the last entry of a sequence touches nothing else.
LEMMA LastMoves ==
  ASSUME NEW l \in Seq(Entries), Len(l) # 0, NEW e \in Entries
  PROVE  LET m == [l EXCEPT ![Len(l)] = e]
         IN  /\ m \in Seq(Entries) /\ Len(m) = Len(l)
             /\ m[Len(l)] = e
             /\ \A i \in 1..Len(l) : i # Len(l) => m[i] = l[i]
OBVIOUS

\* Appending an entry leaves the earlier ones where they are.
LEMMA AppendMoves ==
  ASSUME NEW l \in Seq(Entries), NEW e \in Entries
  PROVE  LET m == Append(l, e)
         IN  /\ m \in Seq(Entries) /\ Len(m) = Len(l) + 1
             /\ m[Len(m)] = e
             /\ \A i \in 1..Len(l) : m[i] = l[i]
OBVIOUS

\* The entry in hand becomes e, the others stay.
Becomes(e) ==
  /\ log' \in Seq(Entries) /\ Len(log') = Len(log)
  /\ log'[Len(log)] = e
  /\ \A i \in 1..Len(log) : i # Len(log) => log'[i] = log[i]

\* The frame in hand has an entry.
LEMMA CurrentEntry ==
  ASSUME Logged, Len(log) # 0
  PROVE  Current \in Entries /\ Len(log) \in Nat /\ Len(log) \in 1..Len(log)
BY DEF Logged, Current

\* An answer is appended to the entry in hand, delivered or lost.
LEMMA AnswersBecomes ==
  ASSUME Logged, Len(log) # 0, NEW s \in {"ok", "error"}, log' = Answers(s)
  PROVE  Becomes([Current EXCEPT !.ans = Append(@, IF conn THEN s ELSE "lost")])
<1> DEFINE t == IF conn THEN s ELSE "lost"
           e == [Current EXCEPT !.ans = Append(@, t)]
<1>1. t \in Statuses
    BY DEF Statuses
<1>2. e \in Entries
    <2> HIDE DEF t
    <2> QED
        BY <1>1, CurrentEntry, EntryMoves
<1>3. log' = [log EXCEPT ![Len(log)] = e]
    BY DEF Answers, Current
<1> HIDE DEF e
<1> QED
    BY <1>2, <1>3, LastMoves DEF Logged, Becomes, e

\* The entry in hand is marked as having acted.
LEMMA RanBecomes ==
  ASSUME Logged, Len(log) # 0, log' = Ran
  PROVE  Becomes([Current EXCEPT !.ran = TRUE])
<1> DEFINE e == [Current EXCEPT !.ran = TRUE]
<1>1. "ok" \in Statuses
    BY DEF Statuses
<1>2. e \in Entries
    BY <1>1, CurrentEntry, EntryMoves
<1>3. log' = [log EXCEPT ![Len(log)] = e]
    BY DEF Ran, Current
<1> HIDE DEF e
<1> QED
    BY <1>2, <1>3, LastMoves DEF Logged, Becomes, e

\* What is left of the log when the process goes.
LEMMA CutLeaves ==
  ASSUME Logged, log' = Cut
  PROVE  /\ log' \in Seq(Entries) /\ Len(log') = Len(log)
         /\ \A i \in 1..Len(log) :
              log'[i] = IF i = Len(log) /\ h # "idle"
                          THEN [log[i] EXCEPT !.cut = TRUE] ELSE log[i]
<1>1. \A i \in DOMAIN log : Cut[i] \in Entries
    <2> TAKE i \in DOMAIN log
    <2>1. log[i] \in Entries
        BY DEF Logged
    <2>2. "ok" \in Statuses
        BY DEF Statuses
    <2>3. [log[i] EXCEPT !.cut = TRUE] \in Entries
        BY <2>1, <2>2, EntryMoves
    <2> QED
        BY <2>1, <2>3 DEF Cut
<1>2. DOMAIN Cut = 1..Len(log) /\ Len(log) \in Nat
    BY DEF Cut, Logged
<1>3. DOMAIN log = 1..Len(log)
    BY DEF Logged
<1>4. Cut = [i \in 1..Len(log) |-> Cut[i]]
    BY <1>3 DEF Cut
<1>5. \A i \in 1..Len(log) : Cut[i] = IF i = Len(log) /\ h # "idle"
                          THEN [log[i] EXCEPT !.cut = TRUE] ELSE log[i]
    BY <1>3 DEF Cut
<1> HIDE DEF Cut
<1>6. Cut \in Seq(Entries) /\ Len(Cut) = Len(log)
    BY <1>1, <1>2, <1>3, <1>4
<1> QED
    BY <1>5, <1>6

\* A command acts: it was accepted, and it had not acted yet.
LEMMA RanRight ==
  ASSUME LogInv, h \in {"check", "shutdown"},
         Accepts(Current.c, Frame), Frame.type \notin Silent,
         log' = Ran,
         h' \in (IF h = "shutdown" THEN {"idle"}
                 ELSE {"ok", "err", "iam", "restartSssd", "desktop"}),
         h' = "iam" => Frame.type = "iam_apply",
         h' = "desktop" => Frame.type \in Desktop,
         h' = "restartSssd" => Frame.type = "configure_ldap"
  PROVE  LogInv'
<1> DEFINE e == [Current EXCEPT !.ran = TRUE]
<1>1. Len(log) # 0 /\ Logged
    BY DEF LogInv, Standing
<1>2. Becomes(e)
    BY <1>1, RanBecomes
<1>3. Current \in Entries /\ Len(log) \in Nat /\ Len(log) \in 1..Len(log)
    BY <1>1, CurrentEntry
<1>4. e.f = Current.f /\ e.c = Current.c /\ e.ans = Current.ans /\ e.cut = Current.cut /\ e.ran
    BY <1>3 DEF Entries
<1> HIDE DEF e
<1>5. Current' = e /\ Frame' = Frame
    BY <1>2, <1>4 DEF Becomes, Current, Frame
<1>6. Logged'
    BY <1>1, <1>2 DEF Logged, Becomes
<1>7. Standing'
    BY <1>2, <1>3, <1>4, <1>5 DEF LogInv, Standing, Places, Becomes
<1>8. Gated'
    BY <1>2, <1>3, <1>4 DEF LogInv, Gated, Becomes, Current, Frame
<1>9. Settled'
    <2> USE DEF Settled
    <2> TAKE i \in 1..Len(log')
    <2>1. CASE i # Len(log)
        BY <1>2, <1>3, <2>1 DEF LogInv, Settled, Becomes
    <2>2. CASE i = Len(log)
        <3>1. log'[i].ans = log[i].ans /\ log'[i].f = log[i].f
            BY <1>2, <1>4, <2>2 DEF Becomes, Current
        <3>2. h = "shutdown" => Len(log[i].ans) = 1
            BY <2>2 DEF LogInv, Standing, Current
        <3>3. Len(log') = Len(log) /\ ~(i < Len(log'))
            BY <1>2, <1>3, <2>2 DEF Becomes
        <3> QED
            BY <1>3, <2>2, <3>1, <3>2, <3>3 DEF LogInv, Settled
    <2> QED
        BY <2>1, <2>2
<1> QED
    BY <1>6, <1>7, <1>8, <1>9 DEF LogInv

\* A command is answered: it had no answer yet.
LEMMA AnswersRight ==
  ASSUME LogInv, NEW s \in {"ok", "error"},
         h \in {"check", "ok", "err"}, Frame.type \notin Silent,
         log' = Answers(s), h' \in {"idle", "shutdown", "exit"},
         h' # "idle" => Accepts(Current.c, Frame),
         h' = "shutdown" => h = "check" /\ Frame.type = "shutdown"
  PROVE  LogInv'
<1> DEFINE t == IF conn THEN s ELSE "lost"
           e == [Current EXCEPT !.ans = Append(@, t)]
<1>1. Len(log) # 0 /\ Logged
    BY DEF LogInv, Standing
<1>2. Becomes(e)
    BY <1>1, AnswersBecomes
<1>3. Current \in Entries /\ Len(log) \in Nat /\ Len(log) \in 1..Len(log)
    BY <1>1, CurrentEntry
<1>4. e.f = Current.f /\ e.c = Current.c /\ e.cut = Current.cut /\ e.ran = Current.ran
      /\ e.ans = Append(Current.ans, t)
    BY <1>3 DEF Entries
<1>a. Len(e.ans) = 1
    <2>1. Current.ans = <<>>
        BY DEF LogInv, Standing
    <2> HIDE DEF e, t
    <2> QED
        BY <1>4, <2>1
<1> HIDE DEF e
<1>5. Current' = e /\ Frame' = Frame
    BY <1>2, <1>4 DEF Becomes, Current, Frame
<1>6. Logged'
    BY <1>1, <1>2 DEF Logged, Becomes
<1>7. Standing'
    BY <1>2, <1>3, <1>4, <1>5, <1>a DEF LogInv, Standing, Places, Becomes
<1>8. Gated'
    BY <1>2, <1>3, <1>4 DEF LogInv, Gated, Becomes, Current, Frame
<1>9. Settled'
    <2> USE DEF Settled
    <2> TAKE i \in 1..Len(log')
    <2>1. CASE i # Len(log)
        BY <1>2, <1>3, <2>1 DEF LogInv, Settled, Becomes
    <2>2. CASE i = Len(log)
        BY <1>2, <1>4, <1>a, <2>2 DEF Becomes, Frame, Current
    <2> QED
        BY <2>1, <2>2
<1> QED
    BY <1>6, <1>7, <1>8, <1>9 DEF LogInv

\* A step that leaves the log alone keeps it if the handler's new place fits.
LEMMA PlaceRight ==
  ASSUME LogInv, log' = log, Standing', h' = "idle" => Settled'
  PROVE  LogInv'
BY DEF LogInv, Logged, Gated, Settled

\* The process goes: the frame in hand is cut off.
LEMMA GoneRight ==
  ASSUME LogInv, ProcessGone
  PROVE  LogInv'
<1>1. Logged
    BY DEF LogInv
<1>2. /\ log' \in Seq(Entries) /\ Len(log') = Len(log)
      /\ \A i \in 1..Len(log) :
              log'[i] = IF i = Len(log) /\ h # "idle"
                          THEN [log[i] EXCEPT !.cut = TRUE] ELSE log[i]
    BY <1>1, CutLeaves DEF ProcessGone
<1>3. \A i \in 1..Len(log) :
        /\ log'[i].f = log[i].f /\ log'[i].c = log[i].c
        /\ log'[i].ans = log[i].ans /\ log'[i].ran = log[i].ran
        /\ log[i].cut => log'[i].cut
        /\ i = Len(log) /\ h # "idle" => log'[i].cut
    <2> TAKE i \in 1..Len(log)
    <2>1. log[i] \in Entries
        BY <1>1 DEF Logged
    <2> QED
        BY <1>2, <2>1 DEF Entries
<1>4. Len(log) \in Nat
    BY <1>1 DEF Logged
<1>5. Logged' /\ Standing'
    BY <1>2 DEF ProcessGone, Logged, Standing, Places
<1>6. Gated'
    BY <1>2, <1>3 DEF LogInv, Gated
<1>7. Settled'
    <2> USE DEF Settled
    <2> TAKE i \in 1..Len(log')
    <2>1. CASE i = Len(log) /\ h # "idle"
        BY <1>2, <1>3, <2>1 DEF LogInv, Settled
    <2>2. CASE i < Len(log) \/ h = "idle"
        BY <1>2, <1>3, <2>2 DEF LogInv, Settled
    <2> QED
        BY <1>2, <1>4, <2>1, <2>2
<1> QED
    BY <1>5, <1>6, <1>7 DEF LogInv

\* The frames that are not commands are never refused, so never answered.
LEMMA SilentAccepted ==
  ASSUME NEW c, NEW f, f.type \in Silent
  PROVE  Accepts(c, f)
<1>1. f.type \in Known
    BY DEF Silent, Known, Unsigned
<1>2. ~NeedsSignature(f)
    BY DEF Silent, NeedsSignature, SignedTypes, Desktop
<1>3. CapabilityOf(f.type) = "any"
    BY DEF Silent, CapabilityOf
<1>4. PayloadOk(c, f)
    BY DEF Silent, Desktop, PayloadOk
<1>5. CapabilityOf(f.type) \in c.caps \cup {"any"}
    BY <1>3
<1> QED
    BY <1>1, <1>2, <1>4, <1>5 DEF Accepts

\* No frame has been read.
LEMMA InitLogInv == Init => LogInv
BY DEF Init, LogInv, Logged, Standing, Places, Gated, Settled

\* The read loop takes a frame.
LEMMA TakeRight ==
  ASSUME LogInv, cur \in Configs, NEW f \in Frames, Take(f)
  PROVE  LogInv'
<1> DEFINE e == [f |-> f, c |-> cur, ans |-> <<>>, ran |-> FALSE, cut |-> FALSE]
<1>1. <<>> \in Seq(Statuses)
    OBVIOUS
<1>2. e \in Entries
    BY <1>1 DEF Entries
<1>3. e.f = f /\ e.ans = <<>> /\ ~e.ran
    OBVIOUS
<1>4. log \in Seq(Entries) /\ log' = Append(log, e) /\ h = "idle" /\ h' = "check"
    BY DEF Take, LogInv, Logged
<1> HIDE DEF e
<1>5. /\ log' \in Seq(Entries) /\ Len(log') = Len(log) + 1
      /\ log'[Len(log')] = e
      /\ \A i \in 1..Len(log) : log'[i] = log[i]
    BY <1>2, <1>4, AppendMoves
<1>6. Logged' /\ Len(log) \in Nat
    BY <1>4, <1>5 DEF Logged
<1>7. Standing'
    BY <1>3, <1>4, <1>5, <1>6 DEF Standing, Places, Current
<1>8. \A i \in 1..Len(log') : i \in 1..Len(log) \/ i = Len(log')
    BY <1>5, <1>6
<1>9. Gated'
    BY <1>3, <1>5, <1>8 DEF LogInv, Gated
<1>10. Settled'
    <2> USE DEF Settled
    <2> TAKE i \in 1..Len(log')
    <2>1. CASE i \in 1..Len(log)
        BY <1>4, <1>5, <2>1 DEF LogInv
    <2>2. CASE i = Len(log')
        <3>1. log'[i].ans = <<>>
            BY <1>3, <1>5, <2>2
        <3>2. Len(log'[i].ans) = 0
            BY <3>1
        <3> QED
            BY <1>4, <1>5, <1>6, <2>2, <3>1, <3>2
    <2> QED
        BY <1>8, <2>1, <2>2
<1> QED
    BY <1>6, <1>7, <1>9, <1>10 DEF LogInv

\* What an accepted frame of a given kind is not.
LEMMA AcceptedLoud ==
  ASSUME NEW types, Accepted(types), types \cap Silent = {}
  PROVE  h = "check" /\ Accepts(Current.c, Frame) /\ Frame.type \in types
         /\ Frame.type \notin Silent
BY DEF Accepted

\* One step of the handler keeps it.
LEMMA HandleLogInv ==
  ASSUME LogInv, Handle
  PROVE  LogInv'
<1>0. h \in Places /\ (h \notin {"idle", "check"} =>
           Accepts(Current.c, Frame) /\ Frame.type \notin Silent)
    BY DEF LogInv, Standing
<1>1. CASE Refuse
    <2>1. Frame.type \notin Silent
        BY <1>1, SilentAccepted DEF Refuse
    <2> QED
        BY <1>1, <2>1, AnswersRight DEF Refuse
<1>2. CASE Ignore
    <2>1. log' = log /\ h' = "idle" /\ Frame.type \in Silent
        BY <1>2 DEF Ignore, Accepted
    <2>2. Standing'
        BY <2>1 DEF Standing, Places
    <2>3. Settled'
        BY <2>1 DEF LogInv, Logged, Settled, Frame, Current
    <2> QED
        BY <2>1, <2>2, <2>3, PlaceRight
<1>3. CASE Reload
    BY <1>3, AcceptedLoud, RanRight DEF Reload, Silent
<1>4. CASE OneOp
    <2>1. h' \in {"ok", "err"} /\ log' = Ran
        BY <1>4 DEF OneOp
    <2> QED
        BY <1>4, <2>1, AcceptedLoud, RanRight DEF OneOp, Silent
<1>5. CASE Reboot
    BY <1>5, AcceptedLoud, RanRight DEF Reboot, Silent
<1>6. CASE AnswerShutdown
    BY <1>6, AcceptedLoud, AnswersRight DEF AnswerShutdown, Silent
<1>7. CASE Shutdown
    BY <1>0, <1>7, RanRight DEF Shutdown
<1>8. CASE ControlService
    <2>1. h' \in {"ok", "err"} /\ log' = Ran
        BY <1>8 DEF ControlService
    <2> QED
        BY <1>8, <2>1, AcceptedLoud, RanRight DEF ControlService, Silent
<1>9. CASE ListSessions
    <2>1. log' = Ran /\ h' = "desktop" /\ h = "check" /\ Frame.type \in Desktop
          /\ Accepts(Current.c, Frame)
        BY <1>9 DEF ListSessions, Accepted
    <2>2. Frame.type \notin Silent
        BY <2>1 DEF Silent, Desktop
    <2> QED
        BY <2>1, <2>2, RanRight
<1>10. CASE DesktopControl
    <2>1. h = "desktop" /\ h' \in {"desktop", "ok", "err"} /\ log' = log
        BY <1>10, DesktopSteps
    <2>2. Standing'
        BY <2>1 DEF LogInv, Standing, Places, Current, Frame
    <2> QED
        BY <2>1, <2>2, PlaceRight
<1>11. CASE WriteSssd
    <2>1. h' \in {"restartSssd", "err"} /\ log' = Ran
        BY <1>11 DEF WriteSssd
    <2> QED
        BY <1>11, <2>1, AcceptedLoud, RanRight DEF WriteSssd, Silent
<1>12. CASE RestartSssd
    <2>1. log' = log /\ h \in {"restartSssd", "retrySssd"}
          /\ h' \in {"ok", "err", "retrySssd"}
        BY <1>12 DEF RestartSssd
    <2>2. Standing'
        BY <2>1 DEF LogInv, Standing, Places, Current, Frame
    <2> QED
        BY <2>1, <2>2, PlaceRight
<1>13. CASE BeginIam
    BY <1>13, AcceptedLoud, RanRight DEF BeginIam, Silent
<1>14. CASE DoIam
    <2>1. log' = log /\ h' = h
        BY <1>14 DEF DoIam, cmdVars
    <2>2. Standing' /\ Settled'
        BY <2>1 DEF LogInv, Standing, Settled, Places, Current, Frame
    <2> QED
        BY <2>1, <2>2, PlaceRight
<1>15. CASE EndIam
    <2>1. log' = log /\ h = "iam" /\ h' \in {"ok", "err"}
        BY <1>15 DEF EndIam
    <2>2. Standing'
        BY <2>1 DEF LogInv, Standing, Places, Current, Frame
    <2> QED
        BY <2>1, <2>2, PlaceRight
<1>16. CASE Answer
    <2>1. h \in {"ok", "err"} /\ h' \in {"idle", "exit"}
        BY <1>16 DEF Answer
    <2>2. \E s \in {"ok", "error"} : log' = Answers(s)
        BY <1>16 DEF Answer
    <2> QED
        BY <1>0, <2>1, <2>2, AnswersRight
<1> QED
    BY <1>1, <1>2, <1>3, <1>4, <1>5, <1>6, <1>7, <1>8, <1>9, <1>10, <1>11,
       <1>12, <1>13, <1>14, <1>15, <1>16 DEF Handle

\* The configurations are contents of agent.yml.
CfgInv == file \in Configs /\ cur \in Configs

\* No step puts anything but contents of agent.yml in force.
LEMMA NextCfgInv == CfgInv /\ [Next]_vars => CfgInv'
<1> SUFFICES ASSUME CfgInv, [Next]_vars PROVE CfgInv'
    OBVIOUS
<1> USE DEF CfgInv, cfgs, cmdVars
<1>1. CASE Reload
    BY <1>1 DEF Reload
<1>2. CASE Restart
    BY <1>2 DEF Restart
<1>3. CASE Tick
    BY <1>3 DEF Tick
<1>4. ASSUME NEW c \in Configs, Edit(c) PROVE CfgInv'
    BY <1>4 DEF Edit
<1>5. CASE UNCHANGED <<file, cur>>
    BY <1>5
<1>6. CASE Refuse \/ Ignore \/ OneOp \/ Reboot \/ AnswerShutdown
           \/ Shutdown \/ ControlService \/ Answer
    BY <1>5, <1>6 DEF Refuse, Ignore, OneOp, Reboot, AnswerShutdown,
                      Shutdown, ControlService, Answer
<1>7. CASE ListSessions \/ DesktopControl
    BY <1>5, <1>7, DesktopSteps DEF ListSessions
<1>8. CASE WriteSssd \/ RestartSssd \/ BeginIam \/ DoIam \/ EndIam
    BY <1>5, <1>8 DEF WriteSssd, RestartSssd, BeginIam, DoIam, EndIam
<1>9. CASE HostDown \/ Drop \/ Dial
    BY <1>5, <1>9 DEF HostDown, Drop, Dial
<1>10. ASSUME NEW f \in Frames, Take(f) PROVE CfgInv'
    BY <1>5, <1>10 DEF Take
<1>11. ASSUME NEW u \in Users, UserLogin(u) \/ UserLogout(u) PROVE CfgInv'
    BY <1>5, <1>11 DEF UserLogin, UserLogout
<1>12. CASE UNCHANGED vars
    BY <1>5, <1>12 DEF vars
<1> QED
    BY <1>1, <1>2, <1>3, <1>4, <1>6, <1>7, <1>8, <1>9, <1>10, <1>11, <1>12
       DEF Next, Handle

\* One step of the handler or of its surroundings keeps it.
LEMMA NextLogInv == LogInv /\ CfgInv /\ [Next]_vars => LogInv'
<1> SUFFICES ASSUME LogInv, CfgInv, [Next]_vars PROVE LogInv'
    OBVIOUS
<1>1. CASE Handle
    BY <1>1, HandleLogInv
<1>2. CASE Restart \/ HostDown
    BY <1>2, GoneRight DEF Restart, HostDown
<1>3. CASE log' = log /\ h' = h
    <2>1. Standing' /\ Settled'
        BY <1>3 DEF LogInv, Standing, Settled, Places, Current, Frame
    <2> QED
        BY <1>3, <2>1, PlaceRight
<1>4. CASE Drop \/ Dial \/ Tick
    BY <1>3, <1>4 DEF Drop, Dial, Tick
<1>5. ASSUME NEW c \in Configs, Edit(c) PROVE LogInv'
    BY <1>3, <1>5 DEF Edit
<1>6. ASSUME NEW u \in Users, UserLogin(u) \/ UserLogout(u) PROVE LogInv'
    BY <1>3, <1>6 DEF UserLogin, UserLogout, cmdVars
<1>7. ASSUME NEW f \in Frames, Take(f) PROVE LogInv'
    BY <1>7, TakeRight DEF CfgInv
<1>8. CASE UNCHANGED vars
    BY <1>3, <1>8 DEF vars, cmdVars
<1> QED
    BY <1>1, <1>2, <1>4, <1>5, <1>6, <1>7, <1>8 DEF Next

\* The protocol's contract, of one frame and the configuration it was read under.
Contract(c, f) ==
  /\ \/ f.type \in ContractSigned
     \/ f.type = "systemd_action" /\ f.arg.action \notin {None, "status"}
     => c.key # None /\ f.sig = c.key
  /\ f.type \in DOMAIN ContractCapability
     => ContractCapability[f.type] \in c.caps
  /\ f.type = "service_restart" => f.arg \in c.services

\* What the dispatcher accepts satisfies the contract.
LEMMA ContractKept ==
  ASSUME NEW c, NEW f, Accepts(c, f)
  PROVE  Contract(c, f)
<1>1. ASSUME f.type \in ContractSigned
      PROVE  c.key # None /\ f.sig = c.key
    <2>1. f.type \in SignedTypes
        BY <1>1 DEF ContractSigned, SignedTypes, Desktop
    <2> QED
        BY <2>1 DEF Accepts, NeedsSignature, verifySignature
<1>2. ASSUME f.type = "systemd_action", f.arg.action \notin {None, "status"}
      PROVE  c.key # None /\ f.sig = c.key
    BY <1>2 DEF Accepts, NeedsSignature, ActionOf, verifySignature
<1>3. ASSUME f.type \in DOMAIN ContractCapability
      PROVE  ContractCapability[f.type] \in c.caps
    <2>1. f.type \in {"reboot", "shutdown", "iam_apply", "configure_ldap",
                      "render_secrets", "arbitrary_bash", "zpool_scrub",
                      "register_service", "unregister_service",
                      "wireguard_apply", "wireguard_remove"}
        BY <1>3 DEF ContractCapability
    <2>2. /\ ContractCapability[f.type] = CapabilityOf(f.type)
          /\ ContractCapability[f.type] # "any"
        BY <2>1 DEF ContractCapability, CapabilityOf
    <2> QED
        BY <2>2 DEF Accepts
<1>4. ASSUME f.type = "service_restart" PROVE f.arg \in c.services
    BY <1>4 DEF Accepts, PayloadOk, Silent, Desktop, CanManageService
<1> QED
    BY <1>1, <1>2, <1>3, <1>4 DEF Contract

----------------------------------------------------------------------------
(* How far an application of a policy has come, and what is in force. *)

\* The values of the variables TypeOK speaks of, and of those behind them.
Stops == {"idle", "sudo", "visudo", "rename", "keys", "access", "writeAccess",
          "revoke", "done", "failed"}

TypeInv ==
  /\ conn \in BOOLEAN
  /\ desk \in [listed : SUBSET Users, left : SUBSET Users,
               ended : SUBSET Users, err : BOOLEAN]
  /\ locked \subseteq Users
  /\ svc \in [Services -> BOOLEAN] /\ host \in {"up", "stopping", "off"}
  /\ sess \in [Users -> BOOLEAN]

\* The engine is at work exactly while the handler waits for it.
Engaged == job.pc \in Stops /\ (h = "iam" <=> job.pc # "idle")

\* How far the application in progress has come, and what is in force since.
SudoDone(p)   == p.sudo # None => sudoers = p.sudo
KeysDone(p)   == \A u \in p.keys : keys[u] = p
AccessDone(p) == p.groups # {} => access = AccessFile(p.groups)
Gone(p, left) ==
  p.groups # {} => \A u \in p.revoke \ p.groups : u \in left \/ Out(u)

EngineInv ==
  h = "iam" =>
    /\ job.p = Frame.arg /\ job.p \in Policies
    /\ job.pc \in {"visudo", "rename"} => sudoTmp = job.p.sudo
    /\ job.pc \in PastSudo => SudoDone(job.p)
    /\ job.pc \in PastKeys => KeysDone(job.p)
    /\ job.pc \in PastAccess => AccessDone(job.p)
    /\ job.left \subseteq job.p.revoke
    /\ job.pc \notin {"revoke", "done", "failed"} => job.left = job.p.revoke
    /\ job.pc \in PastAccess => Gone(job.p, job.left)
    /\ job.pc = "done" => job.left = {}

\* A stage is left with what was done so far in force: so it is where the
\* next one begins.
LEMMA StageBegins ==
  ASSUME NEW p \in Policies, NEW i \in 0..3,
         Frame'.arg = p, job'.p = p, job'.left = p.revoke,
         job'.pc = StageAfter(p, i),
         i >= 1 => SudoDone(p)', i >= 2 => KeysDone(p)', i >= 3 => AccessDone(p)'
  PROVE  EngineInv' /\ job'.pc \in Stops \ {"idle"}
<1>0. i \in 0..4
    OBVIOUS
<1>1. /\ job'.pc \in {"sudo", "keys", "access", "revoke", "done"}
      /\ i = 0 /\ job'.pc \in PastSudo => p.sudo = None
      /\ i <= 1 /\ job'.pc \in PastKeys => p.keys = {}
      /\ i <= 2 /\ job'.pc \in PastAccess => p.groups = {}
      /\ i <= 3 /\ job'.pc = "done" => p.revoke = {}
    BY <1>0, StageSkips
<1>2. job'.pc \in PastSudo => SudoDone(p)'
    BY <1>1 DEF SudoDone
<1>3. job'.pc \in PastKeys => KeysDone(p)'
    BY <1>1 DEF KeysDone
<1>4. job'.pc \in PastAccess => AccessDone(p)'
    BY <1>1 DEF AccessDone
<1>5. Gone(p, p.revoke)'
    BY DEF Gone
<1>6. job'.pc \in Stops \ {"idle"}
    BY <1>1 DEF Stops
<1>7. EngineInv'
    BY <1>1, <1>2, <1>3, <1>4, <1>5 DEF EngineInv
<1> QED
    BY <1>6, <1>7

\* Goto moves the application on and leaves its payload alone.
LEMMA JobMoves ==
  ASSUME JobShape, NEW pc, Goto(pc)
  PROVE  job'.p = job.p /\ job'.pc = pc /\ job'.left = job.left
BY DEF JobShape, Goto

\* An application that failed promises nothing.
LEMMA FailedStops ==
  ASSUME EngineInv, JobShape, Fail, h = "iam", h' = h, log' = log
  PROVE  EngineInv' /\ job'.pc = "failed"
<1>1. job'.p = job.p /\ job'.pc = "failed" /\ job'.left = job.left
    BY JobMoves DEF Fail
<1> QED
    BY <1>1 DEF EngineInv, Frame, Current, PastSudo, PastKeys, PastAccess

\* A step of the engine.
LEMMA StepEngineInv ==
  ASSUME EngineInv, JobShape, h = "iam", h' = h, log' = log,
         sess \in [Users -> BOOLEAN], IamStep
  PROVE  /\ EngineInv' /\ job'.pc \in Stops \ {"idle"}
         /\ sess' \in [Users -> BOOLEAN]
<1>0. PICK p \in Policies : p = job.p
    BY DEF EngineInv
<1>1. /\ p = Frame.arg /\ job.p = p
      /\ job.pc \in {"visudo", "rename"} => sudoTmp = p.sudo
      /\ job.pc \in PastSudo => SudoDone(p)
      /\ job.pc \in PastKeys => KeysDone(p)
      /\ job.pc \in PastAccess => AccessDone(p)
      /\ job.left \subseteq p.revoke
      /\ job.pc \notin {"revoke", "done", "failed"} => job.left = p.revoke
      /\ job.pc \in PastAccess => Gone(p, job.left)
    BY <1>0 DEF EngineInv
<1>2. Frame' = Frame
    BY DEF Frame, Current
<1>3. p.keys \subseteq Users /\ p.groups \subseteq Users /\ p.revoke \subseteq Users
    BY PolicyAssumption
<1>4. CASE Fail /\ UNCHANGED sess
    BY <1>4, FailedStops DEF Stops
<1>5. ASSUME Goto("visudo"), job.pc = "sudo", sudoTmp' = p.sudo, UNCHANGED sess
      PROVE  EngineInv' /\ job'.pc = "visudo"
    <2>1. job'.p = job.p /\ job'.pc = "visudo" /\ job'.left = job.left
        BY <1>5, JobMoves
    <2> QED
        BY <1>1, <1>2, <1>5, <2>1 DEF EngineInv, PastSudo, PastKeys, PastAccess
<1>6. ASSUME Goto("rename"), job.pc = "visudo", UNCHANGED sudoTmp
      PROVE  EngineInv' /\ job'.pc = "rename"
    <2>1. job'.p = job.p /\ job'.pc = "rename" /\ job'.left = job.left
        BY <1>6, JobMoves
    <2> QED
        BY <1>1, <1>2, <1>6, <2>1 DEF EngineInv, PastSudo, PastKeys, PastAccess
<1>7. ASSUME Goto("writeAccess"), job.pc = "access", UNCHANGED <<sudoers, keys>>
      PROVE  EngineInv' /\ job'.pc = "writeAccess"
    <2>1. job'.p = job.p /\ job'.pc = "writeAccess" /\ job'.left = job.left
        BY <1>7, JobMoves
    <2>2. SudoDone(p) /\ KeysDone(p)
        BY <1>1, <1>7 DEF PastSudo, PastKeys
    <2>3. SudoDone(p)' /\ KeysDone(p)'
        BY <1>7, <2>1, <2>2 DEF SudoDone, KeysDone
    <2> QED
        BY <1>1, <1>2, <1>7, <2>1, <2>3 DEF EngineInv, PastSudo, PastKeys, PastAccess
<1>8. ASSUME NEW s \in {"sudo", "keys", "access"}, Leave(s)
      PROVE  job'.p = p /\ job'.pc = StageAfter(p, PosOf(s)) /\ job'.left = job.left
    <2> DEFINE n == StageAfter(p, PosOf(s))
    <2>1. Goto(n)
        BY <1>1, <1>8 DEF Leave
    <2> HIDE DEF n
    <2>2. job'.p = job.p /\ job'.pc = n /\ job'.left = job.left
        BY <2>1, JobMoves
    <2> USE DEF n
    <2> QED
        BY <1>1, <2>2
<1>9. CASE WriteSudoTmp
    BY <1>1, <1>4, <1>5, <1>9 DEF WriteSudoTmp, Stops
<1>10. CASE Visudo
    BY <1>4, <1>6, <1>10 DEF Visudo, Stops
<1>11. CASE RenameSudo
    <2>1. CASE Fail
        BY <1>4, <1>11, <2>1 DEF RenameSudo
    <2>2. CASE sudoers' = sudoTmp /\ Leave("sudo")
        <3>1. /\ job'.p = p /\ job'.left = p.revoke
              /\ job'.pc = StageAfter(p, 1)
            BY <1>1, <1>8, <1>11, <2>2, StagePositions DEF RenameSudo
        <3>2. sudoers' = p.sudo
            BY <1>1, <1>11, <2>2 DEF RenameSudo
        <3>3. SudoDone(p)'
            BY <3>1, <3>2 DEF SudoDone
        <3> QED
            BY <1>1, <1>2, <1>11, <3>1, <3>3, StageBegins DEF RenameSudo
    <2> QED
        BY <1>11, <2>1, <2>2 DEF RenameSudo
<1>12. CASE WriteKeys
    <2>1. CASE Fail
        BY <1>4, <1>12, <2>1 DEF WriteKeys
    <2>2. CASE ~Fail
        <3>1. /\ Leave("keys") /\ job.pc = "keys" /\ UNCHANGED <<sudoers, sess, spared>>
              /\ keys' = [u \in Users |-> IF u \in p.keys THEN p ELSE keys[u]]
            BY <1>1, <1>12, <2>2 DEF WriteKeys
        <3>2. /\ job'.p = p /\ job'.left = p.revoke
              /\ job'.pc = StageAfter(p, 2)
            BY <1>1, <1>8, <3>1, StagePositions
        <3>3. KeysDone(p)'
            BY <1>3, <3>1 DEF KeysDone
        <3>4. SudoDone(p)'
            BY <1>1, <3>1 DEF SudoDone, PastSudo
        <3> QED
            BY <1>1, <1>2, <3>1, <3>2, <3>3, <3>4, StageBegins
    <2> QED
        BY <2>1, <2>2
<1>13. CASE TruncateAccess
    BY <1>4, <1>7, <1>13 DEF TruncateAccess, Stops
<1>14. CASE WriteAccess
    <2>1. CASE Fail
        BY <1>4, <1>14, <2>1 DEF WriteAccess
    <2>2. CASE ~Fail
        <3>1. /\ Leave("access") /\ job.pc = "writeAccess" /\ UNCHANGED <<sudoers, keys, sess>>
              /\ access' = AccessFile(p.groups)
            BY <1>1, <1>14, <2>2 DEF WriteAccess
        <3>2. /\ job'.p = p /\ job'.left = p.revoke
              /\ job'.pc = StageAfter(p, 3)
            BY <1>1, <1>8, <3>1, StagePositions
        <3>3. SudoDone(p) /\ KeysDone(p)
            BY <1>1, <3>1 DEF PastSudo, PastKeys
        <3>4. SudoDone(p)' /\ KeysDone(p)' /\ AccessDone(p)'
            BY <3>1, <3>3 DEF SudoDone, KeysDone, AccessDone
        <3> QED
            BY <1>1, <1>2, <3>1, <3>2, <3>4, StageBegins
    <2> QED
        BY <2>1, <2>2
<1>15. ASSUME NEW u \in Users, Revoke(u)
       PROVE  /\ EngineInv' /\ job'.pc \in Stops \ {"idle"}
              /\ sess' \in [Users -> BOOLEAN]
    <2>1. /\ job.pc = "revoke" /\ u \in job.left /\ UNCHANGED <<sudoers, keys, access>>
          /\ \/ sess' = [sess EXCEPT ![u] = FALSE] /\ spared' = spared \ {u}
             \/ UNCHANGED sess /\ spared' = spared \cup {u}
          /\ job' = [job EXCEPT !.left = @ \ {u},
                        !.pc = IF job.left = {u}
                               THEN StageAfter(job.p, PosOf("revoke"))
                               ELSE @]
        BY <1>15 DEF Revoke
    <2>2. /\ job'.p = p /\ job'.left = job.left \ {u}
          /\ job'.pc = IF job.left = {u} THEN StageAfter(p, 4) ELSE "revoke"
        BY <1>1, <2>1, StagePositions DEF JobShape
    <2>3. StageAfter(p, 4) = "done"
        BY StageSkips
    <2>4. sess' \in [Users -> BOOLEAN] /\ Out(u)' /\ \A v \in Users : Out(v) => Out(v)'
        <3>1. CASE sess' = [sess EXCEPT ![u] = FALSE] /\ spared' = spared \ {u}
            BY <3>1 DEF Out
        <3>2. CASE UNCHANGED sess /\ spared' = spared \cup {u}
            BY <3>2 DEF Out
        <3> QED
            BY <2>1, <3>1, <3>2
    <2>5. SudoDone(p) /\ KeysDone(p) /\ AccessDone(p) /\ Gone(p, job.left)
        BY <1>1, <2>1 DEF PastSudo, PastKeys, PastAccess
    <2>6. SudoDone(p)' /\ KeysDone(p)' /\ AccessDone(p)'
        BY <2>1, <2>5 DEF SudoDone, KeysDone, AccessDone
    <2>7. (Gone(p, job.left))'
        BY <1>3, <2>2, <2>4, <2>5 DEF Gone
    <2>8. job'.pc \in {"revoke", "done"} /\ (job'.pc = "done" => job'.left = {})
        BY <2>2, <2>3
    <2> QED
        BY <1>1, <1>2, <2>2, <2>4, <2>6, <2>7, <2>8 DEF EngineInv, Stops
<1> QED
    BY <1>9, <1>10, <1>11, <1>12, <1>13, <1>14, <1>15 DEF IamStep

\* Whom the last line of access.conf alone names is denied.
LEMMA KeptOut ==
  ASSUME NEW groups, NEW u \in Users, u \notin groups
  PROVE  ~Permits(AccessFile(groups), u)
<1> DEFINE conf == AccessFile(groups)
           naming == {i \in DOMAIN conf : u \in conf[i].who}
<1>1. /\ DOMAIN conf = 1..3
      /\ conf[1] = Allow({Root}) /\ conf[2] = Allow(groups)
      /\ conf[3] = Deny(Users \cup {Root})
    BY DEF AccessFile
<1>2. u # Root
    BY RootAssumption
<1>3. u \notin conf[1].who /\ u \notin conf[2].who /\ u \in conf[3].who /\ ~conf[3].allow
    <2> HIDE DEF conf
    <2> QED
        BY <1>1, <1>2 DEF Allow, Deny
<1>4. naming = {3}
    <2> HIDE DEF conf
    <2> QED
        BY <1>1, <1>3
<1>5. Min(naming) = 3
    BY <1>4 DEF Min
<1> HIDE DEF conf
<1> QED
    BY <1>3, <1>4, <1>5 DEF Permits, conf

\* No one the policy keeps out comes back while it is being applied.
LEMMA GoneStays ==
  ASSUME NEW p \in Policies, AccessDone(p), NEW left, Gone(p, left),
         NEW u \in Users, Login(u), sess \in [Users -> BOOLEAN]
  PROVE  Gone(p, left)'
<1>1. p.revoke \subseteq Users
    BY PolicyAssumption
<1>2. sess' = [sess EXCEPT ![u] = TRUE] /\ UNCHANGED spared /\ Permits(access, u)
    BY DEF Login
<1>3. p.groups # {} => u \in p.groups
    BY <1>2, KeptOut DEF AccessDone
<1>4. \A v \in Users : v # u /\ Out(v) => Out(v)'
    BY <1>2 DEF Out
<1> QED
    BY <1>1, <1>3, <1>4 DEF Gone

\* One step keeps the types.
LEMMA NextTypeInv == TypeInv /\ [Next]_vars => TypeInv'
<1> SUFFICES ASSUME TypeInv, [Next]_vars PROVE TypeInv'
    OBVIOUS
<1> USE DEF iamVars, machine, cfgs
<1>1. CASE UNCHANGED <<machine, conn, desk, sess>>
    BY <1>1 DEF TypeInv
<1>2. CASE Refuse \/ Ignore \/ Reload \/ OneOp \/ AnswerShutdown \/ Answer
    BY <1>1, <1>2 DEF Refuse, Ignore, Reload, OneOp, AnswerShutdown, Answer
<1>3. CASE Reboot \/ Shutdown
    <2>1. host' \in {"up", "stopping", "off"}
        BY <1>3 DEF TypeInv, Reboot, Shutdown
    <2> QED
        BY <1>3, <2>1 DEF TypeInv, Reboot, Shutdown
<1>4. CASE ControlService
    <2> DEFINE call == ServiceCall(Frame)
               up == CASE call.action = "stop" -> FALSE
                       [] call.action = "status" -> svc[call.service]
                       [] OTHER -> TRUE
    <2>1. svc' = svc \/ svc' = [svc EXCEPT ![call.service] = up]
        BY <1>4 DEF ControlService
    <2>2. call.service \in Services => up \in BOOLEAN
        BY DEF TypeInv
    <2> HIDE DEF up, call
    <2>3. svc' \in [Services -> BOOLEAN]
        BY <2>1, <2>2 DEF TypeInv
    <2> QED
        BY <1>4, <2>3 DEF TypeInv, ControlService
<1>5. CASE ListSessions
    <2>1. desk' \in [listed : SUBSET Users, left : SUBSET Users,
                     ended : SUBSET Users, err : BOOLEAN]
        BY <1>5 DEF ListSessions, Graphical
    <2> QED
        BY <1>5, <2>1 DEF TypeInv, ListSessions
<1>6. NoDesk \in [listed : SUBSET Users, left : SUBSET Users,
                  ended : SUBSET Users, err : BOOLEAN]
    BY DEF NoDesk
<1>7. ASSUME NEW who, EndSessions(who)
      PROVE  sess' \in [Users -> BOOLEAN]
    <2>1. \A u \in Users : (sess[u] /\ u \notin who) \in BOOLEAN
        OBVIOUS
    <2> QED
        BY <1>7, <2>1 DEF EndSessions
<1>8. CASE DesktopControl
    <2>1. sess' \in [Users -> BOOLEAN]
        BY <1>7, <1>8, DesktopSteps DEF TypeInv
    <2>2. UNCHANGED <<conn, svc, host>>
        BY <1>8, DesktopSteps
    <2>3. locked' \subseteq Users
        BY <1>8 DEF TypeInv, DesktopControl, EndLoop, SleepHost, NoneListed, DisplayOff,
                    LockAll, Live, LockSession, TerminateSession, LogoutUser
    <2>4. desk' = NoDesk \/ \E u \in Users, ended \in SUBSET Users, failed \in BOOLEAN :
                              Tried(u, ended, failed)
        <3>1. CASE EndLoop \/ SleepHost \/ NoneListed \/ DisplayOff
            BY <3>1 DEF EndLoop, SleepHost, NoneListed, DisplayOff, LockAll, Finish
        <3>2. ASSUME NEW u \in Users, LockSession(u) \/ TerminateSession(u)
              PROVE  \E ended \in SUBSET Users, failed \in BOOLEAN : Tried(u, ended, failed)
            BY <3>2 DEF LockSession, TerminateSession
        <3>3. ASSUME NEW u \in Users, LogoutUser(u) PROVE desk' = NoDesk
            BY <3>3 DEF LogoutUser, Finish
        <3> QED
            BY <1>8, <3>1, <3>2, <3>3 DEF DesktopControl
    <2>5. desk' \in [listed : SUBSET Users, left : SUBSET Users,
                     ended : SUBSET Users, err : BOOLEAN]
        BY <1>6, <2>4 DEF TypeInv, Tried
    <2> QED
        BY <2>1, <2>2, <2>3, <2>5 DEF TypeInv
<1>10. CASE WriteSssd \/ RestartSssd
    BY <1>10 DEF TypeInv, WriteSssd, RestartSssd
<1>11. CASE BeginIam \/ EndIam
    BY <1>1, <1>11 DEF BeginIam, EndIam, Begin, Return
<1>12. CASE DoIam
    <2>1. UNCHANGED <<machine, conn, desk>>
        BY <1>12 DEF DoIam, cmdVars
    <2>2. sess' \in [Users -> BOOLEAN]
        <3>1. sess' = sess \/ \E u \in Users : sess' = [sess EXCEPT ![u] = FALSE]
            BY <1>12 DEF DoIam, IamStep, WriteSudoTmp, Visudo, RenameSudo, WriteKeys,
                         TruncateAccess, WriteAccess, Revoke
        <3> QED
            BY <3>1 DEF TypeInv
    <2> QED
        BY <2>1, <2>2 DEF TypeInv
<1>13. CASE Restart \/ HostDown
    <2>1. sess' \in [Users -> BOOLEAN]
        BY <1>13 DEF Restart, HostDown, Die, TypeInv
    <2>2. conn' = FALSE /\ desk' = NoDesk /\ UNCHANGED <<svc, locked>>
        BY <1>13 DEF Restart, HostDown, ProcessGone
    <2>3. host' \in {"up", "stopping", "off"}
        BY <1>13 DEF Restart, HostDown, TypeInv
    <2> QED
        BY <1>6, <2>1, <2>2, <2>3 DEF TypeInv
<1>14. CASE Drop \/ Dial
    <2>1. conn' \in BOOLEAN
        BY <1>14 DEF Drop, Dial
    <2> QED
        BY <1>14, <2>1 DEF TypeInv, Drop, Dial
<1>15. CASE Tick
    BY <1>1, <1>15 DEF Tick
<1>16. ASSUME NEW f \in Frames, Take(f) PROVE TypeInv'
    BY <1>1, <1>16 DEF Take
<1>17. ASSUME NEW c \in Configs, Edit(c) PROVE TypeInv'
    BY <1>1, <1>17 DEF Edit
<1>18. ASSUME NEW u \in Users, UserLogin(u) PROVE TypeInv'
    <2>1. sess' = [sess EXCEPT ![u] = TRUE] /\ locked' \subseteq Users
        BY <1>18 DEF TypeInv, UserLogin, Login
    <2> QED
        BY <1>18, <2>1 DEF TypeInv, UserLogin
<1>19. ASSUME NEW u \in Users, UserLogout(u) PROVE TypeInv'
    <2>1. sess' \in [Users -> BOOLEAN]
        BY <1>7, <1>19 DEF UserLogout
    <2>2. desk' \in [listed : SUBSET Users, left : SUBSET Users,
                     ended : SUBSET Users, err : BOOLEAN]
        BY <1>19 DEF TypeInv, UserLogout
    <2> QED
        BY <1>19, <2>1, <2>2 DEF TypeInv, UserLogout
<1>20. CASE UNCHANGED vars
    BY <1>1, <1>20 DEF vars, cmdVars
<1> QED
    BY <1>2, <1>3, <1>4, <1>5, <1>8, <1>10, <1>11, <1>12, <1>13, <1>14, <1>15,
       <1>16, <1>17, <1>18, <1>19, <1>20 DEF Next, Handle

\* The other steps either leave the engine and the handler's place alone, or
\* are taken while the handler does not wait for the engine.
LEMMA EngineLeft ==
  ASSUME Engaged, EngineInv, JobShape, LogInv, sess \in [Users -> BOOLEAN],
         [Next]_vars, ~BeginIam, ~DoIam
  PROVE  Engaged' /\ EngineInv'
<1> USE DEF iamVars, machine, cfgs
<1>0. h \in Places /\ JobShape
    BY DEF LogInv, Standing
<1>1. CASE job' = NoJob /\ h' # "iam"
    BY <1>1 DEF Engaged, EngineInv, NoJob, Stops
<1>2. CASE UNCHANGED job /\ h # "iam" /\ h' # "iam"
    BY <1>2 DEF Engaged, EngineInv
<1>3. CASE UNCHANGED <<job, sudoTmp, sudoers, keys, access, h, log>>
           /\ \A u \in Users : Out(u) => Out(u)'
    <2>1. Engaged'
        BY <1>3 DEF Engaged
    <2>2. Frame' = Frame
        BY <1>3 DEF Frame, Current
    <2>3. ASSUME h = "iam" PROVE EngineInv'
        <3>1. PICK p \in Policies : p = job.p
            BY <2>3 DEF EngineInv
        <3>2. p.revoke \subseteq Users
            BY PolicyAssumption
        <3>3. SudoDone(p)' <=> SudoDone(p)
            BY <1>3 DEF SudoDone
        <3>4. KeysDone(p)' <=> KeysDone(p)
            BY <1>3 DEF KeysDone
        <3>5. AccessDone(p)' <=> AccessDone(p)
            BY <1>3 DEF AccessDone
        <3>6. Gone(p, job.left) => (Gone(p, job.left))'
            BY <1>3, <3>2 DEF Gone
        <3> QED
            BY <1>3, <2>2, <2>3, <3>1, <3>3, <3>4, <3>5, <3>6 DEF EngineInv
    <2>4. h # "iam" => EngineInv'
        BY <1>3 DEF EngineInv
    <2> QED
        BY <2>1, <2>3, <2>4
<1>4. CASE Refuse \/ Ignore \/ Reload \/ OneOp \/ Reboot
    <2>1. h = "check" /\ h' \in {"idle", "ok", "err"} /\ UNCHANGED job
        BY <1>4 DEF Refuse, Ignore, Reload, OneOp, Reboot, Accepted
    <2> QED
        BY <1>2, <2>1
<1>5. CASE AnswerShutdown \/ Shutdown \/ ControlService
    <2>1. h \in {"check", "shutdown"} /\ h' \in {"idle", "ok", "err", "shutdown"} /\ UNCHANGED job
        BY <1>5 DEF AnswerShutdown, Shutdown, ControlService, Accepted
    <2> QED
        BY <1>2, <2>1
<1>6. CASE ListSessions \/ DesktopControl
    <2>1. h \in {"check", "desktop"} /\ h' \in {"desktop", "ok", "err"} /\ UNCHANGED job
        BY <1>6, DesktopSteps DEF ListSessions, Accepted
    <2> QED
        BY <1>2, <2>1
<1>7. CASE WriteSssd \/ RestartSssd \/ Answer
    <2>1. h # "iam" /\ h' # "iam" /\ UNCHANGED job
        BY <1>7 DEF WriteSssd, RestartSssd, Answer, Accepted
    <2> QED
        BY <1>2, <2>1
<1>8. CASE EndIam
    BY <1>1, <1>8 DEF EndIam, Return
<1>9. CASE Restart \/ HostDown
    BY <1>1, <1>9 DEF Restart, HostDown, ProcessGone, Die
<1>10. CASE Drop \/ Dial \/ Tick
    BY <1>3, <1>10 DEF Drop, Dial, Tick, Out
<1>11. ASSUME NEW f \in Frames, Take(f) PROVE Engaged' /\ EngineInv'
    BY <1>2, <1>11 DEF Take
<1>12. ASSUME NEW c \in Configs, Edit(c) PROVE Engaged' /\ EngineInv'
    BY <1>3, <1>12 DEF Edit, Out
<1>13. ASSUME NEW u \in Users, UserLogout(u) PROVE Engaged' /\ EngineInv'
    <2>1. \A v \in Users : Out(v) => Out(v)'
        BY <1>13, EndedOut DEF UserLogout
    <2> QED
        BY <1>3, <1>13, <2>1 DEF UserLogout, EndSessions
<1>14. ASSUME NEW u \in Users, UserLogin(u) PROVE Engaged' /\ EngineInv'
    <2>0. UNCHANGED <<job, sudoTmp, sudoers, keys, access, h, log>> /\ Login(u)
        BY <1>14 DEF UserLogin, Login
    <2>1. Engaged'
        BY <2>0 DEF Engaged
    <2>2. Frame' = Frame
        BY <2>0 DEF Frame, Current
    <2>3. ASSUME h = "iam" PROVE EngineInv'
        <3>1. PICK p \in Policies : p = job.p
            BY <2>3 DEF EngineInv
        <3>3. SudoDone(p)' <=> SudoDone(p)
            BY <2>0 DEF SudoDone
        <3>4. KeysDone(p)' <=> KeysDone(p)
            BY <2>0 DEF KeysDone
        <3>5. AccessDone(p)' <=> AccessDone(p)
            BY <2>0 DEF AccessDone
        <3>6. AccessDone(p) /\ Gone(p, job.left) => (Gone(p, job.left))'
            <4>1. PICK left : left = job.left
                OBVIOUS
            <4>2. AccessDone(p) /\ Gone(p, left) => (Gone(p, left))'
                BY <2>0, GoneStays
            <4> QED
                BY <2>0, <4>1, <4>2
        <3> QED
            BY <2>0, <2>2, <2>3, <3>1, <3>3, <3>4, <3>5, <3>6 DEF EngineInv
    <2>4. h # "iam" => EngineInv'
        BY <2>0 DEF EngineInv
    <2> QED
        BY <2>1, <2>3, <2>4
<1>15. CASE UNCHANGED vars
    BY <1>3, <1>15 DEF vars, cmdVars, Out
<1> QED
    BY <1>4, <1>5, <1>6, <1>7, <1>8, <1>9, <1>10, <1>11, <1>12, <1>13, <1>14, <1>15
       DEF Next, Handle

\* One step keeps what has been reached in force.
LEMMA NextEngineInv ==
  ASSUME Engaged, EngineInv, JobShape, LogInv, LogInv', sess \in [Users -> BOOLEAN],
         [Next]_vars
  PROVE  Engaged' /\ EngineInv'
<1>1. CASE BeginIam
    <2>1. /\ h = "check" /\ Accepts(Current.c, Frame) /\ Frame.type = "iam_apply"
          /\ h' = "iam" /\ log' = Ran /\ Begin(Frame.arg)
        BY <1>1 DEF BeginIam, Accepted
    <2>2. Frame \in Frames /\ Frame' = Frame
        <3>1. Logged /\ Len(log) # 0
            BY <2>1 DEF LogInv, Standing
        <3>2. Current \in Entries
            BY <3>1, CurrentEntry
        <3>3. Becomes([Current EXCEPT !.ran = TRUE])
            BY <2>1, <3>1, RanBecomes
        <3>4. Current' = [Current EXCEPT !.ran = TRUE]
            BY <3>3 DEF Becomes, Current
        <3> QED
            BY <3>2, <3>4 DEF Entries, Frame
    <2>3. PayloadOk(Current.c, Frame)
        BY <2>1 DEF Accepts
    <2>4. Frame.arg # None
        BY <2>1, <2>3 DEF PayloadOk, Silent, Desktop
    <2>5. PICK p \in Policies : p = Frame.arg
        BY <2>1, <2>2, <2>4, FramesAssumption
    <2>6. job'.p = p /\ job'.left = p.revoke /\ job'.pc = StageAfter(p, 0)
        BY <2>1, <2>5 DEF Begin
    <2>7. EngineInv' /\ job'.pc \in Stops \ {"idle"}
        BY <2>2, <2>5, <2>6, StageBegins
    <2> QED
        BY <2>1, <2>7 DEF Engaged
<1>2. CASE DoIam
    <2>1. h = "iam" /\ h' = h /\ log' = log /\ IamStep
        BY <1>2 DEF DoIam, cmdVars
    <2> QED
        BY <2>1, StepEngineInv DEF Engaged
<1> QED
    BY <1>1, <1>2, EngineLeft

----------------------------------------------------------------------------
(* What stands: the commands answered "ok", or about to be. *)

InEffect(i) == log[i].ran /\ (log[i].ans = <<"ok">> \/ (i = Len(log) /\ h = "ok"))

\* Frame i is the last of the kind S that acted, and it succeeded.
Governs(i, S) ==
  /\ i \in 1..Len(log) /\ log[i].f \in S /\ InEffect(i)
  /\ \A j \in 1..Len(log) : i < j /\ log[j].ran => log[j].f \notin S

\* What a step may do to that: only the frame in hand may come into effect.
Onwards ==
  /\ Len(log) <= Len(log')
  /\ \A j \in 1..Len(log) : log'[j].f = log[j].f /\ (log[j].ran => log'[j].ran)
  /\ \A i \in 1..Len(log') :
       InEffect(i)' => \/ i \in 1..Len(log) /\ InEffect(i)
                       \/ i = Len(log) /\ h # "idle" /\ h # "ok" /\ (h' = "ok" \/ h = "shutdown")

\* A command that acts comes into effect at most itself.
LEMMA RanOnwards ==
  ASSUME LogInv, h \in {"check", "shutdown"}, log' = Ran,
         h' \in {"idle", "ok", "err", "iam", "restartSssd", "desktop"},
         h' = "idle" => h = "shutdown"
  PROVE  Onwards /\ log'[Len(log)].ran /\ Len(log') = Len(log)
<1> DEFINE e == [Current EXCEPT !.ran = TRUE]
<1>1. Len(log) # 0 /\ Logged
    BY DEF LogInv, Standing
<1>2. Becomes(e)
    BY <1>1, RanBecomes
<1>3. Current \in Entries /\ Len(log) \in Nat /\ Len(log) \in 1..Len(log)
    BY <1>1, CurrentEntry
<1>4. e.f = Current.f /\ e.ans = Current.ans /\ e.ran
    BY <1>3 DEF Entries
<1> HIDE DEF e
<1>5. /\ \A j \in 1..Len(log) : log'[j].f = log[j].f /\ (log[j].ran => log'[j].ran)
      /\ Len(log') = Len(log) /\ log'[Len(log)].ran
    BY <1>2, <1>3, <1>4 DEF Becomes, Current
<1>6. ASSUME NEW i \in 1..Len(log'), InEffect(i)'
      PROVE  \/ i \in 1..Len(log) /\ InEffect(i)
             \/ i = Len(log) /\ h # "idle" /\ h # "ok" /\ (h' = "ok" \/ h = "shutdown")
    <2>1. CASE i # Len(log)
        BY <1>2, <1>3, <1>6, <2>1 DEF Becomes, InEffect
    <2>2. CASE i = Len(log) /\ h # "shutdown"
        <3>1. log'[i].ans = <<>>
            BY <1>2, <1>4, <2>2 DEF Becomes, LogInv, Standing
        <3>2. log'[i].ans # <<"ok">>
            BY <3>1
        <3> QED
            BY <1>6, <2>2, <3>2 DEF InEffect
    <2> QED
        BY <2>1, <2>2
<1> QED
    BY <1>3, <1>5, <1>6 DEF Onwards

\* An answer brings nothing into effect that was not about to be.
LEMMA AnswersOnwards ==
  ASSUME LogInv, NEW s \in {"ok", "error"}, h \in {"check", "ok", "err"},
         log' = Answers(s), h' \in {"idle", "shutdown", "exit"}, 
         s = "ok" => h \in {"check", "ok"}
  PROVE  Onwards
<1> DEFINE t == IF conn THEN s ELSE "lost"
           e == [Current EXCEPT !.ans = Append(@, t)]
<1>1. Len(log) # 0 /\ Logged
    BY DEF LogInv, Standing
<1>2. Becomes(e)
    BY <1>1, AnswersBecomes
<1>3. Current \in Entries /\ Len(log) \in Nat /\ Len(log) \in 1..Len(log)
    BY <1>1, CurrentEntry
<1>4. e.f = Current.f /\ e.ran = Current.ran /\ e.ans = Append(Current.ans, t)
    BY <1>3 DEF Entries
<1>5. t = "ok" => s = "ok"
    OBVIOUS
<1>6. Current.ans = <<>>
    BY DEF LogInv, Standing
<1>7. e.ans = <<"ok">> => s = "ok"
    <2>1. e.ans = Append(<<>>, t)
        BY <1>4, <1>6
    <2> HIDE DEF e, t
    <2>2. e.ans[1] = t
        BY <2>1
    <2> QED
        BY <1>5, <2>2
<1> HIDE DEF e, t
<1>8. /\ \A j \in 1..Len(log) : log'[j].f = log[j].f /\ (log[j].ran => log'[j].ran)
      /\ Len(log') = Len(log)
    BY <1>2, <1>3, <1>4 DEF Becomes, Current
<1>9. ASSUME NEW i \in 1..Len(log'), InEffect(i)'
      PROVE  i \in 1..Len(log) /\ InEffect(i)
    <2>1. CASE i # Len(log)
        BY <1>2, <1>3, <1>8, <1>9, <2>1 DEF Becomes, InEffect
    <2>2. CASE i = Len(log)
        <3>1. log'[i].ran /\ log'[i].ans = <<"ok">>
            BY <1>9, <2>2 DEF InEffect
        <3>2. Current.ran /\ s = "ok"
            BY <1>2, <1>4, <1>7, <2>2, <3>1 DEF Becomes
        <3>3. h = "ok"
            BY <3>2 DEF LogInv, Standing
        <3> QED
            BY <1>3, <2>2, <3>2, <3>3 DEF InEffect, Current
    <2> QED
        BY <2>1, <2>2
<1> QED
    BY <1>3, <1>8, <1>9 DEF Onwards

\* Nor does a step that leaves the log alone, but for the frame in hand.
LEMMA SameOnwards ==
  ASSUME LogInv, log' = log, h' = "ok" => h # "idle"
  PROVE  Onwards
BY DEF LogInv, Logged, Onwards, InEffect

\* One step of any kind.
LEMMA NextOnwards ==
  ASSUME LogInv, [Next]_vars
  PROVE  Onwards
<1>1. CASE Refuse
    <2>1. h = "check" /\ log' = Answers("error") /\ h' = "idle"
        BY <1>1 DEF Refuse
    <2> QED
        BY <2>1, AnswersOnwards
<1>2. CASE Ignore \/ RestartSssd \/ DoIam \/ EndIam
    <2>1. log' = log /\ h # "idle"
        BY <1>2 DEF Ignore, RestartSssd, DoIam, EndIam, Accepted, cmdVars
    <2> QED
        BY <2>1, SameOnwards
<1>3. CASE Reload \/ OneOp \/ Reboot \/ Shutdown \/ ControlService \/ WriteSssd \/ BeginIam
           \/ ListSessions
    <2>1. /\ h \in {"check", "shutdown"} /\ log' = Ran
          /\ h' \in {"idle", "ok", "err", "iam", "restartSssd", "desktop"}
          /\ h' = "idle" => h = "shutdown"
        BY <1>3 DEF Reload, OneOp, Reboot, Shutdown, ControlService, WriteSssd, BeginIam,
                    ListSessions, Accepted
    <2> QED
        BY <2>1, RanOnwards
<1>4. CASE DesktopControl
    <2>1. h = "desktop" /\ log' = log
        BY <1>4, DesktopSteps
    <2> QED
        BY <2>1, SameOnwards
<1>5. CASE AnswerShutdown
    <2>1. h = "check" /\ log' = Answers("ok") /\ h' = "shutdown"
        BY <1>5 DEF AnswerShutdown, Accepted
    <2> QED
        BY <2>1, AnswersOnwards
<1>6. CASE Answer
    <2>1. h \in {"ok", "err"} /\ h' \in {"idle", "exit"}
          /\ log' = Answers(IF h = "ok" THEN "ok" ELSE "error")
        BY <1>6 DEF Answer
    <2> QED
        BY <2>1, AnswersOnwards
<1>7. CASE Restart \/ HostDown
    <2>1. log' = Cut /\ h' = "idle" /\ Logged
        BY <1>7 DEF Restart, HostDown, ProcessGone, LogInv
    <2>2. /\ Len(log') = Len(log)
          /\ \A i \in 1..Len(log) :
              log'[i] = IF i = Len(log) /\ h # "idle"
                          THEN [log[i] EXCEPT !.cut = TRUE] ELSE log[i]
        BY <2>1, CutLeaves
    <2>3. \A i \in 1..Len(log) : /\ log'[i].f = log[i].f /\ log'[i].ans = log[i].ans
                                 /\ log'[i].ran = log[i].ran
        <3> TAKE i \in 1..Len(log)
        <3>1. log[i] \in Entries
            BY <2>1 DEF Logged
        <3> QED
            BY <2>2, <3>1 DEF Entries
    <2>4. Len(log) \in Nat
        BY <2>1 DEF Logged
    <2> QED
        BY <2>1, <2>2, <2>3, <2>4 DEF Onwards, InEffect
<1>8. CASE log' = log /\ h' = h
    BY <1>8, SameOnwards
<1>9. CASE Drop \/ Dial \/ Tick
    BY <1>8, <1>9 DEF Drop, Dial, Tick
<1>10. ASSUME NEW c \in Configs, Edit(c) PROVE Onwards
    BY <1>8, <1>10 DEF Edit
<1>11. ASSUME NEW u \in Users, UserLogin(u) \/ UserLogout(u) PROVE Onwards
    BY <1>8, <1>11 DEF UserLogin, UserLogout, cmdVars
<1>12. ASSUME NEW f \in Frames, Take(f) PROVE Onwards
    <2> DEFINE e == [f |-> f, c |-> cur, ans |-> <<>>, ran |-> FALSE, cut |-> FALSE]
    <2>1. log \in Seq(Entries) /\ log' = Append(log, e) /\ h = "idle" /\ h' = "check"
        BY <1>12 DEF Take, LogInv, Logged
    <2>2. ~e.ran
        OBVIOUS
    <2> HIDE DEF e
    <2>3. /\ Len(log') = Len(log) + 1 /\ log'[Len(log')] = e
          /\ \A i \in 1..Len(log) : log'[i] = log[i]
        BY <2>1
    <2>4. Len(log) \in Nat
        BY <2>1
    <2>5. \A i \in 1..Len(log') : i \in 1..Len(log) \/ i = Len(log')
        BY <2>3, <2>4
    <2> QED
        BY <2>1, <2>2, <2>3, <2>4, <2>5 DEF Onwards, InEffect
<1>13. CASE UNCHANGED vars
    BY <1>8, <1>13 DEF vars, cmdVars
<1> QED
    BY <1>1, <1>2, <1>3, <1>4, <1>5, <1>6, <1>7, <1>9, <1>10, <1>11, <1>12, <1>13
       DEF Next, Handle

\* The greatest member of a nonempty set of positions of the log.
LEMMA GreatestIsGreatest ==
  ASSUME NEW n \in Nat, NEW S \in SUBSET (1..n), S # {}
  PROVE  Max(S) \in S /\ \A y \in S : y <= Max(S)
<1> DEFINE T == {n - x : x \in S}
           Less == OpToRel(<, Nat)
<1>1. IsWellFoundedOn(Less, Nat)
    BY NatLessThanWellFounded
<1>2. T \subseteq Nat /\ T # {}
    <2>1. ASSUME NEW x \in S PROVE n - x \in Nat
        BY <2>1
    <2>2. T \subseteq Nat
        BY <2>1
    <2>3. PICK x \in S : TRUE
        OBVIOUS
    <2>4. n - x \in T
        OBVIOUS
    <2> QED
        BY <2>2, <2>4
<1>3. \E x \in T : \A y \in T : ~(<<y, x>> \in Less)
    <2> HIDE DEF T, Less
    <2> QED
        BY <1>1, <1>2, WFMin
<1>4. PICK t \in T : \A y \in T : ~(<<y, t>> \in Less)
    BY <1>3
<1>5. \A y \in T : t <= y
    <2> TAKE y \in T
    <2>1. t \in Nat /\ y \in Nat
        BY <1>2
    <2>2. <<y, t>> \notin Less
        BY <1>4
    <2>3. ~(y < t)
        BY <2>1, <2>2 DEF OpToRel
    <2> QED
        BY <2>1, <2>3
<1>6. PICK x \in S : t = n - x
    OBVIOUS
<1>7. \A y \in S : x >= y
    <2> TAKE y \in S
    <2>1. n - y \in T
        OBVIOUS
    <2>2. n - x <= n - y
        BY <1>5, <1>6, <2>1
    <2>3. x \in Nat /\ y \in Nat
        OBVIOUS
    <2> QED
        BY <2>2, <2>3
<1>8. Max(S) \in S /\ \A y \in S : Max(S) >= y
    BY <1>7 DEF Max
<1>9. \A y \in S : y \in Nat /\ Max(S) \in Nat
    BY <1>8
<1> QED
    BY <1>8, <1>9

Iams  == {f \in Frames : f.type = "iam_apply"}
Ldaps == {f \in Frames : f.type = "configure_ldap"}
ServiceFrames(s) ==
  {f \in Frames : /\ f.type \in {"systemd_action", "service_restart"}
                  /\ ServiceCall(f).service = s
                  /\ ServiceCall(f).action # "status"}

\* What each kind of command promises.
InForce(p) == SudoDone(p) /\ KeysDone(p) /\ AccessDone(p) /\ Gone(p, {})

PolicyHolds ==
  \A p \in Policies : \A i \in 1..Len(log) :
    Governs(i, Iams) /\ log[i].f.arg = p => InForce(p)
LdapHolds ==
  /\ sssd = [conf |-> sssd.conf, loaded |-> sssd.loaded]
  /\ h \in {"restartSssd", "retrySssd"} => sssd.conf = Frame.arg
  /\ \A i \in 1..Len(log) : Governs(i, Ldaps) =>
       sssd.conf = log[i].f.arg /\ sssd.loaded = log[i].f.arg
ServicesHold ==
  \A s \in Services : \A i \in 1..Len(log) :
    Governs(i, ServiceFrames(s)) => svc[s] = (ServiceCall(log[i].f).action # "stop")

\* A frame that governs after a step did before, or has just come into effect.
LEMMA GovernsBefore ==
  ASSUME LogInv, [Next]_vars, NEW S, NEW i, Governs(i, S)'
  PROVE  /\ i \in 1..Len(log) /\ log'[i].f = log[i].f
         /\ \/ Governs(i, S)
            \/ i = Len(log) /\ Frame \in S /\ h \notin {"idle", "ok"}
               /\ (h' = "ok" \/ h = "shutdown")
<1>1. Onwards /\ Len(log) \in Nat
    BY NextOnwards DEF LogInv, Logged
<1>2. i \in 1..Len(log') /\ log'[i].f \in S /\ InEffect(i)'
    BY DEF Governs
<1>3. h # "idle" => Len(log) # 0
    BY DEF LogInv, Standing
<1>4. i \in 1..Len(log)
    BY <1>1, <1>2, <1>3 DEF Onwards
<1>5. log'[i].f = log[i].f
    BY <1>1, <1>4 DEF Onwards
<1>6. \A j \in 1..Len(log) : i < j /\ log[j].ran => log[j].f \notin S
    <2> TAKE j \in 1..Len(log)
    <2>1. j \in 1..Len(log') /\ log'[j].f = log[j].f /\ (log[j].ran => log'[j].ran)
        BY <1>1 DEF Onwards
    <2> QED
        BY <2>1 DEF Governs
<1>7. CASE InEffect(i)
    BY <1>2, <1>4, <1>5, <1>6, <1>7 DEF Governs
<1>8. CASE i = Len(log) /\ h # "idle" /\ h # "ok" /\ (h' = "ok" \/ h = "shutdown")
    BY <1>2, <1>4, <1>5, <1>8 DEF Frame, Current
<1> QED
    BY <1>1, <1>2, <1>4, <1>5, <1>7, <1>8 DEF Onwards

\* While a command of a kind is being carried out, none of that kind governs.
LEMMA BusyGoverns ==
  ASSUME LogInv, NEW S, NEW i, Governs(i, S), Frame \in S,
         h \in {"iam", "restartSssd", "retrySssd"}
  PROVE  FALSE
<1>1. Len(log) \in Nat /\ Len(log) # 0
    BY DEF LogInv, Logged, Standing
<1>2. Current.ran /\ Current.ans = <<>>
    BY DEF LogInv, Standing
<1>3. i \in 1..Len(log) /\ InEffect(i)
    BY DEF Governs
<1>4. ~(i < Len(log))
    BY <1>1, <1>2 DEF Governs, Frame, Current
<1>5. i = Len(log)
    BY <1>1, <1>3, <1>4
<1>6. Current.ans = <<"ok">>
    BY <1>3, <1>5 DEF InEffect, Current
<1>7. <<>> # <<"ok">>
    OBVIOUS
<1> QED
    BY <1>2, <1>6, <1>7

\* A command of a kind that acts leaves no earlier one governing.
LEMMA ActsGoverns ==
  ASSUME LogInv, NEW S, NEW i, Governs(i, S), Governs(i, S)', Frame \in S,
         h = "check", log' = Ran, h' \in {"ok", "err", "iam", "restartSssd"}
  PROVE  FALSE
<1>1. Len(log) \in Nat /\ Len(log) # 0 /\ ~Current.ran
    BY DEF LogInv, Logged, Standing
<1>2. Onwards /\ log'[Len(log)].ran /\ Len(log') = Len(log)
    BY RanOnwards
<1>3. log'[Len(log)].f = Frame
    BY <1>1, <1>2 DEF Onwards, Frame, Current
<1>4. i \in 1..Len(log) /\ log[i].ran
    BY DEF Governs, InEffect
<1>5. i < Len(log)
    BY <1>1, <1>4 DEF Current
<1> QED
    BY <1>1, <1>2, <1>3, <1>5 DEF Governs

\* The frames of the log.
LEMMA LoggedFrame ==
  ASSUME LogInv, NEW i \in 1..Len(log)
  PROVE  log[i] \in Entries /\ log[i].f \in Frames
<1>1. log[i] \in Entries
    BY DEF LogInv, Logged
<1> QED
    BY <1>1 DEF Entries

\* One step keeps the policy that governs in force: the engine works only
\* while none governs, and no one it keeps out can log in.
LEMMA NextPolicyHolds ==
  ASSUME PolicyHolds, LogInv, EngineInv, TypeInv, [Next]_vars
  PROVE  PolicyHolds'
<1> USE DEF iamVars, machine, cfgs
<1> SUFFICES ASSUME NEW p \in Policies, NEW i \in 1..Len(log'),
                    Governs(i, Iams)', log'[i].f.arg = p
             PROVE  InForce(p)'
    BY DEF PolicyHolds
<1>0. p.keys \subseteq Users /\ p.groups \subseteq Users /\ p.revoke \subseteq Users
    BY PolicyAssumption
<1>1. /\ i \in 1..Len(log) /\ log[i].f.arg = p
      /\ \/ Governs(i, Iams)
         \/ i = Len(log) /\ Frame \in Iams /\ h \notin {"idle", "ok"}
               /\ (h' = "ok" \/ h = "shutdown")
    BY GovernsBefore
<1>2. CASE ~Governs(i, Iams)
    <2>1. /\ Frame.arg = p /\ Frame.type = "iam_apply"
          /\ h \notin {"idle", "ok"} /\ (h' = "ok" \/ h = "shutdown")
        BY <1>1, <1>2 DEF Frame, Current, Iams
    <2>2. h \in {"check", "err", "iam", "exit"} /\ h' = "ok"
        <3>1. Frame.type \notin Desktop
            BY <2>1 DEF Desktop
        <3> QED
            BY <2>1, <3>1 DEF LogInv, Standing, Places
    <2>3. EndIam
        <3>1. CASE Handle
            BY <2>1, <2>2, <3>1, DesktopSteps DEF Handle, Refuse, Ignore, Reload, OneOp, Reboot,
               AnswerShutdown, Shutdown, ControlService, ListSessions, WriteSssd,
               RestartSssd, BeginIam, DoIam, cmdVars, Answer, Accepted
        <3>2. ~(\E f \in Frames : Take(f))
            BY <2>2 DEF Take
        <3>3. CASE h' = h \/ h' = "idle"
            BY <2>2, <3>3
        <3> QED
            BY <3>1, <3>2, <3>3 DEF Next, Restart, HostDown, ProcessGone, Drop, Dial,
               Edit, Tick, UserLogin, UserLogout, vars, cmdVars
    <2>4. /\ h = "iam" /\ job.pc = "done" /\ UNCHANGED <<sudoers, keys, access, sess, spared>>
        BY <2>2, <2>3 DEF EndIam, Return
    <2>5. SudoDone(p) /\ KeysDone(p) /\ AccessDone(p) /\ Gone(p, {})
        BY <2>1, <2>4 DEF EngineInv, PastSudo, PastKeys, PastAccess
    <2> QED
        BY <2>4, <2>5 DEF InForce, SudoDone, KeysDone, AccessDone, Gone, Out
<1>3. CASE Governs(i, Iams)
    <2>1. SudoDone(p) /\ KeysDone(p) /\ AccessDone(p) /\ Gone(p, {})
        BY <1>1, <1>3 DEF PolicyHolds, InForce
    <2>2. ~DoIam
        <3>1. SUFFICES ASSUME DoIam PROVE FALSE
            OBVIOUS
        <3>2. h = "iam"
            BY <3>1 DEF DoIam
        <3>3. Frame \in Iams
            BY <3>2, LoggedFrame DEF LogInv, Logged, Standing, Frame, Current, Iams
        <3> QED
            BY <1>3, <3>2, <3>3, BusyGoverns
    <2>3. CASE UNCHANGED <<sudoers, keys, access>> /\ \A u \in Users : Out(u) => Out(u)'
        BY <1>0, <2>1, <2>3 DEF InForce, SudoDone, KeysDone, AccessDone, Gone
    <2>4. CASE UNCHANGED <<sudoers, keys, access, sess, spared>>
        BY <2>3, <2>4 DEF Out
    <2>5. CASE Handle
        <3>1. CASE EndIam \/ BeginIam
            BY <2>4, <3>1 DEF EndIam, Return, BeginIam, Begin
        <3>2. CASE DesktopControl
            BY <2>3, <2>4, <3>2, DesktopSteps, EndedOut
        <3> QED
            BY <2>2, <2>4, <2>5, <3>1, <3>2 DEF Handle, Refuse, Ignore, Reload, OneOp, Reboot,
               AnswerShutdown, Shutdown, ControlService, ListSessions, WriteSssd,
               RestartSssd, Answer
    <2>6. CASE Restart \/ HostDown
        BY <2>3, <2>6 DEF Restart, HostDown, Die, Out
    <2>7. ASSUME NEW u \in Users, UserLogin(u) PROVE InForce(p)'
        <3>1. Login(u) /\ UNCHANGED <<sudoers, keys, access>>
            BY <2>7 DEF UserLogin, Login
        <3>2. Gone(p, {})'
            BY <2>1, <3>1, GoneStays DEF TypeInv
        <3> QED
            BY <2>1, <3>1, <3>2 DEF InForce, SudoDone, KeysDone, AccessDone
    <2>8. ASSUME NEW u \in Users, UserLogout(u) PROVE InForce(p)'
        <3>1. UNCHANGED <<sudoers, keys, access>> /\ \A v \in Users : Out(v) => Out(v)'
            BY <2>8, EndedOut DEF UserLogout, EndSessions
        <3> QED
            BY <2>3, <3>1
    <2> QED
        BY <2>4, <2>5, <2>6, <2>7, <2>8 DEF Next, Take, Drop, Dial, Edit, Tick, vars
<1> QED
    BY <1>2, <1>3

\* One step keeps sssd running with the configuration that governs.
LEMMA NextLdapHolds ==
  ASSUME LdapHolds, LogInv, [Next]_vars
  PROVE  LdapHolds'
<1> USE DEF iamVars, machine, cfgs
<1>1. CASE WriteSssd
    <2>1. /\ h = "check" /\ Frame.type = "configure_ldap" /\ log' = Ran
          /\ h' \in {"restartSssd", "err"}
          /\ \/ sssd' = [sssd EXCEPT !.conf = Frame.arg] /\ h' = "restartSssd"
             \/ UNCHANGED sssd /\ h' = "err"
        BY <1>1 DEF WriteSssd, Accepted
    <2>2. /\ Len(log) # 0 /\ Len(log) \in Nat /\ Frame \in Frames
        BY <2>1, LoggedFrame DEF LogInv, Logged, Standing, Frame, Current
    <2>3. Frame \in Ldaps
        BY <2>1, <2>2 DEF Ldaps
    <2>4. Onwards /\ Len(log') = Len(log)
        BY <2>1, RanOnwards
    <2>5. Frame' = Frame
        BY <2>2, <2>4 DEF Onwards, Frame, Current
    <2>6. ASSUME NEW i, Governs(i, Ldaps)' PROVE FALSE
        <3>1. ~Governs(i, Ldaps)
            BY <2>1, <2>3, <2>6, ActsGoverns
        <3>2. h' = "ok" \/ h = "shutdown"
            BY <2>6, <3>1, GovernsBefore
        <3> QED
            BY <2>1, <3>2
    <2>7. sssd' = [conf |-> sssd'.conf, loaded |-> sssd'.loaded]
          /\ (h' \in {"restartSssd", "retrySssd"} => sssd'.conf = Frame.arg)
        BY <2>1 DEF LdapHolds
    <2> QED
        BY <2>5, <2>6, <2>7 DEF LdapHolds
<1>2. CASE RestartSssd
    <2>1. /\ h \in {"restartSssd", "retrySssd"} /\ log' = log
          /\ \/ sssd' = [sssd EXCEPT !.loaded = sssd.conf] /\ h' = "ok"
             \/ sssd' = [sssd EXCEPT !.loaded = None] /\ h' \in {"retrySssd", "err"}
        BY <1>2 DEF RestartSssd
    <2>2. Frame.type = "configure_ldap" /\ Len(log) # 0 /\ Len(log) \in Nat
        BY <2>1 DEF LogInv, Logged, Standing
    <2>3. Frame \in Ldaps
        BY <2>2, LoggedFrame DEF Frame, Current, Ldaps
    <2>4. sssd' = [conf |-> sssd'.conf, loaded |-> sssd'.loaded] /\ sssd'.conf = Frame.arg
          /\ (h' = "ok" => sssd'.loaded = Frame.arg)
        BY <2>1 DEF LdapHolds
    <2>5. Frame' = Frame
        BY <2>1 DEF Frame, Current
    <2>6. ASSUME NEW i, Governs(i, Ldaps)'
          PROVE  log'[i].f = Frame /\ h' = "ok"
        <3>1. ~Governs(i, Ldaps)
            BY <2>1, <2>3, BusyGoverns
        <3> QED
            BY <2>1, <2>6, <3>1, GovernsBefore DEF Frame, Current
    <2> QED
        BY <2>4, <2>5, <2>6 DEF LdapHolds
<1>3. CASE ~WriteSssd /\ ~RestartSssd
    <2>1. CASE Handle
        <3>1. UNCHANGED sssd
            BY <1>3, <2>1, DesktopSteps DEF Handle, Refuse, Ignore, Reload, OneOp, Reboot,
               AnswerShutdown, Shutdown, ControlService, ListSessions, BeginIam, DoIam,
               EndIam, Answer, cmdVars
        <3>2. h' \notin {"restartSssd", "retrySssd"}
            BY <1>3, <2>1, DesktopSteps DEF Handle, Refuse, Ignore, Reload, OneOp, Reboot,
               AnswerShutdown, Shutdown, ControlService, ListSessions, BeginIam, DoIam,
               EndIam, Answer, cmdVars
        <3>3. (h' = "ok" /\ h \notin {"idle", "ok"}) \/ h = "shutdown" => Frame.type # "configure_ldap"
            <4>1. h = "shutdown" => Frame.type # "configure_ldap"
                BY DEF LogInv, Standing
            <4>2. h = "desktop" => Frame.type # "configure_ldap"
                BY DEF LogInv, Standing, Desktop
            <4>3. h = "iam" => Frame.type # "configure_ldap"
                BY DEF LogInv, Standing
            <4> QED
                BY <1>3, <2>1, <4>1, <4>2, <4>3, DesktopSteps DEF Handle, Refuse, Ignore,
                   Reload, OneOp, Reboot, AnswerShutdown, Shutdown, ControlService,
                   ListSessions, BeginIam, DoIam, EndIam, Answer, Accepted, cmdVars
        <3>4. ASSUME NEW i, Governs(i, Ldaps)'
              PROVE  Governs(i, Ldaps) /\ log'[i].f = log[i].f /\ i \in 1..Len(log)
            BY <3>3, <3>4, GovernsBefore DEF Ldaps
        <3> QED
            BY <3>1, <3>2, <3>4 DEF LdapHolds
    <2>2. CASE ~Handle
        <3>1. UNCHANGED sssd /\ (h' \in {"restartSssd", "retrySssd"} => UNCHANGED <<h, log>>)
              /\ (h' = "ok" => h = "ok")
            BY <2>2 DEF Next, Take, Restart, HostDown, ProcessGone, Drop, Dial, Edit,
               Tick, UserLogin, UserLogout, vars, cmdVars
        <3>2. h = "shutdown" => Frame.type # "configure_ldap"
            BY DEF LogInv, Standing
        <3>3. ASSUME NEW i, Governs(i, Ldaps)'
              PROVE  Governs(i, Ldaps) /\ log'[i].f = log[i].f /\ i \in 1..Len(log)
            BY <3>1, <3>2, <3>3, GovernsBefore DEF Ldaps
        <3> QED
            BY <3>1, <3>3 DEF LdapHolds, Frame, Current
    <2> QED
        BY <2>1, <2>2
<1> QED
    BY <1>1, <1>2, <1>3

\* One step keeps every service as the command that governs it asked.
LEMMA NextServicesHold ==
  ASSUME ServicesHold, LogInv, TypeInv, [Next]_vars
  PROVE  ServicesHold'
<1> USE DEF iamVars, machine, cfgs
<1> SUFFICES ASSUME NEW s \in Services, NEW i \in 1..Len(log'),
                    Governs(i, ServiceFrames(s))'
             PROVE  svc'[s] = (ServiceCall(log'[i].f).action # "stop")
    BY DEF ServicesHold
<1> DEFINE S == ServiceFrames(s)
<1>0. Governs(i, S)'
    BY DEF ServiceFrames
<1>1. /\ i \in 1..Len(log) /\ log'[i].f = log[i].f
      /\ \/ Governs(i, S)
         \/ i = Len(log) /\ Frame \in S /\ h \notin {"idle", "ok"}
            /\ (h' = "ok" \/ h = "shutdown")
    BY <1>0, GovernsBefore
<1>2. Frame \in S => Frame.type \in {"systemd_action", "service_restart"}
    BY DEF ServiceFrames
<1>3. CASE ControlService
    <2> DEFINE call == ServiceCall(Frame)
               up == CASE call.action = "stop" -> FALSE
                       [] call.action = "status" -> svc[call.service]
                       [] OTHER -> TRUE
    <2>1. /\ h = "check" /\ log' = Ran /\ h' \in {"ok", "err"}
          /\ Frame.type \in {"systemd_action", "service_restart"}
          /\ h' = "ok" => svc' = [svc EXCEPT ![call.service] = up]
          /\ h' = "err" => svc' = svc
        BY <1>3 DEF ControlService, Accepted
    <2>2. CASE Frame \in S
        <3>1. ~Governs(i, S)
            BY <1>0, <2>1, <2>2, ActsGoverns
        <3>2. log[i].f = Frame /\ h' = "ok"
            BY <1>1, <2>1, <3>1 DEF Frame, Current
        <3>3. call.service = s /\ call.action # "status"
            BY <2>2 DEF ServiceFrames
        <3>4. up = (call.action # "stop")
            BY <3>3
        <3>5. svc' = [svc EXCEPT ![s] = up]
            BY <2>1, <3>2, <3>3
        <3>6. svc'[s] = up
            <4> HIDE DEF up
            <4> QED
                BY <3>5 DEF TypeInv
        <3> QED
            BY <1>1, <3>2, <3>4, <3>6
    <2>3. CASE Frame \notin S
        <3>1. Governs(i, S)
            BY <1>1, <2>3
        <3>2. Len(log) # 0 /\ Len(log) \in Nat
            BY <2>1 DEF LogInv, Logged, Standing
        <3>3. Frame \in Frames
            BY <3>2, LoggedFrame DEF Frame, Current
        <3>4. call.service # s \/ call.action = "status"
            BY <2>1, <2>3, <3>3 DEF ServiceFrames
        <3>5. call.action = "status" => up = svc[call.service]
            OBVIOUS
        <3>6. svc'[s] = svc[s]
            <4> HIDE DEF up, call
            <4> QED
                BY <2>1, <3>4, <3>5 DEF TypeInv
        <3> QED
            BY <1>1, <3>1, <3>6 DEF ServicesHold
    <2> QED
        BY <2>2, <2>3
<1>4. CASE ~ControlService
    <2>1. UNCHANGED svc
        BY <1>4, DesktopSteps DEF Next, Handle, Refuse, Ignore, Reload, OneOp, Reboot,
           AnswerShutdown, Shutdown, ListSessions, WriteSssd, RestartSssd, BeginIam, DoIam, EndIam, Answer, Take, Restart,
           HostDown, ProcessGone, Drop, Dial, Edit, Tick, UserLogin, UserLogout, vars, cmdVars
    <2>2. ASSUME h \notin {"idle", "ok"}, h' = "ok" \/ h = "shutdown", Frame \in S
          PROVE  FALSE
        <3>1. h \in {"check", "err", "exit"} /\ h' = "ok"
            BY <1>2, <2>2 DEF LogInv, Standing, Places, Desktop
        <3>2. h = "check" => Frame.type \in {"systemd_action", "service_restart"}
            BY <1>2, <2>2
        <3> QED
            BY <1>4, <3>1, <3>2, DesktopSteps DEF Next, Handle, Refuse, Ignore, Reload, OneOp,
               Reboot, AnswerShutdown, Shutdown, ListSessions, WriteSssd, RestartSssd, BeginIam, DoIam, EndIam, Answer, Take,
               Restart, HostDown, ProcessGone, Drop, Dial, Edit, Tick, UserLogin,
               UserLogout, vars, cmdVars, Accepted
    <2>3. Governs(i, S)
        BY <1>1, <2>2
    <2> QED
        BY <1>1, <2>1, <2>3 DEF ServicesHold
<1> QED
    BY <1>3, <1>4

\* The last of a set of frames that acted governs if it was answered "ok".
LEMMA LastGoverns ==
  ASSUME LogInv, NEW S,
         NEW those, those = {i \in DOMAIN log : log[i].ran /\ log[i].f \in S},
         those # {}, Done(log[Max(those)])
  PROVE  Governs(Max(those), S)
<1>1. those \in SUBSET (1..Len(log)) /\ Len(log) \in Nat
    BY DEF LogInv, Logged
<1>2. Max(those) \in those /\ \A y \in those : y <= Max(those)
    BY <1>1, GreatestIsGreatest
<1>3. PICK m \in 1..Len(log) : m = Max(those)
    BY <1>1, <1>2
<1>4. log[m].f \in S /\ InEffect(m)
    BY <1>2, <1>3 DEF Done, InEffect
<1>5. ASSUME NEW j \in 1..Len(log), m < j, log[j].ran PROVE log[j].f \notin S
    <2>1. j \notin those
        <3>1. ASSUME j \in those PROVE FALSE
            <4>1. j <= m
                BY <1>2, <1>3, <3>1
            <4>2. j \in Nat /\ m \in Nat
                BY <1>1
            <4> QED
                BY <1>5, <4>1, <4>2
        <3> QED
            BY <3>1
    <2>2. j \in DOMAIN log
        BY <1>1, <1>5 DEF LogInv, Logged
    <2> QED
        BY <1>5, <2>1, <2>2
<1>6. Governs(m, S)
    BY <1>4, <1>5 DEF Governs
<1> QED
    BY <1>3, <1>6

\* An iam_apply that acted carried a payload.
LEMMA PayloadApplied ==
  ASSUME LogInv, NEW i \in 1..Len(log), log[i].ran, log[i].f.type = "iam_apply"
  PROVE  log[i].f.arg \in Policies
<1>1. log[i].f \in Frames /\ Accepts(log[i].c, log[i].f)
    BY LoggedFrame DEF LogInv, Gated
<1>2. PayloadOk(log[i].c, log[i].f)
    BY <1>1 DEF Accepts
<1>3. log[i].f.arg # None
    BY <1>2 DEF PayloadOk, Silent, Desktop
<1> QED
    BY <1>1, <1>3, FramesAssumption

\* The policy of the latest iam_apply is the one that governs.
LEMMA PolicyFollows == LogInv /\ PolicyHolds => PolicyInForce
<1> SUFFICES ASSUME LogInv, PolicyHolds PROVE PolicyInForce
    OBVIOUS
<1> DEFINE those == {i \in DOMAIN log : log[i].ran /\ log[i].f.type = "iam_apply"}
           e == IF those = {} THEN [ran |-> FALSE, ans |-> <<>>] ELSE log[Max(those)]
<1>1. SUFFICES ASSUME Done(e)
               PROVE  LET p == e.f.arg IN
    /\ p.sudo # None => sudoers = p.sudo
    /\ \A u \in p.keys : keys[u] = p
    /\ p.groups # {} =>
         /\ access = AccessFile(p.groups)
         /\ \A u \in p.revoke \ p.groups : sess[u] => u \in spared
    BY DEF PolicyInForce, Latest
<1>2. those # {}
    BY <1>1 DEF Done
<1>3. e = log[Max(those)]
    BY <1>2
<1>4. those = {i \in DOMAIN log : log[i].ran /\ log[i].f \in Iams}
    <2>1. DOMAIN log = 1..Len(log)
        BY DEF LogInv, Logged
    <2> QED
        BY <2>1, LoggedFrame DEF Iams
<1> HIDE DEF those
<1>5. Governs(Max(those), Iams)
    BY <1>1, <1>2, <1>3, <1>4, LastGoverns
<1>6. PICK i \in 1..Len(log) : i = Max(those)
    BY <1>5 DEF Governs
<1>7. log[i].ran /\ log[i].f.type = "iam_apply"
    BY <1>5, <1>6 DEF Governs, InEffect, Iams
<1>8. PICK p \in Policies : p = log[i].f.arg
    BY <1>7, PayloadApplied
<1>9. InForce(p)
    BY <1>5, <1>6, <1>8 DEF PolicyHolds
<1>10. p = e.f.arg
    BY <1>3, <1>6, <1>8
<1> HIDE DEF e
<1>11. /\ p.sudo # None => sudoers = p.sudo
       /\ \A u \in p.keys : keys[u] = p
       /\ p.groups # {} =>
            /\ access = AccessFile(p.groups)
            /\ \A u \in p.revoke \ p.groups : sess[u] => u \in spared
    BY <1>9 DEF InForce, SudoDone, KeysDone, AccessDone, Gone, Out
<1> QED
    BY <1>10, <1>11

\* The same of configure_ldap.
LEMMA LdapFollows ==
  ASSUME LogInv, LdapHolds
  PROVE  LET e == Latest(LAMBDA f : f.type = "configure_ldap") IN
         Done(e) => sssd = [conf |-> e.f.arg, loaded |-> e.f.arg]
<1> DEFINE those == {i \in DOMAIN log : log[i].ran /\ log[i].f.type = "configure_ldap"}
           e == IF those = {} THEN [ran |-> FALSE, ans |-> <<>>] ELSE log[Max(those)]
<1>1. SUFFICES ASSUME Done(e)
               PROVE  sssd = [conf |-> e.f.arg, loaded |-> e.f.arg]
    BY DEF Latest
<1>2. those # {}
    BY <1>1 DEF Done
<1>3. e = log[Max(those)]
    BY <1>2
<1>4. those = {i \in DOMAIN log : log[i].ran /\ log[i].f \in Ldaps}
    <2>1. DOMAIN log = 1..Len(log)
        BY DEF LogInv, Logged
    <2> QED
        BY <2>1, LoggedFrame DEF Ldaps
<1> HIDE DEF those
<1>5. Governs(Max(those), Ldaps)
    BY <1>1, <1>2, <1>3, <1>4, LastGoverns
<1>6. Max(those) \in 1..Len(log)
    BY <1>5 DEF Governs
<1> QED
    BY <1>3, <1>5, <1>6 DEF LdapHolds

\* The same of the commands for one service.
LEMMA ServiceFollows ==
  ASSUME LogInv, ServicesHold, NEW s \in Services
  PROVE  LET Of(f) == /\ f.type \in {"systemd_action", "service_restart"}
                    /\ ServiceCall(f).service = s
                    /\ ServiceCall(f).action # "status"
             e == Latest(Of)
         IN  Done(e) => svc[s] = (ServiceCall(e.f).action # "stop")
<1> DEFINE those == {i \in DOMAIN log : log[i].ran
                       /\ log[i].f.type \in {"systemd_action", "service_restart"}
                       /\ ServiceCall(log[i].f).service = s
                       /\ ServiceCall(log[i].f).action # "status"}
           e == IF those = {} THEN [ran |-> FALSE, ans |-> <<>>] ELSE log[Max(those)]
<1>1. SUFFICES ASSUME Done(e)
               PROVE  svc[s] = (ServiceCall(e.f).action # "stop")
    BY DEF Latest
<1>2. those # {}
    BY <1>1 DEF Done
<1>3. e = log[Max(those)]
    BY <1>2
<1>4. those = {i \in DOMAIN log : log[i].ran /\ log[i].f \in ServiceFrames(s)}
    <2>1. DOMAIN log = 1..Len(log)
        BY DEF LogInv, Logged
    <2> QED
        BY <2>1, LoggedFrame DEF ServiceFrames
<1> HIDE DEF those
<1>5. Governs(Max(those), ServiceFrames(s))
    BY <1>1, <1>2, <1>3, <1>4, LastGoverns
<1>6. Max(those) \in 1..Len(log)
    BY <1>5 DEF Governs
<1> QED
    BY <1>3, <1>5, <1>6 DEF ServicesHold

----------------------------------------------------------------------------
(* The theorems. *)

\* While the sessions found have their turns: the ones that have not ended are
\* still there, and, as long as no loginctl failed, every one that has had its
\* turn is locked or has ended.
DeskInv ==
  h = "desktop" =>
    /\ desk.left \subseteq desk.listed /\ desk.ended \subseteq desk.listed
    /\ \A u \in desk.listed \ desk.ended : sess[u]
    /\ SubAction(Frame) \in Locks /\ ~desk.err =>
         \A u \in desk.listed : u \in desk.left \cup desk.ended \cup locked
    /\ SubAction(Frame) \in Logouts /\ Frame.arg.user = None /\ ~desk.err =>
         \A u \in desk.listed : u \in desk.left \cup desk.ended

\* A verb of DesktopControl is a lock or a logout, not both.
LEMMA VerbsDiffer == Locks \cap Logouts = {}
BY DEF Locks, Logouts

\* One turn, one login or one logout keeps it; the rest does not touch it.
LEMMA NextDeskInv ==
  ASSUME TypeInv, DeskInv, [Next]_vars
  PROVE  DeskInv'
<1> USE DEF iamVars, machine, cfgs
<1>1. CASE h' # "desktop"
    BY <1>1 DEF DeskInv
<1>2. CASE ListSessions
    <2>1. PICK found \in SUBSET Graphical(Frame.arg.user) :
             desk' = [listed |-> found, left |-> found, ended |-> {}, err |-> FALSE]
        BY <1>2 DEF ListSessions
    <2>2. UNCHANGED sess /\ \A u \in found : sess[u]
        BY <1>2 DEF ListSessions, Graphical
    <2> QED
        BY <2>1, <2>2 DEF DeskInv
<1>3. ASSUME NEW u \in Users, LockSession(u) PROVE DeskInv'
    <2>1. /\ h = "desktop" /\ SubAction(Frame) \in Locks /\ u \in desk.left
          /\ UNCHANGED <<h, log, sess>> /\ Frame' = Frame
        BY <1>3 DEF LockSession, Frame, Current
    <2>2. SubAction(Frame) \notin Logouts /\ SubAction(Frame)' = SubAction(Frame)
        BY <2>1, VerbsDiffer DEF SubAction
    <2>3. CASE u \notin desk.ended /\ locked' = locked \cup {u} /\ Tried(u, {}, FALSE)
        <3>1. /\ desk'.listed = desk.listed /\ desk'.left = desk.left \ {u}
              /\ desk'.ended = desk.ended /\ (desk'.err <=> desk.err)
            BY <2>3 DEF Tried, TypeInv
        <3> QED
            BY <2>1, <2>2, <2>3, <3>1 DEF DeskInv
    <2>4. CASE Tried(u, {}, TRUE)
        <3>1. /\ desk'.listed = desk.listed /\ desk'.left = desk.left \ {u}
              /\ desk'.ended = desk.ended /\ desk'.err
            BY <2>4 DEF Tried, TypeInv
        <3> QED
            BY <2>1, <2>2, <3>1 DEF DeskInv
    <2> QED
        BY <1>3, <2>3, <2>4 DEF LockSession
<1>4. ASSUME NEW u \in Users, TerminateSession(u) PROVE DeskInv'
    <2>1. /\ h = "desktop" /\ SubAction(Frame) \in Logouts /\ u \in desk.left
          /\ Frame.arg.user = None
          /\ UNCHANGED <<h, log>> /\ Frame' = Frame
        BY <1>4 DEF TerminateSession, Frame, Current
    <2>2. SubAction(Frame) \notin Locks /\ SubAction(Frame)' = SubAction(Frame)
        BY <2>1, VerbsDiffer DEF SubAction
    <2>3. CASE EndSessions({u}) /\ Tried(u, {u}, FALSE)
        <3>1. /\ desk'.listed = desk.listed /\ desk'.left = desk.left \ {u}
              /\ desk'.ended = desk.ended \cup {u} /\ (desk'.err <=> desk.err)
            BY <2>3 DEF Tried, TypeInv
        <3>2. \A v \in Users : v # u /\ sess[v] => sess'[v]
            BY <2>3 DEF EndSessions
        <3>3. desk.listed \subseteq Users
            BY DEF TypeInv
        <3> QED
            BY <2>1, <2>2, <3>1, <3>2, <3>3 DEF DeskInv
    <2>4. CASE Tried(u, {}, TRUE) /\ UNCHANGED iamVars
        <3>1. /\ desk'.listed = desk.listed /\ desk'.left = desk.left \ {u}
              /\ desk'.ended = desk.ended /\ desk'.err
            BY <2>4 DEF Tried, TypeInv
        <3> QED
            BY <2>1, <2>2, <2>4, <3>1 DEF DeskInv
    <2> QED
        BY <1>4, <2>3, <2>4 DEF TerminateSession
<1>5. ASSUME NEW u \in Users, UserLogin(u) PROVE DeskInv'
    <2>1. /\ ~sess[u] /\ sess' = [sess EXCEPT ![u] = TRUE] /\ locked' = locked \ {u}
          /\ UNCHANGED <<h, log, desk>> /\ Frame' = Frame
        BY <1>5 DEF UserLogin, Login, Frame, Current
    <2>2. SubAction(Frame)' = SubAction(Frame)
        BY <2>1 DEF SubAction
    <2>3. desk.listed \subseteq Users /\ \A v \in Users : sess[v] => sess'[v]
        BY <2>1 DEF TypeInv
    <2>4. h = "desktop" => u \notin desk.listed \ desk.ended
        BY <2>1 DEF DeskInv
    <2> QED
        BY <2>1, <2>2, <2>3, <2>4 DEF DeskInv
<1>6. ASSUME NEW u \in Users, UserLogout(u) PROVE DeskInv'
    <2>1. /\ EndSessions({u}) /\ UNCHANGED <<h, log, locked>> /\ Frame' = Frame
          /\ desk' = [desk EXCEPT !.ended = @ \cup ({u} \cap desk.listed)]
        BY <1>6 DEF UserLogout, Frame, Current
    <2>2. SubAction(Frame)' = SubAction(Frame)
        BY <2>1 DEF SubAction
    <2>3. desk.listed \subseteq Users /\ \A v \in Users : v # u /\ sess[v] => sess'[v]
        BY <2>1 DEF TypeInv, EndSessions
    <2>4. /\ desk'.listed = desk.listed /\ desk'.left = desk.left
          /\ desk'.ended = desk.ended \cup ({u} \cap desk.listed) /\ desk'.err = desk.err
        BY <2>1 DEF TypeInv
    <2> QED
        BY <2>1, <2>2, <2>3, <2>4 DEF DeskInv
<1>7. CASE UNCHANGED <<h, log, desk, sess, locked>>
    BY <1>7 DEF DeskInv, SubAction, Frame, Current
<1>8. ASSUME h' = "desktop"
      PROVE  \/ ListSessions \/ UNCHANGED <<h, log, desk, sess, locked>>
             \/ \E u \in Users : \/ LockSession(u) \/ TerminateSession(u)
                               \/ UserLogin(u) \/ UserLogout(u)
    <2>1. CASE DesktopControl
        BY <1>8, <2>1 DEF DesktopControl, EndLoop, NoneListed, DisplayOff, LockAll,
                          SleepHost, LogoutUser, Finish
    <2>2. CASE Handle /\ ~DesktopControl
        BY <1>8, <2>2 DEF Handle, Refuse, Ignore, Reload, OneOp, Reboot, AnswerShutdown,
           Shutdown, ControlService, WriteSssd, RestartSssd, BeginIam, DoIam, EndIam,
           Answer, Accepted, cmdVars
    <2>3. CASE Drop \/ Dial \/ Tick
        BY <2>3 DEF Drop, Dial, Tick
    <2>4. ASSUME NEW c \in Configs, Edit(c) PROVE UNCHANGED <<h, log, desk, sess, locked>>
        BY <2>4 DEF Edit
    <2>5. ~Restart /\ ~HostDown /\ ~\E f \in Frames : Take(f)
        BY <1>8 DEF Restart, HostDown, ProcessGone, Take
    <2>6. CASE UNCHANGED vars
        BY <2>6 DEF vars, cmdVars
    <2> QED
        BY <2>1, <2>2, <2>3, <2>4, <2>5, <2>6 DEF Next
<1> QED
    BY <1>1, <1>2, <1>3, <1>4, <1>5, <1>6, <1>7, <1>8

\* The inductive invariant of the dispatcher with the engine inside it.
CommandInv ==
  /\ TypeInv /\ LogInv /\ CfgInv /\ IamInv /\ Engaged /\ EngineInv
  /\ PolicyHolds /\ LdapHolds /\ ServicesHold /\ DeskInv

\* It holds of the host as found, and every step keeps it.
LEMMA CommandInvariant == Spec => []CommandInv
<1>1. Init => CommandInv
    <2> SUFFICES ASSUME Init PROVE CommandInv
        OBVIOUS
    <2>1. TypeInv /\ CfgInv
        BY DEF Init, IamInit, TypeInv, CfgInv, NoDesk
    <2>2. Engaged /\ EngineInv
        BY DEF Init, IamInit, NoJob, Engaged, Stops, EngineInv
    <2>3. log = <<>> /\ h = "idle"
        BY DEF Init
    <2>4. PolicyHolds /\ ServicesHold
        <3>1. 1..Len(log) = {}
            BY <2>3
        <3> QED
            BY <3>1 DEF PolicyHolds, ServicesHold
    <2>5. LdapHolds
        <3>1. 1..Len(log) = {}
            BY <2>3
        <3>2. sssd = [conf |-> sssd.conf, loaded |-> sssd.loaded]
            BY DEF Init
        <3> QED
            BY <2>3, <3>1, <3>2 DEF LdapHolds
    <2>6. DeskInv
        BY <2>3 DEF DeskInv
    <2> QED
        BY <2>1, <2>2, <2>4, <2>5, <2>6, InitLogInv, InitIamInv DEF CommandInv
<1>2. CommandInv /\ [Next]_vars => CommandInv'
    <2> SUFFICES ASSUME CommandInv, [Next]_vars PROVE CommandInv'
        OBVIOUS
    <2> USE DEF CommandInv
    <2>1. TypeInv' /\ LogInv' /\ CfgInv' /\ IamInv'
        BY NextTypeInv, NextLogInv, NextCfgInv, NextIamInv
    <2>2. sess \in [Users -> BOOLEAN] /\ JobShape
        BY DEF TypeInv, IamInv
    <2>3. Engaged' /\ EngineInv'
        BY <2>1, <2>2, NextEngineInv
    <2>4. PolicyHolds' /\ LdapHolds' /\ ServicesHold' /\ DeskInv'
        BY NextPolicyHolds, NextLdapHolds, NextServicesHold, NextDeskInv
    <2> QED
        BY <2>1, <2>3, <2>4
<1> QED
    BY <1>1, <1>2, PTL DEF Spec

\* Every variable keeps its type, and the engine is at work exactly while
\* handleCommand waits for it.
THEOREM TypeCorrect == Spec => []TypeOK
<1>1. CommandInv => TypeOK
    BY DEF CommandInv, TypeInv, LogInv, Standing, Places, CfgInv, Engaged, TypeOK
<1> QED
    BY <1>1, CommandInvariant, PTL

\* Whatever the directory sends, and however agent.yml is edited and reloaded
\* meanwhile, a command acts only with the signature and the capability the
\* protocol's contract asks for, and service_restart only on a service of the
\* service_control list, under the configuration in force when the frame was
\* read (websocket.go, the checks of every case).  systemd_action is not held
\* to that list: the run service_control shows it.
THEOREM GateContractHolds == Spec => []GateContract
<1>1. LogInv => GateContract
    <2> SUFFICES ASSUME LogInv PROVE GateContract
        OBVIOUS
    <2>1. \A i \in DOMAIN log : log[i].ran => Contract(log[i].c, log[i].f)
        BY ContractKept DEF LogInv, Logged, Gated
    <2> QED
        BY <2>1 DEF GateContract, Contract
<1> QED
    BY <1>1, CommandInvariant, PTL DEF CommandInv

\* Every frame read to the end is answered exactly once, the two that are not
\* commands never, whatever connection loss or crash comes between
\* (websocket.go, every return of handleCommand).
THEOREM AnsweredOnceHolds == Spec => []AnsweredOnce
<1>1. LogInv => AnsweredOnce
    <2> SUFFICES ASSUME LogInv, NEW i \in DOMAIN log
                 PROVE  LET e == log[i] IN
                        /\ Len(e.ans) <= IF e.f.type \in Silent THEN 0 ELSE 1
                        /\ \/ Len(e.ans) = 1 \/ e.f.type \in Silent \/ e.cut
                           \/ i = Len(log) /\ h # "idle"
        BY DEF AnsweredOnce
    <2>1. i \in 1..Len(log) /\ Len(log) \in Nat
        BY DEF LogInv, Logged
    <2>2. i < Len(log) \/ i = Len(log)
        BY <2>1
    <2>3. /\ log[i].f.type \in Silent => log[i].ans = <<>>
          /\ Len(log[i].ans) \in {0, 1}
          /\ i < Len(log) \/ h = "idle" =>
               Len(log[i].ans) = 1 \/ log[i].f.type \in Silent \/ log[i].cut
        BY <2>1 DEF LogInv, Settled
    <2>4. log[i].f.type \in Silent => Len(log[i].ans) = 0
        BY <2>3
    <2>5. Len(log[i].ans) <= IF log[i].f.type \in Silent THEN 0 ELSE 1
        <3>1. CASE log[i].f.type \in Silent
            BY <3>1, <2>4
        <3>2. CASE log[i].f.type \notin Silent
            <4>0. \A n \in {0, 1} : n <= 1
                OBVIOUS
            <4>1. Len(log[i].ans) <= 1
                BY <2>3, <4>0
            <4> QED
                BY <3>2, <4>1
        <3> QED
            BY <3>1, <3>2
    <2> QED
        BY <2>2, <2>3, <2>5
<1> QED
    BY <1>1, CommandInvariant, PTL DEF CommandInv

\* Whatever the directory pushes, and wherever the application of it fails or
\* the agent dies, sudo reads only rules visudo has accepted and root can log
\* in, at every moment (iam.go:118, :180).
THEOREM IamSafeHolds == Spec => []IamSafe
<1>1. CommandInv => IamSafe
    BY RootFirst DEF CommandInv, IamInv, RulesChecked, IamSafe
<1> QED
    BY <1>1, CommandInvariant, PTL

\* After iam_apply was answered "ok", and until the next one acts, the host is
\* as the payload says, and a revoked user whom the policy keeps out has no
\* session except one that pkill failed to end, whoever tried to log in
\* meanwhile: for every payload, every order of frames, crashes, logins and
\* failures of pkill (iam.go:53: access control before revocation; iam.go:199).
THEOREM PolicyInForceHolds == Spec => []PolicyInForce
<1>1. CommandInv => PolicyInForce
    BY PolicyFollows DEF CommandInv
<1> QED
    BY <1>1, CommandInvariant, PTL

\* An "ok" to configure_ldap or to a service command means that it was done,
\* until the next command for the same thing acts (platform_linuxops.go:218,
\* service_control.go:61).
THEOREM OkMeansDoneHolds == Spec => []OkMeansDone
<1>1. CommandInv => OkMeansDone
    <2> SUFFICES ASSUME CommandInv PROVE OkMeansDone
        OBVIOUS
    <2> USE DEF CommandInv
    <2>1. LET e == Latest(LAMBDA f : f.type = "configure_ldap") IN
          Done(e) => sssd = [conf |-> e.f.arg, loaded |-> e.f.arg]
        BY LdapFollows
    <2>2. ASSUME NEW s \in Services
          PROVE  LET Of(f) == /\ f.type \in {"systemd_action", "service_restart"}
                    /\ ServiceCall(f).service = s
                    /\ ServiceCall(f).action # "status"
                     e == Latest(Of)
                 IN  Done(e) => svc[s] = (ServiceCall(e.f).action # "stop")
        BY ServiceFollows
    <2> QED
        BY <2>1, <2>2 DEF OkMeansDone, Latest
<1> QED
    BY <1>1, CommandInvariant, PTL

\* When a lock of several sessions ends in "ok", every one it found that still
\* exists is locked; when a logout of several does, it had found some and none
\* exists any more: whatever failed, and whoever came or went, between its
\* loginctl commands (platform_linuxops.go:152, :176).
THEOREM DesktopHonestHolds == Spec => DesktopHonest
<1>1. TypeInv /\ DeskInv /\ [Next]_vars =>
        [h = "desktop" /\ h' = "ok" /\ OneByOne(Frame) =>
       /\ SubAction(Frame) \in Locks => desk.listed \ desk.ended \subseteq locked'
       /\ SubAction(Frame) \in Logouts =>
            desk.listed # {} /\ desk.listed = desk.ended]_vars
    <2> SUFFICES ASSUME TypeInv, DeskInv, Next, h = "desktop", h' = "ok", OneByOne(Frame)
                 PROVE
       /\ SubAction(Frame) \in Locks => desk.listed \ desk.ended \subseteq locked'
       /\ SubAction(Frame) \in Logouts =>
            desk.listed # {} /\ desk.listed = desk.ended
        OBVIOUS
    <2>1. DesktopControl
        BY DEF Next, Handle, Refuse, Ignore, Reload, OneOp, Reboot, AnswerShutdown,
           Shutdown, ControlService, ListSessions, WriteSssd, RestartSssd, BeginIam,
           DoIam, EndIam, Answer, Accepted, Take, Restart, HostDown, ProcessGone, Drop,
           Dial, Edit, Tick, UserLogin, UserLogout, cmdVars
    <2>2. CASE EndLoop
        <3>1. /\ desk.listed # {} /\ desk.left = {} /\ UNCHANGED locked
              /\ ~desk.err
            BY <2>2 DEF EndLoop, Finish, machine
        <3>2. SubAction(Frame) \in Logouts => Frame.arg.user = None
            BY <2>2, VerbsDiffer DEF EndLoop, OneByOne
        <3> QED
            BY <3>1, <3>2 DEF DeskInv
    <2>3. CASE NoneListed
        <3>1. desk.listed = {} /\ SubAction(Frame) \in Locks
            BY <2>3 DEF NoneListed, Finish
        <3> QED
            BY <3>1, VerbsDiffer
    <2>4. ~DisplayOff /\ ~SleepHost
        BY DEF DisplayOff, SleepHost, OneByOne, Locks, Logouts
    <2>5. ASSUME NEW u \in Users, LockSession(u) \/ TerminateSession(u) PROVE FALSE
        BY <2>5 DEF LockSession, TerminateSession
    <2>6. ASSUME NEW u \in Users, LogoutUser(u) PROVE FALSE
        <3>1. u # None
            BY UsersAssumption
        <3> QED
            BY <2>6, <3>1, VerbsDiffer DEF LogoutUser, OneByOne
    <2> QED
        BY <2>1, <2>2, <2>3, <2>4, <2>5, <2>6 DEF DesktopControl
<1>2. Spec => [](TypeInv /\ DeskInv)
    BY CommandInvariant, PTL DEF CommandInv
<1> QED
    BY <1>1, <1>2, PTL DEF Spec, DesktopHonest
=============================================================================
