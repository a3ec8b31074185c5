----------------------------- MODULE IamEngine -----------------------------
(***************************************************************************)
(* The IAM engine (iam.go): applyIAM turns the verified payload of an      *)
(* iam_apply command into sudo rules, key files, a login policy and ended  *)
(* sessions, in that order, and stops at the first error of the first      *)
(* three; a pkill that fails is only logged.  The agent may die between    *)
(* any two of its steps; the files stay.  Meanwhile users log in and out   *)
(* under whatever access.conf says at that moment.                         *)
(*                                                                         *)
(* A sudo rule file, a key file and a login group are values: what matters *)
(* is whether visudo accepts the rules, which payload a key file came from *)
(* and whom a group lets in (a group is written as its one member).        *)
(***************************************************************************)
EXTENDS Integers, Sequences, FiniteSetsExt

CONSTANTS Users,       \* people who may have sessions on the host
          Root,        \* the local administrator, in no directory group
          Policies,    \* the payloads the directory may send
          ValidRules,  \* the sudo rules visudo accepts
          None

ASSUME RootAssumption == Root \notin Users
ASSUME UsersAssumption == None \notin Users
ASSUME PolicyAssumption ==
  \A p \in Policies : /\ p.keys \subseteq Users
                      /\ p.groups \subseteq Users
                      /\ p.revoke \subseteq Users
ASSUME RulesAssumption == None \notin ValidRules

VARIABLES job,      \* the application in progress: [p, pc, left]
          sudoTmp,  \* /etc/sudoers.d/.theta-iam-*, which sudo does not read
          sudoers,  \* /etc/sudoers.d/theta-iam-<node>, which it does
          keys,     \* whose key file holds which payload's keys
          access,   \* the lines of /etc/security/access.conf
          sess,     \* does the user have a session
          spared    \* history: whose session outlived a pkill that failed

iamVars == <<job, sudoTmp, sudoers, keys, access, sess, spared>>

NoJob == [p |-> None, pc |-> "idle", left |-> {}]

Allow(who) == [allow |-> TRUE, who |-> who]
Deny(who)  == [allow |-> FALSE, who |-> who]

\* applyAccessControl's file: root first, the groups, then everybody denied.
AccessFile(groups) ==
  <<Allow({Root}), Allow(groups), Deny(Users \cup {Root})>>

\* pam_access: the first line that names the user decides, no line permits.
Permits(conf, u) ==
  LET naming == {i \in DOMAIN conf : u \in conf[i].who}
  IN  naming # {} => conf[Min(naming)].allow

\* A hasty order: sessions end before the login
\* policy that keeps their users out is in place.
StagesRevokeFirst == <<"sudo", "keys", "revoke", "access", "done">>

\* The order of applyIAM.
Stages == <<"sudo", "keys", "access", "revoke", "done">>

HasWork(p, stage) ==
  CASE stage = "sudo"   -> p.sudo # None
    [] stage = "keys"   -> p.keys # {}
    [] stage = "access" -> p.groups # {}
    [] stage = "revoke" -> p.revoke # {}
    [] OTHER            -> TRUE

\* The first stage after position i that p has anything for.
StageAfter(p, i) ==
  Stages[Min({j \in (i + 1)..Len(Stages) : HasWork(p, Stages[j])})]

PosOf(stage) == CHOOSE i \in DOMAIN Stages : Stages[i] = stage

Goto(pc)   == job' = [job EXCEPT !.pc = pc]
Leave(stage) == Goto(StageAfter(job.p, PosOf(stage)))
Fail       == Goto("failed")

----------------------------------------------------------------------------

IamInit ==
  /\ job = NoJob
  /\ sudoTmp = None
  /\ sudoers = None
  /\ keys = [u \in Users |-> None]
  /\ access = <<>>
  /\ sess = [u \in Users |-> FALSE]
  /\ spared = {}

\* applyIAM is called with a payload.
Begin(p) ==
  /\ job.pc = "idle"
  /\ job' = [p |-> p, pc |-> StageAfter(p, 0), left |-> p.revoke]
  /\ UNCHANGED <<sudoTmp, sudoers, keys, access, sess, spared>>

\* applySudoRules: the temporary file is written, or nothing is.
WriteSudoTmp ==
  /\ job.pc = "sudo"
  /\ \/ /\ sudoTmp' = job.p.sudo
        /\ Goto("visudo")
     \/ /\ Fail
        /\ UNCHANGED sudoTmp
  /\ UNCHANGED <<sudoers, keys, access, sess, spared>>

\* A mutated check: any rules pass.
VisudoSkipped ==
  /\ job.pc = "visudo"
  /\ Goto("rename")
  /\ UNCHANGED <<sudoTmp, sudoers, keys, access, sess, spared>>

\* `visudo -c -f`: rejected rules are removed and end the application.
Visudo ==
  /\ job.pc = "visudo"
  /\ \/ /\ sudoTmp \in ValidRules
        /\ Goto("rename")
        /\ UNCHANGED sudoTmp
     \/ /\ sudoTmp \notin ValidRules
        /\ sudoTmp' = None
        /\ Fail
  /\ UNCHANGED <<sudoers, keys, access, sess, spared>>

RenameSudo ==
  /\ job.pc = "rename"
  /\ sudoTmp' = None
  /\ \/ /\ sudoers' = sudoTmp
        /\ Leave("sudo")
     \/ /\ Fail
        /\ UNCHANGED sudoers
  /\ UNCHANGED <<keys, access, sess, spared>>

\* applySSHKeys writes the key files in turn, then the command script; an
\* error at any of them leaves the files written so far.
WriteKeys ==
  /\ job.pc = "keys"
  /\ \E written \in SUBSET job.p.keys :
       /\ keys' = [u \in Users |-> IF u \in written THEN job.p ELSE keys[u]]
       /\ \/ written = job.p.keys /\ Leave("keys")
          \/ Fail
  /\ UNCHANGED <<sudoTmp, sudoers, access, sess, spared>>

\* applyAccessControl writes in place: the file is empty for a moment.
TruncateAccess ==
  /\ job.pc = "access"
  /\ \/ /\ access' = <<>>
        /\ Goto("writeAccess")
     \/ /\ Fail
        /\ UNCHANGED access
  /\ UNCHANGED <<sudoTmp, sudoers, keys, sess, spared>>

\* ... and a write that fails leaves a beginning of it.
WriteAccess ==
  /\ job.pc = "writeAccess"
  /\ LET conf == AccessFile(job.p.groups) IN
     \/ /\ access' = conf
        /\ Leave("access")
     \/ /\ \E n \in 0..(Len(conf) - 1) : access' = SubSeq(conf, 1, n)
        /\ Fail
  /\ UNCHANGED <<sudoTmp, sudoers, keys, sess, spared>>

\* applyRevocation runs pkill for one user after the other.  A failure is
\* logged and no more: the session goes on, and so does the loop.
Revoke(u) ==
  /\ job.pc = "revoke"
  /\ u \in job.left
  /\ \/ sess' = [sess EXCEPT ![u] = FALSE] /\ spared' = spared \ {u}
     \/ sess[u] /\ spared' = spared \cup {u} /\ UNCHANGED sess
  /\ job' = [job EXCEPT !.left = @ \ {u},
                        !.pc = IF job.left = {u}
                               THEN StageAfter(job.p, PosOf("revoke"))
                               ELSE @]
  /\ UNCHANGED <<sudoTmp, sudoers, keys, access>>

\* applyIAM returns, with an error or without; or the process dies in it.
Return ==
  /\ job.pc \in {"done", "failed"}
  /\ job' = NoJob
  /\ UNCHANGED <<sudoTmp, sudoers, keys, access, sess, spared>>

Die ==
  /\ job' = NoJob
  /\ UNCHANGED <<sudoTmp, sudoers, keys, access, sess, spared>>

\* Users come and go as the policy in force allows.
Login(u) ==
  /\ ~sess[u]
  /\ Permits(access, u)
  /\ sess' = [sess EXCEPT ![u] = TRUE]
  /\ UNCHANGED <<job, sudoTmp, sudoers, keys, access, spared>>

EndSessions(who) ==
  /\ sess' = [u \in Users |-> sess[u] /\ u \notin who]
  /\ spared' = spared \ who
  /\ UNCHANGED <<job, sudoTmp, sudoers, keys, access>>

IamStep ==
  \/ WriteSudoTmp \/ Visudo \/ RenameSudo
  \/ WriteKeys
  \/ TruncateAccess \/ WriteAccess
  \/ \E u \in Users : Revoke(u)

IamNext ==
  \/ \E p \in Policies : Begin(p)
  \/ IamStep
  \/ Return
  \/ Die
  \/ \E u \in Users : Login(u)
  \/ \E who \in SUBSET Users : EndSessions(who)

IamSpec == IamInit /\ [][IamNext]_iamVars

----------------------------------------------------------------------------

\* What sudo reads was accepted by visudo.
SudoersChecked == sudoers \in ValidRules \cup {None}

RootCanLogIn == Permits(access, Root)

\* A push never takes the machine away from its administrator: whatever rules
\* arrive and wherever an application fails or dies, what sudo reads was
\* accepted by visudo (iam.go:120, :126: check, then rename; the temporary name
\* has a dot, so sudo skips a stray one), and root can log in at every moment,
\* in the middle of a write of access.conf and after one that failed
\* (iam.go:172).
IamSafe == SudoersChecked /\ RootCanLogIn
=============================================================================
