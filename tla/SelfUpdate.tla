------------------------------ MODULE SelfUpdate ------------------------------
(***************************************************************************)
(* Replacing the agent's own binary (websocket.go update_binary and        *)
(* downloadBinary, cli.go runSelfUpdate, platform_linuxops.go,             *)
(* platform_windows.go, update_*.go, cmd/theta-agent-helper,               *)
(* service_windows.go, service_cli_windows.go).                            *)
(*                                                                         *)
(* An update starts in the daemon, for the directory, or on the command    *)
(* line.  Both download, verify and install.  On Linux a rename puts the   *)
(* new binary in place and the service is restarted.  On Windows a running *)
(* image cannot be replaced: the binary is staged as <exe>.new, the same   *)
(* name for every update, and a detached helper waits for the service to   *)
(* stop, renames the file and starts the service again.                    *)
(*                                                                         *)
(* Left out: the gate in front of update_binary (CommandDispatch), hashes  *)
(* other than by equality of what they are of, and the file modes.         *)
(*                                                                         *)
(* The conventional names (Init, Next, Spec, vars) carry a prefix, so that *)
(* HostProofs can extend this module beside another one.                   *)
(***************************************************************************)
EXTENDS Naturals, FiniteSets

CONSTANTS Releases,     \* what the directory may publish
          First,        \* the release installed at the start
          Junk,         \* a download cut short or altered
          Partial,      \* a copy that has not been completed
          NoFile,
          MaxUpdates, MaxFaults

Origins == {"daemon", "cli"}
Numbers == 1..MaxUpdates

VARIABLES os,         \* "linux" or "windows"
          helperSet,  \* desktop_helper is configured
          svc,        \* "running", "stopping" or "stopped"
          image,      \* the release the service runs
          exe,        \* the file the service is started from
          staged,     \* <exe>.new
          tmp,        \* the temporary file of each origin
          at, pin,    \* each origin: where it is, the SHA-256 it was given
          num,        \* each origin: the number of its update
          helper,     \* the helper of each update
          inst,       \* install-service
          mirror,     \* what the directory publishes
          started, faults,   \* counters for the bounds
          told,       \* ghost: releases each origin has reported as installed
          ever,       \* ghost: what the file has been
          vouched,    \* ghost: every SHA-256 that was asked for
          shared,     \* ghost: two updates used <exe>.new at once
          cut,        \* ghost: nobody is left who restarts the service
          overtaken   \* ghost: the installer started it before the helper

originVars == <<tmp, at, pin, num>>
svcVars    == <<svc, image>>
fixed      == <<os, helperSet>>
ghosts     == <<told, ever, vouched, shared, cut, overtaken>>
updateVars == <<fixed, svcVars, exe, staged, originVars, helper, inst, mirror,
                started, faults, ghosts>>

UpdateInit ==
  /\ os \in {"linux", "windows"}
  /\ helperSet \in IF os = "linux" THEN {FALSE} ELSE BOOLEAN
  /\ svc = "running" /\ image = First /\ exe = First
  /\ staged = NoFile
  /\ tmp = [o \in Origins |-> NoFile]
  /\ at = [o \in Origins |-> "idle"]
  /\ pin = [o \in Origins |-> NoFile]
  /\ num = [o \in Origins |-> 0]
  /\ helper = [n \in Numbers |-> "none"]
  /\ inst = "idle"
  /\ mirror = First
  /\ started = 0 /\ faults = 0
  /\ told = [o \in Origins |-> {}]
  /\ ever = {First} /\ vouched = {}
  /\ shared = FALSE /\ cut = FALSE /\ overtaken = FALSE

Goto(o, to) == at' = [at EXCEPT ![o] = to]
SetTmp(o, content) == tmp' = [tmp EXCEPT ![o] = content]

Fault == faults < MaxFaults /\ faults' = faults + 1

-----------------------------------------------------------------------------
(* Starting an update. *)

Publish(r) ==
  /\ mirror' = r
  /\ UNCHANGED <<fixed, svcVars, exe, staged, originVars, helper, inst, started,
                 faults, ghosts>>

Begin(o, to) ==
  /\ at[o] = "idle" /\ started < MaxUpdates
  /\ started' = started + 1
  /\ num' = [num EXCEPT ![o] = started + 1]
  /\ Goto(o, to)

\* update_binary carries the checksum of the release the directory wants.
UpdateBinary(r) ==
  /\ svc = "running"
  /\ Begin("daemon", "download")
  /\ pin' = [pin EXCEPT !["daemon"] = r]
  /\ vouched' = vouched \cup {r}
  /\ UNCHANGED <<fixed, svcVars, exe, staged, tmp, helper, inst, mirror, faults,
                 told, ever, shared, cut, overtaken>>

runSelfUpdate ==
  /\ Begin("cli", "manifest")
  /\ UNCHANGED <<fixed, svcVars, exe, staged, tmp, pin, helper, inst, mirror,
                 faults, ghosts>>

\* The checksum the directory publishes now; the artifact is fetched later.
fetchManifestSHA ==
  /\ at["cli"] = "manifest"
  /\ Goto("cli", "download")
  /\ pin' = [pin EXCEPT !["cli"] = mirror]
  /\ vouched' = vouched \cup {mirror}
  /\ UNCHANGED <<fixed, svcVars, exe, staged, tmp, num, helper, inst, mirror,
                 started, faults, told, ever, shared, cut, overtaken>>

-----------------------------------------------------------------------------
(* downloadBinary. *)

Download(o) ==
  /\ at[o] = "download"
  /\ \/ \E content \in {mirror, Junk} : SetTmp(o, content) /\ Goto(o, "verify")
     \/ UNCHANGED tmp /\ Goto(o, "idle")
  /\ UNCHANGED <<fixed, svcVars, exe, staged, pin, num, helper, inst, mirror,
                 started, faults, ghosts>>

\* A download taken as it came.
CompareSHASkipped(o) ==
  /\ at[o] = "verify"
  /\ Goto(o, "stage") /\ UNCHANGED tmp
  /\ UNCHANGED <<fixed, svcVars, exe, staged, pin, num, helper, inst, mirror,
                 started, faults, ghosts>>

\* What does not have the checksum is removed.
CompareSHA(o) ==
  /\ at[o] = "verify"
  /\ IF tmp[o] = pin[o] THEN Goto(o, "stage") /\ UNCHANGED tmp
     ELSE Goto(o, "idle") /\ SetTmp(o, NoFile)
  /\ UNCHANGED <<fixed, svcVars, exe, staged, pin, num, helper, inst, mirror,
                 started, faults, ghosts>>

-----------------------------------------------------------------------------
(* Installing: ApplyUpdate and swapUpdatedBinary. *)

InstallExe(content) == exe' = content /\ ever' = ever \cup {content}

\* Linux: one rename over the running binary.
Rename(o) ==
  /\ os = "linux" /\ at[o] = "stage"
  /\ InstallExe(tmp[o])
  /\ SetTmp(o, NoFile)
  /\ Goto(o, "done")
  /\ UNCHANGED <<fixed, svcVars, staged, pin, num, helper, inst, mirror, started,
                 faults, told, vouched, shared, cut, overtaken>>

\* The command line removes its temporary file, the daemon leaves it.
InstallFails(o) ==
  /\ at[o] \in {"stage", "copy", "spawn"}
  /\ staged' = IF at[o] = "copy" THEN NoFile ELSE staged
  /\ SetTmp(o, IF o = "cli" THEN NoFile ELSE tmp[o])
  /\ Goto(o, "idle")
  /\ UNCHANGED <<fixed, svcVars, exe, pin, num, helper, inst, mirror, started,
                 faults, ghosts>>

Waiting == {n \in Numbers : helper[n] # "none"}

\* Windows, moveFile: a rename, or a copy when that is refused.
Stage(o) ==
  /\ os = "windows" /\ at[o] = "stage"
  /\ \/ staged' = tmp[o] /\ SetTmp(o, NoFile) /\ Goto(o, "spawn")
     \/ staged' = Partial /\ UNCHANGED tmp /\ Goto(o, "copy")
  /\ shared' = (shared \/ Waiting # {} \/ \E q \in Origins \ {o} : at[q] \in {"copy", "spawn"})
  /\ UNCHANGED <<fixed, svcVars, exe, pin, num, helper, inst, mirror, started,
                 faults, told, ever, vouched, cut, overtaken>>

Copied(o) ==
  /\ at[o] = "copy"
  /\ staged' = tmp[o] /\ SetTmp(o, NoFile)
  /\ Goto(o, "spawn")
  /\ UNCHANGED <<fixed, svcVars, exe, pin, num, helper, inst, mirror, started,
                 faults, ghosts>>

SpawnHelper(o) ==
  /\ at[o] = "spawn" /\ helperSet
  /\ helper' = [helper EXCEPT ![num[o]] = "wait"]
  /\ Goto(o, "done")
  /\ UNCHANGED <<fixed, svcVars, exe, staged, tmp, pin, num, inst, mirror, started,
                 faults, ghosts>>

\* The daemon answers, the command line prints that the update has succeeded.
Tell(o) ==
  /\ at[o] = "done"
  /\ told' = [told EXCEPT ![o] = @ \cup {pin[o]}]
  /\ Goto(o, "restart")
  /\ UNCHANGED <<fixed, svcVars, exe, staged, tmp, pin, num, helper, inst, mirror,
                 started, faults, ever, vouched, shared, cut, overtaken>>

-----------------------------------------------------------------------------
(* The service. *)

\* What the daemon was doing ends with it.
DaemonGone == /\ at' = [at EXCEPT !["daemon"] = "idle"]
              /\ UNCHANGED <<tmp, pin, num>>

\* SelfRestart: the process exits; a Windows service stops by stopAgent.
SelfRestart ==
  /\ at["daemon"] = "restart"
  /\ svc' = IF os = "linux" THEN "stopped" ELSE "stopping"
  /\ DaemonGone
  /\ UNCHANGED <<fixed, image, exe, staged, helper, inst, mirror, started, faults,
                 ghosts>>

\* agentService.Execute returns once runAgent has.
Execute ==
  /\ svc = "stopping"
  /\ svc' = "stopped"
  /\ UNCHANGED <<fixed, image, exe, staged, originVars, helper, inst, mirror, started,
                 faults, ghosts>>

\* systemd: Restart=always.
Respawn ==
  /\ os = "linux" /\ svc = "stopped"
  /\ svc' = "running" /\ image' = exe
  /\ UNCHANGED <<fixed, exe, staged, originVars, helper, inst, mirror, started, faults,
                 ghosts>>

\* The end of runSelfUpdate: on Linux systemctl restart, which takes a daemon
\* in the middle of an update of its own with it, and whose error is dropped;
\* on Windows nothing.
restartAffectedServices ==
  /\ at["cli"] = "restart"
  /\ \/ /\ os = "linux"
        /\ svc' = "running" /\ image' = exe
        /\ at' = [o \in Origins |-> "idle"]
        /\ UNCHANGED <<faults, cut>>
     \/ /\ os = "linux" /\ Fault
        /\ cut' = (cut \/ (svc = "running" /\ image # exe))
        /\ Goto("cli", "idle") /\ UNCHANGED svcVars
     \/ /\ os = "windows"
        /\ Goto("cli", "idle") /\ UNCHANGED <<svcVars, faults, cut>>
  /\ UNCHANGED <<fixed, exe, staged, tmp, pin, num, helper, inst, mirror, started,
                 told, ever, vouched, shared, overtaken>>

-----------------------------------------------------------------------------
(* theta-agent-helper update. *)

\* The daemon is about to stop, which it does within the helper's patience.
AboutToStop == svc = "stopping" \/ at["daemon"] \in {"done", "restart"}

\* The file cannot be replaced while it runs, as a service or a command.
Locked == svc # "stopped" \/ at["cli"] # "idle" \/ inst # "idle"

WaitOver(n) ==
  /\ helper[n] = "wait"
  /\ svc = "running" => ~AboutToStop     \* 90 s have passed
  /\ helper' = [helper EXCEPT ![n] = "swap"]
  /\ UNCHANGED <<fixed, svcVars, exe, staged, originVars, inst, mirror, started,
                 faults, ghosts>>

Swap(n) ==
  /\ helper[n] = "swap" /\ ~Locked /\ staged # NoFile
  /\ InstallExe(staged) /\ staged' = NoFile
  /\ helper' = [helper EXCEPT ![n] = "start"]
  /\ UNCHANGED <<fixed, svcVars, originVars, inst, mirror, started, faults, told,
                 vouched, shared, cut, overtaken>>

\* One attempt instead of forty.
GiveUpAtOnce(n) ==
  /\ helper[n] = "swap" /\ (staged = NoFile \/ Locked)
  /\ helper' = [helper EXCEPT ![n] = "none"]
  /\ UNCHANGED <<fixed, svcVars, exe, staged, originVars, inst, mirror, started,
                 faults, ghosts>>

\* Forty attempts have failed: a command holds the file for ten seconds, or
\* nobody stops the service, or the staged file is gone.
GiveUp(n) ==
  /\ helper[n] = "swap" /\ (staged = NoFile \/ Locked) /\ ~AboutToStop
  /\ helper' = [helper EXCEPT ![n] = "none"]
  /\ cut' = (cut \/ (svc = "stopped" /\ staged # NoFile))
  /\ UNCHANGED <<fixed, svcVars, exe, staged, originVars, inst, mirror, started,
                 faults, told, ever, vouched, shared, overtaken>>

\* sc start, which fails when somebody else has started it.
StartService(n) ==
  /\ helper[n] = "start"
  /\ IF svc = "stopped" THEN svc' = "running" /\ image' = exe
     ELSE UNCHANGED svcVars
  /\ helper' = [helper EXCEPT ![n] = "none"]
  /\ UNCHANGED <<fixed, exe, staged, originVars, inst, mirror, started, faults, ghosts>>

-----------------------------------------------------------------------------
(* installService on a host that has the service: stop, then start again.   *)

InstallStop ==
  /\ os = "windows" /\ inst = "idle" /\ Fault
  /\ inst' = "wait"
  /\ svc' = IF svc = "running" THEN "stopping" ELSE svc
  /\ DaemonGone
  /\ UNCHANGED <<fixed, image, exe, staged, helper, mirror, started, ghosts>>

InstallStart ==
  /\ inst = "wait" /\ svc # "stopping"
  /\ IF svc = "stopped" THEN svc' = "running" /\ image' = exe
     ELSE UNCHANGED svcVars
  /\ inst' = "idle"
  /\ overtaken' = (overtaken \/ Waiting # {})
  /\ UNCHANGED <<fixed, exe, staged, originVars, helper, mirror, started, faults, told,
                 ever, vouched, shared, cut>>

-----------------------------------------------------------------------------
(* Faults. *)

\* A daemon that dies is started again by systemd.
DaemonCrash ==
  /\ os = "linux" /\ svc = "running" /\ Fault
  /\ svc' = "stopped"
  /\ DaemonGone
  /\ UNCHANGED <<fixed, image, exe, staged, helper, inst, mirror, started, ghosts>>

\* A killed update has nobody to restart the service.
Kill ==
  /\ at["cli"] # "idle" /\ Fault
  /\ Goto("cli", "idle")
  /\ cut' = (cut \/ at["cli"] \in {"done", "restart"})
  /\ UNCHANGED <<fixed, svcVars, exe, staged, tmp, pin, num, helper, inst, mirror,
                 started, told, ever, vouched, shared, overtaken>>

-----------------------------------------------------------------------------

Step(o) == \/ Download(o) \/ CompareSHA(o) \/ Rename(o) \/ Stage(o) \/ Copied(o)
           \/ SpawnHelper(o) \/ InstallFails(o) \/ Tell(o)

Help(n) == WaitOver(n) \/ Swap(n) \/ GiveUp(n) \/ StartService(n)

UpdateNext ==
  \/ \E r \in Releases : Publish(r) \/ UpdateBinary(r)
  \/ runSelfUpdate \/ fetchManifestSHA \/ restartAffectedServices
  \/ \E o \in Origins : Step(o)
  \/ \E n \in Numbers : Help(n)
  \/ SelfRestart \/ Execute \/ Respawn
  \/ InstallStop \/ InstallStart \/ DaemonCrash \/ Kill

UpdateSpec == UpdateInit /\ [][UpdateNext]_updateVars

\* Every process runs on.
FairUpdateSpec ==
  /\ UpdateSpec
  /\ \A o \in Origins : WF_updateVars(Step(o))
  /\ \A n \in Numbers : WF_updateVars(Help(n))
  /\ WF_updateVars(fetchManifestSHA) /\ WF_updateVars(restartAffectedServices)
  /\ WF_updateVars(SelfRestart) /\ WF_updateVars(Execute) /\ WF_updateVars(Respawn)
  /\ WF_updateVars(InstallStart)

-----------------------------------------------------------------------------

\* The binary in place is whole and has a checksum somebody asked for, whoever
\* else updates, stops or dies at any moment; excepted are updates that share
\* <exe>.new on Windows (websocket.go:1014, platform_windows.go:182).
VerifiedOnly == shared \/ exe \in vouched \cup {First}

\* After an update the service runs again, it runs the binary that is in place,
\* and a release the directory was told of has been in place, unless the
\* installer restarted the service first.  Excepted are a command line update
\* that is killed or whose systemctl restart fails (cli.go:314), updates that
\* share <exe>.new, and a command that holds the file longer than the helper
\* tries (cmd/theta-agent-helper/main.go:214).
UpdateTakesEffect ==
  <>[](\/ shared \/ cut
       \/ svc = "running" /\ image = exe
          /\ (overtaken \/ told["daemon"] \subseteq ever))
=============================================================================
