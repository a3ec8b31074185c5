----------------------------- MODULE HostProofs -----------------------------
(***************************************************************************)
(* Proofs about the two components that change the host on their own:      *)
(* SelfUpdate, for every set of releases and any number of updates and     *)
(* faults, and LocalDiscovery, for every set of addresses, every set of    *)
(* failures and any number of them.                                        *)
(***************************************************************************)
EXTENDS SelfUpdate, LocalDiscovery, TLAPS
-----------------------------------------------------------------------------
(* SelfUpdate: what ends up as the service's binary was verified. *)

Places == {"idle", "manifest", "download", "verify", "stage", "copy", "spawn",
           "done", "restart"}
Shape ==
  /\ at \in [Origins -> Places]
  /\ DOMAIN tmp = Origins /\ tmp = [o \in Origins |-> tmp[o]]
  /\ DOMAIN pin = Origins /\ pin = [o \in Origins |-> pin[o]]
  /\ helper \in [Numbers -> {"none", "wait", "swap", "start"}]
  /\ shared \in BOOLEAN

\* The checksum a download is compared with was asked for, and what is about
\* to be installed was compared (downloadBinary).
Compared ==
  \A o \in Origins :
    /\ at[o] \in {"download", "verify"} => pin[o] \in vouched
    /\ at[o] \in {"stage", "copy"} => tmp[o] \in vouched

\* One update at a time uses <exe>.new: nobody copies into it while a helper
\* may take it, and two origins do not fill it together.
OneStager ==
  /\ \A o, q \in Origins :
       at[o] \in {"copy", "spawn"} /\ at[q] \in {"copy", "spawn"} => o = q
  /\ \A o \in Origins : at[o] = "copy" => Waiting = {}

\* What a helper takes, or is about to be started for, is whole and vouched for.
StagedVouched ==
  (Waiting # {} \/ \E o \in Origins : at[o] = "spawn")
    => staged \in vouched \cup {NoFile}

\* The inductive invariant behind VerifiedOnly.
UpdateInv ==
  /\ Shape /\ Compared
  /\ VerifiedOnly
  /\ shared \/ (OneStager /\ StagedVouched)

\* A host on which nobody has updated yet.
LEMMA InitUpdateInv == UpdateInit => UpdateInv
BY DEF UpdateInit, UpdateInv, Shape, Places, Compared, VerifiedOnly, OneStager, StagedVouched, Waiting

\* One step of an update, a helper, the service or a fault keeps it.
LEMMA NextUpdateInv == UpdateInv /\ [UpdateNext]_updateVars => UpdateInv'
<1> SUFFICES ASSUME UpdateInv, [UpdateNext]_updateVars PROVE UpdateInv'
    OBVIOUS
<1> USE DEF UpdateInv, Shape, Places, Compared, VerifiedOnly, OneStager, StagedVouched,
            Waiting, Goto, SetTmp, Origins, originVars, svcVars, fixed, ghosts
<1>1. ASSUME NEW r \in Releases, Publish(r) PROVE UpdateInv'
    BY <1>1 DEF Publish
<1>2. ASSUME NEW r \in Releases, UpdateBinary(r) PROVE UpdateInv'
    BY <1>2 DEF UpdateBinary, Begin
<1>3. CASE runSelfUpdate
    BY <1>3 DEF runSelfUpdate, Begin
<1>4. CASE fetchManifestSHA
    BY <1>4 DEF fetchManifestSHA
<1>5. CASE restartAffectedServices
    BY <1>5 DEF restartAffectedServices
<1>6. ASSUME NEW o \in Origins, Download(o) PROVE UpdateInv'
    BY <1>6 DEF Download
<1>7. ASSUME NEW o \in Origins, CompareSHA(o) PROVE UpdateInv'
    BY <1>7 DEF CompareSHA
<1>8. ASSUME NEW o \in Origins, Rename(o) PROVE UpdateInv'
    BY <1>8 DEF Rename, InstallExe
<1>9. ASSUME NEW o \in Origins, Stage(o) PROVE UpdateInv'
    <2>1. shared' \in BOOLEAN /\ (shared' => VerifiedOnly') /\ (shared => shared')
        BY <1>9, Zenon DEF Stage
    <2>2. Shape' /\ Compared'
        BY <1>9, <2>1 DEF Stage
    <2>3. ~shared' => /\ ~shared /\ Waiting = {}
                      /\ \A q \in Origins \ {o} : at[q] \notin {"copy", "spawn"}
        BY <1>9, Zenon DEF Stage
    <2>4. ~shared' => VerifiedOnly' /\ OneStager' /\ StagedVouched'
        BY <1>9, <2>3 DEF Stage
    <2> QED
        BY <2>1, <2>2, <2>4
<1>10. ASSUME NEW o \in Origins, Copied(o) PROVE UpdateInv'
    BY <1>10 DEF Copied
<1>11. ASSUME NEW o \in Origins, SpawnHelper(o) PROVE UpdateInv'
    BY <1>11 DEF SpawnHelper
<1>12. ASSUME NEW o \in Origins, InstallFails(o) PROVE UpdateInv'
    BY <1>12 DEF InstallFails
<1>13. ASSUME NEW o \in Origins, Tell(o) PROVE UpdateInv'
    BY <1>13 DEF Tell
<1>14. ASSUME NEW n \in Numbers, WaitOver(n) PROVE UpdateInv'
    BY <1>14 DEF WaitOver
<1>15. ASSUME NEW n \in Numbers, Swap(n) PROVE UpdateInv'
    BY <1>15 DEF Swap, InstallExe
<1>16. ASSUME NEW n \in Numbers, GiveUp(n) PROVE UpdateInv'
    BY <1>16 DEF GiveUp
<1>17. ASSUME NEW n \in Numbers, StartService(n) PROVE UpdateInv'
    BY <1>17 DEF StartService
<1>18. CASE SelfRestart
    BY <1>18 DEF SelfRestart, DaemonGone
<1>19. CASE Execute \/ Respawn
    BY <1>19 DEF Execute, Respawn
<1>20. CASE InstallStop
    BY <1>20 DEF InstallStop, DaemonGone
<1>21. CASE InstallStart
    BY <1>21 DEF InstallStart
<1>22. CASE DaemonCrash
    BY <1>22 DEF DaemonCrash, DaemonGone
<1>23. CASE Kill
    BY <1>23 DEF Kill
<1>24. CASE UNCHANGED updateVars
    BY <1>24 DEF updateVars
<1> QED
    BY <1>1, <1>2, <1>3, <1>4, <1>5, <1>6, <1>7, <1>8, <1>9, <1>10, <1>11, <1>12,
       <1>13, <1>14, <1>15, <1>16, <1>17, <1>18, <1>19, <1>20, <1>21, <1>22, <1>23,
       <1>24 DEF UpdateNext, Step, Help

\* Whoever updates, stops, installs or dies at any moment, the binary in place
\* is whole and has a checksum somebody asked for, unless two updates have
\* shared <exe>.new (downloadBinary, ApplyUpdate, swapUpdatedBinary).
THEOREM VerifiedOnlyHolds == UpdateSpec => []VerifiedOnly
<1>1. UpdateInv => VerifiedOnly
    BY DEF UpdateInv
<1> QED
    BY <1>1, InitUpdateInv, NextUpdateInv, PTL DEF UpdateSpec

-----------------------------------------------------------------------------
(* LocalDiscovery: memory, hosts file and routes agree. *)

\* The initial state satisfies the invariant: no daemon, no block.
LEMMA InitInv == Init => DiscoveryInv
<1> SUFFICES ASSUME Init PROVE DiscoveryInv
    OBVIOUS
<1>0. /\ currentlyOverridden \in BOOLEAN /\ changed \in BOOLEAN
      /\ cleared \in BOOLEAN /\ wiped \in BOOLEAN
    BY Zenon DEF Init
<1>1. TypeOK
    BY <1>0, DiscoveryConstants DEF Init, TypeOK, MaybeAddr, PCs, SeenTTL
<1>2. BlockTracked
    BY DEF Init, BlockTracked
<1> QED
    BY <1>1, <1>2 DEF Init, DiscoveryInv

USE DiscoveryConstants DEF MaybeAddr, PCs, SeenTTL

\* One step of the loop, the network or the service manager keeps it.
LEMMA NextInv == DiscoveryInv /\ [Next]_vars => DiscoveryInv'
<1> SUFFICES ASSUME DiscoveryInv, [Next]_vars PROVE DiscoveryInv'
    OBVIOUS
<1> USE DEF DiscoveryInv, TypeOK, BlockTracked, disk, memory, world, history, Move, Calm, WriteFails
<1>1. CASE Start
    <2>1. /\ currentlyOverridden' \in BOOLEAN /\ changed' \in BOOLEAN
          /\ cleared' \in BOOLEAN /\ wiped' \in BOOLEAN /\ enabled' \in BOOLEAN
        BY <1>1, Zenon DEF Start
    <2>2. TypeOK'
        BY <1>1, <2>1 DEF Start
    <2> QED
        BY <1>1, <2>2 DEF Start
<1>2. CASE Clear
    <2>1. /\ currentlyOverridden' \in BOOLEAN /\ changed' \in BOOLEAN
          /\ cleared' \in BOOLEAN /\ wiped' \in BOOLEAN /\ enabled' \in BOOLEAN
        BY <1>2, Zenon DEF Clear
    <2>2. TypeOK'
        BY <1>2, <2>1 DEF Clear
    <2> QED
        BY <1>2, <2>2 DEF Clear
<1>3. CASE Poll
    BY <1>3 DEF Poll, Aged
<1>4. CASE Decide
    BY <1>4 DEF Decide
<1>5. CASE Verify
    BY <1>5 DEF Verify
<1>6. CASE Apply
    BY <1>6 DEF Apply
<1>7. CASE Route
    BY <1>7 DEF Route
<1>8. CASE Revert
    <2>1. /\ currentlyOverridden' \in BOOLEAN /\ changed' \in BOOLEAN
          /\ cleared' \in BOOLEAN /\ wiped' \in BOOLEAN /\ enabled' \in BOOLEAN
        BY <1>8, Zenon DEF Revert
    <2>2. TypeOK'
        BY <1>8, <2>1 DEF Revert
    <2> QED
        BY <1>8, <2>2 DEF Revert
<1>9. CASE Unroute
    <2>1. /\ currentlyOverridden' \in BOOLEAN /\ changed' \in BOOLEAN
          /\ cleared' \in BOOLEAN /\ wiped' \in BOOLEAN /\ enabled' \in BOOLEAN
        BY <1>9, Zenon DEF Unroute
    <2>2. TypeOK'
        BY <1>9, <2>1 DEF Unroute
    <2> QED
        BY <1>9, <2>2 DEF Unroute
<1>10. CASE Drain
    BY <1>10 DEF Drain
<1>11. CASE Crash
    BY <1>11 DEF Crash
<1>12. ASSUME NEW addr \in MaybeAddr, Announce(addr) PROVE DiscoveryInv'
    BY <1>12 DEF Announce
<1>13. ASSUME NEW addr \in Addrs, Certify(addr) PROVE DiscoveryInv'
    BY <1>13 DEF Certify
<1>14. CASE UNCHANGED vars
    BY <1>14 DEF vars
<1> QED
    BY <1>1, <1>2, <1>3, <1>4, <1>5, <1>6, <1>7, <1>8, <1>9, <1>10, <1>11, <1>12,
       <1>13, <1>14 DEF Next, Loop

\* The inductive invariant of local discovery holds in every behaviour.
THEOREM DiscoveryInvHolds == Spec => []DiscoveryInv
BY InitInv, NextInv, PTL DEF Spec

\* The loop is where its code can be and knows what it can know, and the hosts
\* file holds one override or none (StartLocalDiscovery, applyHostsOverride).
THEOREM TypeCorrect == Spec => []TypeOK
<1>1. DiscoveryInv => TypeOK
    BY DEF DiscoveryInv
<1> QED
    BY <1>1, DiscoveryInvHolds, PTL

\* The loop's memory and the hosts file agree, for every pattern of failed
\* writes, restarts and moving announcements (StartLocalDiscovery).
THEOREM BlockTrackedHolds == Spec => []BlockTracked
<1>1. DiscoveryInv => BlockTracked
    BY DEF DiscoveryInv
<1> QED
    BY <1>1, DiscoveryInvHolds, PTL

\* No step takes a host route away under the block that needs it: removeLocalRoute
\* runs only after applyHostsOverride has emptied the block (revertOverride).
THEOREM NoHalfTeardownHolds == Spec => NoHalfTeardown
<1>1. DiscoveryInv /\ [Next]_vars
        => [\A addr \in Addrs : addr \in routes /\ addr \notin routes' => hosts' # addr]_vars
    <2> SUFFICES ASSUME DiscoveryInv, Next, NEW addr \in Addrs,
                        addr \in routes, addr \notin routes'
                 PROVE  hosts' # addr
        OBVIOUS
    <2>1. Unroute
        BY DEF Next, Loop, Start, Clear, Poll, Decide, Verify, Apply, Route, Revert, Drain,
               Crash, Announce, Certify, disk
    <2> QED
        BY <2>1 DEF Unroute, DiscoveryInv, TypeOK
<1> QED
    BY <1>1, DiscoveryInvHolds, PTL DEF Spec, NoHalfTeardown

-----------------------------------------------------------------------------
(* LocalDiscovery: a right path is left alone.                              *)

\* The hosts file gives that path, and what the poll in hand has found is true.
PathRight ==
  /\ cleared /\ ~wiped /\ hosts = DirectPath
  /\ pc \in {"poll", "decide", "verify"}
  /\ pc # "poll" => ip = announced

\* What may change the path: the link, a certificate, a restart, a lost answer.
LinkMoves ==
  \/ \E addr \in MaybeAddr : Announce(addr)
  \/ \E addr \in Addrs : Certify(addr)
  \/ Crash
  \/ Poll /\ ip' # announced

\* The half of PathConverges that is safety.  Once the hosts file is right, polls
\* change neither it nor the routes and do not wake connectWebSocket, until the
\* network changes, an answer is lost or the daemon ends (StartLocalDiscovery).
PathKept ==
  [][PathRight => \/ PathRight' /\ UNCHANGED disk /\ (changed' => changed)
                  \/ LinkMoves]_vars

\* In a right state the switch finds no case that writes.
LEMMA RightDecides ==
  ASSUME DiscoveryInv, PathRight
  PROVE  /\ Decide => pc' \in {"poll", "verify"}
         /\ Verify => pc' = "poll"
<1>1. hosts = lastIP /\ (currentlyOverridden <=> hosts # None)
    BY DEF DiscoveryInv, BlockTracked, PathRight
<1>2. currentlyOverridden => hosts = announced /\ OverrideIsSafe(announced)
    BY <1>1 DEF PathRight, DirectPath, OverrideIsSafe
<1>3. hosts = None => announced = Dns \/ ~OverrideIsSafe(announced)
    BY DEF PathRight, DirectPath, OverrideIsSafe, DiscoveryInv, TypeOK
<1>4. Decide => pc' \in {"poll", "verify"}
    <2> SUFFICES ASSUME Decide PROVE pc' \in {"poll", "verify"}
        OBVIOUS
    <2>1. ip = announced
        BY DEF Decide, PathRight
    <2>2. currentlyOverridden => ip # None /\ ip = lastIP
        BY <1>1, <1>2, <2>1
    <2> QED
        BY <2>2 DEF Decide
<1>5. Verify => pc' = "poll"
    <2> SUFFICES ASSUME Verify PROVE pc' = "poll"
        OBVIOUS
    <2>1. ip = announced
        BY DEF Verify, PathRight
    <2>2. ~currentlyOverridden => ResolveHost = ip \/ ~OverrideIsSafe(ip)
        BY <1>1, <1>3, <2>1 DEF ResolveHost
    <2> QED
        BY <1>2, <2>1, <2>2 DEF Verify
<1> QED
    BY <1>4, <1>5

\* Neither the override nor its route flaps while the link stays as it is, however
\* often the loop polls and verifies (StartLocalDiscovery).
THEOREM PathKeptHolds == Spec => PathKept
<1> DEFINE Kept == PathRight' /\ UNCHANGED disk /\ (changed' => changed)
<1>1. DiscoveryInv /\ [Next]_vars => [PathRight => Kept \/ LinkMoves]_vars
    <2> SUFFICES ASSUME DiscoveryInv, PathRight, Next, ~LinkMoves PROVE Kept
        OBVIOUS
    <2> USE DEF disk, world, memory, history, Calm
    <2>1. pc \in {"poll", "decide", "verify"}
        BY DEF PathRight
    <2>2. Poll \/ Decide \/ Verify \/ Drain
        BY <2>1 DEF Next, Loop, LinkMoves, Start, Clear, Apply, Route, Revert, Unroute
    <2>3. CASE Poll
        BY <2>3 DEF Poll, LinkMoves, PathRight, DirectPath
    <2>4. CASE Decide
        BY <2>4, RightDecides DEF Decide, PathRight, DirectPath
    <2>5. CASE Verify
        BY <2>5, RightDecides DEF Verify, PathRight, DirectPath
    <2>6. CASE Drain
        BY <2>6 DEF Drain, PathRight, DirectPath
    <2> QED
        BY <2>2, <2>3, <2>4, <2>5, <2>6
<1> QED
    BY <1>1, DiscoveryInvHolds, PTL DEF Spec, PathKept
=============================================================================
