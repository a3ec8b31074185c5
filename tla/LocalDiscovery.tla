--------------------------- MODULE LocalDiscovery ---------------------------
(***************************************************************************)
(* Local discovery (local_discovery.go, hosts_override.go, local_route.go, *)
(* discovery_verify.go): one goroutine polls mDNS and, when the site of    *)
(* server_url announces itself on this link with a good certificate,       *)
(* points the hostname at the announced address in /etc/hosts and pins a   *)
(* host route to it.  Both outlive the process that made them.             *)
(*                                                                         *)
(* The managed block of the hosts file is identified with the address it   *)
(* gives the hostname.                                                     *)
(***************************************************************************)
EXTENDS Naturals

CONSTANTS
    Addrs,      \* addresses on the local link
    None,       \* no address; no managed block
    Dns,        \* what the hostname resolves to without the block
    UsesTLS,    \* server_url is https or wss
    Env,        \* what may go wrong or change, a subset of EnvEvents
    MaxMoves    \* bound on those events

EnvEvents == {"link",       \* the announced address changes, or is gone
              "cert",       \* an address starts or stops serving a good certificate
              "lookup",     \* an mDNS query gets no answer
              "write",      \* the hosts file cannot be read or written
              "route",      \* `ip route' fails
              "crash",      \* the daemon is stopped or killed, and starts again
              "configure"}  \* local_discovery is changed before a start

ASSUME DiscoveryConstants ==
    /\ None \notin Addrs /\ Dns # None
    /\ UsesTLS \in BOOLEAN
    /\ Env \subseteq EnvEvents
    /\ MaxMoves \in Nat

MaybeAddr == Addrs \union {None}
SeenTTL == 3    \* localSiteSeenTTL, in polls

VARIABLES
    announced,  \* the address the site announces on this link
    goodCert,   \* addresses that serve a certificate valid for the hostname
    hosts,      \* the managed block
    routes,     \* host routes pinned
    enabled,    \* local_discovery of agent.yml, as the daemon read it
    pc,         \* next step of StartLocalDiscovery, "down": no daemon
    ip,         \* what the poll found
    currentlyOverridden, lastIP,    \* local variables of StartLocalDiscovery
    sighting,   \* polls for which lastPositive is still fresh
    changed,    \* discoveryChangedCh holds a token
    cleared,    \* history: the block of the previous run has been cleared
    wiped,      \* history: a failed revert has left the file without the block
    moves

disk == <<hosts, routes>>
memory == <<currentlyOverridden, lastIP>>
world == <<announced, goodCert, moves>>
history == <<cleared, wiped>>
vars == <<disk, memory, world, enabled, pc, ip, sighting, changed, history>>

PCs == {"down", "clear", "poll", "decide", "verify", "apply", "route", "revert", "unroute"}

Move(event) == event \in Env /\ moves < MaxMoves /\ moves' = moves + 1
Calm == UNCHANGED moves

\* os.WriteFile truncates the file first: an error leaves it as it was, or cut
\* short before the block, which is its end.
WriteFails == Move("write") /\ hosts' \in {hosts, None}

-----------------------------------------------------------------------------
(* The loop *)

\* mutant: the loop starts without clearing the block of the previous run
StartUncleared ==
    /\ pc = "down"
    /\ pc' = "poll"
    /\ enabled' \in {enabled} \union (IF "configure" \in Env THEN BOOLEAN ELSE {})
    /\ currentlyOverridden' = FALSE /\ lastIP' = None /\ ip' = None
    /\ sighting' = 0 /\ changed' = FALSE /\ cleared' = TRUE /\ wiped' = FALSE
    /\ UNCHANGED <<disk, world>>

Start ==
    /\ pc = "down"
    /\ enabled' \in {enabled} \union (IF "configure" \in Env THEN BOOLEAN ELSE {})
    /\ pc' = IF enabled' THEN "clear" ELSE "poll"
    /\ currentlyOverridden' = FALSE /\ lastIP' = None /\ ip' = None
    /\ sighting' = 0 /\ changed' = FALSE /\ cleared' = FALSE /\ wiped' = FALSE
    /\ UNCHANGED <<disk, world>>

\* applyHostsOverride({}); an error is logged and the loop starts all the same.
Clear ==
    /\ pc = "clear"
    /\ (hosts' = None /\ Calm) \/ WriteFails
    /\ cleared' = (hosts' = None)
    /\ pc' = "poll"
    /\ UNCHANGED <<routes, memory, announced, goodCert, enabled, ip, sighting, changed, wiped>>

\* mutant: only a sighting is recorded, and never forgotten
Remembered(found) == IF found # None THEN SeenTTL ELSE sighting

\* mutant: the age is not bounded
AgedUnbounded(found) == IF found # None THEN SeenTTL ELSE sighting - 1

\* setLocalSiteSeen, and what localSiteSeen makes of its age
Aged(found) == IF found # None THEN SeenTTL ELSE IF sighting > 0 THEN sighting - 1 ELSE 0

\* findLocalAnnouncement, and setLocalSiteSeen whatever follows.
Poll ==
    /\ pc = "poll"
    /\ \/ ip' = announced /\ Calm
       \/ Move("lookup") /\ ip' = None
    /\ sighting' = Aged(ip')
    /\ pc' = IF enabled THEN "decide" ELSE "poll"
    /\ UNCHANGED <<disk, memory, announced, goodCert, enabled, changed, history>>

\* The switch of StartLocalDiscovery; the loop sleeps where no case applies.
Decide ==
    /\ pc = "decide"
    /\ pc' = IF ip = None THEN IF currentlyOverridden THEN "revert" ELSE "poll"
             ELSE IF currentlyOverridden /\ ip # lastIP THEN "revert" ELSE "verify"
    /\ UNCHANGED <<disk, memory, world, enabled, ip, sighting, changed, history>>

\* resolveHost: the hosts file comes before the DNS.
ResolveHost == IF hosts # None THEN hosts ELSE Dns

\* mutant: a certificate for any name will do
OverrideIsSafeUnverified(addr) == UsesTLS

OverrideIsSafe(addr) == UsesTLS /\ addr \in goodCert

\* The certificate is checked before an override and at every poll under one.
Verify ==
    /\ pc = "verify"
    /\ pc' = IF currentlyOverridden
             THEN IF OverrideIsSafe(ip) THEN "poll" ELSE "revert"
             ELSE IF ResolveHost # ip /\ OverrideIsSafe(ip) THEN "apply" ELSE "poll"
    /\ UNCHANGED <<disk, memory, world, enabled, ip, sighting, changed, history>>

\* applyHostsOverride({targetHost: ip}); on an error the loop changes nothing.
Apply ==
    /\ pc = "apply"
    /\ \/ hosts' = ip /\ pc' = "route" /\ Calm
       \/ WriteFails /\ pc' = "poll"
    /\ UNCHANGED <<routes, memory, announced, goodCert, enabled, ip, sighting, changed, history>>

\* mutant: the address is not remembered
RouteForgetting ==
    /\ pc = "route"
    /\ routes' = routes \union {ip} /\ Calm
    /\ currentlyOverridden' = TRUE /\ UNCHANGED lastIP
    /\ changed' = TRUE
    /\ pc' = "poll"
    /\ UNCHANGED <<hosts, announced, goodCert, enabled, ip, sighting, history>>

\* applyLocalRoute; the override stands even if the route cannot be pinned.
Route ==
    /\ pc = "route"
    /\ \/ routes' = routes \union {ip} /\ Calm
       \/ Move("route") /\ UNCHANGED routes
    /\ currentlyOverridden' = TRUE /\ lastIP' = ip
    /\ changed' = TRUE
    /\ pc' = "poll"
    /\ UNCHANGED <<hosts, announced, goodCert, enabled, ip, sighting, history>>

\* mutant: the route is taken down first, and even if the hosts file is not
RevertRouteFirst ==
    /\ pc = "revert"
    /\ routes' = routes \ {lastIP}
    /\ \/ hosts' = None /\ wiped' = FALSE /\ pc' = "unroute" /\ Calm
       \/ WriteFails /\ wiped' = (hosts' = None) /\ pc' = "poll"
    /\ UNCHANGED <<memory, announced, goodCert, enabled, ip, sighting, changed, cleared>>

\* revertOverride: the hosts file first; an error keeps the memory, whatever the
\* failed write has made of the file.
Revert ==
    /\ pc = "revert"
    /\ \/ hosts' = None /\ wiped' = FALSE /\ pc' = "unroute" /\ Calm
       \/ WriteFails /\ wiped' = (hosts' = None) /\ pc' = "poll"
    /\ UNCHANGED <<routes, memory, announced, goodCert, enabled, ip, sighting, changed, cleared>>

\* removeLocalRoute is best effort.
Unroute ==
    /\ pc = "unroute"
    /\ \/ routes' = routes \ {lastIP} /\ Calm
       \/ Move("route") /\ UNCHANGED routes
    /\ currentlyOverridden' = FALSE /\ lastIP' = None
    /\ changed' = TRUE
    /\ pc' = "poll"
    /\ UNCHANGED <<hosts, announced, goodCert, enabled, ip, sighting, history>>

\* connectWebSocket takes the token during its backoff.
Drain ==
    /\ pc # "down" /\ changed
    /\ changed' = FALSE
    /\ UNCHANGED <<disk, memory, world, enabled, pc, ip, sighting, history>>

-----------------------------------------------------------------------------
(* The environment *)

Announce(addr) ==
    /\ Move("link")
    /\ announced # addr /\ announced' = addr
    /\ UNCHANGED <<disk, memory, goodCert, enabled, pc, ip, sighting, changed, history>>

Certify(addr) ==
    /\ Move("cert")
    /\ goodCert' = IF addr \in goodCert THEN goodCert \ {addr} ELSE goodCert \union {addr}
    /\ UNCHANGED <<disk, memory, announced, enabled, pc, ip, sighting, changed, history>>

\* runAgent ends, or is killed: nothing here reverts the override.
Crash ==
    /\ pc # "down"
    /\ Move("crash")
    /\ pc' = "down"
    /\ UNCHANGED <<disk, memory, announced, goodCert, enabled, ip, sighting, changed, history>>

-----------------------------------------------------------------------------
Init ==
    /\ announced \in MaybeAddr /\ goodCert \in SUBSET Addrs
    /\ hosts = None /\ routes = {}
    /\ enabled \in BOOLEAN
    /\ pc = "down" /\ ip = None
    /\ currentlyOverridden = FALSE /\ lastIP = None
    /\ sighting = 0 /\ changed = FALSE
    /\ cleared = FALSE /\ wiped = FALSE
    /\ moves = 0

Loop == Start \/ Clear \/ Poll \/ Decide \/ Verify \/ Apply \/ Route \/ Revert \/ Unroute

Next ==
    \/ Loop \/ Drain \/ Crash
    \/ \E addr \in MaybeAddr : Announce(addr)
    \/ \E addr \in Addrs : Certify(addr)

Spec == Init /\ [][Next]_vars

\* The goroutine runs and polls, and the service manager starts the daemon.
FairSpec == Spec /\ WF_vars(Loop)

-----------------------------------------------------------------------------
(* Properties *)

\* The path the machine should be on.
DirectPath ==
    IF UsesTLS /\ announced \in goodCert /\ announced # Dns THEN announced ELSE None

TypeOK ==
    /\ announced \in MaybeAddr /\ goodCert \subseteq Addrs
    /\ hosts \in MaybeAddr /\ routes \subseteq Addrs
    /\ enabled \in BOOLEAN
    /\ pc \in PCs /\ ip \in MaybeAddr
    /\ currentlyOverridden \in BOOLEAN /\ lastIP \in MaybeAddr
    /\ sighting \in 0..SeenTTL /\ changed \in BOOLEAN
    /\ cleared \in BOOLEAN /\ wiped \in BOOLEAN
    /\ moves \in 0..MaxMoves

\* The loop remembers the block that is in the hosts file: none that it would
\* not revert, and none that it believes in and is not there, except after a
\* revert whose write has failed halfway and until one succeeds.  Holds once no
\* block of the previous run is left, whatever write fails later.
BlockTracked ==
    (pc \in {"poll", "decide", "verify", "apply", "revert"} /\ cleared)
        => /\ hosts = IF wiped THEN None ELSE lastIP
           /\ currentlyOverridden <=> lastIP # None

\* What BlockTracked rests on: the state between the writes of Apply and Route,
\* and of Revert and Unroute, and what each case of the switch has established.
DiscoveryInv ==
    /\ TypeOK
    /\ BlockTracked
    /\ cleared /\ pc # "down" => enabled
    /\ pc = "clear" => enabled /\ ~cleared /\ ~currentlyOverridden /\ lastIP = None
    /\ pc \in {"verify", "apply", "route"} => ip # None
    /\ pc \in {"apply", "route"} => ~currentlyOverridden
    /\ pc \in {"revert", "unroute"} => currentlyOverridden
    /\ pc = "route" => hosts = ip
    /\ pc = "unroute" => hosts = None /\ ~wiped
    /\ wiped => currentlyOverridden

\* Half a teardown: a host route never goes away while the block still sends
\* the whole machine to its address (revertOverride).
NoHalfTeardown ==
    [][\A addr \in Addrs : addr \in routes /\ addr \notin routes' => hosts' # addr]_vars

\* When the link and the certificates stay as they are, the machine ends up on
\* the direct path if and only if the announced address differs from the normal
\* one and serves a good certificate: every other block is reverted.  Excepted
\* is a loop that a half failed revert has left believing in that very path.
PathConverges ==
    <>[](pc # "down" /\ cleared)
        => <>[](DirectPath = IF wiped THEN lastIP ELSE hosts)

\* Home detection learns of the site, and forgets it, also where the override
\* is disabled (localSiteSeen).
SiteSensed == <>[]((sighting > 0) <=> announced # None)
=============================================================================
