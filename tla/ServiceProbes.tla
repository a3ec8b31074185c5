--------------------------- MODULE ServiceProbes ---------------------------
(***************************************************************************)
(* What a telemetry frame says of the registered services (telemetry.go,   *)
(* service_extra_probes.go).  A probe asks the service's own manager and   *)
(* keeps nothing, with two exceptions: the previous CPU counter of every   *)
(* service, from which a rate is made, and the last run seen of a cron     *)
(* entry, from which its runs are counted.  Both live as long as the       *)
(* agent, across reconnects during which no probe runs.                    *)
(*                                                                         *)
(* Left out: uptime, memory and restart counts, which are read and passed  *)
(* on, and the text formats they are parsed from.                          *)
(***************************************************************************)
EXTENDS CronSchedule, FiniteSetsExt, Functions

CONSTANTS Crontabs,         \* possible job lines: the entry's own, the system's
          None,
          Shortcut,         \* a line without five fields, such as @daily
          Kind,             \* the subtype of each other service
          Namesakes,        \* the processes whose comm begins with its name
          Cron,             \* the registered cron entry
          Registrations,    \* the possible service lists of agent.yml
          maxCacheEntries,
          MaxClock, MaxCPU, MaxRuns

Svcs == DOMAIN Kind

\* A job line is five fields, each a single star or a list of elements.
Element == [star : BOOLEAN, lo : Nat, hi : Nat, step : Nat]
Line == [1..5 -> [star : BOOLEAN, toks : SUBSET Element]]
ASSUME CrontabsAssumption ==
  Crontabs \subseteq [own : SUBSET (Line \cup {Shortcut}), system : SUBSET (Line \cup {Shortcut})]

\* findProcessByComm matches prefixes: a name finds its own process and others.
ASSUME NamesakesAssumption ==
  /\ Namesakes \in [Svcs -> SUBSET Svcs]
  /\ \A s \in Svcs : s \in Namesakes[s]
  /\ \A s \in Svcs : Kind[s] = "process" => \A p \in Namesakes[s] : Kind[p] = "process"

\* The subtypes collectServiceMetrics knows; a pid is no service name.
ASSUME KindAssumption ==
  /\ Kind \in [Svcs -> {"docker", "podman", "kvm", "lxc", "systemd-timer", "systemd", "process"}]
  /\ None \notin Svcs

ASSUME BoundsAssumption ==
  maxCacheEntries \in Nat \ {0} /\ MaxClock \in Nat /\ MaxCPU \in Nat /\ MaxRuns \in Nat

VARIABLES clock,       \* in half minutes
          services,    \* what this agent has registered
          tab,         \* the crontabs: own (cron.d, spool) and system
          cronSeen, cronCount,   \* cronCountCache and cronCounts
          cronRep,     \* the last report on the entry
          run,         \* "up", "down" or "gone": each service
          runNo, cpu,  \* the pid of its current run, in the order of their
                       \* starts, and the CPU time that run has used
          pids,        \* pids given out
          cpuNSCache,
          rep,         \* the last report on each service
          seed,        \* ghost: the last run at the first observation
          since,       \* ghost: half minutes since the entry was probed
          steady,      \* ghost: it was probed at least once a minute
          sample       \* ghost: run and counter of the latest CPU sample

cronVars == <<tab, cronSeen, cronCount, cronRep, seed, since, steady>>
svcVars  == <<run, runNo, cpu, pids, cpuNSCache, rep, sample>>
vars     == <<clock, services, cronVars, svcVars>>

NoReport == [at |-> 0, active |-> FALSE, found |-> FALSE, next |-> NoTime,
             last |-> NoTime, triggered |-> 0]

Init ==
  /\ clock = 0
  /\ services \in Registrations
  /\ tab \in IF Cron \in services THEN Crontabs ELSE {[own |-> {}, system |-> {}]}
  /\ cronSeen = NoTime /\ cronCount = 0 /\ cronRep = NoReport
  /\ seed = NoTime /\ since = 0 /\ steady = TRUE
  /\ run = [s \in Svcs |-> "gone"]
  /\ runNo = [s \in Svcs |-> 0] /\ pids = 0
  /\ cpu = [s \in Svcs |-> 0]
  /\ cpuNSCache = <<>>
  /\ rep = [s \in Svcs |-> [active |-> FALSE, found |-> FALSE, rate |-> 0]]
  /\ sample = [s \in Svcs |-> [run |-> 0, ns |-> 0]]

----------------------------------------------------------------------------
(* Cron entries. *)

\* /etc/cron.d/<name> and /var/spool/cron/<name>, and every line of /etc/crontab
\* whatever the name.
cronConfigLines == tab.own \cup tab.system

\* cronExprOf: the lines that carry a schedule.
Expressions == {e \in cronConfigLines : e # Shortcut /\ Parses(e)}

Earliest(times) == IF times \subseteq {NoTime} THEN NoTime
                   ELSE Min(times \ {NoTime})
LatestOf(times) == IF times \subseteq {NoTime} THEN NoTime
                   ELSE Max(times \ {NoTime})

nextRun(t) == Earliest({next(parseCronSchedule(e), t) : e \in Expressions})
lastRun(t) == LatestOf({prev(parseCronSchedule(e), t) : e \in Expressions})

\* A count of observations instead of runs.
cronTriggeredEach(last) == IF cronSeen = NoTime THEN 1 ELSE cronCount + 1

\* cronTriggeredCount: 1 when first seen, one more when the last run moved on.
cronTriggeredCount(last) ==
  IF cronSeen = NoTime THEN 1
  ELSE IF last > cronSeen THEN cronCount + 1 ELSE cronCount

probeCron ==
  LET last  == lastRun(clock)
      count == IF last = NoTime THEN 0 ELSE cronTriggeredCount(last)
  IN  /\ cronRep' = [at |-> clock, active |-> Expressions # {},
                     found |-> cronConfigLines # {}, next |-> nextRun(clock),
                     last |-> last, triggered |-> count]
      /\ IF last = NoTime
         THEN UNCHANGED <<cronSeen, cronCount, seed>>
         ELSE /\ cronSeen' = last
              /\ cronCount' = count
              /\ seed' = IF cronSeen = NoTime THEN last ELSE seed
      /\ since' = 0
      /\ steady' = (cronSeen = NoTime \/ steady)
      /\ UNCHANGED <<clock, services, tab, svcVars>>

----------------------------------------------------------------------------
(* The other services. *)

\* findProcessByComm: of the processes that match, the one started last.
Matching(s) == {p \in Namesakes[s] : run[p] = "up"}
findProcessByComm(s) ==
  CHOOSE p \in Matching(s) : \A q \in Matching(s) : runNo[q] <= runNo[p]

\* A cache keyed by the registered name alone.
KeyByName(s) == <<s, 0>>

\* A unit's samples are filed under its name, a process's under its pid.
Key(s) == IF Kind[s] = "process" THEN <<None, runNo[s]>> ELSE <<s, 0>>

\* cpuRateFor: the rate since the previous sample, -1 when there is none or
\* the counter has gone back.
RateOf(key, ns) ==
  IF key \notin DOMAIN cpuNSCache THEN -1
  ELSE IF ns < cpuNSCache[key] THEN -1
  ELSE ns - cpuNSCache[key]

\* A cache that grows with every process id ever seen.
RememberAll(key, ns) ==
  cpuNSCache' = [k \in DOMAIN cpuNSCache \cup {key} |->
                   IF k = key THEN ns ELSE cpuNSCache[k]]

\* ... and the cache afterwards: over its limit it loses some other entry.
Remember(key, ns) ==
  LET full == [k \in DOMAIN cpuNSCache \cup {key} |->
                 IF k = key THEN ns ELSE cpuNSCache[k]]
  IN  IF Cardinality(DOMAIN full) <= maxCacheEntries
      THEN cpuNSCache' = full
      ELSE \E k \in DOMAIN full \ {key} :
             cpuNSCache' = Restrict(full, DOMAIN full \ {k})

Metric(active, found, rate) == [active |-> active, found |-> found, rate |-> rate]
NotFound == Metric(FALSE, FALSE, 0)

\* The probes that keep nothing, each as the metrics it may report now.  A
\* container's CPU usage is measured by its manager and not told apart here.
Running(s) == Metric(run[s] = "up", TRUE, 0)

probeDockerContainer(s) == {IF run[s] = "gone" THEN NotFound ELSE Running(s)}
probePodmanContainer(s) == {IF run[s] = "gone" THEN NotFound ELSE Running(s)}
probeKVM(s)             == {IF run[s] = "gone" THEN NotFound ELSE Running(s)}

\* Only a line "State: RUNNING" makes a container active; lxc-info is asked for
\* values without their labels (-H).
probeLXC(s) == IF run[s] = "gone" THEN {NotFound} ELSE {Running(s), Metric(FALSE, TRUE, 0)}

\* systemctl show also succeeds for a timer that does not exist.
probeSystemdTimer(s) == {Running(s)}

Reports(s) ==
  {NotFound}      \* the tool is missing or fails
    \cup CASE Kind[s] = "docker" -> probeDockerContainer(s)
           [] Kind[s] = "podman" -> probePodmanContainer(s)
           [] Kind[s] = "kvm"    -> probeKVM(s)
           [] Kind[s] = "lxc"    -> probeLXC(s)
           [] Kind[s] = "systemd-timer" -> probeSystemdTimer(s)
           [] Kind[s] = "systemd" -> {Metric(run[s] = "up", run[s] # "gone", 0)}
           [] Kind[s] = "process" -> {}

Report(s, metric) == rep' = [rep EXCEPT ![s] = metric]

ProbeState(s) ==
  /\ Kind[s] = "process" => Matching(s) = {}
  /\ \E metric \in Reports(s) : Report(s, metric)
  /\ UNCHANGED <<clock, services, cronVars, run, runNo, cpu, pids, cpuNSCache, sample>>

\* A probe that takes a CPU sample of p: a unit with accounting, or a process.
Sampled(s, p) ==
  /\ Remember(Key(p), cpu[p])
  /\ Report(s, Metric(run[p] = "up", TRUE, RateOf(Key(p), cpu[p])))
  /\ sample' = [sample EXCEPT ![p] = [run |-> runNo[p], ns |-> cpu[p]]]
  /\ UNCHANGED <<clock, services, cronVars, run, runNo, cpu, pids>>

probeService(s) == Kind[s] = "systemd" /\ run[s] # "gone" /\ Sampled(s, s)

probeProcess(s) ==
  /\ Kind[s] = "process" /\ Matching(s) # {}
  /\ Sampled(s, findProcessByComm(s))

\* A process that is found and exits before /proc/<pid>/stat is read: still
\* reported active, without a rate.
ProbeVanished(s) ==
  /\ Kind[s] = "process" /\ Matching(s) # {}
  /\ Report(s, Metric(TRUE, TRUE, -1))
  /\ run' = [run EXCEPT ![findProcessByComm(s)] = "down"]
  /\ UNCHANGED <<clock, services, cronVars, runNo, cpu, pids, cpuNSCache, sample>>

----------------------------------------------------------------------------
(* Time passes; services run, stop, start again and are removed. *)

\* The time is read for cron entries only.
Tick ==
  /\ Cron \in services /\ clock < MaxClock
  /\ clock' = clock + 1
  /\ since' = since + 1
  /\ steady' = (steady /\ since < 2)
  /\ UNCHANGED <<services, tab, cronSeen, cronCount, cronRep, seed, svcVars>>

Use(s) ==
  /\ run[s] = "up" /\ cpu[s] < MaxCPU
  /\ cpu' = [cpu EXCEPT ![s] = @ + 1]
  /\ UNCHANGED <<clock, services, cronVars, run, runNo, pids, cpuNSCache, rep, sample>>

Leave(s) ==
  /\ run[s] # "gone"
  /\ run' = [run EXCEPT ![s] = IF @ = "up" THEN "down" ELSE "gone"]
  /\ UNCHANGED <<clock, services, cronVars, runNo, cpu, pids, cpuNSCache, rep, sample>>

Launch(s) ==
  /\ run[s] # "up" /\ pids < MaxRuns
  /\ run' = [run EXCEPT ![s] = "up"]
  /\ pids' = pids + 1
  /\ runNo' = [runNo EXCEPT ![s] = pids + 1]
  /\ cpu' = [cpu EXCEPT ![s] = 0]
  /\ UNCHANGED <<clock, services, cronVars, cpuNSCache, rep, sample>>

\* collectServiceMetrics probes whatever is registered, in turn.
Next ==
  \/ Tick
  \/ Cron \in services /\ probeCron
  \/ \E s \in Svcs \cap services :
       \/ ProbeState(s) \/ probeService(s) \/ probeProcess(s) \/ ProbeVanished(s)
       \/ Use(s) \/ Leave(s) \/ Launch(s)

Spec == Init /\ [][Next]_vars

----------------------------------------------------------------------------
(* Reference: when an entry fires, as crontab(5) reads its lines. *)

Named(field, v, min, max) ==
  \/ field.star
  \/ \E t \in field.toks : IF t.star THEN v \in min..max /\ (v - min) % t.step = 0
                           ELSE v \in t.lo..t.hi /\ (v - t.lo) % t.step = 0

\* "0-7 (0 or 7 is Sunday)": the last number of a weekday field names the first day.
AlsoSunday(field) ==
  \E t \in field.toks : /\ ~t.star /\ DaysPerWeek \in t.lo..t.hi
                        /\ (DaysPerWeek - t.lo) % t.step = 0

\* A day field restricts the day unless it contains a star, alone or as */n: "if
\* both fields are restricted (i.e., do not contain the * character), the command
\* will be run when either field matches".
Restricted(field) == ~field.star /\ \A t \in field.toks : ~t.star

Fires(e, m) ==
  LET dom == Named(e[3], DomOf(m), 1, DaysPerMonth)
      dow == \/ Named(e[5], Weekday(m), 0, DaysPerWeek - 1)
             \/ Weekday(m) = 0 /\ AlsoSunday(e[5])
  IN  /\ Named(e[1], Minute(m), 0, MinutesPerHour - 1)
      /\ Named(e[2], Hour(m), 0, HoursPerDay - 1)
      /\ Named(e[4], MonthOf(m), 1, MonthsPerYear)
      /\ IF Restricted(e[3]) /\ Restricted(e[5]) THEN dom \/ dow ELSE dom /\ dow

Lowest == <<0, 0, 1, 1, 0>>
Highest == <<MinutesPerHour - 1, HoursPerDay - 1, DaysPerMonth, MonthsPerYear, DaysPerWeek>>

\* The lines cron takes: a line that names a number outside its field is refused.
Valid(e) ==
  \A i \in 1..5 :
    /\ e[i].star \/ e[i].toks # {}
    /\ \A t \in e[i].toks :
         /\ t.step > 0
         /\ t.star \/ (Lowest[i] <= t.lo /\ t.lo <= t.hi /\ t.hi <= Highest[i])

FiringsIn(from, to) ==
  {m \in from..to : \E e \in cronConfigLines \ {Shortcut} : Valid(e) /\ Fires(e, m)}

\* Where the agent reads a line as cron does: it does not know weekday 7, tells
\* only a single star from a restriction when the other day field is one, and
\* takes numbers cron refuses.
Alike(e) ==
  /\ Parses(e) => Valid(e)
  /\ ~AlsoSunday(e[5])
  /\ e[3].star \/ e[5].star \/ (Restricted(e[3]) /\ Restricted(e[5]))

ReadAlike == \A e \in cronConfigLines \ {Shortcut} : Alike(e)

TypeOK ==
  /\ clock \in 0..MaxClock
  /\ cronSeen \in Int \cup {NoTime} /\ cronCount \in Nat
  /\ run \in [Svcs -> {"up", "down", "gone"}]
  /\ \A s \in Svcs : rep[s].rate \in -1..MaxCPU
  /\ Cardinality(DOMAIN cpuNSCache) <= maxCacheEntries

\* For lines that mean the same to cron and to the agent, the reported next run
\* is the first minute after the current one in which cron runs some line of the
\* entry, and the last run the latest before the current one; none is reported
\* only if there is none within the search (cron_schedule.go:168, :193, :206;
\* service_extra_probes.go:284).
CronExact ==
  [][ReadAlike /\ cronRep' # cronRep =>
       LET m      == Truncate(clock)
           ahead  == FiringsIn(m + 1, m + cronSearchCap)
           behind == FiringsIn(m - cronSearchCap, m - 1)
       IN  /\ cronRep'.next = IF ahead = {} THEN NoTime ELSE Min(ahead)
           /\ cronRep'.last = IF behind = {} THEN NoTime ELSE Max(behind)]_vars

\* The run count never exceeds the runs there were since the entry was first
\* seen, and is exact as long as the entry is probed once a minute
\* (service_extra_probes.go:381: two ticks per minute, one count per change).
TriggeredExact ==
  ReadAlike /\ cronSeen # NoTime =>
    LET runs == 1 + Cardinality(FiringsIn(seed + 1, cronSeen))
    IN  cronCount <= runs /\ (steady => cronCount = runs)

\* A reported CPU rate comes from the two latest samples of one and the same
\* subject, whatever was restarted, removed or evicted from the cache meanwhile
\* and whichever registered names found the same process: for a process both
\* are of the same pid (telemetry.go:613, service_extra_probes.go:88).
RateSound ==
  [][\A s \in Svcs :
       rep'[s] # rep[s] /\ rep'[s].rate > 0 =>
         LET p == IF Kind[s] = "process" THEN findProcessByComm(s) ELSE s
         IN  /\ rep'[s].rate = cpu[p] - sample[p].ns
             /\ Kind[s] = "process" => sample[p].run = runNo[p]]_vars
=============================================================================
