------------------------ MODULE ServiceProbesProofs ------------------------
(***************************************************************************)
(* What is proved of ServiceProbes for every set of services and every     *)
(* size of the cache: a reported CPU rate is made from two samples of the  *)
(* same subject, and the cache keeps its bound; and for every calendar,    *)
(* every set of lines and every search window: the cron searches find the  *)
(* next and the last run, and the runs of an entry are counted once each.  *)
(***************************************************************************)
EXTENDS ServiceProbes, FiniteSetTheorems, WellFoundedInduction, TLAPS

----------------------------------------------------------------------------
(* Least and greatest numbers. *)

\* A set of integers with a lower bound has a least one.
LEMMA LeastNumber ==
  ASSUME NEW n \in Int, NEW S \in SUBSET Int, S # {}, \A x \in S : n <= x
  PROVE  \E x \in S : \A y \in S : x <= y
<1> DEFINE T == {x - n : x \in S}
           Less == OpToRel(<, Nat)
<1>1. IsWellFoundedOn(Less, Nat)
  BY NatLessThanWellFounded
<1>2. T \subseteq Nat /\ T # {}
  <2>1. ASSUME NEW x \in S PROVE x - n \in Nat
    BY <2>1
  <2>2. T \subseteq Nat
    BY <2>1
  <2>3. PICK x \in S : TRUE
    OBVIOUS
  <2>4. x - n \in T
    OBVIOUS
  <2> QED
    BY <2>2, <2>4
<1>3. \E x \in T : \A y \in T : ~(<<y, x>> \in Less)
  <2> HIDE DEF T, Less
  <2> QED
    BY <1>1, <1>2, WFMin
<1>4. PICK t \in T : \A y \in T : ~(<<y, t>> \in Less)
  BY <1>3
<1>5. \A y \in T : t <= y
  <2> TAKE y \in T
  <2>1. t \in Nat /\ y \in Nat
    BY <1>2
  <2>2. <<y, t>> \notin Less
    BY <1>4
  <2>3. ~(y < t)
    BY <2>1, <2>2 DEF OpToRel
  <2> QED
    BY <2>1, <2>3
<1>6. PICK x \in S : t = x - n
  OBVIOUS
<1>7. ASSUME NEW y \in S PROVE x <= y
  <2>1. y - n \in T
    BY <1>7
  <2>2. x - n <= y - n
    BY <1>5, <1>6, <2>1
  <2>3. x \in Int /\ y \in Int
    BY <1>7
  <2> QED
    BY <2>2, <2>3
<1> QED
  BY <1>7

\* ... and one with an upper bound a greatest.
LEMMA GreatestNumber ==
  ASSUME NEW n \in Int, NEW S \in SUBSET Int, S # {}, \A x \in S : x <= n
  PROVE  \E x \in S : \A y \in S : y <= x
<1> DEFINE T == {0 - x : x \in S}
<1>1. \A x \in S : 0 - x \in Int /\ 0 - n <= 0 - x
  OBVIOUS
<1>2. T \subseteq Int /\ 0 - n \in Int /\ \A t \in T : 0 - n <= t
  BY <1>1
<1>3. T # {}
  OBVIOUS
<1>4. PICK t \in T : \A u \in T : t <= u
  <2> HIDE DEF T
  <2> QED
    BY <1>2, <1>3, LeastNumber
<1>5. PICK x \in S : t = 0 - x
  OBVIOUS
<1>6. ASSUME NEW y \in S PROVE y <= x
  <2>1. 0 - y \in T
    BY <1>6
  <2>2. 0 - x <= 0 - y
    BY <1>4, <1>5, <2>1
  <2>3. x \in Int /\ y \in Int
    BY <1>6
  <2> QED
    BY <2>2, <2>3
<1> QED
  BY <1>6

\* Min and Max are what their names say where there is such a number.
LEMMA MinIsLeast ==
  ASSUME NEW S \in SUBSET Int, NEW x \in S, \A y \in S : x <= y
  PROVE  Min(S) = x
<1> DEFINE z == CHOOSE u \in S : \A y \in S : u <= y
<1>1. z \in S /\ \A y \in S : z <= y
  OBVIOUS
<1>2. Min(S) = z
  BY DEF Min
<1> HIDE DEF z
<1>3. z <= x /\ x <= z /\ z \in Int /\ x \in Int
  BY <1>1
<1> QED
  BY <1>2, <1>3

\* The same for Max.
LEMMA MaxIsGreatest ==
  ASSUME NEW S \in SUBSET Int, NEW x \in S, \A y \in S : y <= x
  PROVE  Max(S) = x
<1> DEFINE z == CHOOSE u \in S : \A y \in S : u >= y
<1>1. z \in S /\ \A y \in S : z >= y
  <2>1. \A y \in S : x >= y
    OBVIOUS
  <2> QED
    BY <2>1
<1>2. Max(S) = z
  BY DEF Max
<1> HIDE DEF z
<1>3. z <= x /\ x <= z /\ z \in Int /\ x \in Int
  BY <1>1
<1> QED
  BY <1>2, <1>3

----------------------------------------------------------------------------
(* CPU rates. *)

\* Types of what a CPU rate is made from, and of the pids given out.
TypeInv ==
  /\ run \in [Svcs -> {"up", "down", "gone"}]
  /\ runNo \in [Svcs -> Nat] /\ cpu \in [Svcs -> 0..MaxCPU] /\ pids \in Nat
  /\ rep \in [Svcs -> [active : BOOLEAN, found : BOOLEAN, rate : -1..MaxCPU]]
  /\ sample \in [Svcs -> [run : Nat, ns : Nat]]
  /\ \A k \in DOMAIN cpuNSCache : cpuNSCache[k] \in Nat
  /\ cpuNSCache = [k \in DOMAIN cpuNSCache |-> cpuNSCache[k]]

\* A pid names one run of one process, and one that has been given out.
PidInv ==
  /\ \A s \in Svcs : runNo[s] <= pids /\ (run[s] = "up" => runNo[s] # 0)
  /\ \A s, t \in Svcs : runNo[s] # 0 /\ runNo[s] = runNo[t] => s = t
  /\ \A n : <<None, n>> \in DOMAIN cpuNSCache => n \in 1..pids

\* What is filed under a subject is its latest sample; a process's is of its
\* current run.
CacheInv ==
  \A p \in Svcs : Key(p) \in DOMAIN cpuNSCache =>
    /\ cpuNSCache[Key(p)] = sample[p].ns
    /\ Kind[p] = "process" => sample[p].run = runNo[p]

\* The cache never holds more than maxCacheEntries samples.
CacheBounded ==
  IsFiniteSet(DOMAIN cpuNSCache) /\ Cardinality(DOMAIN cpuNSCache) <= maxCacheEntries

ProbeInv == TypeInv /\ PidInv /\ CacheInv

\* findProcessByComm returns a process that matches.
LEMMA FoundMatches ==
  ASSUME TypeInv, PidInv, NEW s \in Svcs, Matching(s) # {}
  PROVE  findProcessByComm(s) \in Matching(s)
<1> DEFINE N == {runNo[p] : p \in Matching(s)}
<1>1. Matching(s) \subseteq Svcs
  BY NamesakesAssumption DEF Matching
<1>2. N \subseteq Int /\ N # {} /\ pids \in Int /\ \A x \in N : x <= pids
  BY <1>1 DEF TypeInv, PidInv
<1>3. PICK x \in N : \A y \in N : y <= x
  <2> HIDE DEF N
  <2> QED
    BY <1>2, GreatestNumber
<1>4. PICK p \in Matching(s) : x = runNo[p]
  OBVIOUS
<1>5. \A q \in Matching(s) : runNo[q] <= runNo[p]
  BY <1>3, <1>4
<1> QED
  BY <1>4, <1>5 DEF findProcessByComm

\* A process that is found is up, and under a pid of its own.
LEMMA FoundProcess ==
  ASSUME TypeInv, PidInv, NEW s \in Svcs, Kind[s] = "process", Matching(s) # {}
  PROVE  LET p == findProcessByComm(s)
         IN  p \in Svcs /\ Kind[p] = "process" /\ run[p] = "up" /\ runNo[p] \in 1..pids
<1> DEFINE p == findProcessByComm(s)
<1>1. p \in Matching(s)
  BY FoundMatches
<1> HIDE DEF p
<1>2. p \in Svcs /\ Kind[p] = "process" /\ run[p] = "up"
  BY <1>1, NamesakesAssumption DEF Matching
<1>3. runNo[p] \in 1..pids
  BY <1>2 DEF TypeInv, PidInv
<1> QED
  BY <1>2, <1>3 DEF p

\* What a sample leaves in the cache: itself, and what was there but for one.
LEMMA Remembered ==
  ASSUME NEW key, NEW ns, Remember(key, ns)
  PROVE  /\ DOMAIN cpuNSCache' \subseteq DOMAIN cpuNSCache \cup {key}
         /\ \A k \in DOMAIN cpuNSCache' : cpuNSCache'[k] = IF k = key THEN ns ELSE cpuNSCache[k]
         /\ cpuNSCache' = [k \in DOMAIN cpuNSCache' |-> cpuNSCache'[k]]
<1> DEFINE full == [k \in DOMAIN cpuNSCache \cup {key} |-> IF k = key THEN ns ELSE cpuNSCache[k]]
<1>1. CASE cpuNSCache' = full
  BY <1>1
<1>2. ASSUME NEW k \in DOMAIN full \ {key}, cpuNSCache' = Restrict(full, DOMAIN full \ {k})
      PROVE  /\ DOMAIN cpuNSCache' \subseteq DOMAIN full
             /\ \A j \in DOMAIN cpuNSCache' : cpuNSCache'[j] = full[j]
             /\ cpuNSCache' = [j \in DOMAIN cpuNSCache' |-> cpuNSCache'[j]]
  BY <1>2 DEF Restrict
<1>3. CASE \E k \in DOMAIN full \ {key} : cpuNSCache' = Restrict(full, DOMAIN full \ {k})
  BY <1>2, <1>3
<1> QED
  BY <1>1, <1>3 DEF Remember

\* The cache keeps its bound.
LEMMA RememberedBounded ==
  ASSUME NEW key, NEW ns, Remember(key, ns), CacheBounded
  PROVE  CacheBounded'
<1> DEFINE D == DOMAIN cpuNSCache
           full == [k \in D \cup {key} |-> IF k = key THEN ns ELSE cpuNSCache[k]]
<1>1. /\ IsFiniteSet(D) /\ Cardinality(D) \in Nat /\ Cardinality(D) <= maxCacheEntries
      /\ maxCacheEntries \in Nat
  BY FS_CardinalityType, BoundsAssumption DEF CacheBounded
<1>2. /\ IsFiniteSet(D \cup {key}) /\ Cardinality(D \cup {key}) <= Cardinality(D) + 1
      /\ Cardinality(D \cup {key}) \in Nat
  BY <1>1, FS_AddElement
<1>3. DOMAIN full = D \cup {key}
  OBVIOUS
<1>4. CASE cpuNSCache' = full /\ Cardinality(DOMAIN full) <= maxCacheEntries
  BY <1>2, <1>3, <1>4 DEF CacheBounded
<1>5. CASE \E k \in DOMAIN full \ {key} : cpuNSCache' = Restrict(full, DOMAIN full \ {k})
  <2>1. PICK k \in (D \cup {key}) \ {key} : DOMAIN cpuNSCache' = (D \cup {key}) \ {k}
    BY <1>5 DEF Restrict
  <2> DEFINE E == D \cup {key}
  <2> HIDE DEF E
  <2>2. IsFiniteSet(E) /\ k \in E /\ Cardinality(E) <= Cardinality(D) + 1 /\ Cardinality(E) \in Nat
    BY <1>2, <2>1 DEF E
  <2>3. IsFiniteSet(E \ {k}) /\ Cardinality(E \ {k}) = Cardinality(E) - 1
    BY <2>2, FS_RemoveElement
  <2>4. Cardinality(E \ {k}) <= maxCacheEntries
    BY <1>1, <2>2, <2>3
  <2> QED
    BY <2>1, <2>3, <2>4 DEF CacheBounded, E
<1> HIDE DEF full
<1> QED
  BY <1>4, <1>5 DEF Remember, full

----------------------------------------------------------------------------
(* The inductive invariant, action by action. *)

\* The agent starts with an empty cache and no run of any process.
LEMMA ProbeInit == Init => ProbeInv
<1> SUFFICES ASSUME Init PROVE ProbeInv
  OBVIOUS
<1>1. DOMAIN cpuNSCache = {}
  BY DEF Init
<1>2. TypeInv
  <2>1. /\ run \in [Svcs -> {"up", "down", "gone"}] /\ runNo \in [Svcs -> Nat]
        /\ sample \in [Svcs -> [run : Nat, ns : Nat]] /\ pids \in Nat
    BY DEF Init
  <2>2. cpu \in [Svcs -> 0..MaxCPU] /\ -1..MaxCPU \subseteq Int /\ 0 \in -1..MaxCPU
    BY BoundsAssumption DEF Init
  <2>3. rep \in [Svcs -> [active : BOOLEAN, found : BOOLEAN, rate : -1..MaxCPU]]
    BY <2>2 DEF Init
  <2>4. cpuNSCache = [k \in DOMAIN cpuNSCache |-> cpuNSCache[k]]
    BY DEF Init
  <2> QED
    BY <1>1, <2>1, <2>2, <2>3, <2>4 DEF TypeInv
<1>3. PidInv
  BY <1>1 DEF Init, PidInv
<1>4. CacheInv
  BY <1>1 DEF CacheInv
<1> QED
  BY <1>2, <1>3, <1>4 DEF ProbeInv

\* A subject that has been sampled shares its key with no other.
LEMMA OneKey ==
  ASSUME TypeInv, PidInv, NEW p \in Svcs, NEW q \in Svcs, Key(p) = Key(q),
         Kind[p] = "process" => runNo[p] # 0
  PROVE  p = q
<1>1. CASE Kind[p] = "process" /\ Kind[q] = "process"
  BY <1>1 DEF Key, PidInv
<1>2. CASE Kind[p] = "process" /\ Kind[q] # "process"
  <2>1. q = None
    BY <1>2 DEF Key
  <2> QED
    BY <2>1, KindAssumption
<1>3. CASE Kind[p] # "process" /\ Kind[q] = "process"
  <2>1. p = None
    BY <1>3 DEF Key
  <2> QED
    BY <2>1, KindAssumption
<1>4. CASE Kind[p] # "process" /\ Kind[q] # "process"
  BY <1>4 DEF Key
<1> QED
  BY <1>1, <1>2, <1>3, <1>4

\* The rate of a subject is made from its previous sample.
LEMMA RateFrom ==
  ASSUME ProbeInv, NEW p \in Svcs
  PROVE  /\ RateOf(Key(p), cpu[p]) \in -1..MaxCPU
         /\ RateOf(Key(p), cpu[p]) > 0 =>
              /\ RateOf(Key(p), cpu[p]) = cpu[p] - sample[p].ns
              /\ Kind[p] = "process" => sample[p].run = runNo[p]
<1> DEFINE key == Key(p)
<1>1. cpu[p] \in 0..MaxCPU /\ MaxCPU \in Nat
  BY BoundsAssumption DEF ProbeInv, TypeInv
<1>2. CASE key \notin DOMAIN cpuNSCache
  BY <1>1, <1>2 DEF RateOf
<1>3. CASE key \in DOMAIN cpuNSCache
  <2>1. cpuNSCache[key] \in Nat
    BY <1>3 DEF ProbeInv, TypeInv
  <2>2. /\ cpuNSCache[key] = sample[p].ns
        /\ Kind[p] = "process" => sample[p].run = runNo[p]
    BY <1>3 DEF ProbeInv, CacheInv
  <2> HIDE DEF key
  <2>3. RateOf(key, cpu[p]) = IF cpu[p] < cpuNSCache[key] THEN -1 ELSE cpu[p] - cpuNSCache[key]
    BY <1>3 DEF RateOf
  <2>4. RateOf(key, cpu[p]) \in -1..MaxCPU
    BY <1>1, <2>1, <2>3
  <2>5. RateOf(key, cpu[p]) > 0 => RateOf(key, cpu[p]) = cpu[p] - sample[p].ns
    BY <1>1, <2>1, <2>2, <2>3
  <2> QED
    BY <2>2, <2>4, <2>5 DEF key
<1> QED
  BY <1>2, <1>3

\* A probe that takes a sample of p keeps the invariant.
LEMMA SampledStep ==
  ASSUME ProbeInv, NEW s \in Svcs, NEW p \in Svcs, Sampled(s, p),
         Kind[p] = "process" => runNo[p] \in 1..pids
  PROVE  ProbeInv'
<1>1. TypeInv /\ PidInv /\ CacheInv
  BY DEF ProbeInv
<1>2. /\ UNCHANGED <<run, runNo, cpu, pids>>
      /\ sample' = [sample EXCEPT ![p] = [run |-> runNo[p], ns |-> cpu[p]]]
      /\ rep' = [rep EXCEPT ![s] = Metric(run[p] = "up", TRUE, RateOf(Key(p), cpu[p]))]
      /\ Remember(Key(p), cpu[p])
  BY DEF Sampled, Report
<1>3. /\ DOMAIN cpuNSCache' \subseteq DOMAIN cpuNSCache \cup {Key(p)}
      /\ \A k \in DOMAIN cpuNSCache' : cpuNSCache'[k] = IF k = Key(p) THEN cpu[p] ELSE cpuNSCache[k]
      /\ cpuNSCache' = [k \in DOMAIN cpuNSCache' |-> cpuNSCache'[k]]
  BY <1>2, Remembered
<1>4. runNo[p] \in Nat /\ cpu[p] \in 0..MaxCPU /\ cpu[p] \in Nat
  BY <1>1, BoundsAssumption DEF TypeInv
<1>5. TypeInv'
  <2>1. /\ run' \in [Svcs -> {"up", "down", "gone"}] /\ runNo' \in [Svcs -> Nat]
        /\ cpu' \in [Svcs -> 0..MaxCPU] /\ pids' \in Nat
    BY <1>1, <1>2 DEF TypeInv
  <2>2. Metric(run[p] = "up", TRUE, RateOf(Key(p), cpu[p]))
          \in [active : BOOLEAN, found : BOOLEAN, rate : -1..MaxCPU]
    BY RateFrom DEF Metric
  <2>3. rep' \in [Svcs -> [active : BOOLEAN, found : BOOLEAN, rate : -1..MaxCPU]]
    BY <1>1, <1>2, <2>2 DEF TypeInv
  <2>4. sample' \in [Svcs -> [run : Nat, ns : Nat]]
    BY <1>1, <1>2, <1>4 DEF TypeInv
  <2>5. \A k \in DOMAIN cpuNSCache' : cpuNSCache'[k] \in Nat
    <3> TAKE k \in DOMAIN cpuNSCache'
    <3>1. k # Key(p) => k \in DOMAIN cpuNSCache
      BY <1>3
    <3> QED
      BY <1>1, <1>3, <1>4, <3>1 DEF TypeInv
  <2> QED
    BY <1>3, <2>1, <2>3, <2>4, <2>5 DEF TypeInv
<1>6. PidInv'
  <2>1. \A n : <<None, n>> \in (DOMAIN cpuNSCache)' => n \in 1..pids'
    <3> TAKE n
    <3>1. CASE <<None, n>> \in DOMAIN cpuNSCache
      BY <1>1, <1>2, <3>1 DEF PidInv
    <3>2. CASE <<None, n>> = Key(p)
      BY <1>2, <3>2, KindAssumption DEF Key
    <3> QED
      BY <1>3, <3>1, <3>2
  <2> QED
    BY <1>1, <1>2, <2>1 DEF PidInv
<1>7. CacheInv'
  <2>1. ASSUME NEW q \in Svcs, Key(q) \in DOMAIN cpuNSCache'
        PROVE  /\ cpuNSCache'[Key(q)] = sample'[q].ns
               /\ Kind[q] = "process" => sample'[q].run = runNo[q]
    <3>1. CASE q = p
      <4>1. sample'[p] = [run |-> runNo[p], ns |-> cpu[p]]
        BY <1>1, <1>2 DEF TypeInv
      <4>2. cpuNSCache'[Key(p)] = cpu[p]
        BY <1>3, <2>1, <3>1
      <4> QED
        BY <3>1, <4>1, <4>2
    <3>2. CASE q # p
      <4>1. Kind[p] = "process" => runNo[p] # 0
        BY <1>1 DEF TypeInv
      <4>2. Key(q) # Key(p)
        BY <1>1, <3>2, <4>1, OneKey
      <4>3. Key(q) \in DOMAIN cpuNSCache /\ cpuNSCache'[Key(q)] = cpuNSCache[Key(q)]
        BY <1>3, <2>1, <4>2
      <4>4. sample'[q] = sample[q]
        BY <1>1, <1>2, <3>2 DEF TypeInv
      <4> QED
        BY <1>1, <4>3, <4>4 DEF CacheInv
    <3> QED
      BY <3>1, <3>2
  <2>2. \A q \in Svcs : Key(q)' = Key(q)
    BY <1>2 DEF Key
  <2> QED
    BY <1>2, <2>1, <2>2 DEF CacheInv
<1> QED
  BY <1>5, <1>6, <1>7 DEF ProbeInv

\* A run that ends or is used takes no sample and gives no pid out.
LEMMA RunningStep ==
  ASSUME ProbeInv, UNCHANGED <<runNo, pids, cpuNSCache, sample>>,
         run' \in [Svcs -> {"up", "down", "gone"}],
         \A s \in Svcs : run'[s] = "up" => run[s] = "up",
         cpu' \in [Svcs -> 0..MaxCPU],
         rep' \in [Svcs -> [active : BOOLEAN, found : BOOLEAN, rate : -1..MaxCPU]]
  PROVE  ProbeInv'
<1>1. TypeInv'
  BY DEF ProbeInv, TypeInv
<1>2. PidInv'
  BY DEF ProbeInv, PidInv
<1>3. CacheInv'
  BY DEF ProbeInv, CacheInv, Key
<1> QED
  BY <1>1, <1>2, <1>3 DEF ProbeInv

\* A new run has a pid of its own, of which nothing is filed.
LEMMA LaunchStep ==
  ASSUME ProbeInv, NEW s \in Svcs, Launch(s)
  PROVE  ProbeInv'
<1>1. TypeInv /\ PidInv /\ CacheInv
  BY DEF ProbeInv
<1>2. /\ run' = [run EXCEPT ![s] = "up"] /\ pids' = pids + 1
      /\ runNo' = [runNo EXCEPT ![s] = pids + 1] /\ cpu' = [cpu EXCEPT ![s] = 0]
      /\ UNCHANGED <<cpuNSCache, rep, sample>>
  BY DEF Launch
<1>3. pids \in Nat /\ pids + 1 \in Nat /\ pids + 1 # 0 /\ 0 \in 0..MaxCPU
  BY <1>1, BoundsAssumption DEF TypeInv
<1>4. TypeInv'
  BY <1>1, <1>2, <1>3 DEF TypeInv
<1>5. /\ \A t \in Svcs : runNo'[t] = IF t = s THEN pids + 1 ELSE runNo[t]
      /\ \A t \in Svcs : t # s => run'[t] = run[t]
      /\ \A t \in Svcs : runNo[t] \in Nat
  BY <1>1, <1>2 DEF TypeInv
<1>6. PidInv'
  <2>1. ASSUME NEW t \in Svcs PROVE runNo'[t] <= pids' /\ (run'[t] = "up" => runNo'[t] # 0)
    BY <1>1, <1>2, <1>3, <1>5 DEF PidInv
  <2>2. ASSUME NEW t \in Svcs, NEW u \in Svcs, runNo'[t] # 0, runNo'[t] = runNo'[u] PROVE t = u
    <3>1. runNo[t] < pids + 1 /\ runNo[u] < pids + 1
      BY <1>1, <1>3, <1>5 DEF PidInv
    <3>2. runNo[t] # pids + 1 /\ runNo[u] # pids + 1
      BY <1>3, <1>5, <3>1
    <3>3. CASE t # s /\ u # s
      BY <1>1, <1>5, <2>2, <3>3 DEF PidInv
    <3> QED
      BY <1>5, <2>2, <3>2, <3>3
  <2>3. \A n : <<None, n>> \in DOMAIN cpuNSCache => n \in 1..pids + 1
    <3>1. \A n \in 1..pids : n \in 1..pids + 1
      BY <1>3
    <3> QED
      BY <1>1, <3>1 DEF PidInv
  <2> QED
    BY <1>2, <2>1, <2>2, <2>3 DEF PidInv
<1>7. CacheInv'
  <2>1. ASSUME NEW q \in Svcs, Key(q)' \in DOMAIN cpuNSCache
        PROVE  /\ cpuNSCache[Key(q)'] = sample[q].ns
               /\ Kind[q] = "process" => sample[q].run = runNo'[q]
    <3>1. CASE Kind[q] # "process" \/ q # s
      <4>1. Key(q)' = Key(q)
        BY <1>5, <3>1 DEF Key
      <4>2. Kind[q] = "process" => runNo'[q] = runNo[q]
        BY <1>5, <3>1
      <4> QED
        BY <1>1, <2>1, <4>1, <4>2 DEF CacheInv
    <3>2. CASE Kind[q] = "process" /\ q = s
      <4>1. <<None, pids + 1>> \in DOMAIN cpuNSCache
        BY <1>5, <2>1, <3>2 DEF Key
      <4>2. pids + 1 \in 1..pids
        BY <1>1, <4>1 DEF PidInv
      <4> QED
        BY <1>3, <4>2
    <3> QED
      BY <3>1, <3>2
  <2> QED
    BY <1>2, <2>1 DEF CacheInv
<1> QED
  BY <1>4, <1>6, <1>7 DEF ProbeInv

\* A probe that keeps nothing reports no rate.
LEMMA NoRate ==
  ASSUME NEW s \in Svcs, NEW metric \in Reports(s)
  PROVE  metric \in [active : BOOLEAN, found : BOOLEAN, rate : {0}]
<1>1. Kind[s] \in {"docker", "podman", "kvm", "lxc", "systemd-timer", "systemd", "process"}
  BY KindAssumption DEF Svcs
<1>2. \A a, f \in BOOLEAN : Metric(a, f, 0) \in [active : BOOLEAN, found : BOOLEAN, rate : {0}]
  BY DEF Metric
<1>3. (run[s] = "up") \in BOOLEAN /\ (run[s] # "gone") \in BOOLEAN
  OBVIOUS
<1>4. /\ NotFound \in [active : BOOLEAN, found : BOOLEAN, rate : {0}]
      /\ Running(s) \in [active : BOOLEAN, found : BOOLEAN, rate : {0}]
      /\ Metric(FALSE, TRUE, 0) \in [active : BOOLEAN, found : BOOLEAN, rate : {0}]
      /\ Metric(run[s] = "up", run[s] # "gone", 0) \in [active : BOOLEAN, found : BOOLEAN, rate : {0}]
  BY <1>2, <1>3 DEF NotFound, Running
<1>5. metric \in {NotFound, Running(s), Metric(FALSE, TRUE, 0), Metric(run[s] = "up", run[s] # "gone", 0)}
  BY <1>1 DEF Reports, probeDockerContainer, probePodmanContainer, probeKVM, probeLXC,
     probeSystemdTimer
<1> QED
  BY <1>4, <1>5

\* Every step keeps the invariant.
LEMMA ProbeStep == ProbeInv /\ [Next]_vars => ProbeInv'
<1> SUFFICES ASSUME ProbeInv, [Next]_vars PROVE ProbeInv'
  OBVIOUS
<1> DEFINE Metrics == [active : BOOLEAN, found : BOOLEAN, rate : -1..MaxCPU]
<1>1. /\ TypeInv /\ PidInv /\ run \in [Svcs -> {"up", "down", "gone"}]
      /\ cpu \in [Svcs -> 0..MaxCPU] /\ rep \in [Svcs -> Metrics]
  BY DEF ProbeInv, TypeInv
<1>2. ASSUME UNCHANGED svcVars PROVE ProbeInv'
  <2>1. UNCHANGED <<run, runNo, cpu, pids, cpuNSCache, rep, sample>>
    BY <1>2 DEF svcVars
  <2> QED
    BY <1>1, <2>1, RunningStep
<1>3. ASSUME Tick PROVE ProbeInv'
  BY <1>2, <1>3 DEF Tick
<1>4. ASSUME probeCron PROVE ProbeInv'
  <2>1. UNCHANGED svcVars
    BY <1>4 DEF probeCron
  <2> QED
    BY <1>2, <2>1
<1>5. ASSUME NEW s \in Svcs, ProbeState(s) PROVE ProbeInv'
  <2>1. PICK metric \in Reports(s) : rep' = [rep EXCEPT ![s] = metric]
    BY <1>5 DEF ProbeState, Report
  <2>2. UNCHANGED <<run, runNo, cpu, pids, cpuNSCache, sample>>
    BY <1>5 DEF ProbeState
  <2>3. 0 \in -1..MaxCPU
    BY BoundsAssumption
  <2>4. metric \in [active : BOOLEAN, found : BOOLEAN, rate : {0}]
    BY NoRate
  <2>5. metric \in Metrics
    BY <2>3, <2>4
  <2>6. rep' \in [Svcs -> Metrics]
    <3> HIDE DEF Metrics
    <3> QED
      BY <1>1, <2>1, <2>5
  <2> QED
    BY <1>1, <2>2, <2>6, RunningStep
<1>6. ASSUME NEW s \in Svcs, probeService(s) PROVE ProbeInv'
  <2>1. Kind[s] # "process" /\ Sampled(s, s)
    BY <1>6 DEF probeService
  <2> QED
    BY <2>1, SampledStep
<1>7. ASSUME NEW s \in Svcs, probeProcess(s) PROVE ProbeInv'
  <2> DEFINE p == findProcessByComm(s)
  <2>1. p \in Svcs /\ runNo[p] \in 1..pids
    BY <1>1, <1>7, FoundProcess DEF probeProcess
  <2>2. Sampled(s, p)
    BY <1>7 DEF probeProcess
  <2> HIDE DEF p
  <2> QED
    BY <2>1, <2>2, SampledStep
<1>8. ASSUME NEW s \in Svcs, ProbeVanished(s) PROVE ProbeInv'
  <2> DEFINE p == findProcessByComm(s)
  <2>1. /\ run' = [run EXCEPT ![p] = "down"] /\ rep' = [rep EXCEPT ![s] = Metric(TRUE, TRUE, -1)]
        /\ UNCHANGED <<runNo, cpu, pids, cpuNSCache, sample>>
    BY <1>8 DEF ProbeVanished, Report
  <2> HIDE DEF p
  <2>2. /\ run' \in [Svcs -> {"up", "down", "gone"}]
        /\ \A t \in Svcs : run'[t] = "up" => run[t] = "up"
    BY <1>1, <2>1
  <2>3. Metric(TRUE, TRUE, -1) \in Metrics
    BY BoundsAssumption DEF Metric
  <2>4. rep' \in [Svcs -> Metrics]
    <3> HIDE DEF Metrics
    <3> QED
      BY <1>1, <2>1, <2>3
  <2> QED
    BY <1>1, <2>1, <2>2, <2>4, RunningStep
<1>9. ASSUME NEW s \in Svcs, Use(s) PROVE ProbeInv'
  <2>1. /\ cpu' = [cpu EXCEPT ![s] = cpu[s] + 1] /\ cpu[s] < MaxCPU
        /\ UNCHANGED <<run, runNo, pids, cpuNSCache, rep, sample>>
    BY <1>9 DEF Use
  <2>2. cpu[s] + 1 \in 0..MaxCPU
    BY <1>1, <2>1, BoundsAssumption
  <2>3. cpu' \in [Svcs -> 0..MaxCPU]
    BY <1>1, <2>1, <2>2
  <2> QED
    BY <1>1, <2>1, <2>3, RunningStep
<1>10. ASSUME NEW s \in Svcs, Leave(s) PROVE ProbeInv'
  <2>1. /\ run' = [run EXCEPT ![s] = IF run[s] = "up" THEN "down" ELSE "gone"]
        /\ UNCHANGED <<runNo, cpu, pids, cpuNSCache, rep, sample>>
    BY <1>10 DEF Leave
  <2>2. /\ run' \in [Svcs -> {"up", "down", "gone"}]
        /\ \A t \in Svcs : run'[t] = "up" => run[t] = "up"
    BY <1>1, <2>1
  <2> QED
    BY <1>1, <2>1, <2>2, RunningStep
<1>11. ASSUME NEW s \in Svcs, Launch(s) PROVE ProbeInv'
  BY <1>11, LaunchStep
<1>12. CASE UNCHANGED vars
  BY <1>2, <1>12 DEF vars
<1> QED
  BY <1>3, <1>4, <1>5, <1>6, <1>7, <1>8, <1>9, <1>10, <1>11, <1>12 DEF Next

\* A step keeps the bound of the cache: only a sample adds to it.
LEMMA BoundedStep == CacheBounded /\ [Next]_vars => CacheBounded'
<1> SUFFICES ASSUME CacheBounded, [Next]_vars PROVE CacheBounded'
  OBVIOUS
<1>1. ASSUME UNCHANGED cpuNSCache PROVE CacheBounded'
  BY <1>1 DEF CacheBounded
<1>2. ASSUME NEW s, NEW p, Sampled(s, p) PROVE CacheBounded'
  BY <1>2, RememberedBounded DEF Sampled
<1>3. CASE Tick \/ probeCron \/ UNCHANGED vars
  <2>1. UNCHANGED cpuNSCache
    BY <1>3 DEF Tick, probeCron, vars, svcVars
  <2> QED
    BY <1>1, <2>1
<1>4. ASSUME NEW s \in Svcs, ProbeState(s) \/ ProbeVanished(s) \/ Use(s) \/ Leave(s) \/ Launch(s)
      PROVE  CacheBounded'
  <2>1. UNCHANGED cpuNSCache
    BY <1>4 DEF ProbeState, ProbeVanished, Use, Leave, Launch
  <2> QED
    BY <1>1, <2>1
<1>5. ASSUME NEW s \in Svcs, probeService(s) \/ probeProcess(s) PROVE CacheBounded'
  BY <1>2, <1>5 DEF probeService, probeProcess
<1> QED
  BY <1>3, <1>4, <1>5 DEF Next

\* A reported rate is made from the two latest samples of one subject.
LEMMA RateStep ==
  ASSUME ProbeInv, [Next]_vars, NEW s \in Svcs, rep'[s] # rep[s], rep'[s].rate > 0
  PROVE  LET p == IF Kind[s] = "process" THEN findProcessByComm(s) ELSE s
         IN  /\ rep'[s].rate = cpu[p] - sample[p].ns
             /\ Kind[s] = "process" => sample[p].run = runNo[p]
<1> DEFINE Goal(p) == /\ rep'[s].rate = cpu[p] - sample[p].ns
                      /\ Kind[s] = "process" => sample[p].run = runNo[p]
           found == IF Kind[s] = "process" THEN findProcessByComm(s) ELSE s
<1> SUFFICES Goal(found)
  OBVIOUS
<1>1. /\ TypeInv /\ PidInv /\ DOMAIN rep = Svcs
  BY DEF ProbeInv, TypeInv
<1>2. ASSUME UNCHANGED rep PROVE FALSE
  BY <1>2
<1>3. ASSUME NEW t \in Svcs, NEW metric, rep' = [rep EXCEPT ![t] = metric]
      PROVE  t = s /\ rep'[s] = metric
  BY <1>1, <1>3
<1>4. ASSUME NEW t \in Svcs, ProbeState(t) PROVE FALSE
  <2>1. PICK metric \in Reports(t) : rep' = [rep EXCEPT ![t] = metric]
    BY <1>4 DEF ProbeState, Report
  <2>2. metric.rate = 0
    BY NoRate
  <2> QED
    BY <1>3, <2>1, <2>2
<1>5. ASSUME NEW t \in Svcs, ProbeVanished(t) PROVE FALSE
  <2>1. rep' = [rep EXCEPT ![t] = Metric(TRUE, TRUE, -1)]
    BY <1>5 DEF ProbeVanished, Report
  <2>2. Metric(TRUE, TRUE, -1).rate = -1
    BY DEF Metric
  <2>3. rep'[s].rate = -1
    BY <1>3, <2>1, <2>2
  <2> QED
    BY <2>3
<1>6. ASSUME NEW t \in Svcs, NEW p \in Svcs, Sampled(t, p),
             Kind[t] = "process" => Kind[p] = "process"
      PROVE  t = s /\ Goal(p)
  <2>1. rep' = [rep EXCEPT ![t] = Metric(run[p] = "up", TRUE, RateOf(Key(p), cpu[p]))]
    BY <1>6 DEF Sampled, Report
  <2>2. t = s /\ rep'[s] = Metric(run[p] = "up", TRUE, RateOf(Key(p), cpu[p]))
    BY <1>3, <2>1
  <2>3. rep'[s].rate = RateOf(Key(p), cpu[p])
    BY <2>2 DEF Metric
  <2>4. /\ RateOf(Key(p), cpu[p]) = cpu[p] - sample[p].ns
        /\ Kind[p] = "process" => sample[p].run = runNo[p]
    BY <2>3, RateFrom
  <2> QED
    BY <1>6, <2>2, <2>3, <2>4
<1>7. ASSUME NEW t \in Svcs, probeService(t) PROVE Goal(found)
  <2>1. Kind[t] # "process" /\ Sampled(t, t)
    BY <1>7 DEF probeService
  <2>2. t = s /\ Goal(t)
    BY <1>6, <2>1
  <2>3. found = t
    BY <2>1, <2>2
  <2> QED
    BY <2>2, <2>3
<1>8. ASSUME NEW t \in Svcs, probeProcess(t) PROVE Goal(found)
  <2>1. Kind[t] = "process" /\ Matching(t) # {} /\ Sampled(t, findProcessByComm(t))
    BY <1>8 DEF probeProcess
  <2>2. findProcessByComm(t) \in Svcs /\ Kind[findProcessByComm(t)] = "process"
    BY <1>1, <2>1, FoundProcess
  <2>3. t = s /\ Goal(findProcessByComm(t))
    BY <1>6, <2>1, <2>2
  <2>4. found = findProcessByComm(t)
    BY <2>1, <2>3
  <2> QED
    BY <2>3, <2>4
<1>9. ASSUME NEW t \in Svcs, Use(t) \/ Leave(t) \/ Launch(t) PROVE FALSE
  <2>1. UNCHANGED rep
    BY <1>9 DEF Use, Leave, Launch
  <2> QED
    BY <1>2, <2>1
<1>10. CASE Tick \/ probeCron \/ UNCHANGED vars
  <2>1. UNCHANGED rep
    BY <1>10 DEF Tick, probeCron, vars, svcVars
  <2> QED
    BY <1>2, <2>1
<1> HIDE DEF Goal, found
<1> QED
  BY <1>4, <1>5, <1>7, <1>8, <1>9, <1>10 DEF Next

----------------------------------------------------------------------------
\* Whatever is sampled, restarted, removed or evicted, what the cache holds
\* under a subject is the latest sample of it, and of a process's current run
\* (cpuRateFor, telemetry.go:598).
THEOREM ProbeInvHolds == Spec => []ProbeInv
<1> QED
  BY ProbeInit, ProbeStep, PTL DEF Spec

\* The CPU cache never exceeds maxCacheEntries, however many processes come
\* and go (telemetry.go:598).
THEOREM CacheBoundedHolds == Spec => []CacheBounded
<1>1. Init => CacheBounded
  <2>1. DOMAIN <<>> = {} /\ IsFiniteSet({}) /\ Cardinality({}) = 0
    BY FS_EmptySet
  <2> QED
    BY <2>1, BoundsAssumption DEF Init, CacheBounded
<1> QED
  BY <1>1, BoundedStep, PTL DEF Spec

\* A reported CPU rate comes from the two latest samples of one and the same
\* subject; for a process both are of the same pid (telemetry.go:613,
\* service_extra_probes.go:88).
THEOREM RateSoundHolds == Spec => RateSound
<1>1. ProbeInv /\ [Next]_vars =>
        [\A s \in Svcs :
           rep'[s] # rep[s] /\ rep'[s].rate > 0 =>
             LET p == IF Kind[s] = "process" THEN findProcessByComm(s) ELSE s
             IN  /\ rep'[s].rate = cpu[p] - sample[p].ns
                 /\ Kind[s] = "process" => sample[p].run = runNo[p]]_vars
  BY RateStep
<1> QED
  BY <1>1, ProbeInvHolds, PTL DEF Spec, RateSound

----------------------------------------------------------------------------
(* Cron entries: what the searches of cron_schedule.go return. *)

\* A walk of the searches: the i-th step returns at[i] if it hits, and the n-th
\* gives up.
Walk(walk, n, H, at) ==
  walk = [i \in 0..n |-> IF i = n THEN NoTime ELSE IF i \in H THEN at[i] ELSE walk[i + 1]]

\* There is such a walk.
LEMMA WalkExists ==
  ASSUME NEW n \in Nat, NEW H, NEW at
  PROVE  \E walk : Walk(walk, n, H, at)
<1> DEFINE Rest(i) == {j \in i..n - 1 : j \in H}
           First(i) == CHOOSE j \in Rest(i) : \A k \in Rest(i) : j <= k
           W(i) == IF Rest(i) = {} THEN NoTime ELSE at[First(i)]
           walk == [i \in 0..n |-> W(i)]
<1>1. ASSUME NEW i \in 0..n
      PROVE  W(i) = IF i = n THEN NoTime ELSE IF i \in H THEN at[i] ELSE walk[i + 1]
  <2>1. CASE i = n
    <3>1. Rest(i) = {}
      BY <2>1
    <3> QED
      BY <2>1, <3>1
  <2>2. CASE i # n /\ i \in H
    <3>1. i \in Rest(i) /\ \A k \in Rest(i) : i <= k /\ k \in Int
      BY <2>2
    <3>2. First(i) \in Rest(i) /\ \A k \in Rest(i) : First(i) <= k
      <4> HIDE DEF Rest
      <4> QED
        BY <3>1
    <3>3. First(i) <= i /\ i <= First(i) /\ First(i) \in Int
      <4> HIDE DEF Rest, First
      <4> QED
        BY <3>1, <3>2
    <3>4. First(i) = i
      <4> HIDE DEF First
      <4> QED
        BY <3>3
    <3>5. Rest(i) # {}
      BY <3>1
    <3>6. W(i) = at[First(i)]
      <4> HIDE DEF Rest, First
      <4> QED
        BY <3>5
    <3> HIDE DEF W, First
    <3> QED
      BY <2>2, <3>4, <3>6
  <2>3. CASE i # n /\ i \notin H
    <3>1. i + 1 \in 0..n
      BY <2>3
    <3>2. Rest(i) = Rest(i + 1)
      <4>1. \A j : j \in i..n - 1 /\ j \in H <=> j \in i + 1..n - 1 /\ j \in H
        BY <2>3
      <4> QED
        BY <4>1
    <3>3. W(i) = W(i + 1)
      <4> HIDE DEF Rest
      <4> QED
        BY <3>2
    <3>4. walk[i + 1] = W(i + 1)
      <4> HIDE DEF W
      <4> QED
        BY <3>1
    <3> HIDE DEF W, walk
    <3> QED
      BY <2>3, <3>3, <3>4
  <2> QED
    BY <2>1, <2>2, <2>3
<1>2. Walk(walk, n, H, at)
  <2> HIDE DEF W
  <2>1. walk = [i \in 0..n |-> IF i = n THEN NoTime ELSE IF i \in H THEN at[i] ELSE walk[i + 1]]
    BY <1>1
  <2> QED
    BY <2>1 DEF Walk
<1> QED
  BY <1>2

\* A walk ends at its first hit, or gives up when there is none.
LEMMA WalkEnds ==
  ASSUME NEW n \in Nat, NEW H, NEW at, NEW walk, Walk(walk, n, H, at)
  PROVE  \/ walk[0] = NoTime /\ \A j \in 0..n - 1 : j \notin H
         \/ \E i \in 0..n - 1 : /\ i \in H /\ walk[0] = at[i]
                                /\ \A j \in 0..i - 1 : j \notin H
<1> DEFINE Stops == {i \in 0..n : i = n \/ i \in H}
<1>1. PICK stop \in Stops : \A i \in Stops : stop <= i
  <2>1. Stops \subseteq Int /\ n \in Stops /\ \A i \in Stops : 0 <= i
    OBVIOUS
  <2> HIDE DEF Stops
  <2> QED
    BY <2>1, LeastNumber
<1>2. stop \in 0..n /\ \A j \in 0..stop - 1 : j \notin H
  <2>1. ASSUME NEW j \in 0..stop - 1, j \in H PROVE FALSE
    <3>1. j \in Stops /\ j < stop
      BY <2>1
    <3> QED
      BY <1>1, <3>1
  <2> QED
    BY <2>1
\* Every earlier step of the walk goes on to the next one.
<1> DEFINE Missed == {i \in 0..stop : walk[i] # walk[stop]}
<1>3. Missed = {}
  <2> SUFFICES ASSUME Missed # {} PROVE FALSE
    OBVIOUS
  <2>1. stop \in Int /\ Missed \subseteq Int /\ \A i \in Missed : i <= stop
    BY <1>2
  <2>2. PICK i \in Missed : \A j \in Missed : j <= i
    <3> HIDE DEF Missed
    <3> QED
      BY <2>1, GreatestNumber
  <2>3. i \in 0..stop /\ i # stop /\ walk[i] # walk[stop]
    BY <2>2
  <2>4. i \in 0..n /\ i # n /\ i \notin H
    BY <1>2, <2>3
  <2>5. walk[i] = walk[i + 1]
    BY <2>4 DEF Walk
  <2>6. i + 1 \in Missed
    BY <1>2, <2>3, <2>5
  <2>7. i + 1 <= i /\ i \in Int
    BY <2>2, <2>6
  <2> QED
    BY <2>7
<1>4. walk[0] = walk[stop]
  BY <1>2, <1>3
<1>5. walk[stop] = IF stop = n THEN NoTime ELSE at[stop]
  BY <1>1, <1>2 DEF Walk
<1>6. CASE stop = n
  BY <1>2, <1>4, <1>5, <1>6
<1>7. CASE stop # n
  <2>1. stop \in 0..n - 1 /\ stop \in H
    BY <1>1, <1>2, <1>7
  <2> QED
    BY <1>2, <1>4, <1>5, <1>7, <2>1
<1> QED
  BY <1>6, <1>7

\* next returns the first minute that matches, of cronSearchCap.
LEMMA NextFound ==
  ASSUME NEW s, NEW t \in Int
  PROVE  LET H == {m \in Truncate(t) + 1..Truncate(t) + cronSearchCap : matches(s, m)}
         IN  next(s, t) = IF H = {} THEN NoTime ELSE Min(H)
<1> DEFINE n == cronSearchCap
           start == Truncate(t) + 1
           Hits == {i \in 0..n - 1 : matches(s, start + i)}
           at == [i \in 0..n |-> start + i]
           H == {m \in Truncate(t) + 1..Truncate(t) + n : matches(s, m)}
           walk == CHOOSE walk : walk = [i \in 0..cronSearchCap |->
                     IF i = cronSearchCap THEN NoTime
                     ELSE IF matches(s, start + i) THEN start + i ELSE walk[i + 1]]
<1>0. n \in Nat /\ start \in Int
  BY CalendarAssumption DEF Truncate
<1>1. next(s, t) = walk[0]
  BY DEF next
<1>2. PICK w : Walk(w, n, Hits, at)
  <2> HIDE DEF Hits, at, n
  <2> QED
    BY <1>0, WalkExists
<1>3. ASSUME NEW u
      PROVE  (u = [i \in 0..n |-> IF i = n THEN NoTime
                     ELSE IF matches(s, start + i) THEN start + i ELSE u[i + 1]])
               <=> Walk(u, n, Hits, at)
  <2>1. ASSUME NEW i \in 0..n
        PROVE  (IF i = n THEN NoTime ELSE IF matches(s, start + i) THEN start + i ELSE u[i + 1])
                 = IF i = n THEN NoTime ELSE IF i \in Hits THEN at[i] ELSE u[i + 1]
    <3>1. i # n => i \in 0..n - 1
      BY <1>0
    <3>2. at[i] = start + i
      OBVIOUS
    <3>3. i # n => (i \in Hits <=> matches(s, start + i))
      BY <3>1
    <3> HIDE DEF Hits, at, start, n
    <3> QED
      BY <3>2, <3>3
  <2> HIDE DEF Hits, at, start, n
  <2> QED
    BY <2>1 DEF Walk
<1>4. Walk(walk, n, Hits, at)
  <2>1. walk = [i \in 0..n |-> IF i = n THEN NoTime
                  ELSE IF matches(s, start + i) THEN start + i ELSE walk[i + 1]]
    BY <1>2, <1>3
  <2> HIDE DEF walk
  <2> QED
    BY <1>3, <2>1
<1>5. \/ walk[0] = NoTime /\ \A j \in 0..n - 1 : j \notin Hits
      \/ \E i \in 0..n - 1 : /\ i \in Hits /\ walk[0] = at[i]
                             /\ \A j \in 0..i - 1 : j \notin Hits
  <2> HIDE DEF Hits, at, walk, n
  <2> QED
    BY <1>0, <1>4, WalkEnds
<1>6. ASSUME NEW m \in H PROVE m - start \in Hits /\ m \in Int
  <2>1. m \in Int /\ m - start \in 0..n - 1
    BY <1>0 DEF Truncate
  <2>2. start + (m - start) = m
    <3> HIDE DEF start, n
    <3> QED
      BY <1>0, <2>1
  <2>3. matches(s, m)
    OBVIOUS
  <2> QED
    BY <2>1, <2>2, <2>3
<1>7. CASE walk[0] = NoTime /\ \A j \in 0..n - 1 : j \notin Hits
  <2>1. H = {}
    <3>1. \A j : j \notin Hits
      BY <1>7
    <3> HIDE DEF Hits, H
    <3> QED
      BY <1>6, <3>1
  <2> QED
    BY <1>1, <1>7, <2>1
<1>8. ASSUME NEW i \in 0..n - 1, i \in Hits, walk[0] = at[i], \A j \in 0..i - 1 : j \notin Hits
      PROVE  H # {} /\ next(s, t) = Min(H)
  <2>1. start + i \in H
    <3>1. start + i \in Truncate(t) + 1..Truncate(t) + n
      BY <1>0, <1>8 DEF Truncate
    <3>2. matches(s, start + i)
      BY <1>8
    <3> QED
      BY <3>1, <3>2
  <2>2. ASSUME NEW m \in H PROVE start + i <= m
    <3>1. m - start \in Hits /\ m \in Int /\ m - start >= 0
      BY <1>0, <1>6
    <3>2. m - start \notin 0..i - 1
      BY <1>8, <3>1
    <3> HIDE DEF start, Hits, H
    <3> QED
      BY <1>0, <1>8, <3>1, <3>2
  <2>3. H \subseteq Int
    BY <1>0
  <2>4. Min(H) = start + i
    <3> HIDE DEF start, H
    <3> QED
      BY <2>1, <2>2, <2>3, MinIsLeast
  <2>5. at[i] = start + i
    BY <1>0, <1>8
  <2> HIDE DEF walk, at, H, start
  <2> QED
    BY <1>1, <1>8, <2>1, <2>4, <2>5
<1> HIDE DEF walk, Hits, at
<1> QED
  BY <1>5, <1>7, <1>8

\* prev returns the last minute that matches, of cronSearchCap.
LEMMA PrevFound ==
  ASSUME NEW s, NEW t \in Int
  PROVE  LET H == {m \in Truncate(t) - cronSearchCap..Truncate(t) - 1 : matches(s, m)}
         IN  prev(s, t) = IF H = {} THEN NoTime ELSE Max(H)
<1> DEFINE n == cronSearchCap
           start == Truncate(t) - 1
           Hits == {i \in 0..n - 1 : matches(s, start - i)}
           at == [i \in 0..n |-> start - i]
           H == {m \in Truncate(t) - n..Truncate(t) - 1 : matches(s, m)}
           walk == CHOOSE walk : walk = [i \in 0..cronSearchCap |->
                     IF i = cronSearchCap THEN NoTime
                     ELSE IF matches(s, start - i) THEN start - i ELSE walk[i + 1]]
<1>0. n \in Nat /\ start \in Int
  BY CalendarAssumption DEF Truncate
<1>1. prev(s, t) = walk[0]
  BY DEF prev
<1>2. PICK w : Walk(w, n, Hits, at)
  <2> HIDE DEF Hits, at, n
  <2> QED
    BY <1>0, WalkExists
<1>3. ASSUME NEW u
      PROVE  (u = [i \in 0..n |-> IF i = n THEN NoTime
                     ELSE IF matches(s, start - i) THEN start - i ELSE u[i + 1]])
               <=> Walk(u, n, Hits, at)
  <2>1. ASSUME NEW i \in 0..n
        PROVE  (IF i = n THEN NoTime ELSE IF matches(s, start - i) THEN start - i ELSE u[i + 1])
                 = IF i = n THEN NoTime ELSE IF i \in Hits THEN at[i] ELSE u[i + 1]
    <3>1. i # n => i \in 0..n - 1
      BY <1>0
    <3>2. at[i] = start - i
      OBVIOUS
    <3>3. i # n => (i \in Hits <=> matches(s, start - i))
      BY <3>1
    <3> HIDE DEF Hits, at, start, n
    <3> QED
      BY <3>2, <3>3
  <2> HIDE DEF Hits, at, start, n
  <2> QED
    BY <2>1 DEF Walk
<1>4. Walk(walk, n, Hits, at)
  <2>1. walk = [i \in 0..n |-> IF i = n THEN NoTime
                  ELSE IF matches(s, start - i) THEN start - i ELSE walk[i + 1]]
    BY <1>2, <1>3
  <2> HIDE DEF walk
  <2> QED
    BY <1>3, <2>1
<1>5. \/ walk[0] = NoTime /\ \A j \in 0..n - 1 : j \notin Hits
      \/ \E i \in 0..n - 1 : /\ i \in Hits /\ walk[0] = at[i]
                             /\ \A j \in 0..i - 1 : j \notin Hits
  <2> HIDE DEF Hits, at, walk, n
  <2> QED
    BY <1>0, <1>4, WalkEnds
<1>6. ASSUME NEW m \in H PROVE start - m \in Hits /\ m \in Int /\ start - (start - m) = m
  <2>1. m \in Int /\ start - m \in 0..n - 1
    BY <1>0 DEF Truncate
  <2>2. start - (start - m) = m
    <3> HIDE DEF start, n
    <3> QED
      BY <1>0, <2>1
  <2>3. matches(s, m)
    OBVIOUS
  <2> QED
    BY <2>1, <2>2, <2>3
<1>7. CASE walk[0] = NoTime /\ \A j \in 0..n - 1 : j \notin Hits
  <2>1. H = {}
    <3>1. \A j : j \notin Hits
      BY <1>7
    <3> HIDE DEF Hits, H
    <3> QED
      BY <1>6, <3>1
  <2> QED
    BY <1>1, <1>7, <2>1
<1>8. ASSUME NEW i \in 0..n - 1, i \in Hits, walk[0] = at[i], \A j \in 0..i - 1 : j \notin Hits
      PROVE  H # {} /\ prev(s, t) = Max(H)
  <2>1. start - i \in H
    <3>1. start - i \in Truncate(t) - n..Truncate(t) - 1
      BY <1>0, <1>8 DEF Truncate
    <3>2. matches(s, start - i)
      BY <1>8
    <3> QED
      BY <3>1, <3>2
  <2>2. ASSUME NEW m \in H PROVE m <= start - i
    <3>1. start - m \in Hits /\ m \in Int /\ start - m >= 0
      BY <1>0, <1>6
    <3>2. start - m \notin 0..i - 1
      BY <1>8, <3>1
    <3> HIDE DEF start, Hits, H
    <3> QED
      BY <1>0, <1>8, <3>1, <3>2
  <2>3. H \subseteq Int
    BY <1>0
  <2>4. Max(H) = start - i
    <3> HIDE DEF start, H
    <3> QED
      BY <2>1, <2>2, <2>3, MaxIsGreatest
  <2>5. at[i] = start - i
    BY <1>0, <1>8
  <2> HIDE DEF walk, at, H, start
  <2> QED
    BY <1>1, <1>8, <2>1, <2>4, <2>5
<1> HIDE DEF walk, Hits, at
<1> QED
  BY <1>5, <1>7, <1>8

\* The agent takes some line of the entry to fire in minute m.
Firing(m) == \E e \in Expressions : matches(parseCronSchedule(e), m)
MatchesIn(from, to) == {m \in from..to : Firing(m)}

\* The next run of the entry is the first firing of any of its lines.
LEMMA NextRunFound ==
  ASSUME NEW t \in Int
  PROVE  LET ahead == MatchesIn(Truncate(t) + 1, Truncate(t) + cronSearchCap)
         IN  nextRun(t) = IF ahead = {} THEN NoTime ELSE Min(ahead)
<1> DEFINE from == Truncate(t) + 1
           to == Truncate(t) + cronSearchCap
           ahead == MatchesIn(from, to)
           Of(e) == {m \in from..to : matches(parseCronSchedule(e), m)}
           times == {next(parseCronSchedule(e), t) : e \in Expressions}
<1>1. from \in Int /\ to \in Int
  BY CalendarAssumption DEF Truncate
<1>2. ASSUME NEW e
      PROVE  next(parseCronSchedule(e), t) = IF Of(e) = {} THEN NoTime ELSE Min(Of(e))
  <2> DEFINE H == {m \in from..to : matches(parseCronSchedule(e), m)}
  <2>1. next(parseCronSchedule(e), t) = IF H = {} THEN NoTime ELSE Min(H)
    BY NextFound
  <2>2. H = Of(e)
    OBVIOUS
  <2> HIDE DEF H, Of
  <2> QED
    BY <2>1, <2>2
<1>3. ASSUME NEW e, Of(e) # {}
      PROVE  /\ next(parseCronSchedule(e), t) \in Of(e)
             /\ \A m \in Of(e) : next(parseCronSchedule(e), t) <= m
  <2>1. Of(e) \subseteq Int /\ \A m \in Of(e) : from <= m
    BY <1>1
  <2> HIDE DEF Of
  <2>2. PICK x \in Of(e) : \A y \in Of(e) : x <= y
    BY <1>1, <1>3, <2>1, LeastNumber
  <2>3. Min(Of(e)) = x
    BY <2>1, <2>2, MinIsLeast
  <2> QED
    BY <1>2, <1>3, <2>2, <2>3
<1>4. \A m : m \in ahead <=> \E e \in Expressions : m \in Of(e)
  BY DEF MatchesIn, Firing
<1>5. ahead \subseteq Int /\ (\A m \in ahead : from <= m)
  BY <1>1 DEF MatchesIn
<1> SUFFICES nextRun(t) = IF ahead = {} THEN NoTime ELSE Min(ahead)
  OBVIOUS
<1>6. nextRun(t) = IF times \subseteq {NoTime} THEN NoTime ELSE Min(times \ {NoTime})
  BY DEF nextRun, Earliest
<1> HIDE DEF from, to
<1>7. CASE ahead = {}
  <2>1. ASSUME NEW e \in Expressions PROVE next(parseCronSchedule(e), t) = NoTime
    <3>1. Of(e) = {}
      <4> HIDE DEF Of, ahead
      <4> QED
        BY <1>4, <1>7
    <3> HIDE DEF Of
    <3> QED
      BY <1>2, <3>1
  <2>2. times \subseteq {NoTime}
    BY <2>1
  <2> HIDE DEF times, ahead
  <2> QED
    BY <1>6, <1>7, <2>2
<1>8. CASE ahead # {}
  <2>1. PICK x \in ahead : \A y \in ahead : x <= y
    <3> HIDE DEF ahead
    <3> QED
      BY <1>1, <1>5, <1>8, LeastNumber
  <2>2. Min(ahead) = x /\ x \in Int
    <3> HIDE DEF ahead
    <3> QED
      BY <1>5, <2>1, MinIsLeast
  <2>3. ASSUME NEW u \in times \ {NoTime} PROVE u \in ahead
    <3>1. PICK e \in Expressions : u = next(parseCronSchedule(e), t)
      OBVIOUS
    <3> HIDE DEF Of, ahead, times
    <3>2. Of(e) # {}
      BY <1>2, <2>3, <3>1
    <3> QED
      BY <1>3, <1>4, <3>1, <3>2
  <2>4. x \in times \ {NoTime}
    <3> HIDE DEF Of, ahead
    <3>1. PICK e \in Expressions : x \in Of(e)
      BY <1>4, <2>1
    <3>2. next(parseCronSchedule(e), t) \in ahead /\ next(parseCronSchedule(e), t) <= x
      BY <1>3, <1>4, <3>1
    <3>3. next(parseCronSchedule(e), t) \in Int /\ x <= next(parseCronSchedule(e), t)
      BY <1>5, <2>1, <3>2
    <3>4. next(parseCronSchedule(e), t) = x
      BY <2>2, <3>2, <3>3
    <3>5. x \in times
      BY <3>4
    <3> QED
      BY <2>2, <3>5, CalendarAssumption
  <2>5. Min(times \ {NoTime}) = x
    <3>1. times \ {NoTime} \subseteq Int /\ \A u \in times \ {NoTime} : x <= u
      <4> HIDE DEF times, ahead
      <4> QED
        BY <1>5, <2>1, <2>3
    <3> HIDE DEF times
    <3> QED
      BY <2>4, <3>1, MinIsLeast
  <2> HIDE DEF times, ahead
  <2> QED
    BY <1>6, <1>8, <2>2, <2>4, <2>5
<1> QED
  BY <1>7, <1>8

\* The last run of the entry is the latest firing of any of its lines.
LEMMA LastRunFound ==
  ASSUME NEW t \in Int
  PROVE  LET behind == MatchesIn(Truncate(t) - cronSearchCap, Truncate(t) - 1)
         IN  lastRun(t) = IF behind = {} THEN NoTime ELSE Max(behind)
<1> DEFINE from == Truncate(t) - cronSearchCap
           to == Truncate(t) - 1
           behind == MatchesIn(from, to)
           Of(e) == {m \in from..to : matches(parseCronSchedule(e), m)}
           times == {prev(parseCronSchedule(e), t) : e \in Expressions}
<1>1. from \in Int /\ to \in Int
  BY CalendarAssumption DEF Truncate
<1>2. ASSUME NEW e
      PROVE  prev(parseCronSchedule(e), t) = IF Of(e) = {} THEN NoTime ELSE Max(Of(e))
  <2> DEFINE H == {m \in from..to : matches(parseCronSchedule(e), m)}
  <2>1. prev(parseCronSchedule(e), t) = IF H = {} THEN NoTime ELSE Max(H)
    BY PrevFound
  <2>2. H = Of(e)
    OBVIOUS
  <2> HIDE DEF H, Of
  <2> QED
    BY <2>1, <2>2
<1>3. ASSUME NEW e, Of(e) # {}
      PROVE  /\ prev(parseCronSchedule(e), t) \in Of(e)
             /\ \A m \in Of(e) : m <= prev(parseCronSchedule(e), t)
  <2>1. Of(e) \subseteq Int /\ \A m \in Of(e) : m <= to
    BY <1>1
  <2> HIDE DEF Of
  <2>2. PICK x \in Of(e) : \A y \in Of(e) : y <= x
    BY <1>1, <1>3, <2>1, GreatestNumber
  <2>3. Max(Of(e)) = x
    BY <2>1, <2>2, MaxIsGreatest
  <2> QED
    BY <1>2, <1>3, <2>2, <2>3
<1>4. \A m : m \in behind <=> \E e \in Expressions : m \in Of(e)
  BY DEF MatchesIn, Firing
<1>5. behind \subseteq Int /\ (\A m \in behind : m <= to)
  BY <1>1 DEF MatchesIn
<1> SUFFICES lastRun(t) = IF behind = {} THEN NoTime ELSE Max(behind)
  OBVIOUS
<1>6. lastRun(t) = IF times \subseteq {NoTime} THEN NoTime ELSE Max(times \ {NoTime})
  BY DEF lastRun, LatestOf
<1> HIDE DEF from, to
<1>7. CASE behind = {}
  <2>1. ASSUME NEW e \in Expressions PROVE prev(parseCronSchedule(e), t) = NoTime
    <3>1. Of(e) = {}
      <4> HIDE DEF Of, behind
      <4> QED
        BY <1>4, <1>7
    <3> HIDE DEF Of
    <3> QED
      BY <1>2, <3>1
  <2>2. times \subseteq {NoTime}
    BY <2>1
  <2> HIDE DEF times, behind
  <2> QED
    BY <1>6, <1>7, <2>2
<1>8. CASE behind # {}
  <2>1. PICK x \in behind : \A y \in behind : y <= x
    <3> HIDE DEF behind
    <3> QED
      BY <1>1, <1>5, <1>8, GreatestNumber
  <2>2. Max(behind) = x /\ x \in Int
    <3> HIDE DEF behind
    <3> QED
      BY <1>5, <2>1, MaxIsGreatest
  <2>3. ASSUME NEW u \in times \ {NoTime} PROVE u \in behind
    <3>1. PICK e \in Expressions : u = prev(parseCronSchedule(e), t)
      OBVIOUS
    <3> HIDE DEF Of, behind, times
    <3>2. Of(e) # {}
      BY <1>2, <2>3, <3>1
    <3> QED
      BY <1>3, <1>4, <3>1, <3>2
  <2>4. x \in times \ {NoTime}
    <3> HIDE DEF Of, behind
    <3>1. PICK e \in Expressions : x \in Of(e)
      BY <1>4, <2>1
    <3>2. prev(parseCronSchedule(e), t) \in behind /\ x <= prev(parseCronSchedule(e), t)
      BY <1>3, <1>4, <3>1
    <3>3. prev(parseCronSchedule(e), t) \in Int /\ prev(parseCronSchedule(e), t) <= x
      BY <1>5, <2>1, <3>2
    <3>4. prev(parseCronSchedule(e), t) = x
      BY <2>2, <3>2, <3>3
    <3>5. x \in times
      BY <3>4
    <3> QED
      BY <2>2, <3>5, CalendarAssumption
  <2>5. Max(times \ {NoTime}) = x
    <3>1. times \ {NoTime} \subseteq Int /\ \A u \in times \ {NoTime} : u <= x
      <4> HIDE DEF times, behind
      <4> QED
        BY <1>5, <2>1, <2>3
    <3> HIDE DEF times
    <3> QED
      BY <2>4, <3>1, MaxIsGreatest
  <2> HIDE DEF times, behind
  <2> QED
    BY <1>6, <1>8, <2>2, <2>4, <2>5
<1> QED
  BY <1>7, <1>8

----------------------------------------------------------------------------
(* The count of runs. *)

\* The minute of the latest probe, which is counted in half minutes.
ProbedAt == Truncate(clock - since)

\* The runs there were since the entry was first seen.
Runs == 1 + Cardinality(MatchesIn(seed + 1, cronSeen))

\* The clock moves by half minutes, and a steady probe is at most two old.
ClockInv ==
  /\ clock \in 0..MaxClock /\ since \in 0..clock
  /\ steady \in BOOLEAN /\ (steady => since <= 2)

\* The last run seen is a firing before the latest probe; no firing was passed
\* over as long as the entry was probed steadily, and the count says so.
CountInv ==
  /\ seed \in Int /\ cronSeen \in Int /\ cronCount \in Nat
  /\ seed <= cronSeen /\ cronSeen < ProbedAt /\ cronSearchCap # 0
  /\ Firing(cronSeen)
  /\ cronCount <= Runs
  /\ steady => cronCount = Runs
  /\ steady => \A m \in cronSeen + 1..ProbedAt - 1 : ~Firing(m)

CronInv == ClockInv /\ cronCount \in Nat /\ (cronSeen # NoTime => CountInv)

\* The firings of a stretch of time are finitely many.
LEMMA FiringsFinite ==
  ASSUME NEW from \in Int, NEW to \in Int
  PROVE  IsFiniteSet(MatchesIn(from, to)) /\ Cardinality(MatchesIn(from, to)) \in Nat
<1>1. IsFiniteSet(from..to)
  BY FS_Interval
<1>2. MatchesIn(from, to) \subseteq from..to
  BY DEF MatchesIn, Firing
<1>3. IsFiniteSet(MatchesIn(from, to))
  BY <1>1, <1>2, FS_Subset
<1> QED
  BY <1>3, FS_CardinalityType

\* One more firing later on is one more run at least, and exactly one more if
\* there was none in between.
LEMMA OneMoreRun ==
  ASSUME NEW from \in Int, NEW seen \in Int, NEW last \in Int, seen < last, from <= last,
         Firing(last)
  PROVE  LET before == MatchesIn(from, seen)
             after  == MatchesIn(from, last)
         IN  /\ Cardinality(before) + 1 <= Cardinality(after)
             /\ (\A m \in seen + 1..last - 1 : ~Firing(m)) =>
                  Cardinality(after) = Cardinality(before) + 1
<1> DEFINE before == MatchesIn(from, seen)
           after == MatchesIn(from, last)
<1>1. /\ IsFiniteSet(before) /\ Cardinality(before) \in Nat
      /\ IsFiniteSet(after) /\ Cardinality(after) \in Nat
  BY FiringsFinite
<1>2. last \notin before /\ last \in after
  BY DEF MatchesIn, Firing
<1>3. before \cup {last} \subseteq after
  <2>1. \A m \in from..seen : m \in from..last
    OBVIOUS
  <2>2. before \subseteq after
    BY <2>1 DEF MatchesIn
  <2> QED
    BY <1>2, <2>2
<1> SUFFICES /\ Cardinality(before) + 1 <= Cardinality(after)
             /\ (\A m \in seen + 1..last - 1 : ~Firing(m)) =>
                  Cardinality(after) = Cardinality(before) + 1
  OBVIOUS
<1>4. (\A m \in seen + 1..last - 1 : ~Firing(m)) => after = before \cup {last}
  <2> SUFFICES ASSUME \A m \in seen + 1..last - 1 : ~Firing(m), NEW m \in after, m # last
               PROVE  m \in before
    BY <1>3
  <2>1. m \in from..last /\ Firing(m)
    BY DEF MatchesIn, Firing
  <2>2. m \notin seen + 1..last - 1
    BY <2>1
  <2>3. m \in from..seen
    BY <2>1, <2>2
  <2> QED
    BY <2>1, <2>3 DEF MatchesIn, Firing
<1> HIDE DEF before, after
<1>5. Cardinality(before \cup {last}) = Cardinality(before) + 1
  BY <1>1, <1>2, FS_AddElement
<1>6. Cardinality(before \cup {last}) <= Cardinality(after)
  BY <1>1, <1>3, FS_Subset
<1> QED
  BY <1>1, <1>4, <1>5, <1>6

\* Nothing has been probed at the start.
LEMMA CronInit == Init => CronInv
<1> SUFFICES ASSUME Init PROVE CronInv
  OBVIOUS
<1>1. clock = 0 /\ since = 0 /\ steady = TRUE /\ cronSeen = NoTime /\ cronCount = 0
  BY DEF Init
<1>2. 0 \in 0..MaxClock
  BY BoundsAssumption
<1> QED
  BY <1>1, <1>2 DEF CronInv, ClockInv

\* The operators on the lines of the entry change with the lines only.
LEMMA SameLines ==
  ASSUME UNCHANGED tab
  PROVE  /\ Expressions' = Expressions
         /\ \A m : Firing(m)' <=> Firing(m)
         /\ \A from, to : MatchesIn(from, to)' = MatchesIn(from, to)
<1>1. Expressions' = Expressions
  BY DEF Expressions, cronConfigLines
<1> QED
  BY <1>1 DEF Firing, MatchesIn

\* Between two probes only the clock and the age of the latest one change.
LEMMA NoProbe ==
  ASSUME CronInv, UNCHANGED <<tab, cronSeen, cronCount, seed>>, ClockInv',
         clock' - since' = clock - since, steady' => steady
  PROVE  CronInv'
<1>1. ASSUME cronSeen # NoTime PROVE CountInv'
  <2>1. CountInv
    BY <1>1 DEF CronInv
  <2>2. ProbedAt' = ProbedAt
    BY DEF ProbedAt, Truncate
  <2>3. Runs' = Runs
    BY SameLines DEF Runs
  <2>4. \A m : Firing(m)' <=> Firing(m)
    BY SameLines
  <2>5. Firing(cronSeen)' <=> Firing(cronSeen)
    BY SameLines DEF Firing
  <2>6. steady' => \A m \in cronSeen + 1..ProbedAt - 1 : ~Firing(m)'
    BY <2>1, <2>4 DEF CountInv
  <2>7. steady' => cronCount = Runs
    BY <2>1 DEF CountInv
  <2> QED
    BY <2>1, <2>2, <2>3, <2>5, <2>6, <2>7 DEF CountInv
<1>2. cronCount' \in Nat
  BY DEF CronInv
<1> QED
  BY <1>1, <1>2 DEF CronInv

\* A probe counts the run it finds if it is a new one.
LEMMA CountStep ==
  ASSUME CronInv, probeCron
  PROVE  CronInv'
<1> DEFINE now == Truncate(clock)
           last == lastRun(clock)
           behind == MatchesIn(now - cronSearchCap, now - 1)
<1>1. /\ clock \in Int /\ clock \in 0..MaxClock /\ steady \in BOOLEAN
      /\ since \in 0..clock /\ since \in Int /\ now \in Int
      /\ cronSearchCap \in Nat /\ (steady => since <= 2)
  BY CalendarAssumption, BoundsAssumption DEF CronInv, ClockInv, Truncate
<1>2. /\ UNCHANGED <<clock, tab>> /\ since' = 0
      /\ steady' = (cronSeen = NoTime \/ steady)
  BY DEF probeCron
<1>3. ClockInv'
  <2>1. since' \in 0..clock' /\ clock' \in 0..MaxClock
    BY <1>1, <1>2
  <2>2. steady' \in BOOLEAN /\ since' <= 2
    BY <1>1, <1>2
  <2> QED
    BY <2>1, <2>2 DEF ClockInv
<1>4. ProbedAt' = now
  <2>1. clock' - since' = clock
    BY <1>1, <1>2
  <2> QED
    BY <2>1 DEF ProbedAt, Truncate
<1>5. /\ \A m : Firing(m)' <=> Firing(m)
      /\ \A from, to : MatchesIn(from, to)' = MatchesIn(from, to)
  BY <1>2, SameLines
<1>6. \A m : m \in behind <=> m \in now - cronSearchCap..now - 1 /\ Firing(m)
  BY DEF MatchesIn, Firing
<1>7. last = IF behind = {} THEN NoTime ELSE Max(behind)
  BY <1>1, LastRunFound
<1>8. behind # {} =>
        /\ last \in Int /\ last \in behind /\ Firing(last) /\ last < now /\ last # NoTime
        /\ now - cronSearchCap <= last /\ cronSearchCap # 0
        /\ \A m \in behind : m <= last
  <2> SUFFICES ASSUME behind # {}
               PROVE  /\ last \in Int /\ last \in behind /\ Firing(last) /\ last < now
                      /\ last # NoTime /\ now - cronSearchCap <= last /\ cronSearchCap # 0
                      /\ \A m \in behind : m <= last
    OBVIOUS
  <2>1. behind \subseteq Int /\ (\A m \in behind : m <= now - 1) /\ now - 1 \in Int
    BY <1>1, <1>6
  <2>2. PICK x \in behind : \A m \in behind : m <= x
    <3> HIDE DEF behind, now
    <3> QED
      BY <2>1, GreatestNumber
  <2>3. last = x
    <3> HIDE DEF behind, now, last
    <3> QED
      BY <1>7, <2>1, <2>2, MaxIsGreatest
  <2>4. x \in now - cronSearchCap..now - 1 /\ Firing(x)
    BY <1>6, <2>2
  <2> HIDE DEF behind, now, last
  <2> QED
    BY <1>1, <2>2, <2>3, <2>4, CalendarAssumption
<1>9. CASE behind = {} /\ cronSeen = NoTime
  <2>1. UNCHANGED <<cronSeen, cronCount>>
    BY <1>7, <1>9 DEF probeCron
  <2> QED
    BY <1>3, <1>9, <2>1 DEF CronInv
<1>10. CASE behind = {} /\ cronSeen # NoTime
  <2>1. UNCHANGED <<cronSeen, cronCount, seed>> /\ steady' = steady
    BY <1>1, <1>2, <1>7, <1>10 DEF probeCron
  <2>2. CountInv
    BY <1>10 DEF CronInv
  <2>3. ProbedAt <= now /\ ProbedAt \in Int /\ (steady => now <= ProbedAt + 1)
    BY <1>1 DEF ProbedAt, Truncate
  <2>4. Runs' = Runs
    BY <1>5, <2>1 DEF Runs
  <2>5. ASSUME steady, NEW m \in cronSeen + 1..now - 1 PROVE ~Firing(m)
    <3>0. m \in Int /\ cronSeen \in Int /\ cronSeen + 1 <= m /\ m <= now - 1
      BY <1>1, <2>2 DEF CountInv
    <3>1. CASE m <= ProbedAt - 1
      <4>1. m \in cronSeen + 1..ProbedAt - 1
        BY <2>3, <3>0, <3>1
      <4> QED
        BY <2>2, <2>5, <4>1 DEF CountInv
    <3>2. CASE ~(m <= ProbedAt - 1)
      <4> HIDE DEF now, behind
      <4>1. cronSearchCap >= 1
        BY <1>1, <2>2 DEF CountInv
      <4>2. m \in now - cronSearchCap..now - 1
        BY <1>1, <2>3, <2>5, <3>0, <3>2, <4>1
      <4> QED
        BY <1>6, <1>10, <4>2
    <3> QED
      BY <3>1, <3>2
  <2>6. Firing(cronSeen)' <=> Firing(cronSeen)
    BY <1>2, <2>1, SameLines DEF Firing
  <2>7. cronSeen < now
    <3> HIDE DEF now
    <3> QED
      BY <1>1, <2>2, <2>3 DEF CountInv
  <2> HIDE DEF now
  <2>8. /\ seed' \in Int /\ cronSeen' \in Int /\ cronCount' \in Nat /\ seed' <= cronSeen'
        /\ cronSeen' < now /\ cronSearchCap # 0 /\ Firing(cronSeen)'
        /\ cronCount' <= Runs' /\ (steady' => cronCount' = Runs')
    BY <2>1, <2>2, <2>4, <2>6, <2>7 DEF CountInv
  <2>9. steady' => \A m \in cronSeen' + 1..now - 1 : ~Firing(m)'
    BY <1>5, <2>1, <2>5
  <2>10. CountInv'
    BY <1>4, <2>8, <2>9 DEF CountInv
  <2> QED
    BY <1>3, <2>10 DEF CronInv, CountInv
<1>11. ASSUME behind # {} PROVE CountInv'
  <2>0. last # NoTime
    BY <1>8, <1>11
  <2>1. cronSeen' = last /\ cronCount' = cronTriggeredCount(last)
        /\ seed' = IF cronSeen = NoTime THEN last ELSE seed
    BY <2>0 DEF probeCron
  <2> HIDE DEF now, last, behind
  <2>2. Firing(cronSeen)'
    <3>1. Firing(last)
      BY <1>8, <1>11
    <3> QED
      BY <1>2, <2>1, <3>1, SameLines DEF Firing
  <2>3. \A m \in last + 1..now - 1 : ~Firing(m)'
    <3> TAKE m \in last + 1..now - 1
    <3>1. m \in Int /\ last < m /\ m \in now - cronSearchCap..now - 1
      BY <1>1, <1>8, <1>11
    <3>2. m \notin behind
      BY <1>8, <1>11, <3>1
    <3>3. ~Firing(m)
      BY <1>6, <3>1, <3>2
    <3> QED
      BY <1>5, <3>3
  <2>4. Runs' = 1 + Cardinality(MatchesIn(seed' + 1, last))
    BY <1>5, <2>1 DEF Runs
  <2>5. /\ seed' \in Int /\ cronCount' \in Nat /\ seed' <= last
        /\ cronCount' <= Runs' /\ (steady' => cronCount' = Runs')
    <3>1. CASE cronSeen = NoTime
      <4>1. cronCount' = 1 /\ seed' = last
        BY <2>1, <3>1 DEF cronTriggeredCount
      <4>2. MatchesIn(last + 1, last) = {}
        <5>1. last + 1..last = {}
          BY <1>8, <1>11
        <5> QED
          BY <5>1 DEF MatchesIn
      <4>3. Runs' = 1
        BY <2>4, <4>1, <4>2, FS_EmptySet
      <4> QED
        BY <1>8, <1>11, <4>1, <4>3
    <3>2. CASE cronSeen # NoTime
      <4>1. CountInv
        BY <3>2 DEF CronInv
      <4>2. /\ cronSeen \in Int /\ seed \in Int /\ seed <= cronSeen /\ seed' = seed
            /\ cronCount \in Nat /\ cronCount <= Runs /\ (steady => cronCount = Runs)
            /\ last \in Int /\ Firing(cronSeen) /\ cronSeen < ProbedAt
        BY <1>8, <1>11, <2>1, <3>2, <4>1 DEF CountInv
      <4>3. ProbedAt <= now /\ ProbedAt \in Int /\ (steady => now <= ProbedAt + 1)
        BY <1>1 DEF ProbedAt, Truncate, now
      <4>4. cronSeen <= last
        <5> SUFFICES ASSUME last < cronSeen PROVE FALSE
          BY <4>2
        <5>1. cronSeen \in now - cronSearchCap..now - 1
          BY <1>1, <1>8, <1>11, <4>2, <4>3
        <5>2. cronSeen \in behind
          BY <1>6, <4>2, <5>1
        <5>3. cronSeen <= last
          BY <1>8, <1>11, <5>2
        <5> QED
          BY <4>2, <5>3
      <4>5. CASE last = cronSeen
        <5>1. cronCount' = cronCount
          <6>1. ~(last > cronSeen)
            BY <4>2, <4>5
          <6> QED
            BY <2>1, <3>2, <6>1 DEF cronTriggeredCount
        <5>2. Runs' = Runs
          BY <2>4, <4>2, <4>5 DEF Runs
        <5>3. steady' = steady
          BY <1>1, <1>2, <3>2
        <5> QED
          BY <4>2, <4>5, <5>1, <5>2, <5>3
      <4>6. CASE last # cronSeen
        <5>1. last > cronSeen
          BY <4>2, <4>4, <4>6
        <5>2. cronCount' = cronCount + 1
          BY <2>1, <3>2, <5>1 DEF cronTriggeredCount
        <5> DEFINE before == Cardinality(MatchesIn(seed + 1, cronSeen))
                   after  == Cardinality(MatchesIn(seed + 1, last))
        <5>3. /\ before + 1 <= after
              /\ (\A m \in cronSeen + 1..last - 1 : ~Firing(m)) => after = before + 1
          <6>1. seed + 1 \in Int /\ cronSeen < last /\ seed + 1 <= last
            BY <4>2, <5>1
          <6>2. Firing(last)
            BY <1>8, <1>11
          <6> QED
            BY <4>2, <6>1, <6>2, OneMoreRun
        <5>4. before \in Nat /\ after \in Nat
          <6>1. seed + 1 \in Int
            BY <4>2
          <6> QED
            BY <4>2, <6>1, FiringsFinite
        <5>5. Runs = 1 + before /\ Runs' = 1 + after
          BY <2>4, <4>2 DEF Runs
        <5>6. steady => \A m \in cronSeen + 1..last - 1 : ~Firing(m)
          <6> SUFFICES ASSUME steady, NEW m \in cronSeen + 1..last - 1 PROVE ~Firing(m)
            OBVIOUS
          <6>1. last < now
            BY <1>8, <1>11
          <6>2. m \in cronSeen + 1..ProbedAt - 1
            BY <1>1, <4>2, <4>3, <6>1
          <6> QED
            BY <4>1, <6>2 DEF CountInv
        <5>7. steady' = steady
          BY <1>1, <1>2, <3>2
        <5> HIDE DEF before, after
        <5>8. cronCount' \in Nat /\ cronCount' <= Runs'
          BY <4>2, <5>2, <5>3, <5>4, <5>5
        <5>9. steady => cronCount' = Runs'
          BY <4>2, <5>2, <5>3, <5>4, <5>5, <5>6
        <5>10. seed' \in Int /\ seed' <= last
          BY <4>2, <5>1
        <5> QED
          BY <5>7, <5>8, <5>9, <5>10
      <4> QED
        BY <4>5, <4>6
    <3> QED
      BY <3>1, <3>2
  <2>6. last \in Int /\ last < now /\ cronSearchCap # 0
    BY <1>8, <1>11
  <2> QED
    BY <1>4, <2>1, <2>2, <2>3, <2>5, <2>6 DEF CountInv
<1> QED
  BY <1>3, <1>9, <1>10, <1>11 DEF CronInv, CountInv

\* Every step keeps the count.
LEMMA CronStep == CronInv /\ [Next]_vars => CronInv'
<1> SUFFICES ASSUME CronInv, [Next]_vars PROVE CronInv'
  OBVIOUS
<1>1. ASSUME UNCHANGED <<clock, cronVars>> PROVE CronInv'
  <2>1. UNCHANGED <<tab, cronSeen, cronCount, seed>> /\ UNCHANGED <<clock, since, steady>>
    BY <1>1 DEF cronVars
  <2>2. ClockInv'
    BY <2>1 DEF CronInv, ClockInv
  <2> QED
    BY <2>1, <2>2, NoProbe
<1>2. ASSUME Tick PROVE CronInv'
  <2>1. /\ UNCHANGED <<tab, cronSeen, cronCount, seed>>
        /\ clock' = clock + 1 /\ since' = since + 1 /\ clock < MaxClock
        /\ steady' = (steady /\ since < 2)
    BY <1>2 DEF Tick
  <2>2. clock \in 0..MaxClock /\ since \in 0..clock /\ MaxClock \in Nat
    BY BoundsAssumption DEF CronInv, ClockInv
  <2>3. clock' \in 0..MaxClock /\ since' \in 0..clock' /\ clock' - since' = clock - since
    BY <2>1, <2>2
  <2>4. steady' \in BOOLEAN /\ (steady' => steady)
    BY <2>1, Zenon
  <2>5. steady' => since' <= 2
    <3>1. steady' => since < 2
      BY <2>1, Zenon
    <3>2. since < 2 => since' <= 2
      BY <2>1, <2>2
    <3> QED
      BY <3>1, <3>2
  <2>6. ClockInv'
    BY <2>3, <2>4, <2>5 DEF ClockInv
  <2> QED
    BY <2>1, <2>3, <2>4, <2>6, NoProbe
<1>3. ASSUME NEW s \in Svcs,
             \/ ProbeState(s) \/ probeService(s) \/ probeProcess(s) \/ ProbeVanished(s)
             \/ Use(s) \/ Leave(s) \/ Launch(s)
      PROVE  CronInv'
  <2>1. UNCHANGED <<clock, cronVars>>
    BY <1>3 DEF ProbeState, probeService, probeProcess, Sampled, ProbeVanished, Use, Leave,
       Launch
  <2> QED
    BY <1>1, <2>1
<1>4. CASE UNCHANGED vars
  <2>1. UNCHANGED <<clock, cronVars>>
    BY <1>4 DEF vars
  <2> QED
    BY <1>1, <2>1
<1>5. ASSUME probeCron PROVE CronInv'
  BY <1>5, CountStep
<1> QED
  BY <1>2, <1>3, <1>4, <1>5 DEF Next

\* What a probe of the entry reports is what the agent reads in its lines.
LEMMA ReportStep ==
  ASSUME CronInv, [Next]_vars, cronRep' # cronRep
  PROVE  LET m      == Truncate(clock)
             ahead  == MatchesIn(m + 1, m + cronSearchCap)
             behind == MatchesIn(m - cronSearchCap, m - 1)
         IN  /\ cronRep'.next = IF ahead = {} THEN NoTime ELSE Min(ahead)
             /\ cronRep'.last = IF behind = {} THEN NoTime ELSE Max(behind)
<1>1. ASSUME UNCHANGED cronVars PROVE FALSE
  BY <1>1 DEF cronVars
<1>2. CASE Tick \/ UNCHANGED vars
  BY <1>2 DEF Tick, vars, cronVars
<1>3. ASSUME NEW s \in Svcs,
             \/ ProbeState(s) \/ probeService(s) \/ probeProcess(s) \/ ProbeVanished(s)
             \/ Use(s) \/ Leave(s) \/ Launch(s)
      PROVE  FALSE
  <2>1. UNCHANGED cronVars
    BY <1>3 DEF ProbeState, probeService, probeProcess, Sampled, ProbeVanished, Use, Leave,
       Launch
  <2> QED
    BY <1>1, <2>1
<1>4. CASE probeCron
  <2>1. clock \in Int
    BY DEF CronInv, ClockInv
  <2>2. cronRep'.next = nextRun(clock) /\ cronRep'.last = lastRun(clock)
    BY <1>4 DEF probeCron
  <2> QED
    BY <2>1, <2>2, NextRunFound, LastRunFound
<1> QED
  BY <1>2, <1>3, <1>4 DEF Next

\* The parser and the matcher agree with cron on a line that both read alike.
LEMMA FiresMatches ==
  ASSUME NEW e, NEW m, Alike(e)
  PROVE  matches(parseCronSchedule(e), m) <=> Fires(e, m)
<1>1. ASSUME NEW field, NEW v, NEW min, NEW max
      PROVE  Contains(parseCronField(field, min, max), v) <=> Named(field, v, min, max)
  <2> DEFINE f == parseCronField(field, min, max)
  <2>1. f.isAll = field.star
    BY DEF parseCronField
  <2>2. CASE field.star
    BY <2>1, <2>2 DEF Contains, Named
  <2>3. CASE ~field.star
    <3>1. f.values = UNION {parseCronRange(t, min, max) : t \in field.toks}
      BY <2>3 DEF parseCronField
    <3>2. v \in f.values <=> \E t \in field.toks : v \in parseCronRange(t, min, max)
      BY <3>1
    <3>3. ASSUME NEW t
          PROVE  v \in parseCronRange(t, min, max)
                   <=> IF t.star THEN v \in min..max /\ (v - min) % t.step = 0
                       ELSE v \in t.lo..t.hi /\ (v - t.lo) % t.step = 0
      BY DEF parseCronRange
    <3> HIDE DEF f
    <3> QED
      BY <2>1, <2>3, <3>2, <3>3 DEF Contains, Named, f
  <2> QED
    BY <2>2, <2>3
<1> DEFINE s == parseCronSchedule(e)
<1>2. /\ s.minute = parseCronField(e[1], 0, MinutesPerHour - 1)
      /\ s.hour = parseCronField(e[2], 0, HoursPerDay - 1)
      /\ s.dom = parseCronField(e[3], 1, DaysPerMonth)
      /\ s.month = parseCronField(e[4], 1, MonthsPerYear)
      /\ s.dow = parseCronField(e[5], 0, DaysPerWeek - 1)
  BY DEF parseCronSchedule
<1>3. /\ Contains(s.minute, Minute(m)) <=> Named(e[1], Minute(m), 0, MinutesPerHour - 1)
      /\ Contains(s.hour, Hour(m)) <=> Named(e[2], Hour(m), 0, HoursPerDay - 1)
      /\ Contains(s.dom, DomOf(m)) <=> Named(e[3], DomOf(m), 1, DaysPerMonth)
      /\ Contains(s.month, MonthOf(m)) <=> Named(e[4], MonthOf(m), 1, MonthsPerYear)
      /\ Contains(s.dow, Weekday(m)) <=> Named(e[5], Weekday(m), 0, DaysPerWeek - 1)
  <2> HIDE DEF s
  <2> QED
    BY <1>1, <1>2
<1>4. s.dom.isAll = e[3].star /\ s.dow.isAll = e[5].star
  <2> HIDE DEF s
  <2> QED
    BY <1>2 DEF parseCronField
<1>5. /\ s.dom.isAll => Contains(s.dom, DomOf(m))
      /\ s.dow.isAll => Contains(s.dow, Weekday(m))
  BY DEF Contains
<1> HIDE DEF s
<1>6. dayMatches(s, m)
        <=> IF Restricted(e[3]) /\ Restricted(e[5])
            THEN Contains(s.dom, DomOf(m)) \/ Contains(s.dow, Weekday(m))
            ELSE Contains(s.dom, DomOf(m)) /\ Contains(s.dow, Weekday(m))
  <2>1. CASE e[3].star \/ e[5].star
    BY <1>4, <1>5, <2>1 DEF dayMatches, Restricted
  <2>2. CASE ~e[3].star /\ ~e[5].star
    BY <1>4, <1>5, <2>2 DEF dayMatches, Alike
  <2> QED
    BY <2>1, <2>2
<1>7. ~AlsoSunday(e[5])
  BY DEF Alike
<1> QED
  BY <1>3, <1>6, <1>7 DEF matches, Fires, s

\* A line that cron takes the agent takes too.
LEMMA ValidParses ==
  ASSUME NEW e \in Line, Valid(e)
  PROVE  Parses(e)
<1>1. ASSUME NEW i \in 1..5 PROVE e[i].toks \subseteq Element
  <2>1. e[i] \in [star : BOOLEAN, toks : SUBSET Element]
    BY <1>1 DEF Line
  <2> QED
    BY <2>1
<1>2. ASSUME NEW i \in 1..5, NEW t \in e[i].toks PROVE t.step > 0
  BY <1>2 DEF Valid
<1>3. ASSUME NEW i \in 1..5, NEW min \in Nat, NEW max \in Nat, min <= max
      PROVE  parseCronField(e[i], min, max).isAll \/ parseCronField(e[i], min, max).values # {}
  <2>1. CASE e[i].star
    BY <2>1 DEF parseCronField
  <2>2. CASE ~e[i].star
    <3>1. PICK t \in e[i].toks : t.step > 0 /\ (t.star \/ t.lo <= t.hi)
      BY <2>2 DEF Valid
    <3>2. t \in Element
      BY <1>1
    <3>3. t.lo \in Nat /\ t.hi \in Nat /\ t.step \in Nat \ {0} /\ 0 % t.step = 0
      BY <3>1, <3>2 DEF Element
    <3>4. \E v : v \in parseCronRange(t, min, max)
      <4>1. CASE t.star
        <5>1. min \in min..max /\ min - min = 0
          BY <1>3
        <5> QED
          BY <3>3, <4>1, <5>1 DEF parseCronRange
      <4>2. CASE ~t.star
        <5>1. t.lo \in t.lo..t.hi /\ t.lo - t.lo = 0
          BY <3>1, <3>3, <4>2
        <5> QED
          BY <3>3, <4>2, <5>1 DEF parseCronRange
      <4> QED
        BY <4>1, <4>2
    <3> QED
      BY <2>2, <3>4 DEF parseCronField
  <2> QED
    BY <2>1, <2>2
<1>4. /\ 0 <= MinutesPerHour - 1 /\ MinutesPerHour - 1 \in Nat
      /\ 0 <= HoursPerDay - 1 /\ HoursPerDay - 1 \in Nat
      /\ 1 <= DaysPerMonth /\ DaysPerMonth \in Nat /\ 1 <= MonthsPerYear /\ MonthsPerYear \in Nat
      /\ 0 <= DaysPerWeek - 1 /\ DaysPerWeek - 1 \in Nat /\ 0 \in Nat /\ 1 \in Nat
  BY CalendarAssumption
<1> DEFINE s == parseCronSchedule(e)
<1>5. /\ s.minute = parseCronField(e[1], 0, MinutesPerHour - 1)
      /\ s.hour = parseCronField(e[2], 0, HoursPerDay - 1)
      /\ s.dom = parseCronField(e[3], 1, DaysPerMonth)
      /\ s.month = parseCronField(e[4], 1, MonthsPerYear)
      /\ s.dow = parseCronField(e[5], 0, DaysPerWeek - 1)
  BY DEF parseCronSchedule
<1> HIDE DEF s
<1> DEFINE Filled(f) == f.isAll \/ f.values # {}
<1>6. Filled(s.minute) /\ Filled(s.hour) /\ Filled(s.dom) /\ Filled(s.month) /\ Filled(s.dow)
  <2>1. \A i \in 1..5 : \A min, max \in Nat : min <= max => Filled(parseCronField(e[i], min, max))
    BY <1>3
  <2> HIDE DEF Filled
  <2>2. Filled(s.minute) /\ Filled(s.hour)
    BY <1>4, <1>5, <2>1
  <2>3. Filled(s.dom) /\ Filled(s.month)
    BY <1>4, <1>5, <2>1
  <2>4. Filled(s.dow)
    BY <1>4, <1>5, <2>1
  <2> QED
    BY <2>2, <2>3, <2>4
<1>7. \A f \in {"minute", "hour", "dom", "month", "dow"} : s[f].isAll \/ s[f].values # {}
  BY <1>6
<1> QED
  BY <1>2, <1>7 DEF Parses, s

\* The crontabs stay as they are.
TabInv == tab \in Crontabs \cup {[own |-> {}, system |-> {}]}

\* No probe touches them.
LEMMA TabHolds == Spec => []TabInv
<1>1. Init => TabInv
  BY DEF Init, TabInv
<1>2. TabInv /\ [Next]_vars => TabInv'
  <2> SUFFICES ASSUME [Next]_vars PROVE tab' = tab
    BY DEF TabInv
  <2>1. CASE Tick \/ probeCron \/ UNCHANGED vars
    BY <2>1 DEF Tick, probeCron, vars, cronVars
  <2>2. ASSUME NEW s \in Svcs,
               \/ ProbeState(s) \/ probeService(s) \/ probeProcess(s) \/ ProbeVanished(s)
               \/ Use(s) \/ Leave(s) \/ Launch(s)
        PROVE  tab' = tab
    BY <2>2 DEF ProbeState, probeService, probeProcess, Sampled, ProbeVanished, Use, Leave,
       Launch, cronVars
  <2> QED
    BY <2>1, <2>2 DEF Next
<1> QED
  BY <1>1, <1>2, PTL DEF Spec

\* Of lines that both read alike, cron runs one exactly when the agent says so.
LEMMA AlikeMatches ==
  ASSUME TabInv, ReadAlike, NEW from, NEW to
  PROVE  FiringsIn(from, to) = MatchesIn(from, to)
<1>1. cronConfigLines \subseteq Line \cup {Shortcut}
  BY CrontabsAssumption DEF TabInv, cronConfigLines
<1>2. ASSUME NEW e \in cronConfigLines \ {Shortcut}, NEW m
      PROVE  Valid(e) /\ Fires(e, m) <=> Parses(e) /\ matches(parseCronSchedule(e), m)
  <2>1. e \in Line /\ Alike(e)
    BY <1>1, <1>2 DEF ReadAlike
  <2>2. Parses(e) <=> Valid(e)
    BY <2>1, ValidParses DEF Alike
  <2> QED
    BY <2>1, <2>2, FiresMatches
<1>3. ASSUME NEW m
      PROVE  Firing(m) <=> \E e \in cronConfigLines \ {Shortcut} : Valid(e) /\ Fires(e, m)
  BY <1>2 DEF Firing, Expressions
<1> QED
  BY <1>3 DEF FiringsIn, MatchesIn

\* The count and what it rests on hold in every behaviour.
THEOREM CronInvHolds == Spec => []CronInv
<1> QED
  BY CronInit, CronStep, PTL DEF Spec

\* For lines that both read alike, the run count never exceeds the runs there were
\* since the entry was first seen, and is exact while the entry is probed once a
\* minute, for any calendar, any such lines and any search window
\* (service_extra_probes.go:381).
THEOREM TriggeredExactHolds == Spec => []TriggeredExact
<1>1. CronInv /\ TabInv => TriggeredExact
  BY AlikeMatches DEF CronInv, CountInv, TriggeredExact, Runs
<1> QED
  BY <1>1, CronInvHolds, TabHolds, PTL

\* For lines that both read alike, the two searches return exactly the first and
\* the last minute of their window in which cron runs some line, for any calendar,
\* any such lines and any window (cron_schedule.go:168, :193, :206).
THEOREM CronExactHolds == Spec => CronExact
<1>1. CronInv /\ TabInv /\ [Next]_vars =>
        [ReadAlike /\ cronRep' # cronRep =>
           LET m      == Truncate(clock)
               ahead  == FiringsIn(m + 1, m + cronSearchCap)
               behind == FiringsIn(m - cronSearchCap, m - 1)
           IN  /\ cronRep'.next = IF ahead = {} THEN NoTime ELSE Min(ahead)
               /\ cronRep'.last = IF behind = {} THEN NoTime ELSE Max(behind)]_vars
  <2> SUFFICES ASSUME CronInv, TabInv, [Next]_vars, ReadAlike, cronRep' # cronRep
               PROVE  LET m      == Truncate(clock)
                          ahead  == FiringsIn(m + 1, m + cronSearchCap)
                          behind == FiringsIn(m - cronSearchCap, m - 1)
                      IN  /\ cronRep'.next = IF ahead = {} THEN NoTime ELSE Min(ahead)
                          /\ cronRep'.last = IF behind = {} THEN NoTime ELSE Max(behind)
    OBVIOUS
  <2>1. \A from, to : FiringsIn(from, to) = MatchesIn(from, to)
    BY AlikeMatches
  <2> QED
    BY <2>1, ReportStep
<1> QED
  BY <1>1, CronInvHolds, TabHolds, PTL DEF Spec, CronExact

\* The clock, the count and the rates keep to their types and the cache to its
\* bound.
THEOREM TypeCorrect == Spec => []TypeOK
<1>1. ProbeInv /\ CacheBounded /\ CronInv => TypeOK
  <2> SUFFICES ASSUME ProbeInv, CacheBounded, CronInv PROVE TypeOK
    OBVIOUS
  <2>1. clock \in 0..MaxClock /\ cronCount \in Nat
    BY DEF CronInv, ClockInv
  <2>2. cronSeen \in Int \cup {NoTime}
    BY DEF CronInv, CountInv
  <2>3. run \in [Svcs -> {"up", "down", "gone"}] /\ \A s \in Svcs : rep[s].rate \in -1..MaxCPU
    BY DEF ProbeInv, TypeInv
  <2>4. Cardinality(DOMAIN cpuNSCache) <= maxCacheEntries
    BY DEF CacheBounded
  <2> QED
    BY <2>1, <2>2, <2>3, <2>4 DEF TypeOK
<1> QED
  BY <1>1, ProbeInvHolds, CacheBoundedHolds, CronInvHolds, PTL
=============================================================================
