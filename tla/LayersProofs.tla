---------------------------- MODULE LayersProofs ----------------------------
(***************************************************************************)
(* Theorems about Entropy, for every number of harvests and of threads and *)
(* whatever the ambient methods read; about Layers, for any number of      *)
(* seeds, bytes and derived verdicts and for every buffer that is wiped;   *)
(* and about EntropyHealth, for buffers of any length and contents.        *)
(***************************************************************************)
EXTENDS Layers, SequenceTheorems, FiniteSetTheorems, WellFoundedInduction, TLAPS

\* What the raw bytes of a source can come from.
Raws == {OsDraw(d) : d \in Nat} \cup
          {Reading(e[m]) : e \in Environments, m \in AmbientNames}

Before == {"primary", "secondary", "ambient"}
Between == {"idle", "fold", "squeeze"}

Typed ==
  /\ step \in Steps /\ env \in Environments /\ drawn \in Nat
  /\ sources \in Seq([name : Names, raw : Raws])
  /\ worker \in [Workers -> {"none", "running", "waiting", "working", "gone"}]
  /\ folded \in 0 .. Len(sources)
  /\ seeds \in Seq(SUBSET (Names \X Raws))

----------------------------------------------------------------------------
(* The threads of memory_contention_timing                                 *)

\* Which states the threads can be in while the caller is at a step.
ThreadsAt(w) ==
  /\ step \in Before => worker[w] = "none"
  /\ step \in {"spawn", "aborted"} => worker[w] \in {"none", "running", "waiting"}
  /\ step = "barrier" => worker[w] \in {"running", "waiting"}
  /\ step = "join" => worker[w] \in {"working", "gone"}
  /\ step \in Between => worker[w] \in {"none", "gone"}

Threads == \A w \in Workers : ThreadsAt(w)

\* What the variables of a call may hold, and what copies of it there may be.
Locations ==
  /\ secret \subseteq Names \cup {"pool", "whitened"}
  /\ stray \subseteq Names \cup {"whitened", "seed"}
  /\ step = "primary" => secret \cup stray = {}
  /\ VariablesAreWiped

----------------------------------------------------------------------------
(* The pool                                                                *)

\* Between calls nothing is collected; after the primary draw something is.
Collecting ==
  /\ step \in {"idle", "primary"} <=> sources = << >>
  /\ step \notin {"fold", "squeeze"} => folded = 0
  /\ step = "squeeze" => folded = Len(sources)

\* Every method is collected once: what the guards of the later ones rely on.
Once ==
  /\ \A i, j \in DOMAIN sources : i # j => sources[i].name # sources[j].name
  /\ step = "secondary" => \A i \in DOMAIN sources : sources[i].name = "os_primary"
  /\ step \notin {"fold", "squeeze"} => \A i \in DOMAIN sources : sources[i].name # Contention

----------------------------------------------------------------------------
(* The draws                                                               *)

PrimaryOutput(d) == <<"os_primary", OsDraw(d)>>

\* The draws behind the sources and the seeds have been made.
Drawn ==
  /\ \A i \in DOMAIN sources, d \in Nat : sources[i].raw = OsDraw(d) => d <= drawn
  /\ \A i \in DOMAIN seeds, d \in Nat : PrimaryOutput(d) \in seeds[i] => d <= drawn

\* The primary draw of the call in progress is in no earlier seed.
PrimaryIsNew ==
  step \notin {"idle", "primary"} =>
    \E d \in Nat : /\ sources[1] = Source("os_primary", OsDraw(d))
                   /\ \A i \in DOMAIN seeds : PrimaryOutput(d) \notin seeds[i]

\* The inductive invariant.
IInv ==
  /\ Typed /\ Threads /\ Locations /\ Collecting /\ Once
  /\ EveryMethodCounts /\ Drawn /\ PrimaryIsNew /\ SeedsAreFresh

----------------------------------------------------------------------------
(* Methods and sources                                                     *)

LEMMA AmbientMethods ==
  /\ \A k \in DOMAIN Ambient : /\ Ambient[k] \in AmbientNames
                               /\ Ambient[k] # Contention
                               /\ Ambient[k] \notin {"os_primary", "os_secondary"}
  /\ Contention \in AmbientNames
  /\ AmbientNames \subseteq Names
  BY DEF Ambient, AmbientNames, Contention, Names

LEMMA SourceTypes ==
  /\ \A d \in Nat, n \in {"os_primary", "os_secondary"} :
       Source(n, OsDraw(d)) \in [name : Names, raw : Raws]
  /\ \A e \in Environments, m \in AmbientNames :
       Source(m, Reading(e[m])) \in [name : Names, raw : Raws]
  BY AmbientMethods DEF Source, Raws, Names

\* What Append does, as the steps that collect and squeeze use it.
LEMMA AppendFacts ==
  ASSUME NEW S, NEW q \in Seq(S), NEW x \in S
  PROVE  /\ Append(q, x) \in Seq(S) /\ Len(Append(q, x)) = Len(q) + 1
         /\ DOMAIN Append(q, x) = DOMAIN q \cup {Len(q) + 1}
         /\ Append(q, x)[Len(q) + 1] = x
         /\ \A i \in DOMAIN q : Append(q, x)[i] = q[i] /\ i # Len(q) + 1
         /\ Append(q, x) # << >>
  OBVIOUS

LEMMA TypeStep == Typed /\ EveryMethodCounts /\ [EntropyNext]_entropyVars => Typed'
<1> SUFFICES ASSUME Typed, EveryMethodCounts, [EntropyNext]_entropyVars PROVE Typed'
  OBVIOUS
<1> USE DEF Typed
<1>1. ASSUME NEW n \in {"os_primary", "os_secondary"}, Collect(Source(n, OsDraw(drawn + 1)))
      PROVE  sources' \in Seq([name : Names, raw : Raws]) /\ Len(sources') = Len(sources) + 1
  <2>1. Source(n, OsDraw(drawn + 1)) \in [name : Names, raw : Raws]
    BY SourceTypes
  <2> QED BY <1>1, <2>1, AppendFacts DEF Collect
<1>2. ASSUME NEW m \in AmbientNames, Collect(Source(m, Reading(env[m])))
      PROVE  sources' \in Seq([name : Names, raw : Raws]) /\ Len(sources') = Len(sources) + 1
  <2>1. Source(m, Reading(env[m])) \in [name : Names, raw : Raws]
    BY SourceTypes
  <2> QED BY <1>2, <2>1, AppendFacts DEF Collect
<1>3. CASE Primary
  BY <1>3, <1>1 DEF Primary, Steps
<1>4. CASE PrimaryFails
  BY <1>4 DEF PrimaryFails, Steps
<1>5. CASE Secondary
  BY <1>5, <1>1 DEF Secondary, Steps
<1>6. CASE SecondarySkipped
  BY <1>6 DEF SecondarySkipped, Steps
<1>7. ASSUME NEW k \in DOMAIN Ambient, ReadAmbient(k) PROVE Typed'
  <2>1. Ambient[k] \in AmbientNames
    BY AmbientMethods
  <2>2. sources' \in Seq([name : Names, raw : Raws]) /\ Len(sources') = Len(sources) + 1
    BY <1>7, <2>1, <1>2 DEF ReadAmbient
  <2>3. step' \in Steps
    BY <1>7 DEF ReadAmbient, Steps
  <2> QED BY <1>7, <2>2, <2>3 DEF ReadAmbient
<1>8. ASSUME NEW w \in Workers, Spawn(w) \/ WorkerArrives(w) \/ WorkerExits(w) PROVE Typed'
  BY <1>8 DEF Spawn, WorkerArrives, WorkerExits
<1>9. CASE SpawnFails \/ MeetWorkers
  BY <1>9 DEF SpawnFails, MeetWorkers, Steps
<1>10. CASE Release
  BY <1>10 DEF Release, Steps
<1>11. CASE Join
  <2>1. sources' \in Seq([name : Names, raw : Raws]) /\ Len(sources') = Len(sources) + 1
    BY <1>11, <1>2, AmbientMethods DEF Join
  <2> QED BY <1>11, <2>1 DEF Join, Steps
<1>12. CASE Fold
  BY <1>12 DEF Fold, Steps
<1>13. CASE Squeeze
  <2> DEFINE S == [name : Names, raw : Raws]
  <2>1. ASSUME NEW k \in 1 .. folded PROVE sources[k] \in S
    <3>1. sources \in Seq(S) /\ Len(sources) \in Nat /\ k \in 1 .. Len(sources)
      OBVIOUS
    <3> HIDE DEF S
    <3> QED BY <3>1
  <2>2. \A k \in 1 .. folded : whiten(sources[k]) \in Names \X Raws
    BY <2>1 DEF whiten, Tag
  <2>3. pool \in SUBSET (Names \X Raws)
    BY <2>2 DEF EveryMethodCounts
  <2>4. Append(seeds, pool) \in Seq(SUBSET (Names \X Raws))
    BY <2>3
  <2> QED BY <1>13, <2>4 DEF Squeeze, Steps
<1>14. ASSUME NEW e \in Environments, Harvest(e) PROVE Typed'
  BY <1>14 DEF Harvest, Steps
<1>15. ASSUME NEW a \in HwAnswers, hardware_rng(a) PROVE Typed'
  BY <1>15 DEF hardware_rng, harvestVars
<1>16. CASE UNCHANGED entropyVars
  BY <1>16 DEF entropyVars, harvestVars
<1> QED
  BY <1>3, <1>4, <1>5, <1>6, <1>7, <1>8, <1>9, <1>10, <1>11, <1>12, <1>13, <1>14, <1>15, <1>16
     DEF EntropyNext, HarvestNext, CallerStep, WorkerStep

----------------------------------------------------------------------------
(* Threads and locations                                                   *)

\* The barrier is met by all: only when every worker waits is the caller released.
LEMMA BarrierMeets == Release => \A w \in Workers : worker[w] = "waiting"
<1> SUFFICES ASSUME Release PROVE Waiting = Workers
  BY DEF Waiting
<1>1. IsFiniteSet(Workers) /\ Waiting \in SUBSET Workers
  BY EntropyAssumption DEF Waiting
<1>2. Cardinality(Waiting) \in Nat /\ Cardinality(Workers) \in Nat
  BY <1>1, FS_Subset, FS_CardinalityType
<1>3. Cardinality(Waiting) >= Cardinality(Workers)
  BY <1>2 DEF Release, BarrierSize
<1>4. Cardinality(Waiting) = Cardinality(Workers)
  BY <1>1, <1>2, <1>3, FS_Subset
<1> QED BY <1>1, <1>4, FS_Subset

LEMMA ThreadsStep == Typed /\ Threads /\ [EntropyNext]_entropyVars => Threads'
<1> SUFFICES ASSUME Typed, Threads, [EntropyNext]_entropyVars, NEW v \in Workers
             PROVE  ThreadsAt(v)'
  BY DEF Threads
<1>0. ThreadsAt(v) /\ worker \in [Workers -> {"none", "running", "waiting", "working", "gone"}]
  BY DEF Threads, Typed
<1> USE <1>0 DEF ThreadsAt, Before, Between
<1>1. CASE Primary \/ PrimaryFails \/ Secondary \/ SecondarySkipped
  BY <1>1 DEF Primary, PrimaryFails, Secondary, SecondarySkipped
<1>2. ASSUME NEW k \in DOMAIN Ambient, ReadAmbient(k) PROVE ThreadsAt(v)'
  BY <1>2 DEF ReadAmbient
<1>3. ASSUME NEW w \in Workers, Spawn(w) PROVE ThreadsAt(v)'
  BY <1>3 DEF Spawn
<1>4. CASE SpawnFails \/ MeetWorkers
  BY <1>4 DEF SpawnFails, MeetWorkers
<1>5. CASE Release
  BY <1>5, BarrierMeets DEF Release, Waiting
<1>6. CASE Join
  BY <1>6 DEF Join
<1>7. CASE Fold \/ Squeeze
  BY <1>7 DEF Fold, Squeeze
<1>8. ASSUME NEW w \in Workers, WorkerArrives(w) PROVE ThreadsAt(v)'
  <2>1. ThreadsAt(w)
    BY DEF Threads
  <2> QED BY <1>8, <2>1, Typed DEF WorkerArrives, Typed, Steps
<1>9. ASSUME NEW w \in Workers, WorkerExits(w) PROVE ThreadsAt(v)'
  <2>1. ThreadsAt(w)
    BY DEF Threads
  <2> QED BY <1>9, <2>1, Typed DEF WorkerExits, Typed, Steps
<1>10. ASSUME NEW e \in Environments, Harvest(e) PROVE ThreadsAt(v)'
  BY <1>10 DEF Harvest
<1>11. ASSUME NEW a \in HwAnswers, hardware_rng(a) PROVE ThreadsAt(v)'
  BY <1>11 DEF hardware_rng, harvestVars
<1>12. CASE UNCHANGED entropyVars
  BY <1>12 DEF entropyVars, harvestVars
<1> QED
  BY <1>1, <1>2, <1>3, <1>4, <1>5, <1>6, <1>7, <1>8, <1>9, <1>10, <1>11, <1>12
     DEF EntropyNext, HarvestNext, CallerStep, WorkerStep

LEMMA LocationsStep == Typed /\ Locations /\ [EntropyNext]_entropyVars => Locations'
<1> SUFFICES ASSUME Typed, Locations, [EntropyNext]_entropyVars PROVE Locations'
  OBVIOUS
<1> USE DEF Locations, VariablesAreWiped
<1>1. CASE Primary \/ PrimaryFails \/ Secondary \/ SecondarySkipped
  BY <1>1 DEF Primary, PrimaryFails, Secondary, SecondarySkipped, Collect, Source, Names
<1>2. ASSUME NEW k \in DOMAIN Ambient, ReadAmbient(k) PROVE Locations'
  BY <1>2, AmbientMethods DEF ReadAmbient, Collect, Source
<1>3. ASSUME NEW w \in Workers, Spawn(w) \/ WorkerStep(w) PROVE Locations'
  BY <1>3 DEF Spawn, WorkerStep, WorkerArrives, WorkerExits
<1>4. CASE SpawnFails \/ MeetWorkers \/ Release
  BY <1>4 DEF SpawnFails, MeetWorkers, Release
<1>5. CASE Join
  BY <1>5, AmbientMethods DEF Join, Collect, Source
<1>6. CASE Fold
  BY <1>6 DEF Fold
<1>10. CASE Squeeze
  <2>1. "pool" \notin Names
    BY DEF Names, AmbientNames, Ambient, Contention
  <2>2. ASSUME NEW k \in DOMAIN sources PROVE sources[k].name \in Names
    <3> DEFINE R == [name : Names, raw : Raws]
    <3>1. sources \in Seq(R)
      BY DEF Typed
    <3>2. \A r \in R : r.name \in Names
      OBVIOUS
    <3> HIDE DEF R
    <3>3. k \in 1 .. Len(sources)
      BY <3>1
    <3>4. sources[k] \in R
      BY <3>1, <3>3, ElementOfSeq
    <3> QED BY <3>2, <3>4
  <2>3. secret' \subseteq {"whitened"}
    BY <1>10 DEF Squeeze, WipedAtEnd
  <2>4. stray' \subseteq Names \cup {"whitened", "seed"}
    BY <1>10, <2>2 DEF Squeeze
  <2> QED BY <1>10, <2>1, <2>3, <2>4 DEF Squeeze
<1>7. ASSUME NEW e \in Environments, Harvest(e) PROVE Locations'
  BY <1>7 DEF Harvest
<1>8. ASSUME NEW a \in HwAnswers, hardware_rng(a) PROVE Locations'
  BY <1>8 DEF hardware_rng, harvestVars
<1>9. CASE UNCHANGED entropyVars
  BY <1>9 DEF entropyVars, harvestVars
<1> QED
  BY <1>1, <1>2, <1>3, <1>4, <1>5, <1>6, <1>7, <1>8, <1>9, <1>10
     DEF EntropyNext, HarvestNext, CallerStep

----------------------------------------------------------------------------
(* Sources and pool                                                        *)

LEMMA CollectFacts ==
  ASSUME Typed, NEW n \in Names, NEW r \in Raws, Collect(Source(n, r))
  PROVE  /\ DOMAIN sources' = DOMAIN sources \cup {Len(sources) + 1}
         /\ sources'[Len(sources) + 1] = Source(n, r)
         /\ \A i \in DOMAIN sources : sources'[i] = sources[i] /\ i # Len(sources) + 1
         /\ sources' # << >> /\ Len(sources) \in Nat
<1>1. Source(n, r) \in [name : Names, raw : Raws]
  BY DEF Source
<1> QED BY <1>1, AppendFacts DEF Collect, Typed

\* Each step collects one source of a method and bytes that are known, or none.
Collects(n, r) == Collect(Source(n, r)) /\ UNCHANGED <<pool, folded, seeds>>

LEMMA Collectors ==
  ASSUME Typed
  PROVE  /\ Primary => Collects("os_primary", OsDraw(drawn + 1))
         /\ Secondary => Collects("os_secondary", OsDraw(drawn + 1))
         /\ \A k \in DOMAIN Ambient :
              ReadAmbient(k) => Collects(Ambient[k], Reading(env[Ambient[k]]))
         /\ Join => Collects(Contention, Reading(env[Contention]))
         /\ {"os_primary", "os_secondary", Contention} \subseteq Names
         /\ \A k \in DOMAIN Ambient : Ambient[k] \in Names
         /\ OsDraw(drawn + 1) \in Raws
         /\ \A m \in AmbientNames : Reading(env[m]) \in Raws
<1>1. /\ Primary => Collects("os_primary", OsDraw(drawn + 1))
      /\ Secondary => Collects("os_secondary", OsDraw(drawn + 1))
      /\ \A k \in DOMAIN Ambient :
           ReadAmbient(k) => Collects(Ambient[k], Reading(env[Ambient[k]]))
      /\ Join => Collects(Contention, Reading(env[Contention]))
  BY DEF Primary, Secondary, ReadAmbient, Join, Collects
<1>2. /\ {"os_primary", "os_secondary", Contention} \subseteq Names
      /\ \A k \in DOMAIN Ambient : Ambient[k] \in Names
  BY AmbientMethods DEF Names
<1>3. OsDraw(drawn + 1) \in Raws /\ \A m \in AmbientNames : Reading(env[m]) \in Raws
  BY DEF Typed, Raws
<1> QED BY <1>1, <1>2, <1>3

LEMMA CollectingStep ==
  Typed /\ Collecting /\ [EntropyNext]_entropyVars => Collecting'
<1> SUFFICES ASSUME Typed, Collecting, [EntropyNext]_entropyVars PROVE Collecting'
  OBVIOUS
<1>0. folded \in 0 .. Len(sources) /\ Len(sources) \in Nat
  BY DEF Typed
<1> USE DEF Collecting
<1>1. ASSUME NEW n \in Names, NEW r \in Raws, Collects(n, r) PROVE sources' # << >>
  BY <1>1, CollectFacts DEF Collects
<1>2. CASE Primary \/ Secondary
  <2>1. sources' # << >>
    BY <1>1, <1>2, Collectors
  <2> QED BY <1>2, <2>1 DEF Primary, Secondary
<1>3. CASE PrimaryFails \/ SecondarySkipped
  BY <1>3 DEF PrimaryFails, SecondarySkipped
<1>4. ASSUME NEW k \in DOMAIN Ambient, ReadAmbient(k) PROVE Collecting'
  <2>1. sources' # << >>
    BY <1>1, <1>4, Collectors, AmbientMethods
  <2> QED BY <1>4, <2>1 DEF ReadAmbient
<1>5. ASSUME NEW w \in Workers, Spawn(w) \/ WorkerStep(w) PROVE Collecting'
  BY <1>5 DEF Spawn, WorkerStep, WorkerArrives, WorkerExits
<1>6. CASE SpawnFails \/ MeetWorkers \/ Release
  BY <1>6 DEF SpawnFails, MeetWorkers, Release
<1>7. CASE Join
  <2>1. sources' # << >>
    BY <1>1, <1>7, Collectors, AmbientMethods
  <2> QED BY <1>7, <2>1 DEF Join
<1>8. CASE Fold \/ Squeeze
  BY <1>0, <1>8 DEF Fold, Squeeze
<1>9. ASSUME NEW e \in Environments, Harvest(e) PROVE Collecting'
  BY <1>9 DEF Harvest
<1>10. ASSUME NEW a \in HwAnswers, hardware_rng(a) PROVE Collecting'
  BY <1>10 DEF hardware_rng, harvestVars
<1>11. CASE UNCHANGED entropyVars
  BY <1>11 DEF entropyVars, harvestVars
<1> QED
  BY <1>2, <1>3, <1>4, <1>5, <1>6, <1>7, <1>8, <1>9, <1>10, <1>11
     DEF EntropyNext, HarvestNext, CallerStep

LEMMA OnceStep ==
  Typed /\ Collecting /\ Once /\ [EntropyNext]_entropyVars => Once'
<1> SUFFICES ASSUME Typed, Collecting, Once, [EntropyNext]_entropyVars PROVE Once'
  OBVIOUS
<1> USE DEF Once
<1>1. ASSUME NEW n \in Names, NEW r \in Raws, Collects(n, r),
             \A i \in DOMAIN sources : sources[i].name # n
      PROVE  /\ \A i, j \in DOMAIN sources' : i # j => sources'[i].name # sources'[j].name
             /\ \A i \in DOMAIN sources' :
                  sources'[i].name = n \/ (i \in DOMAIN sources /\ sources'[i] = sources[i])
  BY <1>1, CollectFacts DEF Collects, Source
<1>2. CASE Primary
  <2>1. DOMAIN sources = {}
    BY <1>2 DEF Primary, Collecting
  <2>2. /\ \A i, j \in DOMAIN sources' : i # j => sources'[i].name # sources'[j].name
        /\ \A i \in DOMAIN sources' : sources'[i].name = "os_primary"
    BY <1>1, <1>2, <2>1, Collectors
  <2> QED BY <1>2, <2>2 DEF Primary, Contention
<1>3. CASE Secondary
  <2>1. /\ \A i, j \in DOMAIN sources' : i # j => sources'[i].name # sources'[j].name
        /\ \A i \in DOMAIN sources' :
             sources'[i].name = "os_secondary" \/ (i \in DOMAIN sources /\ sources'[i] = sources[i])
    BY <1>1, <1>3, Collectors DEF Secondary
  <2> QED BY <1>3, <2>1 DEF Secondary, Contention
<1>4. CASE PrimaryFails \/ SecondarySkipped
  BY <1>4 DEF PrimaryFails, SecondarySkipped
<1>5. ASSUME NEW k \in DOMAIN Ambient, ReadAmbient(k) PROVE Once'
  <2>1. \A i \in DOMAIN sources : sources[i].name # Ambient[k]
    BY <1>5 DEF ReadAmbient, Collected
  <2>2. Ambient[k] # Contention /\ Ambient[k] \in AmbientNames
    BY AmbientMethods
  <2>3. /\ \A i, j \in DOMAIN sources' : i # j => sources'[i].name # sources'[j].name
        /\ \A i \in DOMAIN sources' :
             sources'[i].name = Ambient[k] \/ (i \in DOMAIN sources /\ sources'[i] = sources[i])
    BY <1>1, <1>5, <2>1, <2>2, Collectors
  <2> QED BY <1>5, <2>2, <2>3 DEF ReadAmbient
<1>6. ASSUME NEW w \in Workers, Spawn(w) \/ WorkerStep(w) PROVE Once'
  BY <1>6 DEF Spawn, WorkerStep, WorkerArrives, WorkerExits
<1>7. CASE SpawnFails \/ MeetWorkers \/ Release
  BY <1>7 DEF SpawnFails, MeetWorkers, Release
<1>8. CASE Join
  <2>1. \A i, j \in DOMAIN sources' : i # j => sources'[i].name # sources'[j].name
    BY <1>1, <1>8, Collectors, AmbientMethods DEF Join
  <2> QED BY <1>8, <2>1 DEF Join
<1>9. CASE Fold \/ Squeeze
  BY <1>9 DEF Fold, Squeeze
<1>10. ASSUME NEW e \in Environments, Harvest(e) PROVE Once'
  BY <1>10 DEF Harvest, Collecting
<1>11. ASSUME NEW a \in HwAnswers, hardware_rng(a) PROVE Once'
  BY <1>11 DEF hardware_rng, harvestVars
<1>12. CASE UNCHANGED entropyVars
  BY <1>12 DEF entropyVars, harvestVars
<1> QED
  BY <1>2, <1>3, <1>4, <1>5, <1>6, <1>7, <1>8, <1>9, <1>10, <1>11, <1>12
     DEF EntropyNext, HarvestNext, CallerStep

\* A source that was not folded yet is not in the pool, so the XOR adds it.
LEMMA CountsStep ==
  Typed /\ Collecting /\ Once /\ EveryMethodCounts /\ [EntropyNext]_entropyVars
    => EveryMethodCounts'
<1> SUFFICES ASSUME Typed, Collecting, Once, EveryMethodCounts, [EntropyNext]_entropyVars
             PROVE  EveryMethodCounts'
  OBVIOUS
<1>0. folded \in 0 .. Len(sources) /\ Len(sources) \in Nat /\ DOMAIN sources = 1 .. Len(sources)
  BY DEF Typed
<1>1. ASSUME NEW n \in Names, NEW r \in Raws, Collects(n, r), folded = 0
      PROVE  EveryMethodCounts'
  BY <1>1 DEF Collects, EveryMethodCounts
<1>2. CASE Primary \/ Secondary
  BY <1>1, <1>2, Collectors DEF Primary, Secondary, Collecting
<1>3. CASE PrimaryFails \/ SecondarySkipped
  BY <1>3 DEF PrimaryFails, SecondarySkipped, EveryMethodCounts
<1>4. ASSUME NEW k \in DOMAIN Ambient, ReadAmbient(k) PROVE EveryMethodCounts'
  <2>1. folded = 0
    BY <1>4 DEF ReadAmbient, Collecting
  <2> QED BY <1>1, <1>4, <2>1, Collectors, AmbientMethods
<1>5. ASSUME NEW w \in Workers, Spawn(w) \/ WorkerStep(w) PROVE EveryMethodCounts'
  BY <1>5 DEF Spawn, WorkerStep, WorkerArrives, WorkerExits, EveryMethodCounts
<1>6. CASE SpawnFails \/ MeetWorkers \/ Release
  BY <1>6 DEF SpawnFails, MeetWorkers, Release, EveryMethodCounts
<1>7. CASE Join
  <2>1. folded = 0
    BY <1>7 DEF Join, Collecting
  <2> QED BY <1>1, <1>7, <2>1, Collectors, AmbientMethods
<1>8. CASE Fold
  <2> DEFINE x == whiten(sources[folded + 1])
  <2>0. folded \in Nat /\ folded < Len(sources)
    <3>1. folded < Len(sources)
      BY <1>8, Zenon DEF Fold
    <3> QED BY <1>0, <3>1
  <2>1. folded + 1 \in DOMAIN sources /\ 1 .. folded + 1 = (1 .. folded) \cup {folded + 1}
    <3>1. folded + 1 \in DOMAIN sources
      BY <1>0, <2>0
    <3>2. \A k : k \in 1 .. folded + 1 <=> k \in (1 .. folded) \cup {folded + 1}
      BY <2>0
    <3> QED BY <3>1, <3>2
  <2>2. ASSUME NEW k \in 1 .. folded PROVE whiten(sources[k]) # x
    <3>1. k \in DOMAIN sources /\ k # folded + 1
      BY <1>0, <2>2
    <3>2. sources[k].name # sources[folded + 1].name
      BY <2>1, <3>1 DEF Once
    <3> QED BY <3>2 DEF whiten, Tag
  <2>3. x \notin pool
    BY <2>2 DEF EveryMethodCounts
  <2>4. pool' = pool \cup {x}
    BY <1>8, <2>3 DEF Fold, SymDiff
  <2> HIDE DEF x
  <2>5. pool' = {whiten(sources[k]) : k \in 1 .. folded} \cup {x}
    BY <2>4 DEF EveryMethodCounts
  <2>6. pool' = {whiten(sources[k]) : k \in 1 .. folded + 1}
    BY <2>1, <2>5 DEF x
  <2> QED BY <1>8, <2>6 DEF Fold, EveryMethodCounts, whiten, Tag
<1>9. CASE Squeeze
  BY <1>9 DEF Squeeze, EveryMethodCounts
<1>10. ASSUME NEW e \in Environments, Harvest(e) PROVE EveryMethodCounts'
  BY <1>10 DEF Harvest, EveryMethodCounts
<1>11. ASSUME NEW a \in HwAnswers, hardware_rng(a) PROVE EveryMethodCounts'
  BY <1>11 DEF hardware_rng, harvestVars, EveryMethodCounts
<1>12. CASE UNCHANGED entropyVars
  BY <1>12 DEF entropyVars, harvestVars, EveryMethodCounts
<1> QED
  BY <1>2, <1>3, <1>4, <1>5, <1>6, <1>7, <1>8, <1>9, <1>10, <1>11, <1>12
     DEF EntropyNext, HarvestNext, CallerStep

----------------------------------------------------------------------------
(* Draws and seeds                                                         *)

LEMMA DrawnStep ==
  Typed /\ EveryMethodCounts /\ Drawn /\ [EntropyNext]_entropyVars => Drawn'
<1> SUFFICES ASSUME Typed, EveryMethodCounts, Drawn, [EntropyNext]_entropyVars PROVE Drawn'
  OBVIOUS
<1>0. drawn \in Nat /\ DOMAIN sources = 1 .. Len(sources) /\ folded \in 0 .. Len(sources)
      /\ Len(sources) \in Nat
  BY DEF Typed
<1> USE DEF Drawn
<1>1. ASSUME NEW n \in Names, NEW r \in Raws, Collects(n, r), drawn' >= drawn, drawn' \in Nat,
             \A d \in Nat : r = OsDraw(d) => d <= drawn'
      PROVE  Drawn'
  <2>1. \A i \in DOMAIN sources', d \in Nat : sources'[i].raw = OsDraw(d) => d <= drawn'
    BY <1>0, <1>1, CollectFacts DEF Collects, Source
  <2>2. \A i \in DOMAIN seeds', d \in Nat : PrimaryOutput(d) \in seeds'[i] => d <= drawn'
    BY <1>0, <1>1 DEF Collects
  <2> QED BY <2>1, <2>2 DEF OsDraw, PrimaryOutput
<1>2. CASE Primary \/ Secondary
  BY <1>0, <1>1, <1>2, Collectors DEF Primary, Secondary, OsDraw
<1>3. CASE PrimaryFails \/ SecondarySkipped
  BY <1>3 DEF PrimaryFails, SecondarySkipped
<1>4. ASSUME NEW k \in DOMAIN Ambient, ReadAmbient(k) PROVE Drawn'
  BY <1>0, <1>1, <1>4, Collectors, AmbientMethods DEF ReadAmbient, OsDraw, Reading
<1>5. ASSUME NEW w \in Workers, Spawn(w) \/ WorkerStep(w) PROVE Drawn'
  BY <1>5 DEF Spawn, WorkerStep, WorkerArrives, WorkerExits
<1>6. CASE SpawnFails \/ MeetWorkers \/ Release
  BY <1>6 DEF SpawnFails, MeetWorkers, Release
<1>7. CASE Join
  BY <1>0, <1>1, <1>7, Collectors, AmbientMethods DEF Join, OsDraw, Reading
<1>8. CASE Fold
  BY <1>8 DEF Fold
<1>9. CASE Squeeze
  <2>1. ASSUME NEW d \in Nat, PrimaryOutput(d) \in pool PROVE d <= drawn
    <3>1. PICK k \in 1 .. folded : whiten(sources[k]) = PrimaryOutput(d)
      BY <2>1 DEF EveryMethodCounts
    <3>2. k \in DOMAIN sources /\ sources[k].raw = OsDraw(d)
      BY <1>0, <3>1 DEF whiten, PrimaryOutput
    <3> QED BY <3>2
  <2>2. /\ DOMAIN seeds' = DOMAIN seeds \cup {Len(seeds) + 1}
        /\ seeds'[Len(seeds) + 1] = pool
        /\ \A i \in DOMAIN seeds : seeds'[i] = seeds[i]
    BY <1>9 DEF Squeeze, Typed
  <2>3. DOMAIN sources' = {} /\ drawn' = drawn
    BY <1>9 DEF Squeeze
  <2> QED BY <2>1, <2>2, <2>3 DEF OsDraw, PrimaryOutput
<1>10. ASSUME NEW e \in Environments, Harvest(e) PROVE Drawn'
  BY <1>10 DEF Harvest
<1>11. ASSUME NEW a \in HwAnswers, hardware_rng(a) PROVE Drawn'
  BY <1>11 DEF hardware_rng, harvestVars
<1>12. CASE UNCHANGED entropyVars
  BY <1>12 DEF entropyVars, harvestVars
<1> QED
  BY <1>2, <1>3, <1>4, <1>5, <1>6, <1>7, <1>8, <1>9, <1>10, <1>11, <1>12
     DEF EntropyNext, HarvestNext, CallerStep

LEMMA PrimaryStep ==
  Typed /\ Collecting /\ Drawn /\ PrimaryIsNew /\ [EntropyNext]_entropyVars => PrimaryIsNew'
<1> SUFFICES ASSUME Typed, Collecting, Drawn, PrimaryIsNew, [EntropyNext]_entropyVars
             PROVE  PrimaryIsNew'
  OBVIOUS
<1>0. drawn \in Nat
  BY DEF Typed
<1> USE DEF PrimaryIsNew
<1>1. ASSUME NEW n \in Names, NEW r \in Raws, Collects(n, r), step \notin {"idle", "primary"}
      PROVE  PrimaryIsNew'
  <2>1. 1 \in DOMAIN sources
    BY <1>1 DEF Collecting, Typed
  <2>2. sources'[1] = sources[1] /\ seeds' = seeds
    BY <1>1, <2>1, CollectFacts DEF Collects
  <2> QED BY <1>1, <2>2 DEF Source, OsDraw, PrimaryOutput
<1>2. CASE Primary
  <2>1. sources = << >> /\ Len(sources) = 0
    BY <1>2 DEF Primary, Collecting
  <2>2. Collects("os_primary", OsDraw(drawn + 1))
    BY <1>2, Collectors
  <2>3. sources'[1] = Source("os_primary", OsDraw(drawn + 1)) /\ seeds' = seeds
    BY <2>1, <2>2, Collectors, CollectFacts DEF Collects
  <2>4. \A i \in DOMAIN seeds : PrimaryOutput(drawn + 1) \notin seeds[i]
    BY <1>0 DEF Drawn
  <2>5. drawn + 1 \in Nat
    BY <1>0
  <2> QED BY <2>3, <2>4, <2>5 DEF Source, OsDraw, PrimaryOutput
<1>3. CASE PrimaryFails
  BY <1>3 DEF PrimaryFails
<1>4. CASE Secondary
  BY <1>1, <1>4, Collectors DEF Secondary
<1>5. CASE SecondarySkipped
  BY <1>5 DEF SecondarySkipped, Source, OsDraw, PrimaryOutput
<1>6. ASSUME NEW k \in DOMAIN Ambient, ReadAmbient(k) PROVE PrimaryIsNew'
  <2>1. step \notin {"idle", "primary"}
    BY <1>6 DEF ReadAmbient
  <2> QED BY <1>1, <1>6, <2>1, Collectors, AmbientMethods
<1>7. ASSUME NEW w \in Workers, Spawn(w) \/ WorkerStep(w) PROVE PrimaryIsNew'
  BY <1>7 DEF Spawn, WorkerStep, WorkerArrives, WorkerExits, Source, OsDraw, PrimaryOutput
<1>8. CASE SpawnFails \/ MeetWorkers \/ Release
  BY <1>8 DEF SpawnFails, MeetWorkers, Release, Source, OsDraw, PrimaryOutput
<1>9. CASE Join
  <2>1. step \notin {"idle", "primary"}
    BY <1>9 DEF Join
  <2> QED BY <1>1, <1>9, <2>1, Collectors, AmbientMethods
<1>10. CASE Fold
  BY <1>10 DEF Fold, Source, OsDraw, PrimaryOutput
<1>11. CASE Squeeze
  BY <1>11 DEF Squeeze
<1>12. ASSUME NEW e \in Environments, Harvest(e) PROVE PrimaryIsNew'
  BY <1>12 DEF Harvest
<1>13. ASSUME NEW a \in HwAnswers, hardware_rng(a) PROVE PrimaryIsNew'
  BY <1>13 DEF hardware_rng, harvestVars, Source, OsDraw, PrimaryOutput
<1>14. CASE UNCHANGED entropyVars
  BY <1>14 DEF entropyVars, harvestVars, Source, OsDraw, PrimaryOutput
<1> QED
  BY <1>2, <1>3, <1>4, <1>5, <1>6, <1>7, <1>8, <1>9, <1>10, <1>11, <1>12, <1>13, <1>14
     DEF EntropyNext, HarvestNext, CallerStep

\* The pool that is squeezed holds the primary draw of this call, and no seed does.
LEMMA SeedsStep ==
  Typed /\ Collecting /\ EveryMethodCounts /\ PrimaryIsNew /\ SeedsAreFresh
    /\ [EntropyNext]_entropyVars => SeedsAreFresh'
<1> SUFFICES ASSUME Typed, Collecting, EveryMethodCounts, PrimaryIsNew, SeedsAreFresh,
                    [EntropyNext]_entropyVars
             PROVE  SeedsAreFresh'
  OBVIOUS
<1>1. CASE Squeeze
  <2>1. PICK d \in Nat : /\ sources[1] = Source("os_primary", OsDraw(d))
                         /\ \A i \in DOMAIN seeds : PrimaryOutput(d) \notin seeds[i]
    BY <1>1 DEF Squeeze, PrimaryIsNew
  <2>2. 1 \in 1 .. folded
    BY <1>1 DEF Squeeze, Collecting, Typed
  <2>3. PrimaryOutput(d) \in pool
    <3>1. whiten(sources[1]) = PrimaryOutput(d)
      BY <2>1 DEF whiten, Tag, Source, PrimaryOutput
    <3> QED BY <2>2, <3>1 DEF EveryMethodCounts
  <2>4. /\ DOMAIN seeds' = DOMAIN seeds \cup {Len(seeds) + 1}
        /\ seeds'[Len(seeds) + 1] = pool
        /\ \A i \in DOMAIN seeds : seeds'[i] = seeds[i]
    BY <1>1 DEF Squeeze, Typed
  <2>5. \A i \in DOMAIN seeds : seeds[i] # pool
    BY <2>1, <2>3
  <2> QED BY <2>4, <2>5 DEF SeedsAreFresh
<1>2. CASE UNCHANGED seeds
  BY <1>2 DEF SeedsAreFresh
<1>3. Squeeze \/ UNCHANGED seeds
  BY DEF EntropyNext, HarvestNext, CallerStep, Primary, PrimaryFails, Secondary,
         SecondarySkipped, ReadAmbient, Spawn, SpawnFails, MeetWorkers, Release, Join, Fold,
         Harvest, WorkerStep, WorkerArrives, WorkerExits, hardware_rng, harvestVars,
         entropyVars
<1> QED BY <1>1, <1>2, <1>3

----------------------------------------------------------------------------
(* The hardware generator                                                  *)

\* A word is kept only when every answer up to it was good, its own too.
LEMMA HwStep == NoFailedWordIsUsed /\ [EntropyNext]_entropyVars => NoFailedWordIsUsed'
<1> SUFFICES ASSUME NoFailedWordIsUsed, [EntropyNext]_entropyVars PROVE NoFailedWordIsUsed'
  OBVIOUS
<1>1. ASSUME NEW a \in HwAnswers, hardware_rng(a) PROVE NoFailedWordIsUsed'
  <2>1. /\ hw'.answers = a /\ hw'.words = Words(a)
        /\ hw'.name = IF Words(a) = << >> THEN "hw_rng_unavailable" ELSE "hw_rng"
    BY <1>1 DEF hardware_rng
  <2>2. ASSUME NEW k \in DOMAIN Words(a) PROVE a[k].available /\ a[k].flag
    <3>1. k \in DOMAIN a /\ \A j \in 1 .. k : hw_random_u64(a[j]) # Failed
      BY <2>2 DEF Words
    <3>2. k \in 1 .. k
      BY <1>1, <3>1, EntropyAssumption
    <3>3. hw_random_u64(a[k]) # Failed
      BY <3>1, <3>2
    <3> QED BY <3>3 DEF hw_random_u64
  <2> QED BY <2>1, <2>2 DEF NoFailedWordIsUsed
<1>2. CASE UNCHANGED hw
  BY <1>2 DEF NoFailedWordIsUsed
<1> QED BY <1>1, <1>2 DEF EntropyNext, entropyVars

----------------------------------------------------------------------------
(* The theorems                                                            *)

LEMMA InitLemma == EntropyInit => IInv /\ NoFailedWordIsUsed
<1> SUFFICES ASSUME EntropyInit PROVE IInv /\ NoFailedWordIsUsed
  OBVIOUS
<1> USE DEF EntropyInit
<1>1. Typed
  BY DEF Typed, Steps
<1>2. Threads
  BY DEF Threads, ThreadsAt, Before, Between
<1>3. Locations /\ Collecting
  BY DEF Locations, VariablesAreWiped, Collecting
<1>4. Once /\ PrimaryIsNew /\ SeedsAreFresh /\ Drawn
  BY DEF Once, PrimaryIsNew, SeedsAreFresh, Drawn
<1>5. EveryMethodCounts
  BY DEF EveryMethodCounts
<1>6. NoFailedWordIsUsed
  BY DEF NoFailedWordIsUsed
<1> QED BY <1>1, <1>2, <1>3, <1>4, <1>5, <1>6 DEF IInv

LEMMA EntropyStep ==
  IInv /\ NoFailedWordIsUsed /\ [EntropyNext]_entropyVars => (IInv /\ NoFailedWordIsUsed)'
<1> SUFFICES ASSUME IInv, NoFailedWordIsUsed, [EntropyNext]_entropyVars
             PROVE  IInv' /\ NoFailedWordIsUsed'
  OBVIOUS
<1>1. Typed' /\ Threads' /\ Locations'
  BY TypeStep, ThreadsStep, LocationsStep DEF IInv
<1>2. Collecting' /\ Once' /\ EveryMethodCounts'
  BY CollectingStep, OnceStep, CountsStep DEF IInv
<1>3. Drawn' /\ PrimaryIsNew' /\ SeedsAreFresh'
  BY DrawnStep, PrimaryStep, SeedsStep DEF IInv
<1>4. NoFailedWordIsUsed'
  BY HwStep
<1> QED BY <1>1, <1>2, <1>3, <1>4 DEF IInv

\* The inductive invariant of harvest_multi_source and its threads: who may be where, what
\* has been collected and folded, and which draws are behind it.
THEOREM Invariance == EntropySpec => [](IInv /\ NoFailedWordIsUsed)
BY InitLemma, EntropyStep, PTL DEF EntropySpec

\* No two harvests yield the same seed (l1_entropy.rs:290), however often the secondary
\* source fails and whatever the ambient methods read.
THEOREM SeedsFresh == EntropySpec => []SeedsAreFresh
<1>1. IInv => SeedsAreFresh
  BY DEF IInv
<1> QED BY <1>1, Invariance, PTL

\* The fold of l1_entropy.rs:334 loses no source, and hardware_rng keeps no failed word.
THEOREM DrawsCount == EntropySpec => []EveryDrawCounts
<1>1. IInv /\ NoFailedWordIsUsed => EveryDrawCounts
  BY DEF IInv, EveryDrawCounts
<1> QED BY <1>1, Invariance, PTL

\* For any number of threads: no worker passes the barrier early or outlives the call, every
\* variable of the call but `whitened` is cleared when it returns, and a refused call leaves
\* nothing (l1_entropy.rs:356).  Copies of the raw bytes may stay behind: `stray`.
THEOREM CleansUp == EntropySpec => []HarvestCleansUp
<1>1. IInv => HarvestCleansUp
  <2> SUFFICES ASSUME IInv PROVE HarvestCleansUp
    OBVIOUS
  <2>1. VariablesAreWiped
    BY DEF IInv, Locations
  <2>2. NoThreadOutlives
    BY DEF IInv, Threads, ThreadsAt, Between, NoThreadOutlives
  <2>3. TimedUnderContention
    BY DEF IInv, Typed, Steps, Threads, ThreadsAt, Before, Between, TimedUnderContention
  <2> QED BY <2>1, <2>2, <2>3 DEF HarvestCleansUp
<1> QED BY <1>1, Invariance, PTL

----------------------------------------------------------------------------
(* Wiping a buffer                                                         *)

\* A buffer is not empty, and a wipe that is under way ends with a pass of zeros.
WipeInv ==
  1 \in DOMAIN buf /\ passes \in {<< >>, <<0>>, <<Poison, 0>>, <<0, Poison, 0>>}

LEMMA WipeStep == WipeInv /\ [LayersNext]_vars => WipeInv'
<1> SUFFICES ASSUME WipeInv, [LayersNext]_vars PROVE WipeInv'
  OBVIOUS
<1>1. CASE UNCHANGED <<buf, passes>>
  BY <1>1 DEF WipeInv
<1>2. ASSUME NEW b, b \in Seq(Nat), b # << >>, buf' = b, passes' = passes PROVE WipeInv'
  BY <1>2 DEF WipeInv
<1>3. ASSUME NEW b \in Buffers, FillBuffer(b) PROVE WipeInv'
  BY <1>2, <1>3, LayersAssumption DEF FillBuffer
<1>4. CASE plant_stack_canary
  <2>1. CANARY_VALUE \in Seq(Nat) /\ CANARY_VALUE # << >>
    BY LayersAssumption
  <2> QED BY <1>2, <1>4, <2>1 DEF plant_stack_canary, FillBuffer
<1>5. CASE zeroize_multi_pass \/ wipe_stack_canary
  BY <1>5 DEF zeroize_multi_pass, wipe_stack_canary, MultiPass, WipeInv
<1>6. CASE Pass
  <2>1. passes' \in {<< >>, <<0>>, <<Poison, 0>>}
    <3>1. passes' = Tail(passes) /\ passes # << >>
      BY <1>6 DEF Pass
    <3>2. CASE passes = <<0>>
      BY <3>1, <3>2
    <3>3. CASE passes = <<Poison, 0>>
      BY <3>1, <3>3
    <3>4. CASE passes = <<0, Poison, 0>>
      BY <3>1, <3>4
    <3> QED BY <3>1, <3>2, <3>3, <3>4 DEF WipeInv
  <2>2. DOMAIN buf' = DOMAIN buf
    BY <1>6 DEF Pass, WriteAll
  <2> QED BY <2>1, <2>2 DEF WipeInv
<1>7. BufferStep => WipeInv'
  BY <1>3, <1>4, <1>5, <1>6 DEF BufferStep
<1> QED BY <1>1, <1>7 DEF LayersNext, vars, layerVars

LEMMA WipeEnds ==
  ASSUME WipeInv, [LayersNext]_vars, passes # << >>, passes' = << >>
  PROVE  (\A k \in DOMAIN buf' : buf'[k] = 0) /\ 1 \in DOMAIN buf'
<1>1. Pass
  <2>1. passes' # passes
    OBVIOUS
  <2>2. BufferStep
    BY <2>1 DEF LayersNext, vars, layerVars
  <2>3. ~zeroize_multi_pass /\ ~wipe_stack_canary /\ ~plant_stack_canary
    BY DEF zeroize_multi_pass, wipe_stack_canary, plant_stack_canary, FillBuffer
  <2> QED BY <2>2, <2>3 DEF BufferStep
<1>2. passes' = Tail(passes) /\ buf' = [k \in DOMAIN buf |-> Head(passes)]
  BY <1>1 DEF Pass, WriteAll
<1>3. Head(passes) = 0
  <2>1. passes # <<Poison, 0>>
    <3>1. Tail(<<Poison, 0>>) # << >>
      OBVIOUS
    <3> QED BY <1>2, <3>1
  <2>2. passes # <<0, Poison, 0>>
    <3>1. Tail(<<0, Poison, 0>>) # << >>
      OBVIOUS
    <3> QED BY <1>2, <3>1
  <2>3. passes = <<0>>
    BY <2>1, <2>2 DEF WipeInv
  <2> QED BY <2>3
<1> QED BY <1>2, <1>3 DEF WipeInv

\* A wipe ends in zeros, whatever the buffer held (l6_zeroise.rs:121-130), and no validator
\* takes what it leaves for a proof, a commitment, a verdict or an intact canary.
THEOREM WipesEndInZeros == LayersSpec => WipeEndsInZeros
<1>1. EntropyInit /\ HealthInit /\ LayersInit => WipeInv
  BY DEF LayersInit, WipeInv
<1>2. WipeInv /\ [LayersNext]_vars =>
        [passes # << >> /\ passes' = << >> =>
           /\ validate_zeroization(buf') /\ \A k \in DOMAIN buf' : buf'[k] = 0
           /\ ~(validate_proof(buf') \/ validate_commitment(buf') \/ validate_verdict(buf'))
           /\ ~(validate_proof_strength(buf') \/ validate_commitment_strength(buf')
                  \/ validate_verdict_strength(buf') \/ validate_stack_canary(buf'))]_vars
  <2> SUFFICES ASSUME WipeInv, [LayersNext]_vars, passes # << >>, passes' = << >>
               PROVE  /\ AllOf(buf', 0) /\ AllOf(buf', buf'[1]) /\ buf' # CANARY_VALUE
    BY DEF validate_zeroization, validate_proof, validate_commitment, validate_verdict,
           validate_proof_strength, validate_commitment_strength, validate_verdict_strength,
           validate_stack_canary, WellFormed, Strong, AllOf
  <2>1. (\A k \in DOMAIN buf' : buf'[k] = 0) /\ 1 \in DOMAIN buf'
    BY WipeEnds
  <2>2. buf' # CANARY_VALUE
    BY <2>1, LayersAssumption
  <2> QED BY <2>1, <2>2 DEF AllOf
<1> QED BY <1>1, <1>2, WipeStep, PTL DEF LayersSpec, WipeEndsInZeros

----------------------------------------------------------------------------
(* Lists, and induction                                                    *)

\* A sequence, whatever it is of.
IsList(s) == s \in Seq({s[k] : k \in DOMAIN s})

LEMMA ListFacts ==
  ASSUME NEW s, IsList(s)
  PROVE  Len(s) \in Nat /\ DOMAIN s = 1 .. Len(s)
<1>1. s \in Seq({s[k] : k \in DOMAIN s})
  BY DEF IsList
<1> QED BY <1>1

LEMMA ListMade ==
  ASSUME NEW m \in Nat, NEW f, f = [k \in 1 .. m |-> f[k]]
  PROVE  IsList(f) /\ Len(f) = m
<1>1. DOMAIN f = 1 .. m
  OBVIOUS
<1>2. f \in Seq({f[k] : k \in DOMAIN f})
  BY <1>1
<1> QED BY <1>1, <1>2 DEF IsList

LEMMA ListAppend ==
  ASSUME NEW s, IsList(s), NEW e
  PROVE  /\ IsList(Append(s, e)) /\ Len(Append(s, e)) = Len(s) + 1
         /\ Append(s, e)[Len(s) + 1] = e
         /\ \A k \in 1 .. Len(s) : Append(s, e)[k] = s[k]
<1> DEFINE S == {s[k] : k \in DOMAIN s} \cup {e}
<1>1. s \in Seq(S)
  BY SeqMonotonic DEF IsList
<1>2. Append(s, e) \in Seq(S) /\ e \in S
  BY <1>1
<1> HIDE DEF S
<1>3. /\ Len(Append(s, e)) = Len(s) + 1 /\ Append(s, e)[Len(s) + 1] = e
      /\ \A k \in 1 .. Len(s) : Append(s, e)[k] = s[k]
  BY <1>1, <1>2, AppendProperties
<1>4. Append(s, e) = [k \in 1 .. Len(s) + 1 |-> Append(s, e)[k]]
  <2>1. Append(s, e) \in [1 .. Len(Append(s, e)) -> S]
    BY <1>2, LenProperties
  <2> QED BY <2>1, <1>3
<1>5. Len(s) + 1 \in Nat
  BY <1>1
<1> QED BY <1>3, <1>4, <1>5, ListMade

LEMMA ListEqual ==
  ASSUME NEW s, NEW t, IsList(s), IsList(t), Len(s) = Len(t), \A k \in 1 .. Len(s) : s[k] = t[k]
  PROVE  s = t
<1> DEFINE S == {s[k] : k \in DOMAIN s} \cup {t[k] : k \in DOMAIN t}
<1>1. s \in Seq(S) /\ t \in Seq(S)
  BY SeqMonotonic DEF IsList
<1> HIDE DEF S
<1> QED BY <1>1, SeqEqual

LEMMA Least ==
  ASSUME NEW T \in SUBSET Nat, T # {}
  PROVE  \E x \in T : \A y \in T : x <= y
<1> DEFINE R == {p \in Nat \X Nat : p[1] < p[2]}
<1>1. IsWellFoundedOn(R, Nat)
  BY NatLessThanWellFounded DEF OpToRel
<1> HIDE DEF R
<1>2. PICK x \in T : \A y \in T : ~(<<y, x>> \in R)
  BY <1>1, WFMin
<1>3. ASSUME NEW y \in T PROVE x <= y
  <2>1. y \in Nat /\ x \in Nat
    OBVIOUS
  <2>2. y < x => <<y, x>> \in R
    BY <2>1 DEF R
  <2> QED BY <1>2, <2>1, <2>2
<1> QED BY <1>3

LEMMA Induction ==
  ASSUME NEW S, 0 \in S, \A k \in Nat : k \in S => k + 1 \in S
  PROVE  \A k \in Nat : k \in S
<1> DEFINE T == {k \in Nat : k \notin S}
<1>1. SUFFICES ASSUME T # {} PROVE FALSE
  OBVIOUS
<1>2. PICK x \in T : \A y \in T : x <= y
  BY <1>1, Least
<1>3. x # 0 /\ x \in Nat /\ x - 1 \in Nat /\ x - 1 \notin T
  BY <1>2
<1>4. x - 1 + 1 \in S
  BY <1>3
<1> QED BY <1>4, <1>3

LEMMA BoundedIsList ==
  ASSUME NEW S, NEW n, NEW s \in BoundedSeq(S, n), n \in Nat
  PROVE  s \in Seq(S)
<1>1. PICK m \in 0 .. n : s \in [1 .. m -> S]
  BY DEF BoundedSeq, SeqOf
<1> QED BY <1>1

----------------------------------------------------------------------------
(* Keys from several seeds                                                 *)

\* Seeds that are distinct do not cancel.
LEMMA DistinctSeedsAdd ==
  ASSUME SeedsAreFresh, NEW js \in Seq(DOMAIN seeds)
  PROVE  Cardinality(Combined(js)) = Cardinality(OddOnes(js))
<1> DEFINE n == Len(js)
           O == OddOnes(js)
           T == {seeds[j] : j \in O}
           f == [j \in O |-> seeds[j]]
<1>1. /\ n \in Nat /\ DOMAIN js = 1 .. n /\ \A k \in 1 .. n : js[k] \in DOMAIN seeds
      /\ Range(js) = {js[k] : k \in 1 .. n} /\ O \subseteq Range(js)
  BY DEF Range, OddOnes
<1>2. ASSUME NEW j \in Range(js)
      PROVE  {k \in DOMAIN js : seeds[js[k]] = seeds[j]} = {k \in DOMAIN js : js[k] = j}
  BY <1>1, <1>2 DEF SeedsAreFresh
<1>3. Combined(js) = T
  <2>1. ASSUME NEW j \in Range(js)
        PROVE  seeds[j] \in Combined(js) <=> j \in O
    <3> DEFINE Here(x) == {k \in DOMAIN js : seeds[js[k]] = x}
               There(i) == {k \in DOMAIN js : js[k] = i}
    <3>1. Cardinality(Here(seeds[j])) = Cardinality(There(j))
      BY <1>2
    <3>2. seeds[j] \in Combined(js) <=> Cardinality(Here(seeds[j])) % 2 = 1
      BY DEF Combined
    <3>3. j \in O <=> Cardinality(There(j)) % 2 = 1
      BY DEF OddOnes, Often
    <3> HIDE DEF Here, There
    <3> QED BY <3>1, <3>2, <3>3
  <2>2. \A x \in Combined(js) : \E j \in Range(js) : x = seeds[j]
    BY DEF Combined
  <2> QED BY <1>1, <2>1, <2>2
<1>4. f \in Bijection(O, T)
  <2>1. f \in [O -> T]
    OBVIOUS
  <2>2. \A a, b \in O : f[a] = f[b] => a = b
    BY <1>1 DEF SeedsAreFresh
  <2>3. \A x \in T : \E j \in O : f[j] = x
    OBVIOUS
  <2> QED BY <2>1, <2>2, <2>3 DEF Bijection, Injection, Surjection, IsInjective
<1>5. IsFiniteSet(O)
  <2>1. js \in Surjection(1 .. n, Range(js))
    BY <1>1 DEF Surjection
  <2>2. IsFiniteSet(Range(js))
    BY <1>1, <2>1, FS_Interval, FS_Surjection
  <2> QED BY <1>1, <2>2, FS_Subset
<1>6. ExistsBijection(O, T)
  BY <1>4 DEF ExistsBijection
<1>7. Cardinality(T) = Cardinality(O)
  BY <1>5, <1>6, FS_Bijection
<1> QED BY <1>3, <1>7

----------------------------------------------------------------------------
(* Commitments                                                             *)

LEMMA TextMade ==
  ASSUME NEW s \in Seq(Bytes)
  PROVE  /\ IsList(Text(s)) /\ Len(Text(s)) = Len(s) /\ Len(s) \in Nat
         /\ \A k \in 1 .. Len(s) : Text(s)[k] = Byte(s[k])
<1>1. DOMAIN s = 1 .. Len(s) /\ Len(s) \in Nat
  OBVIOUS
<1>2. Text(s) = [k \in 1 .. Len(s) |-> Text(s)[k]]
  BY <1>1 DEF Text
<1>3. IsList(Text(s)) /\ Len(Text(s)) = Len(s)
  BY <1>1, <1>2, ListMade
<1>4. \A k \in 1 .. Len(s) : Text(s)[k] = Byte(s[k])
  BY <1>1 DEF Text
<1> QED BY <1>1, <1>3, <1>4

\* What a text and a head before it are sequences of.
Letters(x) == {Byte(b) : b \in Bytes} \cup {x}

LEMMA LettersMade ==
  ASSUME NEW x, NEW s \in Seq(Bytes)
  PROVE  Text(s) \in Seq(Letters(x)) /\ <<x>> \in Seq(Letters(x))
<1>1. DOMAIN s = 1 .. Len(s) /\ Len(s) \in Nat /\ \A k \in 1 .. Len(s) : s[k] \in Bytes
  OBVIOUS
<1> DEFINE L == Letters(x)
<1>2. x \in L /\ \A k \in 1 .. Len(s) : Byte(s[k]) \in L
  BY <1>1 DEF Letters
<1> HIDE DEF L
<1>3. Text(s) \in [1 .. Len(s) -> L]
  BY <1>1, <1>2 DEF Text
<1>4. Text(s) \in Seq(L) /\ <<x>> \in Seq(L)
  BY <1>1, <1>2, <1>3
<1> QED BY <1>4 DEF L

\* A head and a text: what is hashed tells the text.
LEMMA TextTells ==
  ASSUME NEW x, NEW s \in Seq(Bytes), NEW t \in Seq(Bytes), <<x>> \o Text(s) = <<x>> \o Text(t)
  PROVE  s = t
<1> DEFINE L == Letters(x)
           h == <<x>>
           a == Text(s)
           b == Text(t)
<1>1. a \in Seq(L) /\ b \in Seq(L) /\ h \in Seq(L) /\ h \o a = h \o b
  BY LettersMade
<1> HIDE DEF L, h, a, b
<1>2. a = b
  BY <1>1, ConcatSimplifications
<1>3. /\ Len(a) = Len(s) /\ \A k \in 1 .. Len(s) : a[k] = Byte(s[k])
      /\ Len(b) = Len(t) /\ \A k \in 1 .. Len(t) : b[k] = Byte(t[k])
  BY TextMade DEF a, b
<1>4. ASSUME NEW k \in 1 .. Len(s) PROVE s[k] = t[k]
  <2>1. Byte(s[k]) = Byte(t[k])
    BY <1>2, <1>3
  <2> QED BY <2>1 DEF Byte
<1> QED BY <1>2, <1>3, <1>4, SeqEqual

\* Claim and context are hashed as one text.
LEMMA OneText ==
  ASSUME NEW x, NEW s \in Seq(Bytes), NEW t \in Seq(Bytes)
  PROVE  <<x>> \o Text(s) \o Text(t) = <<x>> \o Text(s \o t) /\ s \o t \in Seq(Bytes)
<1> DEFINE L == Letters(x)
           h == <<x>>
           a == Text(s)
           b == Text(t)
           u == s \o t
           c == Text(u)
           y == a \o b
<1>1. a \in Seq(L) /\ b \in Seq(L) /\ h \in Seq(L)
  BY LettersMade
<1>2. /\ Len(a) = Len(s) /\ Len(s) \in Nat /\ \A k \in 1 .. Len(s) : a[k] = Byte(s[k])
      /\ Len(b) = Len(t) /\ Len(t) \in Nat /\ \A k \in 1 .. Len(t) : b[k] = Byte(t[k])
  BY TextMade
<1>3. /\ u \in Seq(Bytes) /\ Len(u) = Len(s) + Len(t)
      /\ \A k \in 1 .. Len(s) + Len(t) : u[k] = IF k <= Len(s) THEN s[k] ELSE t[k - Len(s)]
  BY ConcatProperties
<1> HIDE DEF u
<1>4. c \in Seq(L) /\ Len(c) = Len(u) /\ \A k \in 1 .. Len(u) : c[k] = Byte(u[k])
  BY <1>3, TextMade, LettersMade
<1> HIDE DEF L, h, a, b, c
<1>5. /\ y \in Seq(L) /\ Len(y) = Len(s) + Len(t)
      /\ \A k \in 1 .. Len(s) + Len(t) : y[k] = IF k <= Len(s) THEN a[k] ELSE b[k - Len(s)]
  <2>1. /\ a \o b \in Seq(L) /\ Len(a \o b) = Len(a) + Len(b)
        /\ \A k \in 1 .. Len(a) + Len(b) : (a \o b)[k] = IF k <= Len(a) THEN a[k] ELSE b[k - Len(a)]
    BY <1>1, ConcatProperties
  <2>2. /\ y \in Seq(L) /\ Len(y) = Len(a) + Len(b)
        /\ \A k \in 1 .. Len(a) + Len(b) : y[k] = IF k <= Len(a) THEN a[k] ELSE b[k - Len(a)]
    BY <2>1
  <2> HIDE DEF y
  <2> QED BY <1>2, <2>2
<1>6. h \o a \o b = h \o y
  BY <1>1, ConcatAssociative, SMTT(30)
<1> HIDE DEF y
<1>7. ASSUME NEW k \in 1 .. Len(s) + Len(t) PROVE y[k] = c[k]
  <2>1. c[k] = Byte(u[k])
    BY <1>3, <1>4
  <2>2. CASE k <= Len(s)
    <3>1. k \in 1 .. Len(s)
      BY <1>2, <2>2
    <3> QED BY <1>2, <1>3, <1>5, <2>1, <2>2, <3>1
  <2>3. CASE ~(k <= Len(s))
    <3>1. k - Len(s) \in 1 .. Len(t)
      BY <1>2, <2>3
    <3> QED BY <1>2, <1>3, <1>5, <2>1, <2>3, <3>1
  <2> QED BY <2>2, <2>3
<1>8. y = c
  BY <1>3, <1>4, <1>5, <1>7, SeqEqual
<1>9. h \o a \o b = h \o c
  BY <1>6, <1>8
<1> QED BY <1>3, <1>9 DEF h, a, b, c, u

\* The one claim that a commitment verifies against is what was committed, the
\* claim followed by its context; no commitment is empty, as a damaged proof is.
LEMMA CommitTells ==
  ASSUME NEW K, NEW s \in Seq(Bytes), NEW x \in Seq(Bytes), NEW c \in Seq(Bytes)
  PROVE  /\ commit(K, c) = commit_multi_source(K, s, x) <=> c = s \o x
         /\ commit(K, c) # << >>
<1> DEFINE h == PublicKeys(K)
<1>1. <<h>> \o Text(s) \o Text(x) = <<h>> \o Text(s \o x) /\ s \o x \in Seq(Bytes)
  BY OneText
<1>2. commit_multi_source(K, s, x) = commit(K, s \o x)
  BY <1>1 DEF commit_multi_source, commit
<1>3. ASSUME commit(K, c) = commit(K, s \o x) PROVE c = s \o x
  <2>1. <<h>> \o Text(c) = <<h>> \o Text(s \o x)
    BY <1>3 DEF commit, Hash
  <2> QED BY <1>1, <2>1, TextTells
<1>4. commit(K, c) # << >>
  BY DEF commit, Hash
<1> QED BY <1>2, <1>3, <1>4

----------------------------------------------------------------------------
(* Verdicts derived from a verdict                                         *)

Extended(t, how, x) == IF how = "blind" THEN verdict_blind(t, x) ELSE verdict_multi_source(t, x)

\* The transcript t came about by the steps d from the one over the commitment c; I[k] is
\* the transcript after k of them.
Derivation(I, d, t, c) ==
  /\ IsList(d) /\ I[0] = Hash("TRANSCRIPT", <<c>>) /\ I[Len(d)] = t
  /\ \A k \in 1 .. Len(d) : \E how \in {"blind", "multi"}, x \in Seq(Bytes) :
       d[k] = <<how, x>> /\ I[k] = Extended(I[k - 1], how, x)

LEMMA NoDerivation ==
  ASSUME NEW c
  PROVE  \E I : Derivation(I, << >>, Hash("TRANSCRIPT", <<c>>), c)
<1> DEFINE I == [k \in {0} |-> Hash("TRANSCRIPT", <<c>>)]
<1>1. IsList(<< >>) /\ Len(<< >>) = 0
  <2>1. << >> \in Seq({<< >>[j] : j \in DOMAIN << >>})
    OBVIOUS
  <2> QED BY <2>1 DEF IsList
<1>2. I[0] = Hash("TRANSCRIPT", <<c>>) /\ 1 .. 0 = {}
  OBVIOUS
<1>3. Derivation(I, << >>, Hash("TRANSCRIPT", <<c>>), c)
  BY <1>1, <1>2 DEF Derivation
<1> QED BY <1>3

LEMMA DerivationGrows ==
  ASSUME NEW I, NEW d, NEW t, NEW c, Derivation(I, d, t, c),
         NEW how \in {"blind", "multi"}, NEW x \in Seq(Bytes)
  PROVE  \E J : Derivation(J, Append(d, <<how, x>>), Extended(t, how, x), c)
<1> DEFINE n == Len(d)
           e == Append(d, <<how, x>>)
           J == [k \in 0 .. n + 1 |-> IF k = n + 1 THEN Extended(t, how, x) ELSE I[k]]
<1>1. n \in Nat /\ IsList(d)
  BY ListFacts DEF Derivation
<1>2. IsList(e) /\ Len(e) = n + 1 /\ e[n + 1] = <<how, x>> /\ \A k \in 1 .. n : e[k] = d[k]
  BY <1>1, ListAppend
<1>3. J[n + 1] = Extended(t, how, x) /\ \A k \in 0 .. n : J[k] = I[k]
  BY <1>1
<1> HIDE DEF e, J
<1>4. J[0] = Hash("TRANSCRIPT", <<c>>)
  BY <1>1, <1>3 DEF Derivation
<1>5. ASSUME NEW k \in 1 .. n + 1
      PROVE  \E w \in {"blind", "multi"}, y \in Seq(Bytes) :
               e[k] = <<w, y>> /\ J[k] = Extended(J[k - 1], w, y)
  <2>1. CASE k = n + 1
    <3>1. J[k - 1] = t
      BY <1>1, <1>3, <2>1 DEF Derivation
    <3> QED BY <1>2, <1>3, <2>1, <3>1
  <2>2. CASE k \in 1 .. n
    <3>1. J[k] = I[k] /\ J[k - 1] = I[k - 1] /\ e[k] = d[k]
      BY <1>1, <1>2, <1>3, <2>2
    <3> QED BY <2>2, <3>1 DEF Derivation
  <2> QED BY <1>1, <2>1, <2>2
<1>6. Derivation(J, e, Extended(t, how, x), c)
  BY <1>2, <1>3, <1>4, <1>5 DEF Derivation
<1> QED BY <1>6 DEF e

\* A transcript holds the one before it, and tells the step.
LEMMA StepIsTold ==
  ASSUME NEW t, NEW how \in {"blind", "multi"}, NEW x \in Seq(Bytes)
  PROVE  Extended(t, how, x)[3][1] = t /\ LastStep(Extended(t, how, x)) = <<how, x>>
<1> DEFINE e == Extended(t, how, x)
           L == Letters(t)
           h == <<t>>
           a == Text(x)
           y == h \o a
<1>1. e[2] = (IF how = "blind" THEN "blinding" ELSE "TRANSCRIPT") /\ e[3] = y
  BY DEF Extended, verdict_blind, verdict_multi_source, Hash
<1>2. h \in Seq(L) /\ a \in Seq(L) /\ Len(h) = 1 /\ h[1] = t
  BY LettersMade
<1>3. Len(a) = Len(x) /\ Len(x) \in Nat /\ \A k \in 1 .. Len(x) : a[k] = Byte(x[k])
  BY TextMade
<1> HIDE DEF L, h, a, e
<1>4. /\ Len(y) = 1 + Len(x)
      /\ \A k \in 1 .. 1 + Len(x) : y[k] = IF k <= 1 THEN h[k] ELSE a[k - 1]
  <2>1. /\ Len(h \o a) = Len(h) + Len(a)
        /\ \A k \in 1 .. Len(h) + Len(a) : (h \o a)[k] = IF k <= Len(h) THEN h[k] ELSE a[k - Len(h)]
    BY <1>2, ConcatProperties
  <2>2. /\ Len(y) = Len(h) + Len(a)
        /\ \A k \in 1 .. Len(h) + Len(a) : y[k] = IF k <= Len(h) THEN h[k] ELSE a[k - Len(h)]
    BY <2>1
  <2> HIDE DEF y
  <2> QED BY <1>2, <1>3, <2>2
<1> HIDE DEF y
<1>5. y[1] = t
  BY <1>2, <1>3, <1>4
<1>6. ASSUME NEW k \in 1 .. Len(x) PROVE y[k + 1][2] = x[k]
  <2>1. k + 1 \in 1 .. 1 + Len(x) /\ ~(k + 1 <= 1) /\ k + 1 - 1 = k
    BY <1>3
  <2>2. y[k + 1] = Byte(x[k])
    BY <1>3, <1>4, <2>1
  <2> QED BY <2>2 DEF Byte
<1>7. [k \in 1 .. Len(y) - 1 |-> y[k + 1][2]] = x
  <2>1. Len(y) - 1 = Len(x)
    BY <1>3, <1>4
  <2>2. x = [k \in 1 .. Len(x) |-> x[k]]
    OBVIOUS
  <2> QED BY <1>6, <2>1, <2>2
<1>8. (IF e[2] = "blinding" THEN "blind" ELSE "multi") = how
  BY <1>1
<1>9. LastStep(e) = <<how, x>>
  BY <1>1, <1>7, <1>8 DEF LastStep
<1> QED BY <1>1, <1>5, <1>9 DEF e

\* What the recursive function of the property finds are the transcripts of the derivation.
LEMMA HistoryIsTold ==
  ASSUME at = "emitted" => \E I : Derivation(I, derived, transcript, commitment)
  PROVE  TranscriptTellsHistory
<1> SUFFICES ASSUME at = "emitted" PROVE TranscriptTellsHistory
  BY DEF TranscriptTellsHistory
<1> DEFINE n == Len(derived)
           eq(f) == f = [k \in 0 .. n |-> IF k = 0 THEN transcript ELSE f[k - 1][3][1]]
           inner == CHOOSE f : eq(f)
<1>1. PICK I : Derivation(I, derived, transcript, commitment)
  OBVIOUS
<1>2. n \in Nat
  BY <1>1, ListFacts DEF Derivation
<1>3. ASSUME NEW k \in 1 .. n
      PROVE  I[k][3][1] = I[k - 1] /\ LastStep(I[k]) = derived[k]
  <2>1. PICK how \in {"blind", "multi"}, x \in Seq(Bytes) :
          derived[k] = <<how, x>> /\ I[k] = Extended(I[k - 1], how, x)
    BY <1>1 DEF Derivation
  <2> DEFINE before == I[k - 1]
             e == Extended(before, how, x)
  <2> HIDE DEF before
  <2>2. e[3][1] = before /\ LastStep(e) = <<how, x>>
    BY StepIsTold
  <2> HIDE DEF e
  <2> QED BY <2>1, <2>2 DEF e, before
<1> DEFINE g == [k \in 0 .. n |-> I[n - k]]
<1>4. eq(g)
  <2>1. ASSUME NEW k \in 0 .. n PROVE g[k] = IF k = 0 THEN transcript ELSE g[k - 1][3][1]
    <3>1. CASE k = 0
      <4>1. n - 0 = n /\ I[n] = transcript
        BY <1>1, <1>2 DEF Derivation
      <4> QED BY <1>2, <3>1, <4>1
    <3>2. CASE k # 0
      <4>1. n - (k - 1) \in 1 .. n /\ k - 1 \in 0 .. n /\ n - (k - 1) - 1 = n - k
        BY <1>2, <3>2
      <4>2. I[n - (k - 1)][3][1] = I[n - k]
        BY <1>3, <4>1
      <4> QED BY <3>2, <4>1, <4>2
    <3> QED BY <3>1, <3>2
  <2> QED BY <2>1
<1> HIDE DEF g
<1>5. eq(inner)
  BY <1>4
<1>6. TranscriptTellsHistory =
        (at = "emitted" =>
           /\ inner[n] = Hash("TRANSCRIPT", <<commitment>>)
           /\ \A k \in 1 .. n : derived[k] = LastStep(inner[n - k]))
  BY DEF TranscriptTellsHistory
<1> HIDE DEF inner
<1>7. inner[0] = transcript /\ \A k \in 1 .. n : inner[k] = inner[k - 1][3][1]
  <2>1. \A k \in 0 .. n : inner[k] = IF k = 0 THEN transcript ELSE inner[k - 1][3][1]
    BY <1>5
  <2>2. 0 \in 0 .. n /\ \A k \in 1 .. n : k \in 0 .. n /\ k # 0
    BY <1>2
  <2> QED BY <2>1, <2>2
<1> DEFINE S == {k \in Nat : k \in 0 .. n => inner[k] = I[n - k]}
<1>8. 0 \in S
  <2>1. n - 0 = n /\ I[n] = transcript
    BY <1>1, <1>2 DEF Derivation
  <2> QED BY <1>7, <2>1
<1>9. ASSUME NEW k \in Nat, k \in S PROVE k + 1 \in S
  <2>1. SUFFICES ASSUME k + 1 \in 0 .. n PROVE inner[k + 1] = I[n - (k + 1)]
    OBVIOUS
  <2>2. /\ k \in 0 .. n /\ k + 1 \in 1 .. n /\ k + 1 - 1 = k
        /\ n - k \in 1 .. n /\ n - k - 1 = n - (k + 1)
    BY <1>2, <2>1
  <2>3. inner[k + 1] = inner[k][3][1] /\ inner[k] = I[n - k]
    BY <1>7, <1>9, <2>2
  <2>4. I[n - k][3][1] = I[n - (k + 1)]
    BY <1>3, <2>2
  <2> QED BY <2>3, <2>4
<1>10. \A k \in 0 .. n : inner[k] = I[n - k]
  <2>1. \A k \in Nat : k \in S
    BY <1>8, <1>9, Induction
  <2> QED BY <1>2, <2>1
<1>11. inner[n] = Hash("TRANSCRIPT", <<commitment>>)
  <2>1. n - n = 0 /\ n \in 0 .. n
    BY <1>2
  <2>2. I[0] = Hash("TRANSCRIPT", <<commitment>>)
    BY <1>1 DEF Derivation
  <2>3. inner[n] = I[0]
    BY <1>10, <2>1
  <2> QED BY <2>2, <2>3
<1>12. ASSUME NEW k \in 1 .. n PROVE derived[k] = LastStep(inner[n - k])
  <2>1. n - k \in 0 .. n /\ n - (n - k) = k
    BY <1>2
  <2>2. inner[n - k] = I[k]
    BY <1>10, <2>1
  <2> QED BY <1>3, <2>2
<1> QED BY <1>6, <1>11, <1>12

----------------------------------------------------------------------------
(* The calls of the layers                                                 *)

Committed ==
  at \in {"committed", "proved", "checked"} =>
    /\ claim \in Seq(Bytes) /\ context \in Seq(Bytes)
    /\ commitment = commit_multi_source(keys, claim, context)

\* A proof is over the commitment, or was damaged.
Proved ==
  at \in {"proved", "checked"} =>
    (proof.by = keys /\ proof.of = commitment) \/ proof.of = << >>

Unchecked == at # "checked" => check.result = "none"

History ==
  /\ at # "emitted" => derived = << >>
  /\ at = "emitted" => \E I : Derivation(I, derived, transcript, commitment)

CallInv ==
  OnlyTwinsCancel /\ Committed /\ Proved /\ Unchecked /\ AcceptsWhatWasCommitted /\ History

LEMMA CallsKept == ASSUME CallInv, UNCHANGED callVars PROVE CallInv'
<1>1. /\ at' = at /\ keys' = keys /\ claim' = claim /\ context' = context
      /\ commitment' = commitment /\ proof' = proof /\ check' = check
      /\ derived' = derived /\ transcript' = transcript
  BY DEF callVars
<1>2. OnlyTwinsCancel' /\ Unchecked' /\ AcceptsWhatWasCommitted' /\ Proved'
  BY <1>1 DEF CallInv, OnlyTwinsCancel, Unchecked, AcceptsWhatWasCommitted, Proved
<1>3. at \in {"committed", "proved", "checked"} =>
        /\ claim' \in Seq(Bytes) /\ context' \in Seq(Bytes)
        /\ commitment' = commit_multi_source(keys', claim', context')
  BY <1>1 DEF CallInv, Committed
<1>4. at = "emitted" => \E I : Derivation(I, derived', transcript', commitment')
  BY <1>1 DEF CallInv, History
<1>5. at # "emitted" => derived' = << >>
  BY <1>1 DEF CallInv, History
<1>6. Committed'
  BY <1>1, <1>3 DEF Committed, commit_multi_source, PublicKeys, Text, Hash, Byte
<1>7. History'
  BY <1>1, <1>4, <1>5 DEF History, Derivation, IsList, Extended, Hash, verdict_blind,
                          verdict_multi_source, Text, Byte
<1> QED BY <1>2, <1>6, <1>7 DEF CallInv

\* Nothing but the keys is there yet, or no more.
LEMMA CallsAfresh ==
  ASSUME OnlyTwinsCancel', at' \in {"idle", "keys", "refused"}, check'.result = "none",
         derived' = << >>
  PROVE  CallInv'
BY DEF CallInv, Committed, Proved, Unchecked, AcceptsWhatWasCommitted, History

LEMMA NoKeysFresh == ASSUME keys' = NoKeys PROVE OnlyTwinsCancel'
<1>1. keys'.seed = {} /\ keys'.from = << >> /\ OddOnes(<< >>) = {}
  BY DEF NoKeys, OddOnes, Range
<1> QED BY <1>1 DEF OnlyTwinsCancel

LEMMA DeriveStep ==
  ASSUME CallInv, SeedsAreFresh, NEW kdf, NEW js \in Seq(DOMAIN seeds), DeriveKeys(kdf, js)
  PROVE  CallInv'
<1>1. keys' = Keys(kdf, js) /\ at' = "keys" /\ check' = check /\ derived' = derived /\ at = "idle"
  BY DEF DeriveKeys
<1>2. keys'.from = js /\ keys'.seed = Combined(js)
  BY <1>1 DEF Keys
<1>3. Cardinality(Combined(js)) = Cardinality(OddOnes(js))
  BY DistinctSeedsAdd
<1>4. OddOnes(keys'.from) = OddOnes(js)
  BY <1>2
<1>5. OnlyTwinsCancel'
  BY <1>2, <1>3, <1>4 DEF OnlyTwinsCancel, OddOnes, Often
<1>6. check'.result = "none" /\ derived' = << >>
  BY <1>1 DEF CallInv, Unchecked, History
<1> QED BY <1>1, <1>5, <1>6, CallsAfresh

LEMMA CommitStep ==
  ASSUME CallInv, NEW c \in Seq(Bytes), NEW x \in Seq(Bytes), Commit(c, x)
  PROVE  CallInv'
<1>1. /\ at = "keys" /\ at' = "committed" /\ keys' = keys /\ check' = check /\ derived' = derived
      /\ claim' = c /\ context' = x /\ commitment' = commit_multi_source(keys, c, x)
  BY DEF Commit
<1>2. commitment' = commit_multi_source(keys', claim', context')
  BY <1>1
<1>3. Committed'
  BY <1>1, <1>2 DEF Committed, commit_multi_source, PublicKeys, Text, Hash, Byte
<1>4. check'.result = "none" /\ derived' = << >>
  BY <1>1 DEF CallInv, Unchecked, History
<1>5. OnlyTwinsCancel'
  BY <1>1 DEF CallInv, OnlyTwinsCancel
<1> QED BY <1>1, <1>3, <1>4, <1>5 DEF CallInv, Proved, Unchecked, AcceptsWhatWasCommitted, History

\* A step that leaves what was committed alone.
LEMMA CommittedKept ==
  ASSUME CallInv, UNCHANGED <<keys, claim, context, commitment>>,
         at \in {"committed", "proved", "checked"}
  PROVE  OnlyTwinsCancel' /\ Committed'
<1>1. keys' = keys /\ claim' = claim /\ context' = context /\ commitment' = commitment
  OBVIOUS
<1>2. /\ claim' \in Seq(Bytes) /\ context' \in Seq(Bytes)
      /\ commitment' = commit_multi_source(keys', claim', context')
  BY <1>1 DEF CallInv, Committed
<1>3. Committed'
  BY <1>2 DEF Committed, commit_multi_source, PublicKeys, Text, Hash, Byte
<1> QED BY <1>1, <1>3 DEF CallInv, OnlyTwinsCancel

LEMMA ProveStep ==
  ASSUME CallInv, NEW b, Prove(b) \/ Damage(b) PROVE CallInv'
<1>1. /\ at \in {"committed", "proved"} /\ at' = "proved"
      /\ UNCHANGED <<keys, claim, context, commitment, check, derived>>
  BY DEF Prove, Damage
<1>2. OnlyTwinsCancel' /\ Committed'
  BY <1>1, CommittedKept
<1>3. (proof'.by = keys' /\ proof'.of = commitment') \/ proof'.of = << >>
  BY DEF Prove, Damage
<1>4. check'.result = "none" /\ derived' = << >>
  BY <1>1 DEF CallInv, Unchecked, History
<1> QED BY <1>1, <1>2, <1>3, <1>4 DEF CallInv, Proved, Unchecked, AcceptsWhatWasCommitted, History

LEMMA VerifyStep ==
  ASSUME CallInv, NEW scheme \in {"standard", "multi", "ml_dsa_87"}, NEW k,
         NEW c \in Seq(Bytes), Verify(scheme, k, c)
  PROVE  CallInv'
<1>1. /\ at = "proved" /\ at' = "checked"
      /\ UNCHANGED <<keys, claim, context, commitment, proof, derived>>
  BY DEF Verify
<1>2. OnlyTwinsCancel' /\ Committed'
  BY <1>1, CommittedKept
<1>3. /\ claim \in Seq(Bytes) /\ context \in Seq(Bytes)
      /\ commitment = commit_multi_source(keys, claim, context)
      /\ (proof.by = keys /\ proof.of = commitment) \/ proof.of = << >>
  BY <1>1 DEF CallInv, Committed, Proved
<1>4. verify(k, c, proof) =
        IF proof.of = commitment /\ k = keys /\ c = claim \o context THEN "valid" ELSE "invalid"
  <2> DEFINE J == claim \o context
             C(x) == commit(x, c)
  <2>1. C(keys) = commitment <=> c = J
    BY <1>3, CommitTells, ZenonT(30)
  <2>2. \A x : C(x) # << >>
    BY <1>3, CommitTells
  <2>3. verify(k, c, proof) = IF proof.by = k /\ proof.of = C(k) THEN "valid" ELSE "invalid"
    BY DEF verify
  <2> HIDE DEF J, C
  <2>4. verify(k, c, proof) =
          IF proof.of = commitment /\ k = keys /\ c = J THEN "valid" ELSE "invalid"
    BY <1>3, <2>1, <2>2, <2>3
  <2> QED BY <2>4 DEF J
<1>5. check'.claim = c /\ check'.keys = k /\ check'.result \in {verify(k, c, proof), "err"}
  BY DEF Verify, verify_multi_check
<1> HIDE DEF verify
<1>6. AcceptsWhatWasCommitted'
  BY <1>1, <1>4, <1>5 DEF AcceptsWhatWasCommitted
<1>7. Proved' /\ Unchecked' /\ History'
  BY <1>1, <1>3 DEF CallInv, Proved, Unchecked, History
<1> QED BY <1>2, <1>6, <1>7 DEF CallInv

LEMMA EmitStep == ASSUME CallInv, Emit PROVE CallInv'
<1>1. /\ at = "checked" /\ at' = "emitted" /\ keys' = NoKeys /\ check' = NoCheck
      /\ transcript' = Hash("TRANSCRIPT", <<commitment>>) /\ commitment' = commitment
      /\ derived' = derived
  BY DEF Emit
<1>2. OnlyTwinsCancel'
  BY <1>1, NoKeysFresh
<1>3. check'.result = "none" /\ derived' = << >>
  BY <1>1 DEF NoCheck, CallInv, History
<1>4. \E I : Derivation(I, derived', transcript', commitment')
  BY <1>1, <1>3, NoDerivation
<1>5. History'
  BY <1>1, <1>4 DEF History, Derivation, IsList, Extended, Hash, verdict_blind,
                    verdict_multi_source, Text, Byte
<1> QED BY <1>1, <1>2, <1>3, <1>5
        DEF CallInv, Committed, Proved, Unchecked, AcceptsWhatWasCommitted

LEMMA VerdictStep ==
  ASSUME CallInv, NEW how \in {"blind", "multi"}, NEW x \in Seq(Bytes), Derive(how, x)
  PROVE  CallInv'
<1>1. /\ at = "emitted" /\ at' = "emitted" /\ keys' = keys /\ check' = check /\ proof' = proof
      /\ claim' = claim /\ context' = context
      /\ commitment' = commitment /\ derived' = Append(derived, <<how, x>>)
      /\ transcript' = Extended(transcript, how, x)
  BY DEF Derive, Extended
<1>2. PICK I : Derivation(I, derived, transcript, commitment)
  BY <1>1 DEF CallInv, History
<1>3. \E J : Derivation(J, derived', transcript', commitment')
  BY <1>1, <1>2, DerivationGrows
<1>4. History'
  BY <1>1, <1>3 DEF History, Derivation, IsList, Extended, Hash, verdict_blind,
                    verdict_multi_source, Text, Byte
<1> QED BY <1>1, <1>4 DEF CallInv, OnlyTwinsCancel, Committed, Proved, Unchecked,
                          AcceptsWhatWasCommitted

LEMMA CallStep ==
  ASSUME CallInv, SeedsAreFresh, [LayersNext]_vars
  PROVE  CallInv'
<1>1. CASE UNCHANGED callVars
  BY <1>1, CallsKept
<1>2. CASE LayerCall
  <2>0. MaxSeeds \in Nat /\ MaxText \in Nat /\ 2 * MaxText \in Nat
    BY LayersAssumption
  <2>1. ASSUME NEW js \in BoundedSeq(DOMAIN seeds, MaxSeeds), NEW kdf \in {"shake", "hkdf"},
               DeriveKeys(kdf, js)
        PROVE  CallInv'
    BY <2>0, <2>1, BoundedIsList, DeriveStep
  <2>2. CASE KeysRefused \/ ProveFails
    <3>1. /\ at \in {"idle", "committed"} /\ at' = "refused"
          /\ UNCHANGED <<keys, check, derived>>
      BY <2>2 DEF KeysRefused, ProveFails
    <3>2. check'.result = "none" /\ derived' = << >> /\ OnlyTwinsCancel'
      BY <3>1 DEF CallInv, Unchecked, History, OnlyTwinsCancel
    <3> QED BY <3>1, <3>2, CallsAfresh
  <2>3. ASSUME NEW c \in BoundedSeq(Bytes, MaxText), NEW x \in BoundedSeq(Bytes, MaxText),
               Commit(c, x)
        PROVE  CallInv'
    BY <2>0, <2>3, BoundedIsList, CommitStep
  <2>4. ASSUME NEW b \in Signatures, Prove(b) \/ Damage(b) PROVE CallInv'
    BY <2>4, ProveStep
  <2>5. ASSUME NEW k \in VerifierKeys, NEW c \in BoundedSeq(Bytes, 2 * MaxText),
               NEW s \in {"standard", "multi", "ml_dsa_87"}, Verify(s, k, c)
        PROVE  CallInv'
    BY <2>0, <2>5, BoundedIsList, VerifyStep
  <2>6. CASE Emit
    BY <2>6, EmitStep
  <2>7. CASE End
    <3>1. at' = "idle" /\ keys' = NoKeys /\ check'.result = "none" /\ derived' = << >>
      BY <2>7 DEF End, NoCheck
    <3> QED BY <3>1, NoKeysFresh, CallsAfresh
  <2>8. ASSUME NEW x \in BoundedSeq(Bytes, MaxText), Derive("multi", x) \/ Derive("blind", x)
        PROVE  CallInv'
    BY <2>0, <2>8, BoundedIsList, VerdictStep
  <2> QED BY <1>2, <2>1, <2>2, <2>3, <2>4, <2>5, <2>6, <2>7, <2>8 DEF LayerCall
<1> QED BY <1>1, <1>2 DEF LayersNext, vars, layerVars

\* Keys depend on every seed that was given an odd number of times (l2_keygen.rs:224), a
\* commitment binds the claim followed by the context but not the border between the two
\* (l3_commit.rs:160), and a transcript tells each step of its derivation (l7_emit.rs:209,
\* 236), for any number of harvests, seeds, bytes and derived verdicts.
THEOREM InputsAreBound == LayersSpec => []LayersBindInputs
<1> DEFINE Inv == IInv /\ NoFailedWordIsUsed /\ CallInv
<1>1. EntropyInit /\ HealthInit /\ LayersInit => Inv
  <2> SUFFICES ASSUME EntropyInit, LayersInit PROVE CallInv
    BY InitLemma
  <2>1. OnlyTwinsCancel
    <3>1. keys.seed = {} /\ keys.from = << >> /\ OddOnes(<< >>) = {}
      BY DEF LayersInit, NoKeys, OddOnes, Range
    <3> QED BY <3>1 DEF OnlyTwinsCancel
  <2> QED BY <2>1 DEF LayersInit, NoCheck, CallInv, Committed, Proved, Unchecked,
                      AcceptsWhatWasCommitted, History
<1>2. Inv /\ [LayersNext]_vars => Inv'
  <2> SUFFICES ASSUME Inv, [LayersNext]_vars PROVE Inv'
    OBVIOUS
  <2>1. [EntropyNext]_entropyVars
    BY DEF LayersNext, vars
  <2>2. (IInv /\ NoFailedWordIsUsed)'
    BY <2>1, EntropyStep
  <2>3. CallInv'
    BY CallStep DEF IInv
  <2> QED BY <2>2, <2>3
<1>3. Inv => LayersBindInputs
  BY HistoryIsTold DEF CallInv, History, LayersBindInputs
<1> QED BY <1>1, <1>2, <1>3, PTL DEF LayersSpec

----------------------------------------------------------------------------
(* The repetition test                                                     *)

\* One step of Repetitions: f is what was counted before position k.
Counted(s, f, k) == IF k = 1 THEN 1 ELSE IF s[k] = s[k - 1] THEN f[k - 1] + 1 ELSE 1

\* A recursion that looks back by one has a solution on every finite prefix.
LEMMA CountingExists ==
  ASSUME NEW s, NEW n \in Nat
  PROVE  \E f : f = [k \in 1 .. n |-> Counted(s, f, k)]
<1> DEFINE Good(m, f) == \A k \in 1 .. m : f[k] = Counted(s, f, k)
           S == {m \in Nat : \E f : Good(m, f)}
<1>1. 0 \in S
  OBVIOUS
<1>2. ASSUME NEW m \in Nat, m \in S PROVE m + 1 \in S
  <2>1. PICK f : Good(m, f)
    BY <1>2
  <2> DEFINE g == [k \in 1 .. m + 1 |-> IF k = m + 1 THEN Counted(s, f, k) ELSE f[k]]
  <2>2. ASSUME NEW k \in 1 .. m + 1 PROVE g[k] = Counted(s, g, k)
    <3>1. k # 1 => k - 1 \in 1 .. m + 1 /\ k - 1 # m + 1
      BY <2>2
    <3>2. k # 1 => g[k - 1] = f[k - 1]
      BY <3>1
    <3>3. g[k] = Counted(s, f, k)
      BY <2>1
    <3> HIDE DEF g
    <3> QED BY <3>2, <3>3 DEF Counted
  <2> HIDE DEF g
  <2>3. Good(m + 1, g)
    BY <2>2
  <2> QED BY <2>3
<1>3. n \in S
  <2> HIDE DEF S
  <2> QED BY <1>1, <1>2, Induction
<1>4. PICK f : Good(n, f)
  BY <1>3
<1> DEFINE g == [k \in 1 .. n |-> f[k]]
<1>5. ASSUME NEW k \in 1 .. n PROVE g[k] = Counted(s, g, k)
  <2>1. k # 1 => k - 1 \in 1 .. n
    OBVIOUS
  <2>2. k # 1 => g[k - 1] = f[k - 1]
    BY <2>1
  <2>3. g[k] = Counted(s, f, k)
    BY <1>4
  <2> HIDE DEF g
  <2> QED BY <2>2, <2>3 DEF Counted
<1>6. g = [k \in 1 .. n |-> Counted(s, g, k)]
  <2>1. g = [k \in 1 .. n |-> g[k]]
    OBVIOUS
  <2> HIDE DEF g
  <2> QED BY <1>5, <2>1
<1> QED BY <1>6

LEMMA RepetitionsCount ==
  ASSUME NEW s \in Seq(Nat)
  PROVE  \A k \in 1 .. Len(s) : Repetitions(s)[k] = Counted(s, Repetitions(s), k)
<1> DEFINE eq(f) == f = [k \in 1 .. Len(s) |-> Counted(s, f, k)]
           count == CHOOSE f : eq(f)
<1>0. DOMAIN s = 1 .. Len(s) /\ Len(s) \in Nat
  OBVIOUS
<1>1. Repetitions(s) = count
  BY <1>0 DEF Repetitions, Counted
<1>2. \E f : eq(f)
  BY <1>0, CountingExists
<1>3. eq(count)
  BY <1>2
<1> HIDE DEF count
<1> DEFINE D(k) == Counted(s, count, k)
<1>4. count = [k \in 1 .. Len(s) |-> D(k)]
  BY <1>3
<1> HIDE DEF D
<1>5. \A k \in 1 .. Len(s) : count[k] = D(k)
  BY <1>4
<1> QED BY <1>1, <1>5 DEF D

\* The count is the length of the longest run that ends here.
LongestRun(s, k, c) ==
  /\ c \in 1 .. k /\ \A i \in k - c + 1 .. k : s[i] = s[k]
  /\ c # k => s[k - c] # s[k]

LEMMA CountIsLongestRun ==
  ASSUME NEW s \in Seq(Nat)
  PROVE  \A k \in 1 .. Len(s) : LongestRun(s, k, Repetitions(s)[k])
<1> DEFINE r == Repetitions(s)
           n == Len(s)
           S == {m \in Nat : \A k \in 1 .. n : k <= m => LongestRun(s, k, r[k])}
<1>0. n \in Nat /\ \A k \in 1 .. n : r[k] = Counted(s, r, k)
  BY RepetitionsCount
<1> HIDE DEF r
<1>1. 0 \in S
  BY <1>0
<1>2. ASSUME NEW m \in Nat, m \in S PROVE m + 1 \in S
  <2> SUFFICES ASSUME NEW k \in 1 .. n, k = m + 1 PROVE LongestRun(s, k, r[k])
    BY <1>2
  <2>1. CASE k = 1 \/ s[k] # s[k - 1]
    <3>1. r[k] = 1
      BY <1>0, <2>1 DEF Counted
    <3> QED BY <2>1, <3>1 DEF LongestRun
  <2>2. CASE k # 1 /\ s[k] = s[k - 1]
    <3> DEFINE c == r[k - 1]
    <3>1. r[k] = c + 1 /\ k - 1 \in 1 .. n
      BY <1>0, <2>2 DEF Counted
    <3>2. LongestRun(s, k - 1, c)
      BY <1>2, <3>1
    <3> HIDE DEF c
    <3>3. c \in 1 .. k - 1 /\ \A i \in (k - 1) - c + 1 .. k - 1 : s[i] = s[k - 1]
      BY <3>2 DEF LongestRun
    <3>4. c # k - 1 => s[(k - 1) - c] # s[k - 1]
      BY <3>2 DEF LongestRun
    <3>5. \A i \in k - (c + 1) + 1 .. k : i = k \/ i \in (k - 1) - c + 1 .. k - 1
      BY <3>3
    <3>6. \A i \in k - (c + 1) + 1 .. k : s[i] = s[k]
      BY <2>2, <3>3, <3>5
    <3>7. k - (c + 1) = (k - 1) - c /\ c + 1 \in 1 .. k
      BY <3>3
    <3>8. c + 1 # k => s[k - (c + 1)] # s[k]
      BY <2>2, <3>3, <3>4, <3>7
    <3> QED BY <3>1, <3>6, <3>7, <3>8 DEF LongestRun
  <2> QED BY <2>1, <2>2
<1>3. \A m \in Nat : m \in S
  <2> HIDE DEF S
  <2> QED BY <1>1, <1>2, Induction
<1> QED BY <1>0, <1>3 DEF r

LEMMA RepetitionIsExact ==
  ASSUME sample \in Seq(Nat), NEW cutoff \in 0 .. Len(sample) + 1
  PROVE  repetition_count_test(sample, cutoff) <=> ~HasRun(sample, cutoff)
<1> SUFFICES repetition_count_test(sample, cutoff) <=>
                      ~\E i, j \in DOMAIN sample :
                         j - i + 1 >= cutoff /\ i < j /\ Run(sample, i, j)
  BY DEF HasRun
<1> DEFINE r == Repetitions(sample)
           n == Len(sample)
<1>0. n \in Nat /\ DOMAIN sample = 1 .. n /\ \A k \in 1 .. n : LongestRun(sample, k, r[k])
  BY CountIsLongestRun
<1> HIDE DEF r
<1>1. ASSUME NEW k \in 2 .. n, sample[k] = sample[k - 1], ~(r[k] < cutoff)
      PROVE  \E i, j \in DOMAIN sample :
                j - i + 1 >= cutoff /\ i < j /\ Run(sample, i, j)
  <2>1. /\ r[k] \in 1 .. k /\ \A i \in k - r[k] + 1 .. k : sample[i] = sample[k]
        /\ r[k] # k => sample[k - r[k]] # sample[k]
    BY <1>0 DEF LongestRun
  <2>2. r[k] # 1
    BY <1>1, <2>1
  <2> DEFINE c == r[k]
             i == k - c + 1
  <2>a. c \in 1 .. k /\ c # 1 /\ ~(c < cutoff) /\ cutoff \in Nat
    BY <1>0, <1>1, <2>1, <2>2
  <2>b. \A l \in i .. k : sample[l] = sample[k]
    BY <2>1
  <2> HIDE DEF c
  <2>3. i \in 1 .. n /\ k \in 1 .. n /\ i < k /\ k - i + 1 >= cutoff
    BY <1>0, <2>a
  <2> HIDE DEF i
  <2>4. \A l \in i .. k : sample[l] = sample[i]
    BY <2>b, <2>3
  <2> QED BY <1>0, <2>3, <2>4 DEF Run
<1>2. ASSUME NEW i \in DOMAIN sample, NEW j \in DOMAIN sample,
             j - i + 1 >= cutoff, i < j, Run(sample, i, j)
      PROVE  \E k \in 2 .. n : sample[k] = sample[k - 1] /\ ~(r[k] < cutoff)
  <2>1. /\ r[j] \in 1 .. j /\ \A l \in j - r[j] + 1 .. j : sample[l] = sample[j]
        /\ r[j] # j => sample[j - r[j]] # sample[j]
    BY <1>0 DEF LongestRun
  <2>a. n \in Nat /\ i \in 1 .. n /\ j \in 1 .. n /\ i < j
    BY <1>0, <1>2
  <2>2. i \in 1 .. n /\ j \in 2 .. n /\ j - 1 \in i .. j /\ j \in i .. j
    BY <2>a
  <2>3. \A l \in i .. j : sample[l] = sample[i]
    BY <1>2 DEF Run
  <2>4. sample[j] = sample[j - 1]
    BY <2>2, <2>3
  <2>5. ~(j - r[j] \in i .. j)
    <3> SUFFICES ASSUME j - r[j] \in i .. j PROVE FALSE
      OBVIOUS
    <3>1. r[j] # j
      BY <2>1, <2>2
    <3> QED BY <2>1, <2>2, <2>3, <3>1
  <2>6. ~(r[j] < cutoff)
    <3> DEFINE c == r[j]
    <3>1. c \in 1 .. j /\ ~(j - c \in i .. j)
      BY <2>1, <2>5
    <3> HIDE DEF c
    <3>2. j - c < i /\ cutoff \in Nat /\ i \in Nat /\ j \in Nat
      BY <1>0, <2>2, <3>1
    <3>3. ~(c < cutoff)
      BY <1>2, <3>1, <3>2, SMTT(40)
    <3> QED BY <3>3 DEF c
  <2> QED BY <2>2, <2>4, <2>6
<1>3. repetition_count_test(sample, cutoff) <=>
        \A k \in 2 .. n : sample[k] = sample[k - 1] => r[k] < cutoff
  BY DEF repetition_count_test, r
<1> QED BY <1>1, <1>2, <1>3

LEMMA RunsAreFound ==
  ASSUME sample \in Seq(Nat)
  PROVE  RepetitionFindsRuns
<1> SUFFICES ASSUME NEW cutoff \in 0 .. Len(sample) + 1
             PROVE  /\ HasRun(sample, cutoff + 1) => ~repetition_count_test(sample, cutoff)
                    /\ ~HasRun(sample, cutoff) => repetition_count_test(sample, cutoff)
  BY DEF RepetitionFindsRuns
<1>1. HasRun(sample, cutoff + 1) => HasRun(sample, cutoff)
  <2>1. DOMAIN sample \subseteq Int
    OBVIOUS
  <2> QED BY <2>1 DEF HasRun
<1> QED BY <1>1, RepetitionIsExact

----------------------------------------------------------------------------
(* The tests for proportions                                               *)

\* A set of numbers with a bound has a maximum.
LEMMA MaxOfBounded ==
  ASSUME NEW T \in SUBSET Nat, T # {}, NEW b \in Nat, \A x \in T : x <= b
  PROVE  Max(T) \in T /\ \A x \in T : x <= Max(T)
<1> DEFINE U == {b - x : x \in T}
<1>1. U \in SUBSET Nat /\ U # {}
  <2>1. \A x \in T : b - x \in Nat
    OBVIOUS
  <2> QED BY <2>1
<1>2. PICK u \in U : \A v \in U : u <= v
  <2> HIDE DEF U
  <2> QED BY <1>1, Least
<1>3. PICK x \in T : u = b - x
  OBVIOUS
<1>4. \A y \in T : x >= y
  <2> SUFFICES ASSUME NEW y \in T PROVE x >= y
    OBVIOUS
  <2>1. b - y \in U /\ y \in Nat /\ x \in Nat
    OBVIOUS
  <2>2. b - x <= b - y
    BY <1>2, <1>3, <2>1
  <2> QED BY <2>1, <2>2
<1>5. \E m \in T : \A y \in T : m >= y
  BY <1>4
<1>6. Max(T) \in T /\ \A y \in T : Max(T) >= y
  BY <1>5 DEF Max
<1> QED BY <1>6

LEMMA OccurrencesCount ==
  ASSUME NEW s \in Seq(Nat), NEW k \in 1 .. Len(s)
  PROVE  /\ Occurrences(s, s[k]) \in 1 .. Len(s)
         /\ (\A j \in 1 .. Len(s) : s[j] = s[k] => j = k) => Occurrences(s, s[k]) = 1
         /\ \A j \in 1 .. Len(s) : s[j] = s[k] /\ j # k => Occurrences(s, s[k]) >= 2
<1> DEFINE n == Len(s)
           Q == {j \in 1 .. n : s[j] = s[k]}
<1>0. n \in Nat /\ DOMAIN s = 1 .. n
  OBVIOUS
<1>1. Occurrences(s, s[k]) = Cardinality(Q)
  BY <1>0 DEF Occurrences
<1>2. IsFiniteSet(1 .. n) /\ Cardinality(1 .. n) = n
  <2>1. IsFiniteSet(1 .. n) /\ Cardinality(1 .. n) = IF 1 > n THEN 0 ELSE n - 1 + 1
    BY <1>0, FS_Interval
  <2> QED BY <1>0, <2>1
<1>3. IsFiniteSet(Q) /\ Cardinality(Q) <= n /\ Cardinality(Q) \in Nat
  BY <1>2, FS_Subset, FS_CardinalityType
<1>4. \A T : T \subseteq Q => IsFiniteSet(T) /\ Cardinality(T) <= Cardinality(Q)
  BY <1>3, FS_Subset
<1>5. k \in Q /\ Cardinality({k}) = 1
  BY FS_Singleton
<1>6. Cardinality({k}) <= Cardinality(Q)
  BY <1>4, <1>5
<1>7. ASSUME \A j \in 1 .. n : s[j] = s[k] => j = k PROVE Cardinality(Q) = 1
  <2>1. Q = {k}
    BY <1>7
  <2> QED BY <1>5, <2>1
<1>8. ASSUME NEW j \in 1 .. n, s[j] = s[k], j # k PROVE Cardinality(Q) >= 2
  <2>1. {k} \cup {j} \subseteq Q
    BY <1>8
  <2>2. IsFiniteSet({k}) /\ j \notin {k}
    BY <1>8, FS_Singleton
  <2>3. Cardinality({k} \cup {j}) = Cardinality({k}) + 1
    BY <2>2, FS_AddElement
  <2>4. Cardinality({k} \cup {j}) <= Cardinality(Q)
    BY <1>4, <2>1
  <2> DEFINE one == Cardinality({k})
             two == Cardinality({k} \cup {j})
             all == Cardinality(Q)
  <2>5. one = 1 /\ two = one + 1 /\ two <= all /\ all \in Nat
    BY <1>3, <1>5, <2>3, <2>4
  <2> HIDE DEF one, two, all
  <2>6. all >= 2
    BY <2>5
  <2> QED BY <2>6 DEF all
<1> HIDE DEF Q
<1> QED BY <1>0, <1>1, <1>3, <1>5, <1>6, <1>7, <1>8

\* The largest count is 1 if and only if the bytes are distinct.
LEMMA MaxCount ==
  ASSUME NEW s \in Seq(Nat), s # << >>
  PROVE  LET distinct == \A i, j \in DOMAIN s : i # j => s[i] # s[j]
         IN  /\ max_count(s) \in 1 .. Len(s)
             /\ distinct => max_count(s) = 1
             /\ ~distinct => max_count(s) >= 2
<1> DEFINE n == Len(s)
           T == {Occurrences(s, s[k]) : k \in DOMAIN s}
<1>0. n \in Nat \ {0} /\ DOMAIN s = 1 .. n
  OBVIOUS
<1>1. \A k \in 1 .. n : Occurrences(s, s[k]) \in 1 .. n
  BY OccurrencesCount
<1>2. T \in SUBSET Nat /\ T # {} /\ \A x \in T : x \in 1 .. n
  <2>1. 1 \in DOMAIN s
    BY <1>0
  <2> QED BY <1>0, <1>1, <2>1
<1>3. Max(T) \in T /\ \A x \in T : x <= Max(T)
  <2> HIDE DEF T
  <2>1. \A x \in T : x <= n
    BY <1>0, <1>2
  <2> QED BY <1>0, <1>2, <2>1, MaxOfBounded
<1>4. max_count(s) = Max(T)
  BY DEF max_count
<1>5. ASSUME \A i, j \in DOMAIN s : i # j => s[i] # s[j] PROVE Max(T) = 1
  <2>1. \A k \in 1 .. n : Occurrences(s, s[k]) = 1
    BY <1>0, <1>5, OccurrencesCount
  <2>2. \A x \in T : x = 1
    BY <1>0, <2>1
  <2> HIDE DEF T
  <2> QED BY <1>3, <2>2
<1>6. ASSUME NEW i \in DOMAIN s, NEW j \in DOMAIN s, i # j, s[i] = s[j] PROVE Max(T) >= 2
  <2>1. Occurrences(s, s[j]) >= 2 /\ Occurrences(s, s[j]) \in T
    BY <1>0, <1>6, OccurrencesCount
  <2>2. Max(T) \in Nat /\ Occurrences(s, s[j]) <= Max(T) /\ Occurrences(s, s[j]) \in Nat
    <3> HIDE DEF T
    <3> QED BY <1>2, <1>3, <2>1
  <2> QED BY <2>1, <2>2
<1> HIDE DEF T
<1> QED BY <1>2, <1>3, <1>4, <1>5, <1>6

LEMMA HealthyIsDistinct ==
  ASSUME sample \in Seq(Nat), sample # << >> => Len(sample) = 2 ^ MinEntropy /\ Len(sample) >= 4
  PROVE  HealthyMeansDistinct
<1> SUFFICES ASSUME sample # << >>
             PROVE  health_check_source(sample) =
                      (IF \A i, j \in DOMAIN sample : i # j => sample[i] # sample[j]
                       THEN "ok" ELSE "below threshold")
  BY DEF HealthyMeansDistinct
<1> DEFINE n == Len(sample)
           m == max_count(sample)
           distinct == \A i, j \in DOMAIN sample : i # j => sample[i] # sample[j]
<1>0. n \in Nat /\ n = 2 ^ MinEntropy /\ n >= 4 /\ DOMAIN sample = 1 .. n
  OBVIOUS
<1>1. m \in 1 .. n /\ (distinct => m = 1) /\ (~distinct => m >= 2)
  BY MaxCount
<1>2. MinEntropyAtLeast(sample, MinEntropy) <=> m * n <= n
  BY <1>0 DEF MinEntropyAtLeast
<1> HIDE DEF m
<1>3. CASE distinct
  <2>1. MinEntropyAtLeast(sample, MinEntropy)
    BY <1>0, <1>1, <1>2, <1>3
  <2>2. \A c \in Nat : repetition_count_test(sample, c)
    <3>1. \A k \in 2 .. n : k \in DOMAIN sample /\ k - 1 \in DOMAIN sample /\ k # k - 1
      BY <1>0
    <3> QED BY <1>3, <3>1 DEF repetition_count_test
  <2>3. adaptive_proportion_test(sample, n \div 2)
    <3>1. n \div 2 >= 2
      BY <1>0
    <3> QED BY <1>1, <1>3, <3>1 DEF adaptive_proportion_test, m
  <2>4. repetition_count_test(sample, RctCutoff)
    BY <2>2, HealthAssumption
  <2>5. monitor_entropy_quality(sample, MinEntropy) = "ok"
    BY <2>1, <2>3, <2>4 DEF monitor_entropy_quality
  <2> QED BY <1>3, <2>5 DEF health_check_source
<1>4. CASE ~distinct
  <2>1. m >= 2 /\ n >= 4 /\ m \in Nat /\ n \in Nat
    BY <1>0, <1>1, <1>4
  <2> HIDE DEF n
  <2>2. m * n >= 2 * n
    BY <2>1
  <2>3. ~(m * n <= n)
    <3> DEFINE p == m * n
    <3>1. p \in Nat /\ p >= 2 * n
      BY <2>1, <2>2
    <3> HIDE DEF p
    <3>2. ~(p <= n)
      BY <2>1, <3>1
    <3> QED BY <3>2 DEF p
  <2>4. ~MinEntropyAtLeast(sample, MinEntropy)
    BY <1>2, <2>3
  <2>5. monitor_entropy_quality(sample, MinEntropy) = "below threshold"
    BY <2>4 DEF monitor_entropy_quality
  <2> QED BY <1>4, <2>5 DEF health_check_source
<1> HIDE DEF distinct
<1> QED BY <1>3, <1>4

----------------------------------------------------------------------------
(* Sums                                                                    *)

\* One step of SumOf.
Added(s, f, k) == IF k = 0 THEN 0 ELSE f[k - 1] + s[k]

LEMMA AddingExists ==
  ASSUME NEW s, NEW n \in Nat
  PROVE  \E f : f = [k \in 0 .. n |-> Added(s, f, k)]
<1> DEFINE Good(m, f) == \A k \in 0 .. m : f[k] = Added(s, f, k)
           S == {m \in Nat : \E f : Good(m, f)}
<1>1. 0 \in S
  <2> DEFINE f == [k \in {0} |-> 0]
  <2>1. Good(0, f)
    BY DEF Added
  <2> QED BY <2>1
<1>2. ASSUME NEW m \in Nat, m \in S PROVE m + 1 \in S
  <2>1. PICK f : Good(m, f)
    BY <1>2
  <2> DEFINE g == [k \in 0 .. m + 1 |-> IF k = m + 1 THEN Added(s, f, k) ELSE f[k]]
  <2>2. ASSUME NEW k \in 0 .. m + 1 PROVE g[k] = Added(s, g, k)
    <3>1. k # 0 => k - 1 \in 0 .. m + 1 /\ k - 1 # m + 1
      BY <2>2
    <3>2. k # 0 => g[k - 1] = f[k - 1]
      BY <3>1
    <3>3. g[k] = Added(s, f, k)
      BY <2>1
    <3> HIDE DEF g
    <3> QED BY <3>2, <3>3 DEF Added
  <2> HIDE DEF g
  <2>3. Good(m + 1, g)
    BY <2>2
  <2> QED BY <2>3
<1>3. n \in S
  <2> HIDE DEF S
  <2> QED BY <1>1, <1>2, Induction
<1>4. PICK f : Good(n, f)
  BY <1>3
<1> DEFINE g == [k \in 0 .. n |-> f[k]]
<1>5. ASSUME NEW k \in 0 .. n PROVE g[k] = Added(s, g, k)
  <2>1. k # 0 => k - 1 \in 0 .. n
    OBVIOUS
  <2>2. k # 0 => g[k - 1] = f[k - 1]
    BY <2>1
  <2>3. g[k] = Added(s, f, k)
    BY <1>4
  <2> HIDE DEF g
  <2> QED BY <2>2, <2>3 DEF Added
<1>6. g = [k \in 0 .. n |-> Added(s, g, k)]
  <2>1. g = [k \in 0 .. n |-> g[k]]
    OBVIOUS
  <2> HIDE DEF g
  <2> QED BY <1>5, <2>1
<1> QED BY <1>6

\* f has the sums of the first terms of s.
Sums(s, n, f) ==
  f[0] = 0 /\ \A k \in 1 .. n : f[k] = f[k - 1] + s[k]

LEMMA SumUnfolds ==
  ASSUME NEW s, NEW n \in Nat, Len(s) = n
  PROVE  \E f : SumOf(s) = f[n] /\ Sums(s, n, f)
<1> DEFINE eq(f) == f = [k \in 0 .. n |-> Added(s, f, k)]
           upto == CHOOSE f : eq(f)
<1>1. SumOf(s) = upto[n]
  BY DEF SumOf, Added
<1>2. eq(upto)
  BY AddingExists
<1> HIDE DEF upto
<1> DEFINE D(k) == Added(s, upto, k)
<1>3. upto = [k \in 0 .. n |-> D(k)]
  BY <1>2
<1> HIDE DEF D
<1>4. \A k \in 0 .. n : upto[k] = D(k)
  BY <1>3
<1>5. \A k \in 0 .. n : upto[k] = Added(s, upto, k)
  BY <1>4 DEF D
<1>6. upto[0] = 0
  BY <1>5 DEF Added
<1>7. ASSUME NEW k \in 1 .. n PROVE upto[k] = upto[k - 1] + s[k]
  <2>1. k \in 0 .. n /\ k # 0
    OBVIOUS
  <2> QED BY <1>5, <2>1 DEF Added
<1> QED BY <1>1, <1>6, <1>7 DEF Sums

LEMMA SumsAreIntegers ==
  ASSUME NEW n \in Nat, NEW s, \A k \in 1 .. n : s[k] \in Int, NEW f, Sums(s, n, f)
  PROVE  \A k \in 0 .. n : f[k] \in Int
<1> DEFINE S == {m \in Nat : m <= n => f[m] \in Int}
<1>1. 0 \in S
  BY DEF Sums
<1>2. ASSUME NEW m \in Nat, m \in S PROVE m + 1 \in S
  <2> SUFFICES ASSUME m + 1 <= n PROVE f[m + 1] \in Int
    OBVIOUS
  <2>1. m + 1 \in 1 .. n /\ (m + 1) - 1 = m /\ f[m] \in Int
    BY <1>2
  <2>2. f[m + 1] = f[m] + s[m + 1]
    BY <2>1 DEF Sums
  <2> QED BY <2>1, <2>2
<1>3. \A m \in Nat : m \in S
  <2> HIDE DEF S
  <2> QED BY <1>1, <1>2, Induction
<1> QED BY <1>3

\* Sums of terms that are equal, of a constant, of terms that are shifted, and of squares.
LEMMA SumsAgree ==
  ASSUME NEW n \in Nat, NEW s, NEW t, \A k \in 1 .. n : s[k] = t[k],
         Len(s) = n, Len(t) = n
  PROVE  SumOf(s) = SumOf(t)
<1>1. PICK f : SumOf(s) = f[n] /\ Sums(s, n, f)
  BY SumUnfolds
<1>2. PICK g : SumOf(t) = g[n] /\ Sums(t, n, g)
  BY SumUnfolds
<1> DEFINE S == {m \in Nat : m <= n => f[m] = g[m]}
<1>3. 0 \in S
  BY <1>1, <1>2 DEF Sums
<1>4. ASSUME NEW m \in Nat, m \in S PROVE m + 1 \in S
  <2> SUFFICES ASSUME m + 1 <= n PROVE f[m + 1] = g[m + 1]
    OBVIOUS
  <2>1. m + 1 \in 1 .. n /\ (m + 1) - 1 = m /\ f[m] = g[m]
    BY <1>4
  <2>2. f[m + 1] = f[m] + s[m + 1] /\ g[m + 1] = g[m] + t[m + 1]
    BY <1>1, <1>2, <2>1 DEF Sums
  <2> QED BY <2>1, <2>2
<1>5. \A m \in Nat : m \in S
  <2> HIDE DEF S
  <2> QED BY <1>3, <1>4, Induction
<1> QED BY <1>1, <1>2, <1>5

LEMMA SumOfConstant ==
  ASSUME NEW n \in Nat, NEW s, NEW x \in Int, \A k \in 1 .. n : s[k] = x, Len(s) = n
  PROVE  SumOf(s) = n * x
<1>1. PICK f : SumOf(s) = f[n] /\ Sums(s, n, f)
  BY SumUnfolds
<1> DEFINE S == {m \in Nat : m <= n => f[m] = m * x}
<1>2. 0 \in S
  BY <1>1 DEF Sums
<1>3. ASSUME NEW m \in Nat, m \in S PROVE m + 1 \in S
  <2> SUFFICES ASSUME m + 1 <= n PROVE f[m + 1] = (m + 1) * x
    OBVIOUS
  <2>1. m + 1 \in 1 .. n /\ (m + 1) - 1 = m /\ f[m] = m * x
    BY <1>3
  <2>2. f[m + 1] = f[m] + x
    BY <1>1, <2>1 DEF Sums
  <2>3. m * x + x = (m + 1) * x
    OBVIOUS
  <2> QED BY <2>1, <2>2, <2>3
<1>4. \A m \in Nat : m \in S
  <2> HIDE DEF S
  <2> QED BY <1>2, <1>3, Induction
<1> QED BY <1>1, <1>4

LEMMA SumShifted ==
  ASSUME NEW n \in Nat, NEW s, NEW t, \A k \in 1 .. n : s[k] \in Int /\ t[k] = s[k] + 1,
         Len(s) = n, Len(t) = n
  PROVE  SumOf(s) \in Int /\ SumOf(t) = SumOf(s) + n
<1>1. PICK f : SumOf(s) = f[n] /\ Sums(s, n, f)
  BY SumUnfolds
<1>2. PICK g : SumOf(t) = g[n] /\ Sums(t, n, g)
  BY SumUnfolds
<1>0. \A k \in 0 .. n : f[k] \in Int
  BY <1>1, SumsAreIntegers
<1> DEFINE S == {m \in Nat : m <= n => g[m] = f[m] + m}
<1>3. 0 \in S
  BY <1>1, <1>2 DEF Sums
<1>4. ASSUME NEW m \in Nat, m \in S PROVE m + 1 \in S
  <2> SUFFICES ASSUME m + 1 <= n PROVE g[m + 1] = f[m + 1] + (m + 1)
    OBVIOUS
  <2>1. m + 1 \in 1 .. n /\ (m + 1) - 1 = m /\ g[m] = f[m] + m
    BY <1>4
  <2>2. f[m + 1] = f[m] + s[m + 1] /\ g[m + 1] = g[m] + t[m + 1]
    BY <1>1, <1>2, <2>1 DEF Sums
  <2>3. s[m + 1] \in Int /\ t[m + 1] = s[m + 1] + 1 /\ f[m] \in Int
    BY <1>0, <2>1
  <2> QED BY <2>1, <2>2, <2>3, SMTT(30)
<1>5. \A m \in Nat : m \in S
  <2> HIDE DEF S
  <2> QED BY <1>3, <1>4, Induction
<1>6. n \in 0 .. n
  OBVIOUS
<1> QED BY <1>0, <1>1, <1>2, <1>5, <1>6

LEMMA SumOfSquares ==
  ASSUME NEW n \in Nat, NEW s, NEW a, Len(s) = n,
         \A k \in 1 .. n : a[k] \in Int /\ s[k] = a[k] * a[k]
  PROVE  /\ SumOf(s) \in Nat
         /\ SumOf(s) = 0 <=> \A k \in 1 .. n : a[k] = 0
<1>1. PICK f : SumOf(s) = f[n] /\ Sums(s, n, f)
  BY SumUnfolds
<1>2. \A k \in 1 .. n : s[k] \in Nat /\ (s[k] = 0 <=> a[k] = 0)
  <2> SUFFICES ASSUME NEW k \in 1 .. n PROVE s[k] \in Nat /\ (s[k] = 0 <=> a[k] = 0)
    OBVIOUS
  <2> DEFINE x == a[k]
  <2>1. x \in Int /\ s[k] = x * x
    OBVIOUS
  <2> HIDE DEF x
  <2>2. x * x >= 0 /\ x * x \in Int /\ (x * x = 0 <=> x = 0)
    BY <2>1
  <2>3. s[k] \in Nat
    BY <2>1, <2>2
  <2> QED BY <2>1, <2>2, <2>3 DEF x
<1> DEFINE S == {m \in Nat : m <= n => /\ f[m] \in Nat
                                       /\ f[m] = 0 <=> \A k \in 1 .. m : s[k] = 0}
<1>3. 0 \in S
  BY <1>1 DEF Sums
<1>4. ASSUME NEW m \in Nat, m \in S PROVE m + 1 \in S
  <2> SUFFICES ASSUME m + 1 <= n
               PROVE  f[m + 1] \in Nat /\ (f[m + 1] = 0 <=> \A k \in 1 .. m + 1 : s[k] = 0)
    OBVIOUS
  <2>1. /\ m + 1 \in 1 .. n /\ (m + 1) - 1 = m
        /\ f[m] \in Nat /\ (f[m] = 0 <=> \A k \in 1 .. m : s[k] = 0)
    BY <1>4
  <2>2. f[m + 1] = f[m] + s[m + 1] /\ s[m + 1] \in Nat
    BY <1>1, <1>2, <2>1 DEF Sums
  <2>3. (\A k \in 1 .. m + 1 : s[k] = 0) <=> (\A k \in 1 .. m : s[k] = 0) /\ s[m + 1] = 0
    <3>1. \A k \in 1 .. m + 1 : k \in 1 .. m \/ k = m + 1
      OBVIOUS
    <3>2. m + 1 \in 1 .. m + 1 /\ \A k \in 1 .. m : k \in 1 .. m + 1
      OBVIOUS
    <3> QED BY <3>1, <3>2
  <2> QED BY <2>1, <2>2, <2>3
<1>5. \A m \in Nat : m \in S
  <2> HIDE DEF S
  <2> QED BY <1>3, <1>4, Induction
<1>6. f[n] \in Nat /\ (f[n] = 0 <=> \A k \in 1 .. n : s[k] = 0)
  BY <1>5
<1> QED BY <1>1, <1>2, <1>6

Numbers(a, n) == \A k \in 1 .. n : a[k] \in Int
Products(s, a, b, n) == Len(s) = n /\ \A k \in 1 .. n : s[k] = a[k] * b[k]

\* The inequality of Cauchy and Schwarz.
LEMMA CauchySchwarz ==
  ASSUME NEW n \in Nat, NEW a, NEW b, Numbers(a, n), Numbers(b, n),
         NEW s, Products(s, a, b, n), NEW t, Products(t, a, a, n), NEW u, Products(u, b, b, n)
  PROVE  SumOf(s) \in Int /\ (SumOf(t) # 0 => SumOf(s) * SumOf(s) <= SumOf(t) * SumOf(u))
<1> USE DEF Numbers, Products
<1>1. PICK f : SumOf(s) = f[n] /\ Sums(s, n, f)
  BY SumUnfolds
<1>2. PICK g : SumOf(t) = g[n] /\ Sums(t, n, g)
  BY SumUnfolds
<1>3. PICK h : SumOf(u) = h[n] /\ Sums(u, n, h)
  BY SumUnfolds
<1>4. \A k \in 1 .. n : s[k] \in Int /\ t[k] \in Int /\ u[k] \in Int
  <2>1. \A x, y \in Int : x * y \in Int
    OBVIOUS
  <2> QED BY <2>1
<1>5. \A k \in 0 .. n : f[k] \in Int /\ g[k] \in Int /\ h[k] \in Int
  BY <1>1, <1>2, <1>3, <1>4, SumsAreIntegers
\* The sum of (x a - y b)^2, for any x and y.
<1>6. ASSUME NEW x \in Int, NEW y \in Int
      PROVE  (x * x) * g[n] - (2 * (x * y)) * f[n] + (y * y) * h[n] >= 0
  <2> DEFINE P(m) == (x * x) * g[m] - (2 * (x * y)) * f[m] + (y * y) * h[m]
             S == {m \in Nat : m <= n => P(m) >= 0}
  <2>1. 0 \in S
    BY <1>1, <1>2, <1>3 DEF Sums
  <2>2. ASSUME NEW m \in Nat, m \in S PROVE m + 1 \in S
    <3> SUFFICES ASSUME m + 1 <= n PROVE P(m + 1) >= 0
      OBVIOUS
    <3>1. m + 1 \in 1 .. n /\ (m + 1) - 1 = m /\ m \in 0 .. n /\ P(m) >= 0
      BY <2>2
    <3> DEFINE F == f[m]
               G == g[m]
               H == h[m]
               p == a[m + 1]
               q == b[m + 1]
    <3>2. f[m + 1] = F + p * q /\ g[m + 1] = G + p * p /\ h[m + 1] = H + q * q
      BY <1>1, <1>2, <1>3, <3>1 DEF Sums
    <3>3. F \in Int /\ G \in Int /\ H \in Int /\ p \in Int /\ q \in Int
      BY <1>5, <3>1
    <3>4. (x * x) * G - (2 * (x * y)) * F + (y * y) * H >= 0
      BY <3>1
    <3> HIDE DEF F, G, H, p, q
    <3>5. (x * p - y * q) * (x * p - y * q) >= 0
      <4> DEFINE z == x * p - y * q
      <4>1. z \in Int
        BY <3>3
      <4> HIDE DEF z
      <4>2. z * z >= 0
        BY <4>1
      <4> QED BY <4>2 DEF z
    <3>6. (x * p - y * q) * (x * p - y * q)
            = (x * x) * (p * p) - (2 * (x * y)) * (p * q) + (y * y) * (q * q)
      BY <3>3
    <3>7. (x * x) * (G + p * p) - (2 * (x * y)) * (F + p * q) + (y * y) * (H + q * q)
            = ((x * x) * G - (2 * (x * y)) * F + (y * y) * H)
                + ((x * x) * (p * p) - (2 * (x * y)) * (p * q) + (y * y) * (q * q))
      BY <3>3
    <3> DEFINE A == (x * x) * G - (2 * (x * y)) * F + (y * y) * H
               B == (x * x) * (p * p) - (2 * (x * y)) * (p * q) + (y * y) * (q * q)
    <3>8. A \in Int /\ B \in Int /\ A >= 0 /\ B >= 0 /\ P(m + 1) = A + B
      BY <3>2, <3>3, <3>4, <3>5, <3>6, <3>7
    <3> HIDE DEF A, B, P
    <3> QED BY <3>8
  <2>3. n \in S
    <3> HIDE DEF S
    <3> QED BY <2>1, <2>2, Induction
  <2> QED BY <2>3
<1> DEFINE F == f[n]
           G == g[n]
           H == h[n]
<1>7. F \in Int /\ G \in Int /\ H \in Int
  <2>1. n \in 0 .. n
    OBVIOUS
  <2> QED BY <1>5, <2>1
<1>8. G >= 0
  <2>1. (1 * 1) * G - (2 * (1 * 0)) * F + (0 * 0) * H >= 0
    <3>1. 1 \in Int /\ 0 \in Int
      OBVIOUS
    <3> QED BY <1>6, <3>1, Zenon
  <2> HIDE DEF F, G, H
  <2> QED BY <1>7, <2>1
<1>9. (F * F) * G - (2 * (F * G)) * F + (G * G) * H >= 0
  BY <1>6, <1>7
<1> HIDE DEF F, G, H
<1>10. (F * F) * G - (2 * (F * G)) * F + (G * G) * H = G * (G * H - F * F)
  BY <1>7
<1>11. G # 0 => F * F <= G * H
  <2> DEFINE z == G * H - F * F
  <2>1. z \in Int /\ F * F \in Int /\ G * H \in Int /\ G * z >= 0
    BY <1>7, <1>9, <1>10
  <2>2. G # 0 => z >= 0
    <3> HIDE DEF z
    <3> QED BY <1>7, <1>8, <2>1
  <2> DEFINE P == F * F
             Q == G * H
  <2>3. z = Q - P /\ P \in Int /\ Q \in Int
    BY <2>1
  <2> HIDE DEF z, P, Q
  <2>4. G # 0 => P <= Q
    BY <2>2, <2>3
  <2> QED BY <2>4 DEF P, Q
<1> QED BY <1>1, <1>2, <1>3, <1>7, <1>11 DEF F, G, H

----------------------------------------------------------------------------
(* The correlation                                                         *)

\* The common prefix of a buffer.
LEMMA Prefix ==
  ASSUME NEW s \in Seq(Nat), NEW n \in Nat, n <= Len(s)
  PROVE  LET a == SubSeq(s, 1, n)
         IN  a \in Seq(Nat) /\ Len(a) = n /\ DOMAIN a = 1 .. n /\ \A k \in 1 .. n : a[k] = s[k]
<1>1. n \in 0 .. Len(s) /\ \A i \in 1 .. n : s[i] \in Nat
  OBVIOUS
<1>2. /\ SubSeq(s, 1, n) \in Seq(Nat) /\ Len(SubSeq(s, 1, n)) = n
      /\ \A k \in 1 .. n : SubSeq(s, 1, n)[k] = s[k]
  BY <1>1, SubSeqProperties
<1> QED BY <1>2

LEMMA TotalIsInteger ==
  ASSUME NEW a \in Seq(Nat)
  PROVE  Total(a) \in Int /\ \A k \in 1 .. Len(a) : Diff(a, k) \in Int
<1> DEFINE n == Len(a)
<1>1. n \in Nat /\ \A k \in 1 .. n : a[k] \in Int
  OBVIOUS
<1>2. PICK f : SumOf(a) = f[n] /\ Sums(a, n, f)
  BY <1>1, SumUnfolds
<1>3. \A k \in 0 .. n : f[k] \in Int
  BY <1>1, <1>2, SumsAreIntegers
<1>4. n \in 0 .. n
  BY <1>1
<1>5. Total(a) \in Int
  BY <1>2, <1>3, <1>4 DEF Total
<1>6. ASSUME NEW k \in 1 .. n PROVE Diff(a, k) \in Int
  <2> DEFINE T == Total(a)
             x == a[k]
  <2>1. T \in Int /\ x \in Int
    BY <1>1, <1>5
  <2> HIDE DEF T, x
  <2>2. n * x - T \in Int
    BY <1>1, <2>1
  <2> QED BY <2>2 DEF Diff, T, x
<1> QED BY <1>5, <1>6

\* The square of the coefficient is at most 1, and the variances are not negative.
LEMMA CovarianceBounded ==
  ASSUME NEW a \in Seq(Nat), NEW b \in Seq(Nat), Len(a) = Len(b)
  PROVE  /\ Covariance(a, a) \in Nat /\ Covariance(b, b) \in Nat /\ Covariance(a, b) \in Int
         /\ Covariance(a, a) # 0 =>
              Covariance(a, b) * Covariance(a, b) <= Covariance(a, a) * Covariance(b, b)
         /\ Covariance(a, a) = 0 <=> \A k \in 1 .. Len(a) : Diff(a, k) = 0
<1> DEFINE n == Len(a)
           x == [k \in 1 .. n |-> Diff(a, k)]
           y == [k \in 1 .. n |-> Diff(b, k)]
           s == [k \in 1 .. n |-> x[k] * y[k]]
           t == [k \in 1 .. n |-> x[k] * x[k]]
           u == [k \in 1 .. n |-> y[k] * y[k]]
<1>0. n \in Nat /\ DOMAIN a = 1 .. n /\ DOMAIN b = 1 .. n
  OBVIOUS
<1>1. \A k \in 1 .. n : x[k] \in Int /\ y[k] \in Int /\ x[k] = Diff(a, k) /\ y[k] = Diff(b, k)
  BY TotalIsInteger
<1>2. /\ [k \in DOMAIN a |-> Diff(a, k) * Diff(b, k)] = s
      /\ [k \in DOMAIN a |-> Diff(a, k) * Diff(a, k)] = t
      /\ [k \in DOMAIN b |-> Diff(b, k) * Diff(b, k)] = u
  BY <1>0
<1>3. Covariance(a, b) = SumOf(s) /\ Covariance(a, a) = SumOf(t) /\ Covariance(b, b) = SumOf(u)
  BY <1>2 DEF Covariance
<1> HIDE DEF x, y
<1>4. Len(s) = n /\ Len(t) = n /\ Len(u) = n
  BY <1>0
<1>5. \A k \in 1 .. n : s[k] = x[k] * y[k] /\ t[k] = x[k] * x[k] /\ u[k] = y[k] * y[k]
  OBVIOUS
<1> HIDE DEF s, t, u, n
<1>6. SumOf(s) \in Int /\ (SumOf(t) # 0 => SumOf(s) * SumOf(s) <= SumOf(t) * SumOf(u))
  <2>1. /\ Numbers(x, n) /\ Numbers(y, n)
        /\ Products(s, x, y, n) /\ Products(t, x, x, n) /\ Products(u, y, y, n)
    BY <1>1, <1>4, <1>5 DEF Numbers, Products
  <2> QED BY <1>0, <2>1, CauchySchwarz, Zenon
<1>7. SumOf(t) \in Nat /\ (SumOf(t) = 0 <=> \A k \in 1 .. n : x[k] = 0)
  <2>1. \A k \in 1 .. n : x[k] \in Int /\ t[k] = x[k] * x[k]
    BY <1>1, <1>5
  <2> QED BY <1>0, <1>4, <2>1, SumOfSquares, ZenonT(60)
<1>8. SumOf(u) \in Nat
  BY <1>0, <1>1, <1>4, <1>5, SumOfSquares
<1> QED BY <1>1, <1>3, <1>6, <1>7, <1>8 DEF n

\* A source has no variance if and only if it is stuck.
LEMMA NoVarianceIsStuck ==
  ASSUME NEW a \in Seq(Nat)
  PROVE  (\A k \in 1 .. Len(a) : Diff(a, k) = 0) <=> (\A k \in 1 .. Len(a) : a[k] = a[1])
<1> DEFINE n == Len(a)
           T == Total(a)
<1>0. n \in Nat /\ T \in Int /\ \A k \in 1 .. n : a[k] \in Int
  BY TotalIsInteger
<1>1. \A k \in 1 .. n : Diff(a, k) = n * a[k] - T
  BY DEF Diff
<1>2. ASSUME \A k \in 1 .. n : Diff(a, k) = 0, NEW k \in 1 .. n PROVE a[k] = a[1]
  <2> DEFINE x == a[k]
             y == a[1]
  <2>1. 1 \in 1 .. n /\ n > 0
    BY <1>0
  <2>2. n * x - T = 0 /\ n * y - T = 0 /\ x \in Int /\ y \in Int
    BY <1>0, <1>1, <1>2, <2>1
  <2> HIDE DEF x, y, n, T
  <2>3. n * (x - y) = 0
    BY <1>0, <2>2
  <2>4. x - y = 0
    <3> DEFINE z == x - y
    <3>1. z \in Int /\ n * z = 0
      BY <2>2, <2>3
    <3> HIDE DEF z
    <3>2. z = 0
      BY <1>0, <2>1, <3>1
    <3> QED BY <3>2 DEF z
  <2>5. x = y
    BY <2>2, <2>4
  <2> QED BY <2>5 DEF x, y
<1>3. ASSUME \A k \in 1 .. n : a[k] = a[1], NEW k \in 1 .. n PROVE Diff(a, k) = 0
  <2>1. a[1] \in Int /\ a[k] = a[1]
    BY <1>0, <1>3
  <2>2. T = n * a[1]
    BY <1>0, <1>3, <2>1, SumOfConstant DEF Total
  <2>3. Diff(a, k) = n * a[1] - n * a[1]
    BY <1>1, <2>1, <2>2
  <2> DEFINE p == n * a[1]
  <2>4. p \in Int
    BY <1>0, <2>1
  <2> HIDE DEF p
  <2>5. p - p = 0
    BY <2>4
  <2> QED BY <2>3, <2>5 DEF p
<1> QED BY <1>2, <1>3

\* A shift by a constant changes no distance from the mean.
LEMMA ShiftKeepsDistances ==
  ASSUME NEW a \in Seq(Nat), NEW b \in Seq(Nat), Len(a) = Len(b),
         \A k \in 1 .. Len(a) : b[k] = a[k] + 1
  PROVE  \A k \in 1 .. Len(a) : Diff(b, k) = Diff(a, k)
<1> DEFINE n == Len(a)
           T == Total(a)
<1>0. n \in Nat /\ \A k \in 1 .. n : a[k] \in Int
  OBVIOUS
<1>1. T \in Int /\ Total(b) = T + n
  BY <1>0, SumShifted DEF Total
<1> SUFFICES ASSUME NEW k \in 1 .. n PROVE Diff(b, k) = Diff(a, k)
  OBVIOUS
<1> DEFINE x == a[k]
<1>2. x \in Int
  BY <1>0
<1>3. Diff(b, k) = n * (x + 1) - (T + n) /\ Diff(a, k) = n * x - T
  BY <1>1 DEF Diff
<1> HIDE DEF n, T, x
<1>4. n * (x + 1) - (T + n) = n * x - T
  BY <1>0, <1>1, <1>2
<1> QED BY <1>3, <1>4

LEMMA SameDistancesSameCovariance ==
  ASSUME NEW a \in Seq(Nat), NEW b \in Seq(Nat), NEW c \in Seq(Nat),
         Len(a) = Len(b), Len(c) = Len(a), \A k \in 1 .. Len(a) : Diff(c, k) = Diff(b, k)
  PROVE  Covariance(a, c) = Covariance(a, b) /\ Covariance(c, c) = Covariance(b, b)
<1>1. DOMAIN a = 1 .. Len(a) /\ DOMAIN b = 1 .. Len(a) /\ DOMAIN c = 1 .. Len(a)
  OBVIOUS
<1>2. [k \in DOMAIN a |-> Diff(a, k) * Diff(c, k)] = [k \in DOMAIN a |-> Diff(a, k) * Diff(b, k)]
  BY <1>1
<1>3. [k \in DOMAIN c |-> Diff(c, k) * Diff(c, k)] = [k \in DOMAIN b |-> Diff(b, k) * Diff(b, k)]
  BY <1>1
<1> QED BY <1>2, <1>3, Zenon DEF Covariance

LEMMA CorrelationSound ==
  ASSUME sample \in Seq(Nat), other \in Seq(Nat)
  PROVE  CorrelationIsSound
<1> DEFINE r == validate_source_diversity(sample, other)
           shifted == [k \in DOMAIN other |-> other[k] + 1]
           twin == validate_source_diversity(sample, sample)
           n == IF Len(sample) < Len(other) THEN Len(sample) ELSE Len(other)
           a == SubSeq(sample, 1, n)
           b == SubSeq(other, 1, n)
           c == SubSeq(shifted, 1, n)
           none == [num |-> 0, var1 |-> 1, var2 |-> 1]
           three(x, y) == [num |-> Covariance(x, y), var1 |-> Covariance(x, x),
                           var2 |-> Covariance(y, y)]
<1>0. n \in Nat /\ n <= Len(sample) /\ n <= Len(other)
  OBVIOUS
<1>1. shifted \in Seq(Nat) /\ Len(shifted) = Len(other)
      /\ \A k \in 1 .. Len(other) : shifted[k] = other[k] + 1
  BY SMTT(30)
<1>2. r = IF n = 0 \/ Covariance(a, a) = 0 \/ Covariance(b, b) = 0 THEN none ELSE three(a, b)
  BY DEF validate_source_diversity
<1>3. validate_source_diversity(sample, shifted)
        = IF n = 0 \/ Covariance(a, a) = 0 \/ Covariance(c, c) = 0 THEN none ELSE three(a, c)
  BY <1>1 DEF validate_source_diversity
<1>4. a \in Seq(Nat) /\ Len(a) = n
  BY <1>0, Prefix
<1>5. b \in Seq(Nat) /\ Len(b) = n /\ \A k \in 1 .. n : b[k] = other[k]
  BY <1>0, Prefix
<1> HIDE DEF shifted, n
<1>6. c \in Seq(Nat) /\ Len(c) = n /\ \A k \in 1 .. n : c[k] = shifted[k]
  BY <1>0, <1>1, Prefix
<1> HIDE DEF a, b, c, r
<1>7. r.num * r.num <= r.var1 * r.var2
  <2>1. CASE r = none
    <3>1. r.num = 0 /\ r.var1 = 1 /\ r.var2 = 1
      BY <2>1
    <3> HIDE DEF none
    <3> QED BY <3>1
  <2>2. CASE Covariance(a, a) # 0 /\ r = three(a, b)
    <3>1. r.num = Covariance(a, b) /\ r.var1 = Covariance(a, a) /\ r.var2 = Covariance(b, b)
      BY <2>2
    <3>2. Covariance(a, b) * Covariance(a, b) <= Covariance(a, a) * Covariance(b, b)
      BY <1>4, <1>5, <2>2, CovarianceBounded
    <3> QED BY <3>1, <3>2
  <2> QED BY <1>2, <2>1, <2>2
<1>8. r = validate_source_diversity(sample, shifted)
  <2>1. \A k \in 1 .. Len(b) : c[k] = b[k] + 1
    <3>1. \A k \in 1 .. n : k \in 1 .. Len(other)
      BY <1>0
    <3> QED BY <1>1, <1>5, <1>6, <3>1
  <2>2. \A k \in 1 .. Len(b) : Diff(c, k) = Diff(b, k)
    BY <1>5, <1>6, <2>1, ShiftKeepsDistances
  <2>3. Covariance(a, c) = Covariance(a, b) /\ Covariance(c, c) = Covariance(b, b)
    BY <1>4, <1>5, <1>6, <2>2, SameDistancesSameCovariance
  <2> QED BY <1>2, <1>3, <2>3
<1>9. twin.num = 0 <=> \A k \in DOMAIN sample : sample[k] = sample[1]
  <2> DEFINE m == Len(sample)
             d == SubSeq(sample, 1, m)
  <2>1. m \in Nat /\ DOMAIN sample = 1 .. m
    OBVIOUS
  <2>2. d = sample
    <3>1. d \in Seq(Nat) /\ Len(d) = m /\ \A k \in 1 .. m : d[k] = sample[k]
      BY <2>1, Prefix
    <3> HIDE DEF d
    <3> QED BY <2>1, <3>1, SeqEqual
  <2>3. twin = IF m = 0 \/ Covariance(d, d) = 0 \/ Covariance(d, d) = 0 THEN none ELSE three(d, d)
    BY DEF validate_source_diversity
  <2> HIDE DEF twin, d
  <2>4. /\ Covariance(sample, sample) \in Nat
        /\ Covariance(sample, sample) = 0 <=> \A k \in 1 .. m : Diff(sample, k) = 0
    BY CovarianceBounded
  <2>5. (\A k \in 1 .. m : Diff(sample, k) = 0) <=> (\A k \in 1 .. m : sample[k] = sample[1])
    BY NoVarianceIsStuck
  <2>6. CASE m = 0
    <3>1. twin.num = 0
      BY <2>3, <2>6
    <3>2. \A k \in 1 .. m : FALSE
      BY <2>6
    <3> QED BY <2>1, <3>1, <3>2
  <2>7. CASE m # 0
    <3>1. twin.num = Covariance(sample, sample)
      BY <2>2, <2>3, <2>7
    <3> QED BY <2>1, <2>4, <2>5, <3>1
  <2> QED BY <2>6, <2>7
<1> QED BY <1>7, <1>8, <1>9 DEF CorrelationIsSound, r, shifted

\* Each health test of entropy_health.rs decides, for buffers of any length and contents, what
\* its code makes of the definition it is named for: the repetition test finds every run, a
\* source of as many bytes as 2^MinEntropy passes if and only if they are distinct, and the
\* correlation is at most 1, is not changed by a constant and never misses a source's twin.
THEOREM HealthTestsDecide == HealthSpec => []HealthTestsAreExact
<1> DEFINE HealthInv ==
             /\ sample \in Seq(Nat) /\ other \in Seq(Nat)
             /\ sample # << >> => Len(sample) = 2 ^ MinEntropy /\ Len(sample) >= 4
<1>1. HealthInit => HealthInv
  BY DEF HealthInit
<1>2. HealthInv /\ [HealthNext]_healthVars => HealthInv'
  <2> SUFFICES ASSUME HealthInv, [HealthNext]_healthVars PROVE HealthInv'
    OBVIOUS
  <2>1. CASE HealthNext
    <3>1. PICK s \in Samples : \E o \in Others(s) : HealthCheck(s, o)
      BY <2>1 DEF HealthNext
    <3>2. PICK o \in Others(s) : HealthCheck(s, o)
      BY <3>1
    <3>3. /\ s \in Seq(Nat) /\ Len(s) = 2 ^ MinEntropy /\ Len(s) >= 4
          /\ Others(s) \subseteq Seq(Nat)
      BY HealthAssumption
    <3>4. sample' = s /\ other' = o
      BY <3>2 DEF HealthCheck
    <3> QED BY <3>2, <3>3, <3>4
  <2>2. CASE UNCHANGED healthVars
    BY <2>2 DEF healthVars
  <2> QED BY <2>1, <2>2
<1>3. HealthInv => HealthTestsAreExact
  BY RunsAreFound, HealthyIsDistinct, CorrelationSound DEF HealthTestsAreExact
<1> QED BY <1>1, <1>2, <1>3, PTL DEF HealthSpec
=============================================================================
