----------------------------- MODULE SentryProofs -----------------------------
(***************************************************************************)
(* The sentry of the scheduler (build::Args::_main, src/build.rs) never    *)
(* ends a healthy build of a graph that is small enough, whatever its      *)
(* shape, the number of jobs and the order in which the builders end.      *)
(***************************************************************************)
EXTENDS BuildLoopProofs

LEMMA DoneFacts ==
  /\ IsFiniteSet(Units) /\ IsFiniteSet(UnitsDone) /\ IsFiniteSet(UnitsStarted)
  /\ Cardinality(UnitsDone) \in Nat /\ Cardinality(UnitsStarted) \in Nat
<1>1. IsFiniteSet(Units)
  BY GraphAssumption DEF DagResult
<1>2. UnitsDone \subseteq Units /\ UnitsStarted \subseteq Units
  BY DEF UnitsDone, UnitsStarted
<1> HIDE DEF UnitsDone, UnitsStarted
<1>3. IsFiniteSet(UnitsDone) /\ IsFiniteSet(UnitsStarted)
  BY <1>1, <1>2, FS_Subset
<1>4. QED
  BY <1>1, <1>3, FS_CardinalityType

(* Each unit has a place in the order of its own.                          *)
LEMMA UnitsInOrder == Cardinality(Units) \in Nat /\ Cardinality(Units) <= Len(Order)
<1>1. IsFiniteSet(Units)
  BY GraphAssumption DEF DagResult
<1>2. Order \in Surjection(1 .. Len(Order), Units)
  <2>1. Order \in [1 .. Len(Order) -> Units]
    BY GraphAssumption DEF DagResult
  <2>2. QED
    BY <2>1, OrderFacts DEF Surjection
<1>3. ExistsSurjection(1 .. Len(Order), Units)
  BY <1>2 DEF ExistsSurjection
<1>4. QED
  BY <1>1, <1>3, OrderFacts, FS_SurjCardinalityBound, FS_CardinalityType

(* A scan counts at most the nodes, and one wave is a scan.                *)
LEMMA Waves ==
  ASSUME NEW n \in Nat, NEW a \in Nat, NEW b \in Nat
  PROVE  /\ n * a \in Nat
         /\ a <= b => n * a <= n * b
         /\ a < b => n * a + n <= n * b
<1>1. n * a \in Nat /\ n * b \in Nat
  OBVIOUS
<1>2. ASSUME a <= b PROVE n * a <= n * b
  <2>1. PICK c \in Nat : b = a + c
    <3>1. b - a \in Nat /\ b = a + (b - a)
      BY <1>2
    <3>2. QED
      BY <3>1
  <2>2. n * b = n * a + n * c /\ n * c \in Nat
    BY <2>1
  <2>3. QED
    BY <1>1, <2>2
<1>3. ASSUME a < b PROVE n * a + n <= n * b
  <2>1. PICK c \in Nat : b = (a + 1) + c
    <3>1. b - (a + 1) \in Nat /\ b = (a + 1) + (b - (a + 1))
      BY <1>3
    <3>2. QED
      BY <3>1
  <2>2. n * b = (n * a + n) + n * c /\ n * c \in Nat
    BY <2>1
  <2>3. QED
    BY <1>1, <2>2
<1>4. QED
  BY <1>1, <1>2, <1>3

LEMMA ProgressInitial == LoopInit => ProgressInv
<1> SUFFICES ASSUME LoopInit PROVE ProgressInv
  OBVIOUS
<1>1. Len(Order) * Cardinality(UnitsStarted) \in Nat
  BY DoneFacts, OrderFacts, Waves
<1>2. QED
  BY <1>1 DEF LoopInit, ProgressInv

(* Where a scan starts, one of the units that are not built can be.        *)
LEMMA ScanStartProgress ==
  ASSUME LoopInv, GraphAcyclic(Units), ProgressInv, ScanStart
  PROVE  ProgressInv'
<1>1. tasks' = tasks /\ node' = 1 /\ sentry' = sentry /\ pc' = "scan" /\ pc = "test"
  BY DEF ScanStart
<1>2. UnitsStarted = UnitsDone
  BY <1>1 DEF LoopInv, WaveBarrier, UnitsStarted, UnitsDone
<1>3. UnitsDone' = UnitsDone
  BY <1>1 DEF UnitsDone
<1>4. sentry' <= Len(Order) * Cardinality(UnitsDone') + (node' - 1)
  <2>1. Len(Order) * Cardinality(UnitsDone) \in Nat
    BY DoneFacts, OrderFacts, Waves
  <2>2. sentry <= Len(Order) * Cardinality(UnitsDone) /\ sentry \in Nat
    BY <1>1, <1>2 DEF ProgressInv, LoopInv, TypeOK
  <2>3. QED
    BY <1>1, <1>3, <2>1, <2>2
<1>5. PICK u \in Units \ UnitsDone : Deps[u] \cap (Units \ UnitsDone) = {}
  <2>1. Units \ UnitsDone # {} /\ Units \ UnitsDone \in SUBSET Units
    BY DEF ScanStart, MapAllFinished, UnitsDone
  <2>2. QED
    BY <2>1 DEF GraphAcyclic
<1>6. AllDepsBuilt(u)
  BY <1>5, DepsAreUnits DEF AllDepsBuilt, UnitsDone
<1>7. tasks[u] \in {"None", "Waiting"}
  BY <1>1, <1>5 DEF UnitsDone, LoopInv, WaveBarrier, TypeOK, TaskStates
<1>8. PICK i \in 1 .. Len(Order) : Order[i] = u
  BY OrderFacts
<1>9. WaveStarts'
  BY <1>1, <1>6, <1>7, <1>8 DEF WaveStarts, AllDepsBuilt
<1>10. QED
  BY <1>1, <1>4, <1>9 DEF ProgressInv

(* A visit uses up one node of the scan, and a start is still to come or   *)
(* has come.                                                               *)
LEMMA VisitCounts ==
  ASSUME LoopInv, ProgressInv, NEW u \in Units, Visit(u), UnitsDone' = UnitsDone, WaveStarts'
  PROVE  ProgressInv'
<1>1. Len(Order) * Cardinality(UnitsDone) \in Nat
  BY DoneFacts, OrderFacts, Waves
<1>2. pc = "scan" /\ pc' = "scan" /\ sentry' = sentry + 1 /\ node' = node + 1
  BY DEF Visit
<1>3. sentry \in Nat /\ node \in Nat
  BY OrderFacts DEF LoopInv, TypeOK
<1>4. sentry' <= Len(Order) * Cardinality(UnitsDone') + (node' - 1)
  BY <1>1, <1>2, <1>3 DEF ProgressInv
<1>5. QED
  BY <1>2, <1>4 DEF ProgressInv

LEMMA SkipProgress ==
  ASSUME LoopInv, ProgressInv, NEW u \in Units, SkipNode(u)
  PROVE  ProgressInv'
<1>1. Visit(u) /\ tasks' = tasks /\ tasks[u] \in {"Building", "Finished"}
      /\ pc = "scan" /\ u = Order[node] /\ node' = node + 1 /\ node \in Nat
  BY OrderFacts DEF SkipNode, Visit, LoopInv, TypeOK
<1>2. UnitsDone' = UnitsDone
  BY <1>1 DEF UnitsDone
<1>3. WaveStarts'
  <2>1. CASE \E v \in Units : tasks[v] = "Building"
    BY <1>1, <2>1 DEF WaveStarts
  <2>2. ASSUME NEW i \in node .. Len(Order), tasks[Order[i]] \in {"None", "Waiting"},
               AllDepsBuilt(Order[i])
        PROVE  WaveStarts'
    <3>1. i # node
      BY <1>1, <2>2
    <3>2. i \in node' .. Len(Order)
      BY <1>1, <3>1, OrderFacts
    <3>3. QED
      BY <1>1, <2>2, <3>2 DEF WaveStarts, AllDepsBuilt
  <2>3. QED
    BY <1>1, <2>1, <2>2 DEF ProgressInv, WaveStarts
<1>4. QED
  BY <1>1, <1>2, <1>3, VisitCounts

LEMMA SpawnProgress ==
  ASSUME LoopInv, ProgressInv, NEW u \in Units, SpawnNode(u)
  PROVE  ProgressInv'
<1>1. Visit(u) /\ tasks' = [tasks EXCEPT ![u] = "Building"] /\ tasks[u] \in {"None", "Waiting"}
      /\ tasks \in [Units -> TaskStates]
  BY DEF SpawnNode, LoopInv, TypeOK
<1>2. UnitsDone' = UnitsDone
  BY <1>1 DEF UnitsDone
<1>3. WaveStarts'
  BY <1>1 DEF WaveStarts
<1>4. QED
  BY <1>1, <1>2, <1>3, VisitCounts

(* A unit that could be started is only deferred when others are building. *)
LEMMA DeferProgress ==
  ASSUME LoopInv, MaxJobs > 0, ProgressInv, NEW u \in Units, DeferNode(u)
  PROVE  ProgressInv'
<1>1. /\ Visit(u) /\ tasks' = [tasks EXCEPT ![u] = "Waiting"]
      /\ tasks[u] \in {"None", "Waiting"} /\ tasks \in [Units -> TaskStates]
      /\ pc = "scan" /\ u = Order[node] /\ node' = node + 1 /\ node \in Nat
  BY OrderFacts DEF DeferNode, Visit, LoopInv, TypeOK
<1>2. UnitsDone' = UnitsDone
  BY <1>1 DEF UnitsDone
<1>3. WaveStarts'
  <2>1. CASE \E v \in Units : tasks[v] = "Building"
    BY <1>1, <2>1 DEF WaveStarts
  <2>2. ASSUME ~\E v \in Units : tasks[v] = "Building",
               NEW i \in node .. Len(Order), tasks[Order[i]] \in {"None", "Waiting"},
               AllDepsBuilt(Order[i])
        PROVE  WaveStarts'
    <3>1. i # node
      <4>1. PackagesBuilding = {}
        BY <2>2, GraphAssumption DEF PackagesBuilding, DagResult
      <4>2. CanAddToTasks(u)
        BY <4>1, FS_EmptySet, MaxJobsType DEF CanAddToTasks
      <4>3. QED
        BY <1>1, <2>2, <4>2 DEF DeferNode
    <3>2. i \in node' .. Len(Order) /\ i \in 1 .. Len(Order)
      BY <1>1, <3>1, OrderFacts DEF LoopInv, TypeOK
    <3>3. Order[i] \in Units
      BY <3>2, OrderFacts
    <3>4. tasks'[Order[i]] \in {"None", "Waiting"}
      BY <1>1, <2>2, <3>3
    <3>5. AllDepsBuilt(Order[i])'
      BY <1>1, <2>2, <3>3, DepsAreUnits DEF AllDepsBuilt
    <3>6. QED
      BY <3>2, <3>4, <3>5 DEF WaveStarts
  <2>3. QED
    BY <1>1, <2>1, <2>2 DEF ProgressInv, WaveStarts
<1>4. QED
  BY <1>1, <1>2, <1>3, VisitCounts

(* At the end of a scan something is building that was not built before.   *)
LEMMA ScanEndProgress ==
  ASSUME LoopInv, ProgressInv, ScanEnd
  PROVE  ProgressInv'
<1>1. pc = "scan" /\ pc' = "await" /\ tasks' = tasks /\ sentry' = sentry /\ node = Len(Order) + 1
  BY OrderFacts DEF ScanEnd, LoopInv, TypeOK
<1>2. PICK u \in Units : tasks[u] = "Building"
  BY <1>1, OrderFacts DEF ProgressInv, WaveStarts
<1>3. u \notin UnitsDone /\ UnitsDone \cup {u} \subseteq UnitsStarted
  BY <1>2 DEF UnitsDone, UnitsStarted
<1>4. Cardinality(UnitsDone) < Cardinality(UnitsStarted)
  <2>1. Cardinality(UnitsDone \cup {u}) = Cardinality(UnitsDone) + 1
    BY <1>3, DoneFacts, FS_AddElement
  <2>2. Cardinality(UnitsDone \cup {u}) <= Cardinality(UnitsStarted)
    BY <1>3, DoneFacts, FS_Subset
  <2>3. QED
    BY <2>1, <2>2, DoneFacts
<1>5. Len(Order) * Cardinality(UnitsDone) + Len(Order) <= Len(Order) * Cardinality(UnitsStarted)
      /\ Len(Order) * Cardinality(UnitsDone) \in Nat /\ Len(Order) * Cardinality(UnitsStarted) \in Nat
  BY <1>4, DoneFacts, OrderFacts, Waves
<1>6. sentry <= Len(Order) * Cardinality(UnitsDone) + Len(Order) /\ sentry \in Nat
  BY <1>1, <1>5, OrderFacts DEF ProgressInv, LoopInv, TypeOK
<1>7. sentry <= Len(Order) * Cardinality(UnitsStarted)
  BY <1>5, <1>6, OrderFacts
<1>8. UnitsStarted' = UnitsStarted
  BY <1>1 DEF UnitsStarted
<1>9. QED
  BY <1>1, <1>7, <1>8 DEF ProgressInv

LEMMA ProgressStep ==
  ASSUME GraphAcyclic(Units), MaxJobs > 0, LoopInv, ProgressInv, [LoopNext]_loopVars
  PROVE  ProgressInv'
<1>1. CASE LoopExit \/ SentryTrips \/ RuntimeDropped
  BY <1>1 DEF LoopExit, SentryTrips, RuntimeDropped, ProgressInv
<1>2. CASE ScanStart
  BY <1>2, ScanStartProgress
<1>3. CASE ScanEnd
  BY <1>3, ScanEndProgress
<1>4. CASE AwaitEnd
  BY <1>4 DEF AwaitEnd, ProgressInv, UnitsStarted
<1>5. ASSUME NEW u \in Units, SkipNode(u) \/ SpawnNode(u) \/ DeferNode(u) PROVE ProgressInv'
  BY <1>5, SkipProgress, SpawnProgress, DeferProgress
<1>6. ASSUME NEW u \in Units, Collect(u) PROVE ProgressInv'
  <2>1. tasks[u] = "Building" /\ tasks \in [Units -> TaskStates]
    BY <1>6 DEF Collect, LoopInv, TypeOK, TaskStates, TaskIsJob
  <2>2. UnitsStarted' = UnitsStarted
    BY <1>6, <2>1 DEF Collect, UnitsStarted
  <2>3. QED
    BY <1>6, <2>2 DEF Collect, ProgressInv
<1>7. ASSUME NEW u \in Units, CollectUnprinted(u) \/ CollectError(u) PROVE ProgressInv'
  BY <1>7 DEF CollectUnprinted, CollectError, ProgressInv
<1>8. CASE JobStep \/ UNCHANGED loopVars
  BY <1>8
  DEF JobStep, JobReturns, JobRaises, JobCancelled, loopVars,
      ProgressInv, WaveStarts, AllDepsBuilt, UnitsStarted, UnitsDone
<1>9. QED
  BY <1>1, <1>2, <1>3, <1>4, <1>5, <1>6, <1>7, <1>8 DEF LoopNext, LoopStep, Stopped

\* In an acyclic graph, with --jobs above 0, each wave starts at least one unit,
\* so the visits that the sentry counts are at most one scan for each of them.
THEOREM EveryWaveStarts ==
  ASSUME GraphAcyclic(Units), MaxJobs > 0
  PROVE  LoopSpec => []ProgressInv
<1>1. LoopInit => ProgressInv
  BY ProgressInitial
<1>2. LoopInv /\ ProgressInv /\ [LoopNext]_loopVars => ProgressInv'
  BY ProgressStep
<1>3. QED
  BY <1>1, <1>2, LoopInvariant, PTL DEF LoopSpec

(* With room for one scan for each unit, the sentry does not trip.         *)
LEMMA SentryIsQuiet ==
  ASSUME LoopInv, ProgressInv, RoomForAll
  PROVE  ~SentryTrips
<1> SUFFICES ASSUME SentryTrips PROVE FALSE
  OBVIOUS
<1>1. /\ pc = "scan" /\ node <= Len(Order) /\ node \in Nat
      /\ sentry > MaxBuildIterations /\ sentry \in Nat /\ MaxBuildIterations \in Nat
  BY OrderFacts, JobsAssumption DEF SentryTrips, LoopInv, TypeOK
<1>2. PICK u \in Units : u \notin UnitsDone
  <2>1. CASE \E v \in Units : tasks[v] = "Building"
    BY <2>1 DEF UnitsDone
  <2>2. ASSUME NEW i \in node .. Len(Order), tasks[Order[i]] \in {"None", "Waiting"}
        PROVE  \E v \in Units : v \notin UnitsDone
    BY <2>2, OrderFacts DEF UnitsDone, LoopInv, TypeOK
  <2>3. QED
    BY <1>1, <2>1, <2>2 DEF ProgressInv, WaveStarts
<1>3. Cardinality(UnitsDone) < Cardinality(Units)
  <2>1. UnitsDone \cup {u} \subseteq Units
    BY DEF UnitsDone
  <2>2. Cardinality(UnitsDone \cup {u}) = Cardinality(UnitsDone) + 1
    BY <1>2, DoneFacts, FS_AddElement
  <2>3. Cardinality(UnitsDone \cup {u}) <= Cardinality(Units)
    BY <2>1, DoneFacts, FS_Subset
  <2>4. QED
    BY <2>2, <2>3, DoneFacts, UnitsInOrder
<1>4. Cardinality(UnitsDone) < Len(Order)
  BY <1>3, DoneFacts, UnitsInOrder, OrderFacts
<1>5. /\ Len(Order) * Cardinality(UnitsDone) + Len(Order) <= Len(Order) * Len(Order)
      /\ Len(Order) * Cardinality(UnitsDone) \in Nat /\ Len(Order) * Len(Order) \in Nat
  BY <1>4, DoneFacts, OrderFacts, Waves
<1>6. sentry <= Len(Order) * Cardinality(UnitsDone) + (node - 1)
  BY <1>1 DEF ProgressInv
<1>7. QED
  BY <1>1, <1>5, <1>6, OrderFacts DEF RoomForAll

LEMMA AbortStep ==
  ASSUME LoopInv, ProgressInv, RoomForAll, NoSpuriousAbort, [LoopNext]_loopVars
  PROVE  NoSpuriousAbort'
<1>1. job \in [Units -> JobStates]
  BY DEF LoopInv, TypeOK
<1>2. CASE LoopExit \/ ScanStart \/ ScanEnd \/ AwaitEnd \/ RuntimeDropped \/ UNCHANGED loopVars
  BY <1>2
  DEF LoopExit, ScanStart, ScanEnd, AwaitEnd, RuntimeDropped, loopVars, NoSpuriousAbort
<1>3. CASE SentryTrips
  BY <1>3, SentryIsQuiet
<1>4. ASSUME NEW u \in Units, SkipNode(u) \/ SpawnNode(u) \/ DeferNode(u)
      PROVE  NoSpuriousAbort'
  BY <1>4 DEF SkipNode, SpawnNode, DeferNode, Visit, NoSpuriousAbort
<1>5. ASSUME NEW u \in Units, Collect(u) \/ CollectUnprinted(u) \/ CollectError(u)
      PROVE  NoSpuriousAbort'
  BY <1>1, <1>5 DEF Collect, CollectUnprinted, CollectError, NoSpuriousAbort
<1>6. ASSUME NEW u \in Units, JobReturns(u) \/ JobRaises(u) \/ JobCancelled(u)
      PROVE  NoSpuriousAbort'
  BY <1>1, <1>6 DEF JobReturns, JobRaises, JobCancelled, NoSpuriousAbort
<1>7. QED
  BY <1>2, <1>3, <1>4, <1>5, <1>6 DEF LoopNext, LoopStep, JobStep, Stopped

\* A build of an acyclic graph of n units, with --jobs above 0 and a sentry that
\* allows n * n visits, only fails when a builder or the console does.
THEOREM SentryNeverAborts ==
  ASSUME GraphAcyclic(Units), MaxJobs > 0, RoomForAll
  PROVE  LoopSpec => []NoSpuriousAbort
<1>1. LoopInit => NoSpuriousAbort
  BY DEF LoopInit, NoSpuriousAbort
<1>2. LoopInv /\ ProgressInv /\ NoSpuriousAbort /\ [LoopNext]_loopVars => NoSpuriousAbort'
  BY AbortStep
<1>3. QED
  BY <1>1, <1>2, LoopInvariant, EveryWaveStarts, PTL DEF LoopSpec

-----------------------------------------------------------------------------
(* The steps run out.  A task that moves on leaves one of the sets that    *)
(* JobSteps counts, and enters none.                                       *)
LEMMA FewerJobs ==
  ASSUME NEW S, NEW T, S \subseteq Units, T \subseteq S
  PROVE  /\ Cardinality(S) \in Nat /\ Cardinality(T) \in Nat
         /\ Cardinality(T) <= Cardinality(S)
         /\ T # S => Cardinality(T) < Cardinality(S)
<1>1. IsFiniteSet(S)
  BY DoneFacts, FS_Subset
<1>2. /\ IsFiniteSet(T) /\ Cardinality(T) <= Cardinality(S)
      /\ Cardinality(T) = Cardinality(S) => T = S
  BY <1>1, FS_Subset
<1>3. QED
  BY <1>1, <1>2, FS_CardinalityType

LEMMA JobStepsType == JobSteps \in Nat
<1>1. \A S : JobsIn(S) \subseteq Units
  BY DEF JobsIn
<1>2. \A S : Cardinality(JobsIn(S)) \in Nat
  BY <1>1, FewerJobs
<1>3. QED
  BY <1>2 DEF JobSteps

LEMMA JobMovesOn ==
  ASSUME job \in [Units -> JobStates], NEW u \in Units, NEW x,
         job' = [job EXCEPT ![u] = x],
         \/ job[u] = "unspawned" /\ x = "running"
         \/ job[u] = "running" /\ x \in {"returned", "raised", "cancelled"}
         \/ job[u] = "returned" /\ x \in {"collected", "unprinted"}
  PROVE  JobSteps' \in Nat /\ JobSteps' < JobSteps
<1> DEFINE A == JobsIn({"unspawned"})
           B == JobsIn({"unspawned", "running"})
           C == JobsIn({"unspawned", "running", "returned", "raised"})
<1>1. A \subseteq Units /\ B \subseteq Units /\ C \subseteq Units
  BY DEF JobsIn
<1>2. A' \subseteq A /\ B' \subseteq B /\ C' \subseteq C
  BY DEF JobsIn
<1>3. A' # A \/ B' # B \/ C' # C
  <2>1. CASE job[u] = "unspawned"
    BY <2>1 DEF JobsIn
  <2>2. CASE job[u] = "running"
    BY <2>2 DEF JobsIn
  <2>3. CASE job[u] = "returned"
    BY <2>3 DEF JobsIn
  <2>4. QED
    BY <2>1, <2>2, <2>3
<1>4. JobSteps = Cardinality(A) + Cardinality(B) + Cardinality(C)
      /\ JobSteps' = Cardinality(A') + Cardinality(B') + Cardinality(C')
  BY DEF JobSteps
<1> HIDE DEF A, B, C
<1>5. /\ Cardinality(A) \in Nat /\ Cardinality(A') \in Nat /\ Cardinality(A') <= Cardinality(A)
      /\ A' # A => Cardinality(A') < Cardinality(A)
  BY <1>1, <1>2, FewerJobs
<1>6. /\ Cardinality(B) \in Nat /\ Cardinality(B') \in Nat /\ Cardinality(B') <= Cardinality(B)
      /\ B' # B => Cardinality(B') < Cardinality(B)
  BY <1>1, <1>2, FewerJobs
<1>7. /\ Cardinality(C) \in Nat /\ Cardinality(C') \in Nat /\ Cardinality(C') <= Cardinality(C)
      /\ C' # C => Cardinality(C') < Cardinality(C)
  BY <1>1, <1>2, FewerJobs
<1>8. QED
  BY <1>3, <1>4, <1>5, <1>6, <1>7

(* The sentry is never more than one above its bound.                      *)
SentryBounded == sentry <= MaxBuildIterations + 1

LEMMA SentryBoundedStep ==
  ASSUME LoopInv, SentryBounded, [LoopNext]_loopVars
  PROVE  SentryBounded'
<1>1. sentry' = sentry \/ (sentry <= MaxBuildIterations /\ sentry' = sentry + 1)
  BY DEF LoopNext, LoopStep, JobStep, Stopped, LoopExit, ScanStart, SentryTrips, ScanEnd,
         AwaitEnd, RuntimeDropped, SkipNode, SpawnNode, DeferNode, Visit, Collect,
         CollectUnprinted, CollectError, JobReturns, JobRaises, JobCancelled, loopVars
<1>2. QED
  BY <1>1, JobsAssumption DEF SentryBounded, LoopInv, TypeOK

LEMMA PhaseStepsType ==
  ASSUME TypeOK
  PROVE  PhaseSteps \in 0 .. 5
  BY DEF TypeOK, Phases, PhaseSteps

LEMMA PhaseStepsNextType ==
  ASSUME TypeOK'
  PROVE  PhaseSteps' \in 0 .. 5
  BY DEF TypeOK, Phases, PhaseSteps

LEMMA Sums ==
  ASSUME NEW m \in Nat, NEW s \in Nat, NEW t \in Nat, s <= m + 1, t <= m + 1,
         NEW p \in 0 .. 5, NEW q \in 0 .. 5, NEW j \in Nat, NEW k \in Nat,
         \/ t = s /\ q <= p /\ k <= j /\ (q < p \/ k < j)
         \/ t = s + 1 /\ q <= p + 3 /\ k <= j
  PROVE  /\ 4 * (m + 1 - t) + q + k \in Nat
         /\ 4 * (m + 1 - t) + q + k < 4 * (m + 1 - s) + p + j
  OBVIOUS

(* What a step does to the sum, from what it does to its parts.            *)
LEMMA StepCounts ==
  ASSUME LoopInv, SentryBounded, LoopInv', SentryBounded',
         \/ /\ sentry' = sentry /\ PhaseSteps' <= PhaseSteps /\ JobSteps' <= JobSteps
            /\ PhaseSteps' < PhaseSteps \/ JobSteps' < JobSteps
         \/ sentry' = sentry + 1 /\ PhaseSteps' <= PhaseSteps + 3 /\ JobSteps' <= JobSteps
  PROVE  StepsLeft' \in Nat /\ StepsLeft' < StepsLeft
<1>1. /\ sentry \in Nat /\ sentry' \in Nat /\ MaxBuildIterations \in Nat
      /\ sentry <= MaxBuildIterations + 1 /\ sentry' <= MaxBuildIterations + 1
  BY JobsAssumption DEF LoopInv, TypeOK, SentryBounded
<1>2. PhaseSteps \in 0 .. 5 /\ PhaseSteps' \in 0 .. 5
  BY PhaseStepsType, PhaseStepsNextType DEF LoopInv
<1>3. JobSteps \in Nat /\ JobSteps' \in Nat
  <2>1. \A S : JobsIn(S)' \subseteq Units
    BY DEF JobsIn
  <2>2. \A S : Cardinality(JobsIn(S)') \in Nat
    BY <2>1, FewerJobs
  <2>3. QED
    BY <2>2, JobStepsType DEF JobSteps
<1>4. /\ 4 * (MaxBuildIterations + 1 - sentry') + PhaseSteps' + JobSteps' \in Nat
      /\ 4 * (MaxBuildIterations + 1 - sentry') + PhaseSteps' + JobSteps'
            < 4 * (MaxBuildIterations + 1 - sentry) + PhaseSteps + JobSteps
  BY <1>1, <1>2, <1>3, Sums
<1>5. QED
  BY <1>4 DEF StepsLeft

LEMMA EveryStepCounts ==
  ASSUME LoopInv, SentryBounded, LoopInv', SentryBounded', LoopNext, ~UNCHANGED loopVars
  PROVE  StepsLeft' \in Nat /\ StepsLeft' < StepsLeft
<1>1. /\ job \in [Units -> JobStates] /\ node \in Nat /\ node' \in Nat /\ Len(Order) \in Nat
      /\ JobSteps \in Nat /\ PhaseSteps \in 0 .. 5 /\ PhaseSteps' \in 0 .. 5
      /\ 1 <= Len(Order)
  <2>1. 1 <= Len(Order)
    BY OrderFacts, DepsAreUnits
  <2>2. QED
    BY <2>1, OrderFacts, JobStepsType, PhaseStepsType, PhaseStepsNextType DEF LoopInv, TypeOK
<1>2. job' = job => JobSteps' = JobSteps
  BY DEF JobSteps, JobsIn
<1>3. CASE LoopExit \/ ScanStart \/ SentryTrips \/ ScanEnd \/ AwaitEnd \/ RuntimeDropped
  <2>1. sentry' = sentry /\ job' = job
    BY <1>3 DEF LoopExit, ScanStart, SentryTrips, ScanEnd, AwaitEnd, RuntimeDropped
  <2>2. PhaseSteps' < PhaseSteps
    BY <1>1, <1>3
    DEF LoopExit, ScanStart, SentryTrips, ScanEnd, AwaitEnd, RuntimeDropped, PhaseSteps
  <2>3. QED
    BY <1>1, <1>2, <2>1, <2>2, StepCounts
<1>4. ASSUME NEW u \in Units, SkipNode(u) \/ SpawnNode(u) \/ DeferNode(u)
      PROVE  StepsLeft' \in Nat /\ StepsLeft' < StepsLeft
  <2>1. Visit(u) /\ sentry' = sentry + 1
    BY <1>4 DEF SkipNode, SpawnNode, DeferNode, Visit
  <2>2. PhaseSteps' <= PhaseSteps + 3
    <3>1. PhaseSteps = 2 /\ pc' = "scan"
      BY <1>1, <2>1 DEF Visit, PhaseSteps
    <3>2. PhaseSteps' \in {2, 5}
      BY <3>1 DEF PhaseSteps
    <3>3. QED
      BY <3>1, <3>2
  <2>3. JobSteps' <= JobSteps
    <3>1. CASE job' = job
      BY <1>1, <1>2, <3>1
    <3>2. CASE SpawnNode(u)
      <4>1. job' = [job EXCEPT ![u] = "running"] /\ job[u] = "unspawned"
        BY <3>2 DEF SpawnNode, LoopInv, TaskIsJob
      <4>2. JobSteps' \in Nat /\ JobSteps' < JobSteps
        BY <1>1, <4>1, JobMovesOn
      <4>3. QED
        BY <1>1, <4>2
    <3>3. QED
      BY <1>4, <3>1, <3>2 DEF SkipNode, DeferNode
  <2>4. QED
    BY <2>1, <2>2, <2>3, StepCounts
<1>5. ASSUME NEW u \in Units, CollectError(u)
      PROVE  StepsLeft' \in Nat /\ StepsLeft' < StepsLeft
  <2>1. sentry' = sentry /\ job' = job /\ PhaseSteps' < PhaseSteps
    BY <1>5 DEF CollectError, PhaseSteps
  <2>2. QED
    BY <1>1, <1>2, <2>1, StepCounts
<1>6. ASSUME NEW u \in Units,
             \/ Collect(u) \/ CollectUnprinted(u)
             \/ JobReturns(u) \/ JobRaises(u) \/ JobCancelled(u)
      PROVE  StepsLeft' \in Nat /\ StepsLeft' < StepsLeft
  <2>1. JobSteps' \in Nat /\ JobSteps' < JobSteps
    BY <1>1, <1>6, JobMovesOn DEF Collect, CollectUnprinted, JobReturns, JobRaises, JobCancelled
  <2>2. sentry' = sentry /\ (pc' = pc \/ (pc = "await" /\ pc' = "teardown")) /\ node' = node
    BY <1>6 DEF Collect, CollectUnprinted, JobReturns, JobRaises, JobCancelled
  <2>3. PhaseSteps' <= PhaseSteps
    <3>1. CASE pc' = pc
      BY <1>1, <2>2, <3>1 DEF PhaseSteps
    <3>2. CASE pc = "await" /\ pc' = "teardown"
      BY <3>2 DEF PhaseSteps
    <3>3. QED
      BY <2>2, <3>1, <3>2
  <2>4. QED
    BY <1>1, <2>1, <2>2, <2>3, StepCounts
<1>7. QED
  BY <1>3, <1>4, <1>5, <1>6 DEF LoopNext, LoopStep, JobStep, Stopped

\* For every graph, cyclic or not, any --jobs, and any sentry: the scheduler
\* and its tasks take at most StepsLeft steps from where they are.
THEOREM SchedulerRunsOutOfSteps == LoopSpec => StepsRunOut
<1>1. LoopInit => SentryBounded
  BY JobsAssumption DEF LoopInit, SentryBounded
<1>2. LoopInv /\ SentryBounded /\ [LoopNext]_loopVars => SentryBounded'
  BY SentryBoundedStep
<1>3. LoopInv /\ SentryBounded /\ LoopInv' /\ SentryBounded' /\ [LoopNext]_loopVars
        => [StepsLeft' \in Nat /\ StepsLeft' < StepsLeft]_loopVars
  BY EveryStepCounts
<1>4. QED
  BY <1>1, <1>2, <1>3, LoopInvariant, PTL DEF LoopSpec, StepsRunOut
=============================================================================
