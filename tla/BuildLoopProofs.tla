--------------------------- MODULE BuildLoopProofs ---------------------------
(***************************************************************************)
(* The scheduler is correct for every graph, every limit on the jobs and   *)
(* every bound of the sentry.  LoopInv is inductive; its parts give the    *)
(* safety properties, and the steps of the scheduler map to steps of the   *)
(* plan under it.                                                          *)
(***************************************************************************)
EXTENDS BuildLoop, TLAPS, FiniteSetTheorems

\* The limit is a number, given or not.
LEMMA MaxJobsType == MaxJobs \in Nat
BY JobsAssumption DEF MaxJobs

\* The units counted against the limit form a finite set.
LEMMA PackagesBuildingFinite == IsFiniteSet(PackagesBuilding)
<1>1. IsFiniteSet(Units)
  BY GraphAssumption DEF DagResult
<1>2. PackagesBuilding \subseteq Units
  BY GraphAssumption DEF DagResult, PackagesBuilding
<1> QED
  BY <1>1, <1>2, FS_Subset

\* Before the first scan only the root has an entry, and nothing is built.
LEMMA LoopInvInit == LoopInit => LoopInv
<1> SUFFICES ASSUME LoopInit PROVE LoopInv
  OBVIOUS
<1> USE DEF LoopInit
<1>1. TypeOK
  BY GraphAssumption DEF TypeOK, Phases, TaskStates, JobStates, DagResult
<1>2. TaskIsJob /\ DepsFirst /\ GivenUpAtTeardown /\ WaveBarrier
  BY DEF TaskIsJob, DepsFirst, GivenUpAtTeardown, WaveBarrier
<1>3. EntriesSeen
  BY GraphAssumption DEF EntriesSeen, DagResult
<1>4. BuildingLimit
  <2>1. PackagesBuilding = {}
    BY GraphAssumption DEF PackagesBuilding, DagResult
  <2> QED
    BY <2>1, FS_EmptySet, MaxJobsType DEF BuildingLimit
<1> QED
  BY <1>1, <1>2, <1>3, <1>4 DEF LoopInv

\* The count can only have shrunk if no package has started.
LEMMA BuildingLimitKept ==
    ASSUME BuildingLimit, PackagesBuilding' \subseteq PackagesBuilding
    PROVE  BuildingLimit'
<1> DEFINE Before == PackagesBuilding
           After  == PackagesBuilding'
<1>1. IsFiniteSet(Before)
  BY PackagesBuildingFinite
<1>2. Cardinality(After) <= Cardinality(Before) /\ Cardinality(After) \in Nat /\ Cardinality(Before) \in Nat
  <2> HIDE DEF Before, After
  <2>1. After \subseteq Before
    BY DEF Before, After
  <2> QED
    BY <1>1, <2>1, FS_Subset, FS_CardinalityType
<1>3. MaxJobs' = MaxJobs
  BY DEF MaxJobs
<1> QED
  BY <1>2, <1>3, MaxJobsType DEF BuildingLimit

\* A node that is spawned was counted out before.
LEMMA BuildingLimitSpawn ==
    ASSUME NEW u \in Units, TypeOK, BuildingLimit, SpawnNode(u)
    PROVE  BuildingLimit'
<1>1. CASE u \in Packages
  <2>1. PackagesBuilding' = PackagesBuilding \cup {u}
    BY <1>1, GraphAssumption DEF SpawnNode, PackagesBuilding, TypeOK, DagResult
  <2>2. Cardinality(PackagesBuilding) < MaxJobs
    BY <1>1 DEF SpawnNode, CanAddToTasks
  <2>3. Cardinality(PackagesBuilding \cup {u}) <= Cardinality(PackagesBuilding) + 1
    BY PackagesBuildingFinite, FS_AddElement, FS_CardinalityType
  <2>4. Cardinality(PackagesBuilding) \in Nat /\ Cardinality(PackagesBuilding \cup {u}) \in Nat
    BY PackagesBuildingFinite, FS_AddElement, FS_CardinalityType
  <2> QED
    BY <2>1, <2>2, <2>3, <2>4, MaxJobsType DEF BuildingLimit, MaxJobs
<1>2. CASE u \notin Packages
  <2>1. PackagesBuilding' \subseteq PackagesBuilding
    BY <1>2, GraphAssumption DEF SpawnNode, PackagesBuilding, TypeOK, DagResult
  <2> QED
    BY <2>1, BuildingLimitKept
<1> QED
  BY <1>1, <1>2

\* The order is a finite sequence that leaves no unit out.
LEMMA OrderFacts ==
    /\ Len(Order) \in Nat
    /\ \A i \in 1 .. Len(Order) : Order[i] \in Units
    /\ \A u \in Units : \E i \in 1 .. Len(Order) : Order[i] = u
BY GraphAssumption DEF DagResult

\* The root and the dependencies of a unit are units.
LEMMA DepsAreUnits == Root \in Units /\ \A u \in Units : Deps[u] \subseteq Units
BY GraphAssumption DEF DagResult

\* A visit is of the node after those already seen, and moves past it.
LEMMA VisitFacts ==
    ASSUME NEW u \in Units, TypeOK, Visit(u)
    PROVE  /\ pc = "scan" /\ pc' = "scan"
           /\ node' \in 1 .. Len(Order) + 1 /\ sentry' \in Nat
           /\ \A i \in 1 .. node' - 1 : i \in 1 .. node - 1 \/ Order[i] = u
BY OrderFacts DEF TypeOK, Visit

\* A visit that leaves the unit with an entry keeps the account of entries.
LEMMA EntriesSeenVisit ==
    ASSUME NEW u \in Units, TypeOK, EntriesSeen, Visit(u),
           tasks'[u] # "None",
           \A v \in Units : v # u => tasks'[v] = tasks[v]
    PROVE  EntriesSeen'
<1>1. ASSUME NEW i \in 1 .. node' - 1 PROVE tasks'[Order[i]] # "None"
  <2>1. CASE Order[i] = u
    BY <2>1
  <2>2. CASE Order[i] # u
    <3>1. i \in 1 .. node - 1
      BY <2>2, VisitFacts
    <3>2. tasks[Order[i]] # "None"
      BY <3>1, VisitFacts DEF EntriesSeen
    <3>3. Order[i] \in Units
      BY <3>1, OrderFacts DEF TypeOK
    <3> QED
      BY <2>2, <3>2, <3>3
  <2> QED
    BY <2>1, <2>2
<1> QED
  BY <1>1, VisitFacts DEF EntriesSeen

\* No step of the scheduler or of a task breaks the invariant.
LEMMA LoopInvStep == LoopInv /\ [LoopNext]_loopVars => LoopInv'
<1> SUFFICES ASSUME LoopInv, [LoopNext]_loopVars PROVE LoopInv'
  OBVIOUS
<1> USE DEF LoopInv
<1> DEFINE Quiet == TypeOK' /\ GivenUpAtTeardown' /\ WaveBarrier' /\ EntriesSeen'
<1>a. ASSUME UNCHANGED <<tasks, job>> PROVE TaskIsJob' /\ DepsFirst' /\ BuildingLimit'
  <2>1. TaskIsJob' /\ DepsFirst'
    BY <1>a DEF TaskIsJob, DepsFirst
  <2>2. PackagesBuilding' \subseteq PackagesBuilding
    BY <1>a DEF PackagesBuilding
  <2> QED
    BY <2>1, <2>2, BuildingLimitKept
<1>1. CASE LoopExit
  <2>1. Quiet
    BY <1>1, DepsAreUnits DEF LoopExit, MapAllFinished, TypeOK, Phases, GivenUpAtTeardown, WaveBarrier, EntriesSeen, TaskStates
  <2> QED
    BY <1>1, <1>a, <2>1 DEF LoopExit
<1>2. CASE ScanStart
  <2>1. Quiet
    BY <1>2 DEF ScanStart, TypeOK, Phases, GivenUpAtTeardown, WaveBarrier, EntriesSeen
  <2> QED
    BY <1>2, <1>a, <2>1 DEF ScanStart
<1>3. CASE SentryTrips
  <2>1. Quiet
    BY <1>3 DEF SentryTrips, TypeOK, Phases, GivenUpAtTeardown, WaveBarrier, EntriesSeen
  <2> QED
    BY <1>3, <1>a, <2>1 DEF SentryTrips
<1>4. CASE ScanEnd
  <2>1. EntriesSeen'
    <3>1. \A i \in 1 .. Len(Order) : tasks[Order[i]] # "None"
      BY <1>4, OrderFacts DEF ScanEnd, TypeOK, EntriesSeen
    <3>2. \A u \in Units : tasks[u] # "None"
      BY <3>1, OrderFacts
    <3> QED
      BY <1>4, <3>2 DEF ScanEnd, EntriesSeen
  <2>2. Quiet
    BY <1>4, <2>1 DEF ScanEnd, TypeOK, Phases, GivenUpAtTeardown, WaveBarrier
  <2> QED
    BY <1>4, <1>a, <2>2 DEF ScanEnd
<1>5. CASE AwaitEnd
  <2>1. WaveBarrier'
    BY <1>5 DEF AwaitEnd, Futs, TypeOK, JobStates, TaskStates, TaskIsJob, GivenUpAtTeardown, WaveBarrier
  <2>2. Quiet
    BY <1>5, <2>1 DEF AwaitEnd, TypeOK, Phases, GivenUpAtTeardown, EntriesSeen
  <2> QED
    BY <1>5, <1>a, <2>2 DEF AwaitEnd
<1>6. CASE RuntimeDropped
  <2>1. Quiet
    BY <1>6 DEF RuntimeDropped, TypeOK, Phases, GivenUpAtTeardown, WaveBarrier, EntriesSeen
  <2> QED
    BY <1>6, <1>a, <2>1 DEF RuntimeDropped
<1>7. ASSUME NEW u \in Units, SkipNode(u) PROVE LoopInv'
  <2>1. EntriesSeen'
    BY <1>7, EntriesSeenVisit DEF SkipNode
  <2>2. Quiet
    BY <1>7, <2>1, VisitFacts DEF SkipNode, TypeOK, GivenUpAtTeardown, WaveBarrier
  <2> QED
    BY <1>7, <1>a, <2>2 DEF SkipNode
<1>8. ASSUME NEW u \in Units, SpawnNode(u) PROVE LoopInv'
  <2>1. TypeOK'
    BY <1>8, VisitFacts DEF SpawnNode, TypeOK, TaskStates, JobStates
  <2>2. TaskIsJob'
    BY <1>8 DEF SpawnNode, TypeOK, TaskIsJob
  <2>3. DepsFirst'
    BY <1>8, DepsAreUnits, VisitFacts
       DEF SpawnNode, AllDepsBuilt, TypeOK, TaskIsJob, DepsFirst, GivenUpAtTeardown
  <2>4. GivenUpAtTeardown' /\ WaveBarrier'
    BY <1>8, VisitFacts DEF SpawnNode, TypeOK, GivenUpAtTeardown, WaveBarrier
  <2>5. EntriesSeen'
    BY <1>8, EntriesSeenVisit DEF SpawnNode, TypeOK
  <2>6. BuildingLimit'
    BY <1>8, BuildingLimitSpawn
  <2> QED
    BY <2>1, <2>2, <2>3, <2>4, <2>5, <2>6
<1>9. ASSUME NEW u \in Units, DeferNode(u) PROVE LoopInv'
  <2>1. TypeOK' /\ TaskIsJob' /\ DepsFirst'
    BY <1>9, VisitFacts DEF DeferNode, TypeOK, TaskStates, TaskIsJob, DepsFirst
  <2>2. GivenUpAtTeardown' /\ WaveBarrier' /\ EntriesSeen'
    BY <1>9, VisitFacts, EntriesSeenVisit DEF DeferNode, TypeOK, GivenUpAtTeardown, WaveBarrier
  <2>3. PackagesBuilding' \subseteq PackagesBuilding
    BY <1>9 DEF DeferNode, PackagesBuilding, TypeOK
  <2> QED
    BY <2>1, <2>2, <2>3, BuildingLimitKept
<1>10. ASSUME NEW u \in Units, Collect(u) PROVE LoopInv'
  <2>1. TypeOK' /\ TaskIsJob'
    BY <1>10 DEF Collect, TypeOK, TaskStates, JobStates, TaskIsJob
  <2>2. DepsFirst' /\ GivenUpAtTeardown' /\ WaveBarrier' /\ EntriesSeen'
    BY <1>10, DepsAreUnits DEF Collect, TypeOK, DepsFirst, GivenUpAtTeardown, WaveBarrier, EntriesSeen
  <2>3. PackagesBuilding' \subseteq PackagesBuilding
    BY <1>10 DEF Collect, PackagesBuilding, TypeOK
  <2> QED
    BY <2>1, <2>2, <2>3, BuildingLimitKept
<1>11. ASSUME NEW u \in Units, CollectError(u) PROVE LoopInv'
  <2>1. Quiet
    BY <1>11 DEF CollectError, TypeOK, Phases, GivenUpAtTeardown, WaveBarrier, EntriesSeen
  <2> QED
    BY <1>11, <1>a, <2>1 DEF CollectError
<1>12. ASSUME NEW u \in Units, CollectUnprinted(u) PROVE LoopInv'
  <2>1. TypeOK' /\ TaskIsJob'
    BY <1>12 DEF CollectUnprinted, TypeOK, Phases, TaskStates, JobStates, TaskIsJob
  <2>2. DepsFirst' /\ GivenUpAtTeardown' /\ WaveBarrier' /\ EntriesSeen'
    BY <1>12, DepsAreUnits
       DEF CollectUnprinted, TypeOK, DepsFirst, GivenUpAtTeardown, WaveBarrier, EntriesSeen
  <2>3. PackagesBuilding' \subseteq PackagesBuilding
    BY <1>12 DEF CollectUnprinted, PackagesBuilding, TypeOK
  <2> QED
    BY <2>1, <2>2, <2>3, BuildingLimitKept
<1>13. ASSUME NEW u \in Units, JobReturns(u) \/ JobRaises(u) \/ JobCancelled(u) PROVE LoopInv'
  <2> USE <1>13 DEF JobReturns, JobRaises, JobCancelled
  <2>1. TypeOK' /\ TaskIsJob'
    BY DEF TypeOK, JobStates, TaskIsJob
  <2>2. DepsFirst' /\ GivenUpAtTeardown' /\ WaveBarrier' /\ EntriesSeen'
    BY DepsAreUnits DEF TypeOK, DepsFirst, GivenUpAtTeardown, WaveBarrier, EntriesSeen
  <2>3. PackagesBuilding' \subseteq PackagesBuilding
    BY DEF PackagesBuilding
  <2> QED
    BY <2>1, <2>2, <2>3, BuildingLimitKept
<1>14. CASE UNCHANGED loopVars
  <2>1. Quiet
    BY <1>14 DEF loopVars, TypeOK, GivenUpAtTeardown, WaveBarrier, EntriesSeen
  <2> QED
    BY <1>14, <1>a, <2>1 DEF loopVars
<1> QED
  BY <1>1, <1>2, <1>3, <1>4, <1>5, <1>6, <1>7, <1>8, <1>9, <1>10, <1>11, <1>12, <1>13, <1>14
     DEF LoopNext, LoopStep, JobStep, Stopped

\* The invariant holds in every state of the scheduler.
THEOREM LoopInvariant == LoopSpec => []LoopInv
<1>1. LoopInit => LoopInv
  BY LoopInvInit
<1>2. LoopInv /\ [LoopNext]_loopVars => LoopInv'
  BY LoopInvStep
<1> QED
  BY <1>1, <1>2, PTL DEF LoopSpec

\* The variables stay in their types.
THEOREM TypeCorrect == LoopSpec => []TypeOK
<1>1. LoopInv => TypeOK
  BY DEF LoopInv
<1> QED
  BY <1>1, LoopInvariant, PTL

\* No unit is handed to a builder before its dependencies have been built.
THEOREM DepsBeforeDependents == LoopSpec => []DepsFirst
<1>1. LoopInv => DepsFirst
  BY DEF LoopInv
<1> QED
  BY <1>1, LoopInvariant, PTL

\* The number of packages that are being built never exceeds --jobs.
THEOREM JobsWithinLimit == LoopSpec => []JobLimit
<1>1. LoopInv => JobLimit
  <2> SUFFICES ASSUME LoopInv PROVE JobLimit
    OBVIOUS
  <2> DEFINE Running == {u \in Packages : job[u] = "running"}
  <2>1. Running \subseteq PackagesBuilding
    BY GraphAssumption DEF LoopInv, TypeOK, TaskStates, TaskIsJob, PackagesBuilding, DagResult
  <2>2. Cardinality(Running) <= Cardinality(PackagesBuilding)
        /\ Cardinality(Running) \in Nat /\ Cardinality(PackagesBuilding) \in Nat
    <3> HIDE DEF Running
    <3> QED
      BY <2>1, PackagesBuildingFinite, FS_Subset, FS_CardinalityType
  <2> QED
    BY <2>2, MaxJobsType DEF LoopInv, BuildingLimit, JobLimit
<1> QED
  BY <1>1, LoopInvariant, PTL

\* A build that reports success has built every unit of its graph.
THEOREM SuccessIsComplete == LoopSpec => []SuccessMeansAllBuilt
<1>1. LoopInv => SuccessMeansAllBuilt
  BY DEF LoopInv, EntriesSeen, TaskIsJob, GivenUpAtTeardown, SuccessMeansAllBuilt, AllBuilt
<1> QED
  BY <1>1, LoopInvariant, PTL

-----------------------------------------------------------------------------
(* The refinement of the plan.                                             *)
BuildingNow == {u \in Units : tasks[u] = "Building"}
BuiltNow == {u \in Units : tasks[u] = "Finished"}

\* The packages the scheduler counts are those the plan counts.
LEMMA SameCount == BuildingNow \cap Packages = PackagesBuilding
BY GraphAssumption DEF DagResult, BuildingNow, PackagesBuilding

\* The instance of the plan counts with an instance of Cardinality.
LEMMA PlanCardinality == \A S : Plan!Cardinality(S) = Cardinality(S)
BY DEF Plan!Cardinality, Cardinality

\* A spawn of the scheduler is a start of the plan.
LEMMA SpawnIsStart ==
    ASSUME NEW u \in Units, LoopInv, SpawnNode(u)
    PROVE  Plan!Start(u)
<1> USE DEF BuildingNow, BuiltNow
<1>1. pc = "scan" /\ pc' = "scan"
  BY VisitFacts DEF SpawnNode, LoopInv
<1>2. u \notin BuildingNow \cup BuiltNow
  BY DEF SpawnNode
<1>3. Deps[u] \subseteq BuiltNow
  BY DepsAreUnits DEF SpawnNode, AllDepsBuilt
<1>4. u \in Packages => Cardinality(BuildingNow \cap Packages) < MaxJobs
  BY SameCount DEF SpawnNode, CanAddToTasks
<1>5. BuildingNow' = BuildingNow \cup {u} /\ BuiltNow' = BuiltNow
  BY DEF SpawnNode, LoopInv, TypeOK
<1> QED
  BY <1>1, <1>2, <1>3, <1>4, <1>5, PlanCardinality DEF Plan!Start

\* A task whose success is collected completes in the plan.
LEMMA CollectIsComplete ==
    ASSUME NEW u \in Units, LoopInv, Collect(u) \/ CollectUnprinted(u)
    PROVE  Plan!Complete(u)
<1> USE DEF BuildingNow, BuiltNow
<1>1. u \in BuildingNow
  BY DEF Collect, CollectUnprinted, LoopInv, TypeOK, TaskStates, TaskIsJob
<1>2. BuildingNow' = BuildingNow \ {u} /\ BuiltNow' = BuiltNow \cup {u}
  BY DEF Collect, CollectUnprinted, LoopInv, TypeOK
<1> QED
  BY <1>1, <1>2 DEF Collect, CollectUnprinted, Plan!Complete

\* Every step of the scheduler is a step of the plan, or none.
LEMMA StepRefinesPlan ==
    LoopInv /\ LoopInv' /\ [LoopNext]_loopVars => [Plan!PlanNext]_(Plan!planVars)
<1> SUFFICES ASSUME LoopInv, LoopInv', [LoopNext]_loopVars
             PROVE  [Plan!PlanNext]_(Plan!planVars)
  OBVIOUS
<1>a. ASSUME UNCHANGED tasks,
             (IF pc' \in {"ok", "err"} THEN pc' ELSE "running")
               = (IF pc \in {"ok", "err"} THEN pc ELSE "running")
      PROVE  UNCHANGED Plan!planVars
  BY <1>a DEF Plan!planVars
<1>1. CASE LoopExit
  <2>1. BuiltNow = Units
    BY <1>1 DEF LoopExit, LoopInv, EntriesSeen, BuiltNow
  <2>2. Plan!Succeed
    BY <1>1, <2>1 DEF LoopExit, Plan!Succeed, BuiltNow
  <2> QED
    BY <2>2 DEF Plan!PlanNext
<1>2. CASE RuntimeDropped
  BY <1>2 DEF RuntimeDropped, Plan!Abort, Plan!PlanNext
<1>3. CASE ScanStart \/ SentryTrips \/ ScanEnd \/ AwaitEnd
  BY <1>3, <1>a DEF ScanStart, SentryTrips, ScanEnd, AwaitEnd
<1>4. ASSUME NEW u \in Units, SkipNode(u) PROVE UNCHANGED Plan!planVars
  BY <1>4, <1>a DEF SkipNode, Visit
<1>5. ASSUME NEW u \in Units, SpawnNode(u) PROVE Plan!PlanNext
  BY <1>5, SpawnIsStart DEF Plan!PlanNext
<1>6. ASSUME NEW u \in Units, DeferNode(u) PROVE UNCHANGED Plan!planVars
  <2>1. BuildingNow' = BuildingNow /\ BuiltNow' = BuiltNow
    BY <1>6 DEF DeferNode, LoopInv, TypeOK, BuildingNow, BuiltNow
  <2> QED
    BY <1>6, <2>1 DEF DeferNode, Visit, Plan!planVars, BuildingNow, BuiltNow
<1>7. ASSUME NEW u \in Units, Collect(u) \/ CollectUnprinted(u) PROVE Plan!PlanNext
  BY <1>7, CollectIsComplete DEF Plan!PlanNext
<1>8. ASSUME NEW u \in Units, CollectError(u) PROVE UNCHANGED Plan!planVars
  BY <1>8, <1>a DEF CollectError
<1>9. ASSUME NEW u \in Units, JobReturns(u) \/ JobRaises(u) \/ JobCancelled(u)
      PROVE  UNCHANGED Plan!planVars
  BY <1>9, <1>a DEF JobReturns, JobRaises, JobCancelled
<1>10. CASE UNCHANGED loopVars
  BY <1>10, <1>a DEF loopVars
<1> QED
  BY <1>1, <1>2, <1>3, <1>4, <1>5, <1>6, <1>7, <1>8, <1>9, <1>10
     DEF LoopNext, LoopStep, JobStep, Stopped

\* The scheduler implements the plan: each unit is built once, after its
\* dependencies and within the limit, and the verdict is about all of them.
THEOREM SchedulerImplementsPlan == LoopSpec => ImplementsPlan
<1>1. LoopInit => Plan!PlanInit
  BY DEF LoopInit, Plan!PlanInit
<1>2. LoopInv /\ LoopInv' /\ [LoopNext]_loopVars => [Plan!PlanNext]_(Plan!planVars)
  BY StepRefinesPlan
<1> QED
  BY <1>1, <1>2, LoopInvariant, PTL DEF LoopSpec, ImplementsPlan, Plan!PlanSpec
=============================================================================
