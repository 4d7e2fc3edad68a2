------------------------------ MODULE BuildLoop ------------------------------
(***************************************************************************)
(* The scheduler of `miq build`: build::Args::_main (src/build.rs).        *)
(*                                                                         *)
(* One asynchronous main future repeats three phases until every entry of  *)
(* the map build_tasks is Finished: it tests the map ("test"), scans all   *)
(* the nodes of the dag and spawns a tokio task for each unit that is      *)
(* ready ("scan"), and awaits the spawned tasks ("await").  The spawned    *)
(* tasks run on other worker threads, so they end at any point of the      *)
(* scan.  What a task does to the store is the subject of BuildJob; here   *)
(* it just returns or raises.                                              *)
(***************************************************************************)
EXTENDS UnitGraph

CONSTANTS
    JobsArg,             \* the value of --jobs, or NoArg
    NoArg,               \* --jobs was not given
    NumCpus,             \* num_cpus::get()
    MaxBuildIterations   \* MAX_BUILD_ITERATIONS

ASSUME JobsAssumption ==
    /\ JobsArg \in Nat \cup {NoArg}
    /\ NumCpus \in Nat \ {0}
    /\ MaxBuildIterations \in Nat

VARIABLES
    pc,         \* the phase of _main; "teardown" after an error left _main
    node,       \* the position in Order of the next node of the scan
    sentry,     \* the number of nodes visited so far
    tasks,      \* build_tasks; "None" where the map has no entry
    job         \* the tokio task spawned for the unit

loopVars == <<pc, node, sentry, tasks, job>>

Phases == {"test", "scan", "await", "teardown", "ok", "err"}
TaskStates == {"None", "Waiting", "Building", "Finished"}
JobStates == {"unspawned", "running", "returned", "raised", "cancelled",
              "collected", "unprinted"}

TypeOK ==
    /\ pc \in Phases
    /\ node \in 1 .. Len(Order) + 1
    /\ sentry \in Nat
    /\ tasks \in [Units -> TaskStates]
    /\ job \in [Units -> JobStates]

MaxJobs == IF JobsArg = NoArg THEN NumCpus ELSE JobsArg

\* A mistake that the runs catch: no entry at all.
LoopInitEmpty ==
    /\ pc = "test"
    /\ node = 1
    /\ sentry = 0
    /\ tasks = [u \in Units |-> "None"]
    /\ job = [u \in Units |-> "unspawned"]

\* Only the root has an entry before the first scan.
LoopInit ==
    /\ pc = "test"
    /\ node = 1
    /\ sentry = 0
    /\ tasks = [u \in Units |-> IF u = Root THEN "Waiting" ELSE "None"]
    /\ job = [u \in Units |-> "unspawned"]
-----------------------------------------------------------------------------
(* The test of the outer while: it ranges over the entries of the map.     *)
MapAllFinished == \A u \in Units : tasks[u] \in {"None", "Finished"}

LoopExit ==
    /\ pc = "test"
    /\ MapAllFinished
    /\ pc' = "ok"
    /\ UNCHANGED <<node, sentry, tasks, job>>

ScanStart ==
    /\ pc = "test"
    /\ ~MapAllFinished
    /\ pc' = "scan"
    /\ node' = 1
    /\ UNCHANGED <<sentry, tasks, job>>

(* One iteration of the for loop over node_indices.                        *)
\* A mistake: a dependency that has been started will do.
AllDepsStarted(u) == \A d \in Deps[u] : tasks[d] \in {"Building", "Finished"}

AllDepsBuilt(u) == \A d \in Deps[u] : tasks[d] = "Finished"

PackagesBuilding == {u \in Packages : tasks[u] = "Building"}

\* A mistake: one package too many.
CanAddOneMore(u) == u \in Packages => Cardinality(PackagesBuilding) <= MaxJobs

CanAddToTasks(u) == u \in Packages => Cardinality(PackagesBuilding) < MaxJobs

\* A mistake: the sentry trips one visit too early.
SentryTripsEarly ==
    /\ pc = "scan" /\ node <= Len(Order)
    /\ sentry >= MaxBuildIterations
    /\ pc' = "teardown"
    /\ UNCHANGED <<node, sentry, tasks, job>>

SentryTrips ==
    /\ pc = "scan" /\ node <= Len(Order)
    /\ sentry > MaxBuildIterations
    /\ pc' = "teardown"
    /\ UNCHANGED <<node, sentry, tasks, job>>

\* A mistake: the visits are not counted.
VisitUncounted(u) ==
    /\ pc = "scan" /\ node <= Len(Order)
    /\ sentry <= MaxBuildIterations
    /\ u = Order[node]
    /\ node' = node + 1
    /\ UNCHANGED <<pc, sentry>>

Visit(u) ==
    /\ pc = "scan" /\ node <= Len(Order)
    /\ sentry <= MaxBuildIterations
    /\ u = Order[node]
    /\ sentry' = sentry + 1
    /\ node' = node + 1
    /\ UNCHANGED pc

SkipNode(u) ==
    /\ Visit(u)
    /\ tasks[u] \in {"Building", "Finished"}
    /\ UNCHANGED <<tasks, job>>

SpawnNode(u) ==
    /\ Visit(u)
    /\ tasks[u] \in {"None", "Waiting"}
    /\ AllDepsBuilt(u) /\ CanAddToTasks(u)
    /\ tasks' = [tasks EXCEPT ![u] = "Building"]
    /\ job' = [job EXCEPT ![u] = "running"]

DeferNode(u) ==
    /\ Visit(u)
    /\ tasks[u] \in {"None", "Waiting"}
    /\ ~(AllDepsBuilt(u) /\ CanAddToTasks(u))
    /\ tasks' = [tasks EXCEPT ![u] = "Waiting"]
    /\ UNCHANGED job

ScanEnd ==
    /\ pc = "scan" /\ node > Len(Order)
    /\ pc' = "await"
    /\ UNCHANGED <<node, sentry, tasks, job>>

(* The inner while: futs.try_next().await until FuturesUnordered is empty. *)
Futs == {u \in Units : job[u] \in {"running", "returned", "raised"}}

Collect(u) ==
    /\ pc = "await"
    /\ job[u] = "returned"
    /\ job' = [job EXCEPT ![u] = "collected"]
    /\ tasks' = [tasks EXCEPT ![u] = "Finished"]
    /\ UNCHANGED <<pc, node, sentry>>

\* The success is noted in the map, but the message cannot be printed.
CollectUnprinted(u) ==
    /\ pc = "await"
    /\ job[u] = "returned"
    /\ job' = [job EXCEPT ![u] = "unprinted"]
    /\ tasks' = [tasks EXCEPT ![u] = "Finished"]
    /\ pc' = "teardown"
    /\ UNCHANGED <<node, sentry>>

\* A mistake: the task of a unit that failed is started again.
CollectErrorRetried(u) ==
    /\ pc = "await"
    /\ job[u] = "raised"
    /\ job' = [job EXCEPT ![u] = "running"]
    /\ UNCHANGED <<pc, node, sentry, tasks>>

CollectError(u) ==
    /\ pc = "await"
    /\ job[u] = "raised"
    /\ pc' = "teardown"
    /\ UNCHANGED <<node, sentry, tasks, job>>

\* A mistake: the next scan starts while tasks of this wave are running.
AwaitEndEarly ==
    /\ pc = "await"
    /\ pc' = "test"
    /\ UNCHANGED <<node, sentry, tasks, job>>

AwaitEnd ==
    /\ pc = "await"
    /\ Futs = {}
    /\ pc' = "test"
    /\ UNCHANGED <<node, sentry, tasks, job>>

(* An error leaves _main; the Runtime that Args::main created is dropped:  *)
(* a task stops at its next await, and the drop waits for all of them.     *)
RuntimeDropped ==
    /\ pc = "teardown"
    /\ \A u \in Units : job[u] # "running"
    /\ pc' = "err"
    /\ UNCHANGED <<node, sentry, tasks, job>>

LoopStep ==
    \/ LoopExit \/ ScanStart \/ SentryTrips \/ ScanEnd \/ AwaitEnd \/ RuntimeDropped
    \/ \E u \in Units :
          \/ SkipNode(u) \/ SpawnNode(u) \/ DeferNode(u)
          \/ Collect(u) \/ CollectUnprinted(u) \/ CollectError(u)
-----------------------------------------------------------------------------
(* The spawned task: unit.build(rebuild, ..).await returned Ok, returned   *)
(* Err or panicked, or was dropped at an await by the runtime.             *)
JobReturns(u) ==
    /\ job[u] = "running"
    /\ job' = [job EXCEPT ![u] = "returned"]
    /\ UNCHANGED <<pc, node, sentry, tasks>>

JobRaises(u) ==
    /\ job[u] = "running"
    /\ job' = [job EXCEPT ![u] = "raised"]
    /\ UNCHANGED <<pc, node, sentry, tasks>>

JobCancelled(u) ==
    /\ pc = "teardown"
    /\ job[u] = "running"
    /\ job' = [job EXCEPT ![u] = "cancelled"]
    /\ UNCHANGED <<pc, node, sentry, tasks>>

JobStep == \E u \in Units : JobReturns(u) \/ JobRaises(u) \/ JobCancelled(u)

Stopped == pc \in {"ok", "err"} /\ UNCHANGED loopVars

LoopNext == LoopStep \/ JobStep \/ Stopped

LoopSpec == LoopInit /\ [][LoopNext]_loopVars

(* The runtime keeps polling the main future, and every builder ends: the  *)
(* first is tokio's, the second is assumed of build scripts and servers.   *)
LoopFairness ==
    /\ WF_loopVars(LoopStep)
    /\ \A u \in Units : WF_loopVars(JobReturns(u) \/ JobRaises(u) \/ JobCancelled(u))

FairLoopSpec == LoopSpec /\ LoopFairness
-----------------------------------------------------------------------------
(* Properties.                                                             *)

AllBuilt == \A u \in Units : job[u] = "collected"

\* A unit is handed to a builder only when the success of every one of its
\* dependencies has been collected: tasks are spawned while others still run,
\* from a map that only the main future updates (all_deps_built).
DepsFirst ==
    \A u \in Units : job[u] # "unspawned" => \A d \in Deps[u] : job[d] = "collected"

\* No more than --jobs packages are built at a time, however the builders end
\* while the scan that counts them goes on (number_packages_building).
JobLimit == Cardinality({u \in Packages : job[u] = "running"}) <= MaxJobs

\* _main returns Ok only when every unit of the dag has been built, although
\* its test looks only at the units that have an entry in build_tasks.
SuccessMeansAllBuilt == pc = "ok" => AllBuilt

\* _main returns an error only when a builder raised one or the console did:
\* with a sentry that allows as many visits as the square of the number of
\* units, the sentry never ends a healthy build.
NoSpuriousAbort ==
    pc \in {"teardown", "err"} => \E u \in Units : job[u] \in {"raised", "unprinted"}

\* The build ends, one way or the other, when every builder ends.
Termination == <>(pc \in {"ok", "err"})

(* What the documentation says.                                            *)

\* doc/_impl_builder.tex:210, 265: a unit is started as soon as its last
\* dependency is built, so the loop never goes on to wait for a further task
\* while it could start one.
CouldStart(u) == tasks[u] = "Waiting" /\ AllDepsBuilt(u) /\ CanAddToTasks(u)

StartedWhenReady ==
    [][\A u \in Units : Collect(u) => ~\E v \in Units : CouldStart(v)]_loopVars

(* The inductive invariant behind these: how the map and the tasks agree,  *)
(* that no task outlives its wave, and which units have an entry.          *)
TaskIsJob ==
    \A u \in Units :
        /\ tasks[u] \in {"None", "Waiting"} <=> job[u] = "unspawned"
        /\ tasks[u] = "Finished" <=> job[u] \in {"collected", "unprinted"}

GivenUpAtTeardown ==
    \A u \in Units : job[u] \in {"cancelled", "unprinted"} => pc \in {"teardown", "err"}

WaveBarrier ==
    /\ pc \in {"test", "ok"} => \A u \in Units : tasks[u] # "Building"
    /\ pc = "err" => \A u \in Units : job[u] # "running"

EntriesSeen ==
    /\ pc = "test" => tasks[Root] = "Waiting" \/ \A u \in Units : tasks[u] # "None"
    /\ pc = "scan" => \A i \in 1 .. node - 1 : tasks[Order[i]] # "None"
    /\ pc = "await" => \A u \in Units : tasks[u] # "None"
    /\ pc = "ok" => \A u \in Units : tasks[u] = "Finished"

BuildingLimit == Cardinality(PackagesBuilding) <= MaxJobs

LoopInv ==
    /\ TypeOK /\ TaskIsJob /\ DepsFirst /\ GivenUpAtTeardown
    /\ WaveBarrier /\ EntriesSeen /\ BuildingLimit

UnitsDone == {u \in Units : tasks[u] = "Finished"}
UnitsStarted == {u \in Units : tasks[u] \in {"Building", "Finished"}}

WaveStarts ==
    \/ \E u \in Units : tasks[u] = "Building"
    \/ \E i \in node .. Len(Order) :
          tasks[Order[i]] \in {"None", "Waiting"} /\ AllDepsBuilt(Order[i])

\* Every wave of an acyclic graph starts a unit, as long as --jobs is not 0,
\* so the visits so far are at most one scan for each unit that was started.
ProgressInv ==
    /\ pc \in {"test", "await"} => sentry <= Len(Order) * Cardinality(UnitsStarted)
    /\ pc = "scan" => WaveStarts /\ sentry <= Len(Order) * Cardinality(UnitsDone) + (node - 1)

(* What it takes that the sentry is never in the way: a sentry of 1000     *)
(* lets every graph of 31 units be built, and not every one of 32.         *)
RoomForAll == Len(Order) * Len(Order) <= MaxBuildIterations + 1

(* A bound on the steps that are left: four for each visit that the sentry *)
(* still allows, those up to the next visit, and three for each unit.      *)
JobsIn(S) == {u \in Units : job[u] \in S}

PhaseSteps ==
    IF pc = "scan" /\ node > Len(Order) THEN 5
    ELSE [await |-> 4, test |-> 3, scan |-> 2, teardown |-> 1, ok |-> 0, err |-> 0][pc]

JobSteps ==
    Cardinality(JobsIn({"unspawned"})) + Cardinality(JobsIn({"unspawned", "running"}))
        + Cardinality(JobsIn({"unspawned", "running", "returned", "raised"}))

StepsLeft == 4 * (MaxBuildIterations + 1 - sentry) + PhaseSteps + JobSteps

\* Whatever the jobs, the graph and the scheduling: each step of the scheduler
\* or of a task uses up one of a number of steps that the sentry bounds.
StepsRunOut == [][StepsLeft' \in Nat /\ StepsLeft' < StepsLeft]_loopVars

(* The scheduler implements the plan.                                      *)
Plan == INSTANCE BuildPlan WITH
    building <- {u \in Units : tasks[u] = "Building"},
    built    <- {u \in Units : tasks[u] = "Finished"},
    outcome  <- IF pc \in {"ok", "err"} THEN pc ELSE "running"

\* Every step of the scheduler is a step of the plan or changes nothing of it:
\* each unit is started once and after its dependencies, within the limit, and
\* the result of the command is about all of the graph.
ImplementsPlan == Plan!PlanSpec
=============================================================================
