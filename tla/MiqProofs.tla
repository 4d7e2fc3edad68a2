------------------------------ MODULE MiqProofs ------------------------------
(***************************************************************************)
(* The store can be trusted: for every graph, limit, set of commands and   *)
(* set of faults, whatever is not right about a registered path is about   *)
(* a unit that is suspect; a script sees all of its dependencies, success  *)
(* means that the unit and all it depends on are there, and a build of all *)
(* packages clears every suspicion about them.  Where removals complete    *)
(* (RemovalsComplete), no unit is ever suspect.                            *)
(***************************************************************************)
EXTENDS Miq, BuildLoopProofs

\* The invariant of the scheduler and that of the store, together.
MiqInv == LoopInv /\ StoreInv

\* A step of a task is, for the scheduler, the end of its job or nothing.
LEMMA TaskIsJobStep ==
    ASSUME NEW u \in Units, TaskStep(u)
    PROVE  JobStep \/ UNCHANGED loopVars
<1> USE DEF Goes, Returns, Raises, JobStep
<1>1. CASE QueryHit(u) \/ Register(u)
  BY <1>1 DEF QueryHit, Register
<1>2. CASE QueryFails(u) \/ RemoveRaises(u) \/ CleanRaises(u) \/ LaunchFails(u) \/ CheckFails(u)
           \/ RegisterFails(u) \/ BuilderFails(u)
  BY <1>2 DEF QueryFails, RemoveRaises, CleanRaises, LaunchFails, CheckFails, RegisterFails, BuilderFails
<1>3. CASE Cancel(u)
  BY <1>3 DEF Cancel
<1>4. CASE QueryRebuild(u) \/ QueryMiss(u) \/ RemoveStart(u) \/ RemoveGoes(u) \/ RemoveEnds(u)
           \/ Clean(u) \/ Launch(u) \/ ScriptWrites(u) \/ ScriptExits(u) \/ DownloadEnds(u)
           \/ CheckPath(u)
  BY <1>4 DEF QueryRebuild, QueryMiss, RemoveStart, RemoveGoes, RemoveEnds, Clean, Launch,
              ScriptWrites, ScriptExits, DownloadEnds, CheckPath
<1> QED
  BY <1>1, <1>2, <1>3, <1>4 DEF TaskStep

\* A process that is gone leaves the scheduler as it is before a build.
LEMMA FreshLoop == LoopInit' => LoopInv'
BY LoopInvInit, PTL

\* The scheduler's invariant holds through every command and every fault.
LEMMA LoopInvKept ==
    ASSUME LoopInv, [MiqNext]_vars
    PROVE  LoopInv'
<1>1. CASE UNCHANGED loopVars
  BY <1>1, LoopInvStep
<1>2. CASE BuildLoopStep
  BY <1>2, LoopInvStep DEF BuildLoopStep, Schedule, LoopNext
<1>3. ASSUME NEW u \in Units, BuildStep(u) PROVE LoopInv'
  BY <1>3, TaskIsJobStep, LoopInvStep DEF BuildStep, LoopNext
<1>4. CASE ProcessGone
  BY <1>4, FreshLoop DEF ProcessGone, LoopInit
<1>5. ASSUME NEW u \in Units,
             CliRemove(u) \/ CliRemoved(u) \/ CliRemoveFails(u) \/ CliAdd(u)
               \/ OrphanWrites(u) \/ OrphanEnds(u)
      PROVE  UNCHANGED loopVars
  BY <1>5 DEF CliRemove, CliRemoved, CliRemoveFails, CliAdd, OrphanWrites, OrphanEnds
<1>6. CASE StartBuild \/ StartRemove \/ StartRemovePackages \/ StartAdd
  BY <1>1, <1>6 DEF StartBuild, StartRemove, StartRemovePackages, StartAdd
<1>7. CASE Exit \/ Interrupted \/ Killed
  BY <1>4, <1>7 DEF Exit, Interrupted, Killed
<1>8. CASE UNCHANGED vars
  BY <1>1, <1>8 DEF vars
<1> QED
  BY <1>1, <1>2, <1>3, <1>5, <1>6, <1>7, <1>8 DEF MiqNext

\* The types of the store and of the tasks, in the form the steps need.
LEMMA StoreTypes ==
    StoreInv => /\ job \in [Units -> JobStates] /\ stage \in [Units -> Stages]
                /\ content \in [Units -> Contents] /\ row \subseteq Units
                /\ removing \in Units \cup {NoUnit} /\ cleared \in BOOLEAN
                /\ orphans \subseteq Packages /\ suspect \subseteq Units
                /\ args \in [rebuild : BOOLEAN, rebuild_all : BOOLEAN]
BY DEF StoreInv, MiqTypeOK, TypeOK, StoreTypeOK, JobTypeOK

\* A unit is suspect for a cause only.
LEMMA WatchHasCause ==
    ASSUME Watch, orphans' \subseteq Packages
    PROVE  suspect' \subseteq Units /\ \A u \in Units : SuspectForCause(u)'
BY GraphAssumption DEF DagResult, Watch, Emptied, SuspectForCause

\* A unit that a step leaves alone is suspect after it if it was before.
LEMMA WatchElsewhere ==
    ASSUME StoreInv, Watch, NEW u \in Units,
           content'[u] = content[u], u \in row' <=> u \in row,
           removing = u => removing' = u, u \in orphans' <=> u \in orphans
    PROVE  u \in suspect' <=> u \in suspect
<1>1. SuspectForCause(u)
  BY DEF StoreInv, UnitInv
<1>2. ~Spoiled(u)
  BY DEF Spoiled
<1>3. u \in suspect' <=> u \in orphans' \/ (u \in suspect /\ ~Emptied(u))
  BY <1>2 DEF Watch
<1> QED
  BY <1>1, <1>3 DEF SuspectForCause, Emptied

\* What a task leaves alone: the path, the row, the job, the stage and the
\* removal of every other unit, and whether it is suspect.
Apart(u) ==
    /\ \A v \in Units : v # u =>
          /\ stage'[v] = stage[v] /\ job'[v] = job[v] /\ content'[v] = content[v]
          /\ v \in row' <=> v \in row
          /\ removing' = v <=> removing = v
          /\ v \in orphans' <=> v \in orphans
    /\ UNCHANGED <<proc, todo, args>>

\* What a task makes of its own unit.
Own(u) ==
    /\ stage[u] # "idle"
    /\ stage' \in [Units -> Stages] /\ content' \in [Units -> Contents]
    /\ row' \subseteq Units /\ removing' \in Units \cup {NoUnit} /\ cleared' \in BOOLEAN
    /\ orphans' \subseteq Packages
    /\ cleared' => removing' # NoUnit
    /\ UnitInv(u)'

\* No part of a unit's invariant is about other units.
LEMMA UnitInvElsewhere ==
    ASSUME NEW v \in Units, UnitInv(v), v \in suspect' <=> v \in suspect,
           stage'[v] = stage[v], job'[v] = job[v], content'[v] = content[v],
           v \in row' <=> v \in row, removing' = v <=> removing = v,
           v \in orphans' <=> v \in orphans, UNCHANGED <<proc, todo, args>>
    PROVE  UnitInv(v)'
<1>1. Rebuild(v)' = Rebuild(v)
  BY DEF Rebuild
<1> QED
  BY <1>1
     DEF UnitInv, TaskHasStage, BuiltUnregistered, BuilderOwnsPath, RemovalOwnsMutex, RowIsWhole,
         DoneIsAvailable, Done, Available, SuspectForCause, Cleaned, CleanedIsTrusted

LEMMA TaskStepEffect ==
    ASSUME StoreInv, NEW u \in Units, BuildStep(u)
    PROVE  Apart(u) /\ Own(u)
<1>t. /\ job \in [Units -> JobStates] /\ stage \in [Units -> Stages]
      /\ content \in [Units -> Contents] /\ row \subseteq Units
      /\ removing \in Units \cup {NoUnit} /\ cleared \in BOOLEAN
      /\ orphans \subseteq Packages /\ (cleared => removing # NoUnit)
  BY StoreTypes DEF StoreInv, MutexFree
<1>i. UnitInv(u)
  BY DEF StoreInv
<1>b. UNCHANGED <<proc, todo>> /\ TaskStep(u) /\ proc = "build" /\ Watch
  BY DEF BuildStep
<1>w. u \in suspect' <=> u \in orphans' \/ ((u \in suspect \/ Spoiled(u)) /\ ~Emptied(u))
  BY <1>b DEF Watch
<1>r. ASSUME UNCHANGED args PROVE Rebuild(u)' = Rebuild(u)
  BY <1>r DEF Rebuild
<1> USE <1>t, <1>i, <1>b, <1>w, <1>r, NoUnitAssumption, GraphAssumption
    DEF DagResult, Apart, Own, UnitInv, TaskHasStage, BuiltUnregistered, BuilderOwnsPath, RemovalOwnsMutex,
        RowIsWhole, DoneIsAvailable, Done, Available, SuspectForCause, Cleaned, CleanedIsTrusted,
        Spoiled, Emptied, MutexFree, IsDbPath, Stages, Contents, JobStates,
        storeVars, loopVars, jobVars
<1>1. CASE QueryHit(u)
  BY <1>1 DEF QueryHit, Returns, JobReturns
<1>2. CASE QueryRebuild(u)
  BY <1>2 DEF QueryRebuild, Goes
<1>3. CASE QueryMiss(u)
  BY <1>3 DEF QueryMiss, Goes
<1>4. CASE QueryFails(u)
  BY <1>4 DEF QueryFails, Raises, JobRaises
<1>5. CASE RemoveStart(u)
  BY <1>5 DEF RemoveStart, RemoveBegin, Goes
<1>6. CASE RemoveGoes(u)
  <2>1. CASE RemovePart(u)
    BY <1>6, <2>1 DEF RemoveGoes, RemovePart, Goes
  <2>2. CASE RemoveFiles(u)
    BY <1>6, <2>2 DEF RemoveGoes, RemoveFiles, CleanPath, Goes
  <2> QED
    BY <1>6, <2>1, <2>2 DEF RemoveGoes
<1>7. CASE RemoveEnds(u)
  BY <1>7 DEF RemoveEnds, RemoveRow, Goes
<1>8. CASE RemoveRaises(u)
  BY <1>8 DEF RemoveRaises, RemoveFails, Raises, JobRaises
<1>9. CASE Clean(u)
  BY <1>9 DEF Clean, CleanPath, Goes
<1>10. CASE CleanRaises(u)
  <2>1. CASE UNCHANGED content
    BY <1>10, <2>1 DEF CleanRaises, Raises, JobRaises
  <2>2. CASE content' = [content EXCEPT ![u] = "junk"]
    BY <1>10, <2>2 DEF CleanRaises, Raises, JobRaises
  <2> QED
    BY <1>10, <2>1, <2>2 DEF CleanRaises, CleanPathFails
<1>11. CASE Launch(u)
  BY <1>11 DEF Launch, Goes, FetchUnits
<1>12. CASE LaunchFails(u)
  <2>1. stage[u] = "launch" /\ JobRaises(u) /\ stage' = [stage EXCEPT ![u] = "idle"]
        /\ UNCHANGED <<args, orphans>>
    BY <1>12 DEF LaunchFails, Raises
  <2> QED
    BY <1>12, <2>1 DEF LaunchFails, JobRaises
<1>13. CASE ScriptWrites(u)
  BY <1>13 DEF ScriptWrites, FetchUnits
<1>14. CASE ScriptExits(u)
  BY <1>14 DEF ScriptExits, Completed, Strays, BuildersStay
<1>15. CASE DownloadEnds(u)
  BY <1>15 DEF DownloadEnds, Completed, Goes, FetchUnits
<1>16. CASE BuilderFails(u)
  BY <1>16 DEF BuilderFails, Abandoned, Strays, JobRaises, BuildersStay
<1>17. CASE CheckPath(u)
  BY <1>17 DEF CheckPath, Goes
<1>18. CASE CheckFails(u)
  BY <1>18 DEF CheckFails, Raises, JobRaises
<1>19. CASE Register(u)
  BY <1>19 DEF Register, Add, Returns, JobReturns
<1>20. CASE RegisterFails(u)
  BY <1>20 DEF RegisterFails, Raises, JobRaises
<1>21. CASE Cancel(u)
  <2>1. CASE stage[u] = "running"
    <3>1. /\ job' = [job EXCEPT ![u] = "cancelled"] /\ stage' = [stage EXCEPT ![u] = "idle"]
          /\ content' = [content EXCEPT ![u] = IF @ = "fresh" THEN "junk" ELSE @]
          /\ \/ UNCHANGED orphans
             \/ ~BuildersStay /\ u \in Packages /\ orphans' = orphans \cup {u}
          /\ UNCHANGED <<row, removing, cleared, args>>
      BY ONLY <1>21, <2>1 DEF Cancel, Abandoned, Strays, JobCancelled, BuildersStay
    <3> QED
      BY <2>1, <3>1
  <2>2. CASE stage[u] # "running"
    <3>1. /\ job' = [job EXCEPT ![u] = "cancelled"] /\ stage' = [stage EXCEPT ![u] = "idle"]
          /\ stage[u] \in {"query", "launch", "check"}
          /\ UNCHANGED <<content, orphans, row, removing, cleared, args>>
      BY ONLY <1>21, <2>2 DEF Cancel, Awaits, JobCancelled
    <3> QED
      BY <2>2, <3>1
  <2> QED
    BY <2>1, <2>2
<1> QED
  BY ONLY <1>b, <1>1, <1>2, <1>3, <1>4, <1>5, <1>6, <1>7, <1>8, <1>9, <1>10, <1>11, <1>12, <1>13, <1>14, <1>15, <1>16, <1>17, <1>18, <1>19, <1>20, <1>21 DEF TaskStep

\* No step of a task breaks the invariant of the store.
LEMMA StoreInvTask ==
    ASSUME MiqInv, NEW u \in Units, BuildStep(u), LoopInv'
    PROVE  StoreInv'
<1>1. Apart(u) /\ Own(u)
  BY TaskStepEffect DEF MiqInv
<1>2. proc = "build" /\ proc' = "build" /\ Watch
  BY <1>1 DEF Apart, BuildStep
<1>3. ASSUME NEW v \in Units PROVE UnitInv(v)'
  <2>1. CASE v = u
    BY <1>1, <2>1 DEF Own
  <2>2. CASE v # u
    <3>1. UnitInv(v)
      BY DEF MiqInv, StoreInv
    <3>2. /\ stage'[v] = stage[v] /\ job'[v] = job[v] /\ content'[v] = content[v]
          /\ v \in row' <=> v \in row
          /\ removing' = v <=> removing = v
          /\ v \in orphans' <=> v \in orphans
          /\ UNCHANGED <<proc, todo, args>>
      BY <1>1, <2>2 DEF Apart
    <3>3. v \in suspect' <=> v \in suspect
      BY <1>2, <3>2, WatchElsewhere DEF MiqInv
    <3> QED
      BY <3>1, <3>2, <3>3, UnitInvElsewhere
  <2> QED
    BY <2>1, <2>2
<1>4. MiqTypeOK'
  <2>1. TypeOK'
    BY DEF LoopInv
  <2>2. StoreTypeOK'
    BY <1>1 DEF Own, StoreTypeOK
  <2>3. JobTypeOK'
    BY <1>1 DEF Own, Apart, JobTypeOK, MiqInv, StoreInv, MiqTypeOK
  <2>4. suspect' \subseteq Units
    BY <1>1, <1>2, WatchHasCause DEF Own
  <2> QED
    BY <1>1, <2>1, <2>2, <2>3, <2>4 DEF Apart, MiqInv, StoreInv, MiqTypeOK
<1> QED
  BY <1>1, <1>2, <1>3, <1>4 DEF StoreInv, Own, MutexFree

\* What a step of the scheduler makes of a job: it starts one, or takes note
\* of the end of one.
LEMMA LoopStepJobs ==
    ASSUME LoopInv, LoopStep, NEW u \in Units
    PROVE  /\ job[u] = "running" => job'[u] = "running"
           /\ job'[u] = "running" => job[u] \in {"running", "unspawned"}
           /\ job'[u] \in {"returned", "collected", "unprinted"}
                => job[u] \in {"returned", "collected", "unprinted"}
<1> USE DEF LoopInv, TypeOK
<1>1. CASE LoopExit \/ ScanStart \/ SentryTrips \/ ScanEnd \/ AwaitEnd \/ RuntimeDropped
  BY <1>1 DEF LoopExit, ScanStart, SentryTrips, ScanEnd, AwaitEnd, RuntimeDropped
<1>2. ASSUME NEW v \in Units, SkipNode(v) \/ DeferNode(v) \/ CollectError(v) PROVE job' = job
  BY <1>2 DEF SkipNode, DeferNode, CollectError
<1>3. ASSUME NEW v \in Units, SpawnNode(v)
      PROVE  job' = [job EXCEPT ![v] = "running"] /\ job[v] = "unspawned"
  BY <1>3 DEF SpawnNode, TaskIsJob
<1>4. ASSUME NEW v \in Units, Collect(v) \/ CollectUnprinted(v)
      PROVE  /\ job[v] = "returned"
             /\ \/ job' = [job EXCEPT ![v] = "collected"]
                \/ job' = [job EXCEPT ![v] = "unprinted"]
  BY <1>4 DEF Collect, CollectUnprinted
<1> QED
  BY <1>1, <1>2, <1>3, <1>4 DEF LoopStep

\* A step of the scheduler does not touch the store, and starts tasks only.
LEMMA StoreInvSchedule ==
    ASSUME MiqInv, BuildLoopStep, LoopInv'
    PROVE  StoreInv'
<1>1. /\ proc = "build" /\ LoopStep /\ Watch
      /\ UNCHANGED <<storeVars, args, orphans, proc, todo>>
  BY DEF BuildLoopStep, Schedule
<1>2. stage' = [u \in Units |->
                   IF job[u] # "running" /\ job'[u] = "running" THEN "query" ELSE stage[u]]
  BY DEF BuildLoopStep, Schedule
<1>3. stage \in [Units -> Stages] /\ orphans \subseteq Packages
  BY StoreTypes DEF MiqInv
<1>4. MiqTypeOK'
  <2>1. stage' \in [Units -> Stages]
    BY <1>2, <1>3 DEF Stages
  <2>2. suspect' \subseteq Units
    BY <1>1, <1>3, WatchHasCause
  <2> QED
    BY <1>1, <2>1, <2>2
       DEF MiqInv, StoreInv, MiqTypeOK, LoopInv, StoreTypeOK, JobTypeOK, storeVars
<1>5. ASSUME NEW u \in Units PROVE UnitInv(u)'
  <2>1. UnitInv(u)
    BY DEF MiqInv, StoreInv
  <2>2. /\ job[u] = "running" => job'[u] = "running"
        /\ job'[u] = "running" => job[u] \in {"running", "unspawned"}
        /\ job'[u] \in {"returned", "collected", "unprinted"}
                => job[u] \in {"returned", "collected", "unprinted"}
    BY <1>1, LoopStepJobs DEF MiqInv
  <2>3. \/ stage'[u] = stage[u] /\ (job'[u] = "running" <=> job[u] = "running")
        \/ stage'[u] = "query" /\ stage[u] = "idle" /\ job'[u] = "running"
    BY <1>2, <2>1, <2>2 DEF UnitInv, TaskHasStage
  <2>4. u \in suspect' <=> u \in suspect
    BY <1>1, WatchElsewhere DEF MiqInv, storeVars
  <2>5. Rebuild(u)' = Rebuild(u)
    BY <1>1 DEF Rebuild
  <2> QED
    BY <1>1, <2>1, <2>2, <2>3, <2>4, <2>5
       DEF UnitInv, TaskHasStage, BuiltUnregistered, BuilderOwnsPath, RemovalOwnsMutex, RowIsWhole,
           DoneIsAvailable, Done, Available, SuspectForCause, Cleaned, CleanedIsTrusted, storeVars
<1> QED
  BY <1>1, <1>4, <1>5 DEF MiqInv, StoreInv, MutexFree, storeVars

\* Without a build there are no tasks, and a unit's part of the invariant is
\* about its path, its row and the removal under way only.
LEMMA NoTasks ==
    ASSUME StoreInv, proc # "build", NEW u \in Units
    PROVE  stage[u] = "idle" /\ job[u] = "unspawned"
BY DEF StoreInv, UnitInv, TaskHasStage

LEMMA IdleUnit ==
    ASSUME NEW u \in Units, stage'[u] = "idle", job'[u] = "unspawned",
           removing' = u => proc' = "rm" /\ u \in todo',
           RowIsWhole(u)', SuspectForCause(u)', BuildersStay => u \notin orphans'
    PROVE  UnitInv(u)'
BY DEF UnitInv, TaskHasStage, BuiltUnregistered, BuilderOwnsPath, RemovalOwnsMutex, Done,
       DoneIsAvailable, Cleaned, CleanedIsTrusted

\* `store rm` and `store add` keep the invariant: the files go while the mutex
\* is held, and what is left behind is suspect.
LEMMA StoreInvCli ==
    ASSUME MiqInv, LoopInv', NEW u \in Units,
           CliRemove(u) \/ CliRemoved(u) \/ CliRemoveFails(u) \/ CliAdd(u)
    PROVE  StoreInv'
<1>1. /\ proc \in {"rm", "add"} /\ proc' = proc /\ todo' \subseteq todo
      /\ UNCHANGED <<loopVars, jobVars>> /\ Watch
  BY DEF CliRemove, CliRemoved, CliRemoveFails, CliAdd
<1>2. \A v \in Units : stage[v] = "idle" /\ job[v] = "unspawned"
  BY <1>1, NoTasks DEF MiqInv
<1>3. \A v \in Units : removing = v => proc = "rm" /\ v \in todo
  BY <1>2 DEF MiqInv, StoreInv, UnitInv, RemovalOwnsMutex
<1>4. /\ \A v \in Units : v # u => content'[v] = content[v] /\ (v \in row' <=> v \in row)
      /\ \A v \in Units : v # u => removing # v /\ removing' # v
      /\ content' \in [Units -> Contents] /\ row' \subseteq Units /\ cleared' \in BOOLEAN
      /\ removing' \in {u, NoUnit} /\ (cleared' => removing' # NoUnit)
      /\ removing' = u => proc = "rm" /\ u \in todo'
      /\ u \in row' => content'[u] = "whole" \/ removing' = u \/ u \in suspect \/ Spoiled(u)
  <2>1. RowIsWhole(u) /\ (cleared => removing # NoUnit)
    BY DEF MiqInv, StoreInv, UnitInv, MutexFree
  <2> USE <1>1, <1>3, <2>1, NoUnitAssumption, StoreTypes
          DEF MiqInv, RowIsWhole, MutexFree, Contents, Spoiled
  <2>2. CASE CliRemove(u)
    BY <2>2 DEF CliRemove, RemoveBegin, RemovePart, RemoveFiles, CleanPath
  <2>3. CASE CliRemoved(u)
    BY <2>3 DEF CliRemoved, RemoveRow
  <2>4. CASE CliRemoveFails(u)
    BY <2>4 DEF CliRemoveFails, RemoveFails
  <2>5. CASE CliAdd(u)
    BY <2>5 DEF CliAdd, Add
  <2> QED
    BY <2>2, <2>3, <2>4, <2>5
<1>5. orphans' = orphans /\ orphans \subseteq Packages
  BY <1>1, StoreTypes DEF jobVars, MiqInv
<1>6. MiqTypeOK'
  BY <1>1, <1>4, <1>5, WatchHasCause, NoUnitAssumption
     DEF MiqInv, StoreInv, MiqTypeOK, LoopInv, StoreTypeOK, JobTypeOK, jobVars
<1>7. ASSUME NEW v \in Units PROVE UnitInv(v)'
  <2>1. UnitInv(v)
    BY DEF MiqInv, StoreInv
  <2>2. stage'[v] = "idle" /\ job'[v] = "unspawned" /\ SuspectForCause(v)'
    BY <1>1, <1>2, <1>5, WatchHasCause DEF loopVars, jobVars
  <2>3. RowIsWhole(v)'
    <3>1. CASE v = u
      BY <1>1, <1>4, <3>1 DEF RowIsWhole, Watch, Emptied
    <3>2. CASE v # u
      BY <1>1, <1>4, <1>5, <2>1, <3>2, WatchElsewhere DEF RowIsWhole, UnitInv, MiqInv
    <3> QED
      BY <3>1, <3>2
  <2>4. removing' = v => proc' = "rm" /\ v \in todo'
    BY <1>1, <1>4
  <2>5. BuildersStay => v \notin orphans'
    BY <1>5, <2>1 DEF UnitInv, CleanedIsTrusted
  <2> QED
    BY <2>2, <2>3, <2>4, <2>5, IdleUnit
<1> QED
  BY <1>1, <1>2, <1>4, <1>6, <1>7 DEF StoreInv, MutexFree, loopVars, jobVars

\* A command that starts finds a store that no one works on.
LEMMA StoreInvStart ==
    ASSUME MiqInv, LoopInv', StartBuild \/ StartRemove \/ StartRemovePackages \/ StartAdd
    PROVE  StoreInv'
<1>1. /\ proc = "none" /\ proc' \in {"build", "rm", "rm --all-packages", "add"}
      /\ todo' \subseteq Units /\ args' \in [rebuild : BOOLEAN, rebuild_all : BOOLEAN]
      /\ UNCHANGED <<loopVars, storeVars, stage, orphans>> /\ Watch
  BY CommandsAssumption
     DEF StartBuild, StartRemove, StartRemovePackages, StartAdd, jobVars,
         MiqInv, StoreInv, MiqTypeOK, JobTypeOK, StoreTypeOK
<1>2. \A v \in Units : stage[v] = "idle" /\ job[v] = "unspawned" /\ removing # v
  BY <1>1, NoTasks DEF MiqInv, StoreInv, UnitInv, RemovalOwnsMutex
<1>3. MiqTypeOK'
  <2>1. suspect' \subseteq Units
    BY <1>1, StoreTypes, WatchHasCause DEF MiqInv
  <2> QED
    BY <1>1, <2>1 DEF MiqInv, StoreInv, MiqTypeOK, LoopInv, StoreTypeOK, JobTypeOK, storeVars
<1>4. ASSUME NEW v \in Units PROVE UnitInv(v)'
  <2>1. UnitInv(v)
    BY DEF MiqInv, StoreInv
  <2>2. v \in suspect' <=> v \in suspect
    BY <1>1, WatchElsewhere DEF MiqInv, storeVars
  <2>3. RowIsWhole(v)' /\ SuspectForCause(v)' /\ (BuildersStay => v \notin orphans')
    BY <1>1, <2>1, <2>2 DEF UnitInv, RowIsWhole, SuspectForCause, CleanedIsTrusted, storeVars
  <2> QED
    BY <1>1, <1>2, <2>3, IdleUnit DEF loopVars, storeVars
<1> QED
  BY <1>1, <1>2, <1>3, <1>4 DEF MiqInv, StoreInv, MutexFree, loopVars, storeVars

\* A process comes to its end only when no removal is under way.
LEMMA NoRemovalAtTheEnd ==
    ASSUME MiqInv, Exit
    PROVE  \A u \in Units : removing # u
<1> SUFFICES ASSUME NEW u \in Units, removing = u PROVE FALSE
  OBVIOUS
<1>1. /\ TaskHasStage(u)
      /\ stage[u] = "unregister" \/ (proc = "rm" /\ u \in todo)
  BY DEF MiqInv, StoreInv, UnitInv, RemovalOwnsMutex
<1>2. CASE proc = "build" /\ pc \in {"ok", "err"}
  <2>1. job[u] = "running"
    BY <1>1, <1>2 DEF TaskHasStage
  <2>2. tasks[u] = "Building" /\ pc # "err"
    BY <2>1 DEF MiqInv, LoopInv, TypeOK, TaskStates, TaskIsJob, WaveBarrier
  <2> QED
    BY <1>2, <2>2 DEF MiqInv, LoopInv, WaveBarrier
<1>3. CASE proc # "build" /\ todo = {}
  BY <1>1, <1>3 DEF TaskHasStage
<1> QED
  BY <1>2, <1>3 DEF Exit

\* A process that ends, or dies, leaves no task and no mutex to the next, and
\* no row in doubt that is not suspect.
LEMMA StoreInvEnd ==
    ASSUME MiqInv, LoopInv', Exit \/ Interrupted \/ Killed
    PROVE  StoreInv'
<1>1. ProcessGone /\ row' = row /\ Watch
  BY DEF Exit, Interrupted, Killed, StoreSettled, storeVars
<1>2. /\ content' \in [Units -> Contents] /\ cleared' \in BOOLEAN
      /\ removing' \in Units \cup {NoUnit} /\ \A u \in Units : removing' # u
      /\ \A u \in Units : content[u] = "whole" => content'[u] = "whole"
      /\ cleared' => removing' # NoUnit
  <2>1. CASE Exit
    BY <2>1, NoRemovalAtTheEnd, StoreTypes DEF Exit, storeVars, MiqInv, StoreInv, MutexFree
  <2>2. CASE StoreSettled
    BY <2>2, StoreTypes, NoUnitAssumption DEF StoreSettled, MiqInv, Contents
  <2> QED
    BY <2>1, <2>2 DEF Interrupted, Killed
<1>3. orphans' \subseteq Packages /\ (BuildersStay => \A u \in Units : u \notin orphans')
  <2>1. orphans \subseteq Packages /\ (BuildersStay => \A u \in Units : u \notin orphans)
    BY StoreTypes DEF MiqInv, StoreInv, UnitInv, CleanedIsTrusted
  <2>2. orphans' = orphans \/ ("kill" \in Faults /\ orphans' \subseteq orphans \cup Packages)
    BY DEF Exit, Interrupted, Killed
  <2> QED
    BY <2>1, <2>2 DEF BuildersStay
<1>4. MiqTypeOK'
  <2>1. suspect' \subseteq Units
    BY <1>1, <1>3, WatchHasCause
  <2>2. stage' \in [Units -> Stages]
    BY <1>1 DEF ProcessGone, Stages
  <2> QED
    BY <1>1, <1>2, <1>3, <2>1, <2>2
       DEF ProcessGone, MiqInv, StoreInv, MiqTypeOK, LoopInv, StoreTypeOK, JobTypeOK
<1>5. ASSUME NEW u \in Units PROVE UnitInv(u)'
  <2>1. u \in row \ suspect => removing = u \/ content[u] = "whole"
    BY DEF MiqInv, StoreInv, UnitInv, RowIsWhole
  <2>2. RowIsWhole(u)'
    <3> SUFFICES ASSUME u \in row, u \notin suspect' PROVE content'[u] = "whole"
      BY <1>1 DEF RowIsWhole
    <3>1. u \notin suspect /\ ~Spoiled(u)
      BY <1>1 DEF Watch, Emptied
    <3> QED
      BY <1>1, <1>2, <2>1, <3>1 DEF Spoiled
  <2>3. SuspectForCause(u)' /\ (BuildersStay => u \notin orphans')
    BY <1>1, <1>3, WatchHasCause
  <2> QED
    BY <1>1, <1>2, <2>2, <2>3, IdleUnit DEF ProcessGone
<1> QED
  BY <1>1, <1>2, <1>4, <1>5 DEF StoreInv, ProcessGone, MutexFree

\* What a lost builder does concerns a unit that is suspect.
LEMMA StoreInvOrphan ==
    ASSUME MiqInv, LoopInv', NEW u \in Units, OrphanWrites(u) \/ OrphanEnds(u)
    PROVE  StoreInv'
<1>1. /\ u \in orphans /\ Watch /\ UNCHANGED <<row, removing, cleared, loopVars, args, stage, proc, todo>>
      /\ content' \in [Units -> Contents] /\ orphans' \subseteq Packages
      /\ \A v \in Units : v # u => content'[v] = content[v] /\ (v \in orphans' <=> v \in orphans)
      /\ \/ content'[u] = content[u] /\ u \notin orphans'
         \/ content'[u] = "junk" /\ u \in orphans'
  BY StoreTypes DEF OrphanWrites, OrphanEnds, storeVars, jobVars, MiqInv, Contents
<1>2. u \in suspect /\ u \in Packages /\ ~BuildersStay
  BY <1>1, StoreTypes
     DEF MiqInv, StoreInv, UnitInv, SuspectForCause, CleanedIsTrusted
<1>3. MiqTypeOK'
  BY <1>1, WatchHasCause
     DEF MiqInv, StoreInv, MiqTypeOK, LoopInv, StoreTypeOK, JobTypeOK
<1>4. ASSUME NEW v \in Units, v # u PROVE UnitInv(v)'
  <2>1. UnitInv(v)
    BY DEF MiqInv, StoreInv
  <2>2. v \in suspect' <=> v \in suspect
    BY <1>1, <1>4, WatchElsewhere DEF MiqInv
  <2> QED
    BY <1>1, <1>4, <2>1, <2>2, UnitInvElsewhere DEF loopVars
<1>5. UnitInv(u)'
  <2>1. UnitInv(u)
    BY DEF MiqInv, StoreInv
  <2>2. u \in suspect' \/ (u \notin row' /\ content'[u] = "absent")
    BY <1>1, <1>2 DEF Watch, Emptied
  <2>3. SuspectForCause(u)'
    BY <1>1, WatchHasCause
  <2> QED
    BY <1>1, <1>2, <2>1, <2>2, <2>3
       DEF UnitInv, TaskHasStage, BuiltUnregistered, BuilderOwnsPath, RemovalOwnsMutex, RowIsWhole,
           DoneIsAvailable, Done, Available, CleanedIsTrusted, FetchUnits, loopVars
<1> QED
  BY <1>1, <1>3, <1>4, <1>5 DEF MiqInv, StoreInv, MutexFree, loopVars

LEMMA MiqInvInit == MiqInit => MiqInv
<1> SUFFICES ASSUME MiqInit PROVE MiqInv
  OBVIOUS
<1>1. LoopInv
  BY LoopInvInit DEF MiqInit
<1>2. MiqTypeOK
  BY <1>1, CommandsAssumption
     DEF MiqInit, MiqTypeOK, LoopInv, StoreTypeOK, StoreInit, JobTypeOK, JobInit, Stages, Contents
<1>3. \A u \in Units : UnitInv(u) /\ job[u] = "unspawned"
  <2> SUFFICES ASSUME NEW u \in Units PROVE UnitInv(u) /\ job[u] = "unspawned"
    OBVIOUS
  <2> QED
    BY NoUnitAssumption
       DEF MiqInit, LoopInit, StoreInit, JobInit, UnitInv, TaskHasStage, BuiltUnregistered,
           BuilderOwnsPath, RemovalOwnsMutex, RowIsWhole, DoneIsAvailable, Done, SuspectForCause,
           Cleaned, CleanedIsTrusted
<1> QED
  BY <1>1, <1>2, <1>3 DEF MiqInv, StoreInv, MiqInit, StoreInit

LEMMA MiqInvStep == MiqInv /\ [MiqNext]_vars => MiqInv'
<1> SUFFICES ASSUME MiqInv, [MiqNext]_vars PROVE StoreInv'
  BY LoopInvKept DEF MiqInv
<1>0. LoopInv'
  BY LoopInvKept DEF MiqInv
<1>1. CASE StartBuild \/ StartRemove \/ StartRemovePackages \/ StartAdd
  BY <1>0, <1>1, StoreInvStart
<1>2. CASE BuildLoopStep
  BY <1>0, <1>2, StoreInvSchedule
<1>3. CASE Exit \/ Interrupted \/ Killed
  BY <1>0, <1>3, StoreInvEnd
<1>4. ASSUME NEW u \in Units, BuildStep(u) PROVE StoreInv'
  BY <1>0, <1>4, StoreInvTask
<1>5. ASSUME NEW u \in Units, CliRemove(u) \/ CliRemoved(u) \/ CliRemoveFails(u) \/ CliAdd(u)
      PROVE  StoreInv'
  BY <1>0, <1>5, StoreInvCli
<1>6. ASSUME NEW u \in Units, OrphanWrites(u) \/ OrphanEnds(u) PROVE StoreInv'
  BY <1>0, <1>6, StoreInvOrphan
<1>7. CASE UNCHANGED vars
  <2>1. UNCHANGED <<loopVars, storeVars, jobVars, proc, todo, suspect>>
    BY <1>7 DEF vars
  <2>2. \A u \in Units : UnitInv(u)'
    BY <2>1, UnitInvElsewhere DEF MiqInv, StoreInv, loopVars, storeVars, jobVars
  <2> QED
    BY <2>1, <2>2
       DEF MiqInv, StoreInv, MiqTypeOK, TypeOK, StoreTypeOK, JobTypeOK, MutexFree,
           loopVars, storeVars, jobVars
<1> QED
  BY <1>1, <1>2, <1>3, <1>4, <1>5, <1>6, <1>7 DEF MiqNext

\* The store and the scheduler keep their invariant through every command,
\* every schedule of the tasks and every fault
\* (src/build.rs, src/build_package.rs, src/build_fetch.rs, src/db.rs).
THEOREM StoreInvariant == MiqSpec => [](LoopInv /\ StoreInv)
<1>1. MiqInit => MiqInv
  BY MiqInvInit
<1>2. MiqInv /\ [MiqNext]_vars => MiqInv'
  BY MiqInvStep
<1>3. MiqInv => LoopInv /\ StoreInv
  BY DEF MiqInv
<1> QED
  BY <1>1, <1>2, <1>3, PTL DEF MiqSpec

\* A held mutex belongs to a removal under way, and a process leaves neither a
\* task nor the mutex to the next one (src/build_package.rs:41, src/db.rs:185).
THEOREM NothingIsLeftHeld == MiqSpec => []MiqConsistent
<1>1. StoreInv => MiqConsistent
  <2> SUFFICES ASSUME StoreInv PROVE MiqConsistent
    OBVIOUS
  <2>1. /\ MiqTypeOK /\ removing \in Units \cup {NoUnit}
        /\ cleared => ~MutexFree
        /\ proc # "build" => \A u \in Units : job[u] = "unspawned"
        /\ \A u \in Units : TaskHasStage(u) /\ RemovalOwnsMutex(u)
    BY StoreTypes DEF StoreInv, UnitInv
  <2> QED
    BY <2>1, NoUnitAssumption DEF MiqConsistent, TaskHasStage, RemovalOwnsMutex, MutexFree
<1> QED
  BY <1>1, StoreInvariant, PTL

\* What is_db_path answers can be relied upon: a path with a row is the whole
\* output of a builder that succeeded, unless its removal holds the mutex or
\* its unit is suspect, because a task registers it last
\* (src/build_package.rs:166).
THEOREM RegisteredPathsAreWhole == MiqSpec => []RegisteredIsWhole
<1>1. StoreInv => RegisteredIsWhole
  BY DEF StoreInv, MiqTypeOK, StoreTypeOK, UnitInv, RowIsWhole, RegisteredIsWhole
<1> QED
  BY <1>1, StoreInvariant, PTL

\* A script runs with all of its dependencies in the store and whole, from its
\* first to its last step (src/build.rs:102, src/build_package.rs:66).
THEOREM ScriptsSeeTheirDependencies == MiqSpec => []ScriptSeesDeps
<1>1. LoopInv /\ StoreInv => ScriptSeesDeps
  <2> SUFFICES ASSUME LoopInv, StoreInv, NEW u \in Packages, stage[u] = "running",
                      NEW d \in Deps[u] \ suspect
               PROVE  Available(d)
    BY DEF ScriptSeesDeps
  <2>1. u \in Units /\ d \in Units
    BY GraphAssumption DEF DagResult
  <2>2. job[u] = "running"
    BY <2>1 DEF StoreInv, UnitInv, TaskHasStage
  <2>3. job[d] = "collected"
    BY <2>1, <2>2 DEF LoopInv, DepsFirst
  <2> QED
    BY <2>1, <2>3 DEF StoreInv, UnitInv, DoneIsAvailable, Done
<1> QED
  BY <1>1, StoreInvariant, PTL

\* `miq build` ends well only when the unit and all it depends on are in the
\* store and, suspect ones apart, whole (src/build.rs:78, 188).
THEOREM SuccessIsAvailability == MiqSpec => []SuccessMeansAvailable
<1>1. LoopInv /\ StoreInv => SuccessMeansAvailable
  BY DEF LoopInv, EntriesSeen, TaskIsJob, StoreInv, UnitInv, DoneIsAvailable, Done,
         SuccessMeansAvailable
<1> QED
  BY <1>1, StoreInvariant, PTL

\* A build with --rebuild that ends well leaves its root above suspicion, one
\* with --rebuild-all every package, when builders do not outlive their miq:
\* every fault is healed by the protocol (src/build.rs:123,
\* src/build_package.rs:41).
THEOREM RebuildRepairs == MiqSpec => []RebuildHeals
<1>1. LoopInv /\ StoreInv => RebuildHeals
  <2> SUFFICES ASSUME LoopInv, StoreInv, BuildersStay, pc = "ok",
                      NEW u \in Units, Rebuild(u)
               PROVE  u \notin suspect
    BY DEF RebuildHeals, StoreInv, MiqTypeOK
  <2>1. Done(u)
    BY DEF LoopInv, EntriesSeen, TaskIsJob, Done
  <2> QED
    BY <2>1 DEF StoreInv, UnitInv, CleanedIsTrusted, Cleaned
<1> QED
  BY <1>1, StoreInvariant, PTL

\* A row is written by the task of its unit, which runs only after all of its
\* dependencies have been built, or by hand.
LEMMA EntersAfterDeps ==
    ASSUME MiqInv, [MiqNext]_vars, NEW u \in row' \ row, proc # "add",
           NEW d \in Deps[u] \ suspect
    PROVE  Available(d)
<1>1. ASSUME NEW v \in Units, BuildStep(v) PROVE Available(d)
  <2>1. Apart(v) /\ Own(v) /\ TaskHasStage(v)
    BY <1>1, TaskStepEffect DEF MiqInv, StoreInv, UnitInv
  <2>2. u = v
    BY <2>1 DEF Apart, Own
  <2>3. d \in Units /\ job[d] = "collected"
    BY <2>1, <2>2, GraphAssumption DEF DagResult, Own, TaskHasStage, MiqInv, LoopInv, DepsFirst
  <2> QED
    BY <2>3 DEF MiqInv, StoreInv, UnitInv, DoneIsAvailable, Done
<1>2. ASSUME NEW v \in Units, CliRemove(v) \/ CliRemoved(v) \/ CliRemoveFails(v) \/ CliAdd(v)
               \/ OrphanWrites(v) \/ OrphanEnds(v)
      PROVE  FALSE
  BY <1>2 DEF CliRemove, CliRemoved, CliRemoveFails, CliAdd, RemoveBegin, RemovePart, RemoveFiles,
              RemoveRow, RemoveFails, OrphanWrites, OrphanEnds, storeVars
<1>3. CASE Exit \/ Interrupted \/ Killed \/ UNCHANGED vars
  BY <1>3 DEF Exit, Interrupted, Killed, StoreSettled, storeVars, vars
<1>4. CASE StartBuild \/ StartRemove \/ StartRemovePackages \/ StartAdd \/ BuildLoopStep
  BY <1>4 DEF StartBuild, StartRemove, StartRemovePackages, StartAdd, BuildLoopStep, Schedule,
              storeVars
<1> QED
  BY <1>1, <1>2, <1>3, <1>4 DEF MiqNext

\* A build registers a unit after all of its dependencies, over any number of
\* commands and faults: what is registered can be run (src/build.rs:102,
\* src/build_package.rs:166, src/build_fetch.rs:76).
THEOREM DependenciesEnterFirst == MiqSpec => DepsEnterFirst
<1>1. MiqInv /\ [MiqNext]_vars
        => [\A u \in row' \ row : proc = "add" \/ \A d \in Deps[u] \ suspect : Available(d)]_vars
  BY EntersAfterDeps
<1>2. MiqInit => MiqInv
  BY MiqInvInit
<1>3. MiqInv /\ [MiqNext]_vars => MiqInv'
  BY MiqInvStep
<1> QED
  BY <1>1, <1>2, <1>3, PTL DEF MiqSpec, DepsEnterFirst

\* A task under way takes nothing out of the store but by a removal.
LEMMA TaskKeepsAvailable ==
    ASSUME StoreInv, NEW v \in Units, BuildStep(v), Available(v)
    PROVE  Available(v)' \/ removing' = v
<1>1. TaskStep(v) /\ BuiltUnregistered(v) /\ RemovalOwnsMutex(v) /\ row \subseteq Units
  BY StoreTypes DEF BuildStep, StoreInv, UnitInv
<1>2. stage[v] \in {"idle", "query", "remove"} /\ removing # v /\ v \in row /\ content[v] = "whole"
  BY <1>1 DEF Available, BuiltUnregistered, RemovalOwnsMutex
<1>3. CASE QueryHit(v) \/ QueryRebuild(v) \/ QueryMiss(v) \/ QueryFails(v)
  BY <1>2, <1>3 DEF QueryHit, QueryRebuild, QueryMiss, QueryFails, storeVars, Available
<1>4. CASE RemoveStart(v)
  BY <1>4 DEF RemoveStart, RemoveBegin
<1>5. CASE Cancel(v)
  BY <1>2, <1>5 DEF Cancel, Available
<1>6. ~(RemoveGoes(v) \/ RemoveEnds(v) \/ RemoveRaises(v))
  BY <1>2 DEF RemoveGoes, RemoveEnds, RemoveRaises, Goes, Raises
<1>7. ~(Clean(v) \/ CleanRaises(v) \/ Launch(v) \/ LaunchFails(v))
  BY <1>2 DEF Clean, CleanRaises, Launch, LaunchFails, Goes, Raises
<1>8. ~(ScriptWrites(v) \/ ScriptExits(v) \/ DownloadEnds(v) \/ BuilderFails(v))
  BY <1>2 DEF ScriptWrites, ScriptExits, DownloadEnds, BuilderFails, Goes
<1>9. ~(CheckPath(v) \/ CheckFails(v) \/ Register(v) \/ RegisterFails(v))
  BY <1>2 DEF CheckPath, CheckFails, Register, RegisterFails, Goes, Raises, Returns
<1> QED
  BY <1>1, <1>3, <1>4, <1>5, <1>6, <1>7, <1>8, <1>9 DEF TaskStep

LEMMA LeavesByRemoval ==
    ASSUME MiqInv, [MiqNext]_vars, NEW u \in Units, Available(u), ~Available(u)', u \notin orphans
    PROVE  removing' = u
<1>t. content \in [Units -> Contents] /\ removing # u /\ u \in row /\ content[u] = "whole"
  BY StoreTypes DEF MiqInv, Available
<1>1. ASSUME NEW v \in Units, BuildStep(v) PROVE removing' = u
  <2>1. CASE v = u
    BY <1>1, <2>1, TaskKeepsAvailable DEF MiqInv
  <2>2. CASE v # u
    BY <1>1, <2>2, TaskStepEffect DEF Apart, Available, MiqInv
  <2> QED
    BY <2>1, <2>2
<1>2. ASSUME NEW v \in Units, CliRemove(v) \/ CliRemoved(v) \/ CliRemoveFails(v) \/ CliAdd(v)
      PROVE  removing' = u
  BY <1>t, <1>2, NoUnitAssumption
     DEF CliRemove, CliRemoved, CliRemoveFails, CliAdd, RemoveBegin, RemovePart, RemoveFiles,
         RemoveRow, RemoveFails, CleanPath, Add, MutexFree, Available
<1>3. ASSUME NEW v \in Units, OrphanWrites(v) \/ OrphanEnds(v) PROVE FALSE
  BY <1>t, <1>3 DEF OrphanWrites, OrphanEnds, storeVars, Available
<1>4. CASE Exit \/ Interrupted \/ Killed
  BY <1>t, <1>4, NoUnitAssumption
     DEF Exit, Interrupted, Killed, StoreSettled, storeVars, Available
<1>5. CASE StartBuild \/ StartRemove \/ StartRemovePackages \/ StartAdd \/ BuildLoopStep
  BY <1>5 DEF StartBuild, StartRemove, StartRemovePackages, StartAdd, BuildLoopStep, Schedule,
              storeVars, Available
<1>6. CASE UNCHANGED vars
  BY <1>6 DEF vars, storeVars, Available
<1> QED
  BY <1>1, <1>2, <1>3, <1>4, <1>5, <1>6 DEF MiqNext

\* What is in the store leaves it by a removal or by a lost builder, under
\* every command and fault: no task cleans or overwrites a registered path
\* (src/build_package.rs:41-57, src/build_fetch.rs:27-51).
THEOREM StoreIsImmutable == MiqSpec => OnlyRemovalOrOrphansMutate
<1>1. MiqInv /\ [MiqNext]_vars
        => [\A u \in Units :
               Available(u) /\ ~Available(u)' => removing' = u \/ u \in orphans]_vars
  BY LeavesByRemoval
<1>2. MiqInit => MiqInv
  BY MiqInvInit
<1>3. MiqInv /\ [MiqNext]_vars => MiqInv'
  BY MiqInvStep
<1> QED
  BY <1>1, <1>2, <1>3, PTL DEF MiqSpec, OnlyRemovalOrOrphansMutate

\* Where removals complete, a task begins none that could be cut short, and
\* gives rise to no suspicion.
LEMMA TaskTearsNothing ==
    ASSUME RemovalsComplete, MiqInv, NothingToTear, NEW u \in Units, BuildStep(u)
    PROVE  /\ orphans' = {}
           /\ \A v \in Units : ~Spoiled(v)
           /\ "interrupt" \in Faults => removing' = NoUnit /\ stage'[u] # "remove"
<1>o. orphans = {} /\ proc = "build"
  BY DEF NothingToTear, BuildStep
<1>s. stage \in [Units -> Stages]
  BY StoreTypes DEF MiqInv
<1>n. "interrupt" \in Faults => removing = NoUnit /\ args = PlainArgs /\ stage[u] # "remove"
  BY DEF NothingToTear, MutexFree
<1> USE DEF Spoiled
<1>1. CASE QueryRebuild(u)
  <2>1. "interrupt" \notin Faults
    <3> SUFFICES ASSUME "interrupt" \in Faults PROVE FALSE
      OBVIOUS
    <3>1. args.rebuild = FALSE /\ args.rebuild_all = FALSE
      BY <1>n DEF PlainArgs
    <3>2. ~Rebuild(u)
      BY ONLY <3>1 DEF Rebuild
    <3> QED
      BY <1>1, <3>2 DEF QueryRebuild
  <2> QED
    BY <1>1, <1>o, <2>1 DEF QueryRebuild, Goes, storeVars
<1>2. CASE RemoveStart(u)
  <2>1. "interrupt" \notin Faults
    BY <1>2, <1>n DEF RemoveStart, Goes
  <2> QED
    BY <1>2, <1>o, <2>1, NoUnitAssumption DEF RemoveStart, RemoveBegin, Goes, MutexFree
<1>3. CASE RemoveGoes(u) \/ RemoveEnds(u)
  BY <1>3, <1>o, <1>s, <1>n, NoUnitAssumption
     DEF RemoveGoes, RemoveEnds, RemovePart, RemoveFiles, RemoveRow, Goes
<1>4. ~RemoveRaises(u)
  BY DEF RemoveRaises, Raises, RemovalsComplete
<1>5. CASE ScriptExits(u) \/ BuilderFails(u) \/ Cancel(u)
  BY <1>5, <1>o, <1>s, <1>n DEF ScriptExits, BuilderFails, Cancel, Strays, RemovalsComplete
<1>6. CASE QueryHit(u) \/ QueryMiss(u) \/ QueryFails(u)
  BY <1>6, <1>o, <1>s, <1>n DEF QueryHit, QueryMiss, QueryFails, Goes, Returns, Raises, storeVars
<1>7. CASE Clean(u) \/ CleanRaises(u) \/ Launch(u) \/ LaunchFails(u)
  BY <1>7, <1>o, <1>s, <1>n DEF Clean, CleanRaises, Launch, LaunchFails, Goes, Raises, storeVars
<1>8. CASE ScriptWrites(u) \/ DownloadEnds(u)
  BY <1>8, <1>o, <1>s, <1>n DEF ScriptWrites, DownloadEnds, Goes, jobVars
<1>9. CASE CheckPath(u) \/ CheckFails(u) \/ Register(u) \/ RegisterFails(u)
  BY <1>9, <1>o, <1>s, <1>n
     DEF CheckPath, CheckFails, Register, RegisterFails, Add, Goes, Returns, Raises, storeVars
<1> QED
  BY <1>1, <1>2, <1>3, <1>4, <1>5, <1>6, <1>7, <1>8, <1>9 DEF BuildStep, TaskStep

\* A step after which nobody is to blame leaves no one suspect.
LEMMA NoSuspicion ==
    ASSUME NothingToTear, Watch, orphans' = {}, \A v \in Units : ~Spoiled(v)
    PROVE  suspect' = {}
BY DEF NothingToTear, Watch

LEMMA NothingToTearStep ==
    ASSUME RemovalsComplete, MiqInv, NothingToTear, [MiqNext]_vars
    PROVE  NothingToTear'
<1>o. orphans = {} /\ suspect = {} /\ proc # "add"
  BY DEF NothingToTear
<1>1. ASSUME NEW u \in Units, BuildStep(u) PROVE NothingToTear'
  <2>1. Apart(u) /\ Watch /\ stage' \in [Units -> Stages]
    BY <1>1, TaskStepEffect DEF MiqInv, BuildStep, Own
  <2>2. /\ orphans' = {} /\ \A v \in Units : ~Spoiled(v)
        /\ "interrupt" \in Faults => removing' = NoUnit /\ stage'[u] # "remove"
    BY <1>1, TaskTearsNothing
  <2>3. suspect' = {}
    BY <2>1, <2>2, NoSuspicion
  <2> QED
    BY <2>1, <2>2, <2>3 DEF NothingToTear, Apart, MutexFree
<1>2. CASE BuildLoopStep
  <2>1. Watch /\ UNCHANGED <<storeVars, args, orphans, proc>>
    BY <1>2 DEF BuildLoopStep, Schedule
  <2>2. \A v \in Units : ~Spoiled(v)
    BY <2>1, <1>o DEF Spoiled, storeVars
  <2>3. suspect' = {}
    BY <1>o, <2>1, <2>2, NoSuspicion
  <2> QED
    BY <1>2, <2>1, <2>3 DEF NothingToTear, MutexFree, BuildLoopStep, Schedule, storeVars
<1>3. CASE StartBuild \/ StartRemove \/ StartRemovePackages \/ StartAdd
  <2>1. Watch /\ UNCHANGED <<storeVars, stage, orphans>>
    BY <1>3 DEF StartBuild, StartRemove, StartRemovePackages, StartAdd, jobVars
  <2>2. \A v \in Units : ~Spoiled(v)
    BY <2>1, <1>o DEF Spoiled, storeVars
  <2>3. suspect' = {}
    BY <1>o, <2>1, <2>2, NoSuspicion
  <2>4. proc' # "add" /\ ("interrupt" \in Faults => args' = PlainArgs /\ proc' # "rm")
    BY <1>3 DEF StartBuild, StartRemove, StartRemovePackages, StartAdd, jobVars, RemovalsComplete,
                NothingToTear
  <2> QED
    BY <2>1, <2>3, <2>4 DEF NothingToTear, MutexFree, storeVars
<1>4. ASSUME NEW u \in Units, CliRemove(u) \/ CliRemoved(u) PROVE NothingToTear'
  <2>1. Watch /\ proc = "rm" /\ proc' = "rm" /\ UNCHANGED jobVars
    BY <1>4 DEF CliRemove, CliRemoved
  <2>2. \A v \in Units : ~Spoiled(v)
    BY <1>4, NoUnitAssumption
       DEF CliRemove, CliRemoved, RemoveBegin, RemovePart, RemoveFiles, RemoveRow, Spoiled, MutexFree
  <2>3. suspect' = {}
    BY <1>o, <2>1, <2>2, NoSuspicion DEF jobVars
  <2> QED
    BY <2>1, <2>3 DEF NothingToTear, jobVars
<1>5. CASE Exit \/ Interrupted
  <2>1. Watch /\ ProcessGone /\ orphans' = {} /\ row' = row
    BY <1>5, <1>o DEF Exit, Interrupted, StoreSettled, storeVars
  <2>2. \A v \in Units : removing # v
    BY <1>5, NoRemovalAtTheEnd, NoUnitAssumption DEF Interrupted, NothingToTear, MutexFree
  <2>3. \A v \in Units : ~Spoiled(v)
    BY <1>o, <2>2 DEF Spoiled
  <2>4. suspect' = {}
    BY <2>1, <2>3, NoSuspicion
  <2>5. removing' \in {removing, NoUnit}
    BY <1>5 DEF Exit, Interrupted, StoreSettled, storeVars
  <2> QED
    BY <2>1, <2>4, <2>5 DEF NothingToTear, ProcessGone, MutexFree
<1>6. ~Killed /\ \A u \in Units : ~(CliRemoveFails(u) \/ CliAdd(u) \/ OrphanWrites(u) \/ OrphanEnds(u))
  BY <1>o DEF Killed, CliRemoveFails, CliAdd, OrphanWrites, OrphanEnds, RemovalsComplete
<1>7. CASE UNCHANGED vars
  BY <1>7 DEF vars, storeVars, jobVars, NothingToTear, MutexFree
<1> QED
  BY <1>1, <1>2, <1>3, <1>4, <1>5, <1>6, <1>7 DEF MiqNext

\* Where removals complete nothing is ever torn: a row always stands for the
\* whole output of a builder, with no exception for suspects
\* (src/build_package.rs:166, src/db.rs:187).
THEOREM CompleteRemovalsKeepRowsWhole ==
    ASSUME RemovalsComplete
    PROVE  MiqSpec => [](suspect = {} /\ RowsAreWhole)
<1>1. MiqInit => MiqInv /\ NothingToTear
  <2>1. MiqInit => NothingToTear
    BY DEF MiqInit, StoreInit, JobInit, NothingToTear, MutexFree, RemovalsComplete
  <2> QED
    BY <2>1, MiqInvInit
<1>2. MiqInv /\ NothingToTear /\ [MiqNext]_vars => (MiqInv /\ NothingToTear)'
  BY MiqInvStep, NothingToTearStep
<1>3. MiqInv /\ NothingToTear => suspect = {} /\ RowsAreWhole
  BY DEF MiqInv, NothingToTear, RowsAreWhole, StoreInv, MiqTypeOK, StoreTypeOK, UnitInv, RowIsWhole
<1> QED
  BY <1>1, <1>2, <1>3, PTL DEF MiqSpec
=============================================================================
