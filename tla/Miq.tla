--------------------------------- MODULE Miq ---------------------------------
(***************************************************************************)
(* The store over the life of a machine: miq commands run one after the    *)
(* other, each under the lock on /miq/lock (src/main.rs), and any of them  *)
(* may be cut short.  `miq build` is BuildLoop and its tasks; `miq store   *)
(* rm` and `miq store add` are the subcommands of src/db.rs.  A command    *)
(* that only reads (ls, is-path) changes none of this state.               *)
(***************************************************************************)
EXTENDS BuildJob

CONSTANTS
    Commands,   \* the commands that are given
    BuildArgs   \* the values of args that `build` is given

ASSUME CommandsAssumption ==
    /\ Commands \subseteq {"build", "rm", "rm --all", "rm --all-packages", "add"}
    /\ BuildArgs \subseteq [rebuild : BOOLEAN, rebuild_all : BOOLEAN]

VARIABLES
    proc,       \* the command of the process that holds the lock, or "none"
    todo,       \* what the subcommand of `store` has still to deal with
    suspect     \* bookkeeping, see Watch

vars == <<loopVars, storeVars, jobVars, proc, todo, suspect>>

MiqTypeOK ==
    /\ TypeOK /\ StoreTypeOK /\ JobTypeOK
    /\ proc \in {"none", "build", "rm", "rm --all-packages", "add"}
    /\ todo \subseteq Units
    /\ suspect \subseteq Units

MiqInit ==
    /\ LoopInit /\ StoreInit /\ JobInit
    /\ args \in BuildArgs
    /\ proc = "none"
    /\ todo = {}
    /\ suspect = {}
-----------------------------------------------------------------------------
(* The units whose path is not in the hands of the protocol: a lost builder *)
(* still writes there, a removal gave up between the files and the row, or *)
(* something incomplete was registered by hand.  Such a unit is suspect    *)
(* until its path is empty and without a row again.  The code keeps no     *)
(* such record; it tells what the damage of a fault is confined to.        *)
Spoiled(u) ==
    /\ u \in row' /\ content'[u] # "whole"
    /\ \/ removing = u /\ removing' # u
       \/ proc = "add" /\ u \notin row

Emptied(u) == u \notin row' /\ content'[u] = "absent"

Watch ==
    suspect' = orphans' \cup {u \in Units : (u \in suspect \/ Spoiled(u)) /\ ~Emptied(u)}

(* FileLock::lock does not block: a second miq gives up at once.           *)
StartBuild ==
    /\ proc = "none" /\ "build" \in Commands
    /\ proc' = "build"
    /\ args' \in BuildArgs
    /\ UNCHANGED <<loopVars, storeVars, stage, orphans, todo>>
    /\ Watch

StartRemove ==
    /\ proc = "none"
    /\ \/ "rm" \in Commands /\ \E u \in Units : todo' = {u}
       \/ "rm --all" \in Commands /\ todo' = row
    /\ proc' = "rm"
    /\ UNCHANGED <<loopVars, storeVars, jobVars>>
    /\ Watch

\* --all-packages is parsed but not matched: the command ends in the error
\* that asks the user to read the help.
StartRemovePackages ==
    /\ proc = "none" /\ "rm --all-packages" \in Commands
    /\ proc' = "rm --all-packages"
    /\ UNCHANGED <<loopVars, storeVars, jobVars, todo>>
    /\ Watch

StartAdd ==
    /\ proc = "none" /\ "add" \in Commands
    /\ \E u \in Units : todo' = {u}
    /\ proc' = "add"
    /\ UNCHANGED <<loopVars, storeVars, jobVars>>
    /\ Watch

(* What a process leaves behind is the store and, if any, its orphans.     *)
ProcessGone ==
    /\ proc' = "none"
    /\ todo' = {}
    /\ pc' = "test" /\ node' = 1 /\ sentry' = 0
    /\ tasks' = [u \in Units |-> IF u = Root THEN "Waiting" ELSE "None"]
    /\ job' = [u \in Units |-> "unspawned"]
    /\ stage' = [u \in Units |-> "idle"]
    /\ UNCHANGED args

BuildStep(u) ==
    /\ proc = "build"
    /\ TaskStep(u)
    /\ UNCHANGED <<proc, todo>>
    /\ Watch

BuildLoopStep ==
    /\ proc = "build"
    /\ Schedule
    /\ UNCHANGED <<proc, todo>>
    /\ Watch

Exit ==
    /\ \/ proc = "build" /\ pc \in {"ok", "err"}
       \/ proc \in {"rm", "rm --all-packages", "add"} /\ todo = {}
    /\ ProcessGone
    /\ UNCHANGED <<storeVars, orphans>>
    /\ Watch

(* RemoveArgs: one path, or every path of the list; the first error ends   *)
(* the command.                                                            *)
CliRemove(u) ==
    /\ proc = "rm" /\ u \in todo
    /\ RemoveBegin(u) \/ RemovePart(u) \/ RemoveFiles(u)
    /\ UNCHANGED <<loopVars, jobVars, proc, todo>>
    /\ Watch

CliRemoved(u) ==
    /\ proc = "rm"
    /\ RemoveRow(u)
    /\ todo' = todo \ {u}
    /\ UNCHANGED <<loopVars, jobVars, proc>>
    /\ Watch

CliRemoveFails(u) ==
    /\ proc = "rm" /\ "rmio" \in Faults
    /\ RemoveFails(u)
    /\ todo' = {}
    /\ UNCHANGED <<loopVars, jobVars, proc>>
    /\ Watch

CliAdd(u) ==
    /\ proc = "add" /\ u \in todo
    /\ Add(u)
    /\ todo' = {}
    /\ UNCHANGED <<loopVars, jobVars, proc>>
    /\ Watch

(* Ctrl-C reaches miq and its builders; a kill, or the OOM killer, only    *)
(* miq.  The kernel lets go of the lock in either case.                    *)
Interrupted ==
    /\ "interrupt" \in Faults /\ proc # "none"
    /\ ProcessGone /\ StoreSettled
    /\ UNCHANGED orphans
    /\ Watch

Killed ==
    /\ "kill" \in Faults /\ proc # "none"
    /\ ProcessGone /\ StoreSettled
    /\ orphans' = orphans \cup {u \in Packages : stage[u] = "running"}
    /\ Watch

(* A builder that no miq knows of.                                         *)
OrphanWrites(u) ==
    /\ u \in orphans
    /\ content' = [content EXCEPT ![u] = "junk"]
    /\ UNCHANGED <<row, removing, cleared, loopVars, jobVars, proc, todo>>
    /\ Watch

OrphanEnds(u) ==
    /\ u \in orphans
    /\ orphans' = orphans \ {u}
    /\ UNCHANGED <<storeVars, loopVars, args, stage, proc, todo>>
    /\ Watch

MiqNext ==
    \/ StartBuild \/ StartRemove \/ StartRemovePackages \/ StartAdd
    \/ BuildLoopStep \/ Exit
    \/ Interrupted \/ Killed
    \/ \E u \in Units :
          \/ BuildStep(u)
          \/ CliRemove(u) \/ CliRemoved(u) \/ CliRemoveFails(u) \/ CliAdd(u)
          \/ OrphanWrites(u) \/ OrphanEnds(u)

MiqSpec == MiqInit /\ [][MiqNext]_vars

(* The process keeps running: its scheduler, and every task that is not    *)
(* waiting for the mutex.  Builders end, by the same assumption as before. *)
MiqFairness ==
    /\ WF_vars(BuildLoopStep) /\ WF_vars(Exit)
    /\ \A u \in Units :
          /\ WF_vars(BuildStep(u))
          /\ WF_vars(CliRemove(u) \/ CliRemoved(u) \/ CliAdd(u))

FairMiqSpec == MiqSpec /\ MiqFairness
-----------------------------------------------------------------------------
(* Properties.                                                             *)

\* The mutex is held by a removal under way and by nothing else, every running
\* task has a stage, and a process leaves no task and no mutex to the next.
MiqConsistent ==
    /\ MiqTypeOK
    /\ \A u \in Units : job[u] = "running" <=> stage[u] # "idle"
    /\ \A u \in Units : stage[u] = "unregister" => removing = u
    /\ \A u \in Units :
          removing = u => stage[u] = "unregister" \/ (proc = "rm" /\ u \in todo)
    /\ cleared => ~MutexFree
    /\ proc # "build" => \A u \in Units : job[u] = "unspawned"
    /\ proc = "none" => MutexFree

Available(u) == u \in row /\ content[u] = "whole" /\ removing # u

\* A path with a row is the complete output of a successful builder, except
\* while it is being removed, after any commands, crashes and failures: the
\* damage they do is confined to the units that are suspect.
RegisteredIsWhole == \A u \in row \ suspect : removing = u \/ content[u] = "whole"

\* `miq build` reports success only when the unit and everything it depends
\* on can be used, suspect ones apart, which at least have a row.
SuccessMeansAvailable ==
    proc = "build" /\ pc = "ok" =>
        \A u \in Units : Available(u) \/ (u \in suspect /\ u \in row)

\* While a script runs, all its dependencies are in the store, whole: no task,
\* no removal and no rebuild takes one away before the script has ended.
ScriptSeesDeps ==
    \A u \in Packages : stage[u] = "running" => \A d \in Deps[u] \ suspect : Available(d)

\* A build registers a unit only after all of its dependencies.
DepsEnterFirst ==
    [][\A u \in row' \ row : proc = "add" \/ \A d \in Deps[u] \ suspect : Available(d)]_vars

\* What is in the store leaves it by a removal or by a builder that a miq has
\* lost, and by nothing else: not by a task that retries it, by a concurrent
\* task, by a crash or by a later command.
OnlyRemovalOrOrphansMutate ==
    [][\A u \in Units :
          Available(u) /\ ~Available(u)' => removing' = u \/ u \in orphans]_vars

\* What a build was told to rebuild is repaired when it reports success: the
\* root, which may be a fetch, or all packages; whatever was interrupted, failed
\* or registered by hand before.
BuildersStay == Faults \cap {"stray", "kill"} = {}

RebuildHeals ==
    BuildersStay /\ proc = "build" /\ pc = "ok"
        => \A u \in suspect : ~Rebuild(u)

\* Every command ends, however its tasks share the mutex and whichever of
\* them fails.
CommandEnds == proc # "none" ~> proc = "none"

(* The inductive invariant behind these.  For each unit: a task has a      *)
(* stage while its job runs, a unit under construction has no row, what    *)
(* its stage implies for its path, whose the mutex is, and what the rows   *)
(* and the ends of jobs are worth.                                         *)
TaskHasStage(u) ==
    /\ stage[u] # "idle" <=> job[u] = "running"
    /\ stage[u] # "idle" => proc = "build"

BuiltUnregistered(u) == u \in row => stage[u] \in {"idle", "query", "remove", "unregister"}

BuilderOwnsPath(u) ==
    /\ stage[u] = "running" /\ u \in FetchUnits => content[u] = "fresh"
    /\ stage[u] = "register" => content[u] # "absent"
    /\ u \notin suspect =>
          /\ stage[u] = "launch" => content[u] = "absent"
          /\ stage[u] = "running" => content[u] \in {"absent", "fresh"}
          /\ stage[u] = "check" => content[u] \in {"absent", "whole"}
          /\ stage[u] = "register" => content[u] = "whole"

RemovalOwnsMutex(u) ==
    /\ stage[u] = "unregister" => removing = u
    /\ removing = u => stage[u] = "unregister" \/ (proc = "rm" /\ u \in todo)

RowIsWhole(u) == u \in row \ suspect => removing = u \/ content[u] = "whole"

Done(u) == job[u] \in {"returned", "collected", "unprinted"}

DoneIsAvailable(u) == Done(u) => u \in row /\ (u \in suspect \/ Available(u))

SuspectForCause(u) ==
    /\ u \in orphans => u \in suspect
    /\ u \in suspect => u \in orphans \/ u \in row \/ content[u] # "absent"

Cleaned(u) == stage[u] \in {"launch", "running", "check", "register"} \/ (Done(u) /\ Rebuild(u))

CleanedIsTrusted(u) == BuildersStay => u \notin orphans /\ (Cleaned(u) => u \notin suspect)

UnitInv(u) ==
    /\ TaskHasStage(u) /\ BuiltUnregistered(u) /\ BuilderOwnsPath(u)
    /\ RemovalOwnsMutex(u) /\ RowIsWhole(u) /\ DoneIsAvailable(u)
    /\ SuspectForCause(u) /\ CleanedIsTrusted(u)

StoreInv ==
    /\ MiqTypeOK
    /\ cleared => ~MutexFree
    /\ proc # "build" => \A u \in Units : job[u] = "unspawned"
    /\ \A u \in Units : UnitInv(u)

(* Where nothing is ever torn: miq keeps its builders, no path is          *)
(* registered by hand, and a removal neither fails nor is interrupted.     *)
PlainArgs == [rebuild |-> FALSE, rebuild_all |-> FALSE]

RemovalsComplete ==
    /\ Faults \subseteq {"builder", "io", "interrupt"}
    /\ "add" \notin Commands
    /\ "interrupt" \in Faults =>
          Commands \cap {"rm", "rm --all"} = {} /\ BuildArgs \subseteq {PlainArgs}

NothingToTear ==
    /\ suspect = {} /\ orphans = {} /\ proc # "add"
    /\ "interrupt" \in Faults =>
          /\ MutexFree /\ args = PlainArgs /\ proc # "rm"
          /\ \A u \in Units : stage[u] # "remove"

(* What the documentation says.                                            *)

\* doc/_dev_immut.tex:154, an interruption leaves nothing inconsistent: a row
\* stands for a complete output, and no unit has to be suspected.
RowsAreWhole == \A u \in row : removing = u \/ content[u] = "whole"

\* doc/_impl_builder.tex:204, an error stops any other tasks: none of those
\* that were dropped has left a builder behind.
ErrorStopsTasks ==
    proc = "build" /\ pc = "err" => \A u \in orphans : job[u] # "cancelled"

\* src/db.rs:56, `store rm --all-packages` removes all packages.
AllPackagesRemoved == proc = "rm --all-packages" /\ todo = {} => row \cap Packages = {}
=============================================================================
