------------------------------- MODULE BuildJob -------------------------------
(***************************************************************************)
(* The task the scheduler spawns for a unit: Package::build                *)
(* (src/build_package.rs) or Fetch::build (src/build_fetch.rs).  Both ask  *)
(* the database whether the unit is there, remove what must be rebuilt,    *)
(* clean the store path, let a builder write to it, and register it last.  *)
(*                                                                         *)
(* The tasks share the database, behind a mutex, and nothing else.  A task *)
(* dropped by the runtime stops only where it awaits.                      *)
(***************************************************************************)
EXTENDS BuildLoop, Store

(* What may go wrong.  "builder": a script or a download fails.  "io": a   *)
(* system call of a task fails, other than those of a removal; "rmio": one *)
(* of a removal.  "stray": processes of a script outlive its bash, which   *)
(* is all that kill_on_drop kills.  "interrupt": all the processes of a    *)
(* miq die.  "kill": miq dies, and its builders go on.                     *)
CONSTANT Faults

ASSUME FaultsAssumption ==
    Faults \subseteq {"builder", "io", "rmio", "stray", "interrupt", "kill"}

VARIABLES
    args,       \* the flags --rebuild and --rebuild-all of the command
    stage,      \* how far the task of a unit is; "idle" when there is none
    orphans     \* packages to whose path a builder that miq lost still writes

jobVars == <<args, stage, orphans>>

Stages == {"idle", "query", "remove", "unregister", "clean", "launch",
           "running", "check", "register"}

JobTypeOK ==
    /\ args \in [rebuild : BOOLEAN, rebuild_all : BOOLEAN]
    /\ stage \in [Units -> Stages]
    /\ orphans \subseteq Packages

JobInit ==
    /\ stage = [u \in Units |-> "idle"]
    /\ orphans = {}

\* The flag passed to unit.build: --rebuild wins over --rebuild-all.
Rebuild(u) == IF args.rebuild THEN u = Root ELSE args.rebuild_all /\ u \in Packages

(* A step of the scheduler; a unit it spawns a task for starts at "query". *)
Schedule ==
    /\ LoopStep
    /\ stage' = [u \in Units |->
                    IF job[u] # "running" /\ job'[u] = "running" THEN "query" ELSE stage[u]]
    /\ UNCHANGED <<storeVars, args, orphans>>
-----------------------------------------------------------------------------
(* A task that goes on, and the two ways in which it ends by itself.       *)
Goes(u, from, to) ==
    /\ stage[u] = from
    /\ stage' = [stage EXCEPT ![u] = to]
    /\ UNCHANGED <<loopVars, args, orphans>>

Returns(u, from) ==
    /\ stage[u] = from
    /\ stage' = [stage EXCEPT ![u] = "idle"]
    /\ JobReturns(u)
    /\ UNCHANGED <<args, orphans>>

Raises(u, from, fault) ==
    /\ fault \in Faults
    /\ stage[u] = from
    /\ stage' = [stage EXCEPT ![u] = "idle"]
    /\ JobRaises(u)
    /\ UNCHANGED <<args, orphans>>

(* is_db_path, and what to do about its answer.                            *)
\* A mistake: a path with a row is never built again.
QueryHitAnyhow(u) ==
    /\ MutexFree /\ IsDbPath(u)
    /\ Returns(u, "query")
    /\ UNCHANGED storeVars

QueryHit(u) ==
    /\ MutexFree /\ IsDbPath(u) /\ ~Rebuild(u)
    /\ Returns(u, "query")
    /\ UNCHANGED storeVars

QueryRebuild(u) ==
    /\ MutexFree /\ IsDbPath(u) /\ Rebuild(u)
    /\ Goes(u, "query", "remove")
    /\ UNCHANGED storeVars

\* A mistake: the path is cleaned without a look at the answer.
QueryIgnored(u) ==
    /\ MutexFree
    /\ Goes(u, "query", "clean")
    /\ UNCHANGED storeVars

QueryMiss(u) ==
    /\ MutexFree /\ ~IsDbPath(u)
    /\ Goes(u, "query", "clean")
    /\ UNCHANGED storeVars

QueryFails(u) ==
    /\ MutexFree
    /\ Raises(u, "query", "io")
    /\ UNCHANGED storeVars

RemoveStart(u) == RemoveBegin(u) /\ Goes(u, "remove", "unregister")

RemoveGoes(u) ==
    /\ RemovePart(u) \/ RemoveFiles(u)
    /\ Goes(u, "unregister", "unregister")

RemoveEnds(u) == RemoveRow(u) /\ Goes(u, "unregister", "clean")

RemoveRaises(u) == RemoveFails(u) /\ Raises(u, "unregister", "rmio")

\* A mistake: what an earlier builder left is not removed.
CleanSkipped(u) ==
    /\ Goes(u, "clean", "launch")
    /\ UNCHANGED storeVars

Clean(u) ==
    /\ CleanPath(u)
    /\ Goes(u, "clean", "launch")
    /\ UNCHANGED <<row, removing, cleared>>

CleanRaises(u) ==
    /\ CleanPathFails(u)
    /\ Raises(u, "clean", "io")
    /\ UNCHANGED <<row, removing, cleared>>

(* cmd.spawn() for a package; for a fetch the answer of the server, and    *)
(* File::create, which leaves an empty file.                               *)
Launch(u) ==
    /\ Goes(u, "launch", "running")
    /\ content' = IF u \in Packages THEN content ELSE [content EXCEPT ![u] = "fresh"]
    /\ UNCHANGED <<row, removing, cleared>>

LaunchFails(u) ==
    /\ \/ u \in Packages /\ Raises(u, "launch", "io")
       \/ u \in FetchUnits /\ Raises(u, "launch", "builder")
    /\ UNCHANGED storeVars

(* The script, under the name it has outside its sandbox.                  *)
ScriptWrites(u) ==
    /\ stage[u] = "running" /\ u \in Packages
    /\ content[u] = "absent"
    /\ content' = [content EXCEPT ![u] = "fresh"]
    /\ UNCHANGED <<row, removing, cleared, loopVars, jobVars>>

Completed(u) ==
    content' = [content EXCEPT ![u] = IF @ = "fresh" THEN "whole" ELSE @]

Abandoned(u) ==
    content' = [content EXCEPT ![u] = IF @ = "fresh" THEN "junk" ELSE @]

(* When its bash is gone, be it that the script has ended or that the Child *)
(* was dropped and bash killed, what bash has started may go on.           *)
Strays(u) ==
    \/ UNCHANGED orphans
    \/ "stray" \in Faults /\ u \in Packages /\ orphans' = orphans \cup {u}

\* The exit status is 0; the script may have written nothing.
ScriptExits(u) ==
    /\ u \in Packages
    /\ content[u] = "absent" => "builder" \in Faults
    /\ stage[u] = "running"
    /\ stage' = [stage EXCEPT ![u] = "check"]
    /\ Completed(u) /\ Strays(u)
    /\ UNCHANGED <<row, removing, cleared, loopVars, args>>

\* The stream ended, the buffer was flushed and the mode was set.
DownloadEnds(u) ==
    /\ u \in FetchUnits
    /\ Goes(u, "running", "register")
    /\ Completed(u)
    /\ UNCHANGED <<row, removing, cleared>>

(* A task in "running" gives up, and the file stays as far as it was       *)
(* written.                                                                *)
BuilderFails(u) ==
    /\ "builder" \in Faults
    /\ stage[u] = "running"
    /\ stage' = [stage EXCEPT ![u] = "idle"]
    /\ JobRaises(u)
    /\ Abandoned(u) /\ Strays(u)
    /\ UNCHANGED <<row, removing, cleared, args>>

\* A mistake: a package is registered whether its path exists or not.
CheckPathSkipped(u) ==
    /\ Goes(u, "check", "register")
    /\ UNCHANGED storeVars

(* try_exists on the path of a package, then DbConnection::add.            *)
CheckPath(u) ==
    /\ content[u] # "absent"
    /\ Goes(u, "check", "register")
    /\ UNCHANGED storeVars

CheckFails(u) ==
    /\ content[u] = "absent"
    /\ Raises(u, "check", "builder")
    /\ UNCHANGED storeVars

Register(u) == Add(u) /\ Returns(u, "register")

RegisterFails(u) ==
    /\ MutexFree
    /\ Raises(u, "register", "io")
    /\ UNCHANGED storeVars

(* The runtime is dropped.  A task stops before its first poll, while it   *)
(* awaits the server or the builder, or between two lines of the log.      *)
Awaits(u) ==
    \/ stage[u] \in {"query", "running", "check"}
    \/ stage[u] = "launch" /\ u \in FetchUnits

Cancel(u) ==
    /\ Awaits(u)
    /\ JobCancelled(u)
    /\ stage' = [stage EXCEPT ![u] = "idle"]
    /\ IF stage[u] = "running"
       THEN Abandoned(u) /\ Strays(u)
       ELSE UNCHANGED <<content, orphans>>
    /\ UNCHANGED <<row, removing, cleared, args>>

TaskStep(u) ==
    \/ QueryHit(u) \/ QueryRebuild(u) \/ QueryMiss(u) \/ QueryFails(u)
    \/ RemoveStart(u) \/ RemoveGoes(u) \/ RemoveEnds(u) \/ RemoveRaises(u)
    \/ Clean(u) \/ CleanRaises(u)
    \/ Launch(u) \/ LaunchFails(u)
    \/ ScriptWrites(u) \/ ScriptExits(u) \/ DownloadEnds(u) \/ BuilderFails(u)
    \/ CheckPath(u) \/ CheckFails(u)
    \/ Register(u) \/ RegisterFails(u)
    \/ Cancel(u)
=============================================================================
