---------------------------------- MODULE Cli ----------------------------------
(***************************************************************************)
(* Processes that start (Startup) and then use the store (StorePaths),     *)
(* one at a time, as main has it: the lock is held from before the command *)
(* line is parsed until the process is gone (src/main.rs).                 *)
(***************************************************************************)
EXTENDS Startup, StorePaths

cliVars == <<startVars, pathVars>>

CliInit == StartInit /\ PathInit

(* A command of one step, or one that does not touch the store.            *)
Command(p) ==
    /\ Work(p)
    /\ StoreCommand \/ UNCHANGED pathVars

Wipe(p) ==
    \/ Work(p) /\ WipeStart
    \/ \E r \in wiping : at[p] = "exit" /\ WipeOne(r) /\ UNCHANGED startVars

(* A process leaves when it has nothing more to remove.                    *)
Starts(p) ==
    /\ StartStep(p)
    /\ IF lock = p /\ wiping # {}
       THEN at'[p] = "crashed" /\ WipeStops
       ELSE UNCHANGED pathVars

CliNext == \E p \in Procs : Starts(p) \/ Command(p) \/ Wipe(p)

CliSpec == CliInit /\ [][CliNext]_cliVars
-----------------------------------------------------------------------------
(* The inductive invariant: no command comes between the removals of one   *)
(* `rm --all`.                                                             *)
WiperHasLock == wiping # {} => \E p \in Procs : lock = p /\ at[p] = "exit"

CliInv == StartInv /\ SomeoneIsInTheRunning /\ PathInv /\ WiperHasLock
=============================================================================
