------------------------------- MODULE Startup -------------------------------
(***************************************************************************)
(* How a miq process comes to hold the lock: check_dirs and then           *)
(* FileLock::lock in main (src/main.rs).                                   *)
(*                                                                         *)
(* check_dirs runs before the lock is taken, so any number of processes    *)
(* may be in it at a time, and any of them may die there.  Processes are   *)
(* all of one user, who is not root.  Even `miq --help` goes this way: the *)
(* command line is parsed with the lock held.                              *)
(***************************************************************************)
EXTENDS Naturals, Sequences

CONSTANTS
    Procs,      \* the processes that may be there at a time
    NoProc      \* stands for no process

ASSUME ProcsAssumption == NoProc \notin Procs

Folders == <<"store", "eval", "log">>

VARIABLES
    owner,      \* of /miq: "root", "user", or "none" while there is no /miq
    folders,    \* those of Folders that exist
    lock,       \* the process that has locked /miq/lock, or NoProc
    at,         \* where a process is
    next        \* the position in Folders that a process in check_dirs is at

startVars == <<owner, folders, lock, at, next>>

\* The last five are the ends that a process may come to.
States == {"start", "confirm", "mkdir", "chown", "exists", "create", "lock", "run", "exit",
           "declined", "refused", "busy", "ran", "crashed"}
Ended == {"declined", "refused", "busy", "ran", "crashed"}

StartTypeOK ==
    /\ owner \in {"none", "root", "user"}
    /\ folders \subseteq {Folders[i] : i \in 1 .. 3}
    /\ lock \in Procs \cup {NoProc}
    /\ at \in [Procs -> States]
    /\ next \in [Procs -> 1 .. 4]

StartInit ==
    /\ owner = "none" /\ folders = {} /\ lock = NoProc
    /\ at = [p \in Procs |-> "start"]
    /\ next = [p \in Procs |-> 1]
-----------------------------------------------------------------------------
Goto(p, from, to) == at[p] = from /\ at' = [at EXCEPT ![p] = to]

FindMiq(p) ==
    /\ IF owner = "none" THEN Goto(p, "start", "confirm") ELSE Goto(p, "start", "exists")
    /\ UNCHANGED <<owner, folders, lock, next>>

(* The user confirms, or does not, or there is no one to ask.              *)
Confirm(p) ==
    /\ Goto(p, "confirm", "mkdir") \/ Goto(p, "confirm", "declined")
    /\ UNCHANGED <<owner, folders, lock, next>>

(* sudo mkdir /miq.  Its exit status is not looked at: it may have failed, *)
(* because /miq exists by now or because the user may not use sudo.        *)
Mkdir(p) ==
    /\ Goto(p, "mkdir", "chown")
    /\ \/ owner = "none" /\ owner' = "root"
       \/ UNCHANGED owner
    /\ UNCHANGED <<folders, lock, next>>

(* sudo chown /miq, whose exit status is not looked at either.             *)
Chown(p) ==
    /\ Goto(p, "chown", "exists")
    /\ \/ owner # "none" /\ owner' = "user"
       \/ UNCHANGED owner
    /\ UNCHANGED <<folders, lock, next>>

(* For each folder try_exists and then create_dir, which fails if the      *)
(* folder exists or the user may not write to /miq.                        *)
FolderExists(p) ==
    /\ next[p] <= Len(Folders)
    /\ IF Folders[next[p]] \in folders
       THEN at[p] = "exists" /\ next' = [next EXCEPT ![p] = @ + 1] /\ UNCHANGED at
       ELSE Goto(p, "exists", "create") /\ UNCHANGED next
    /\ UNCHANGED <<owner, folders, lock>>

CreateFolder(p) ==
    /\ at[p] = "create"
    /\ IF owner = "user" /\ Folders[next[p]] \notin folders
       THEN /\ Goto(p, "create", "exists")
            /\ folders' = folders \cup {Folders[next[p]]}
            /\ next' = [next EXCEPT ![p] = @ + 1]
       ELSE Goto(p, "create", "refused") /\ UNCHANGED <<folders, next>>
    /\ UNCHANGED <<owner, lock>>

\* A mistake: a folder that cannot be created is passed over.
FoldersDoneEarly(p) ==
    /\ Goto(p, "exists", "lock")
    /\ UNCHANGED <<owner, folders, lock, next>>

FoldersDone(p) ==
    /\ next[p] > Len(Folders)
    /\ Goto(p, "exists", "lock")
    /\ UNCHANGED <<owner, folders, lock, next>>

(* The lock is not waited for.                                             *)
Lock(p) ==
    /\ IF lock = NoProc
       THEN Goto(p, "lock", "run") /\ lock' = p
       ELSE Goto(p, "lock", "busy") /\ UNCHANGED lock
    /\ UNCHANGED <<owner, folders, next>>

(* The kernel unlocks the file when the process is gone, however it went.  *)
\* A mistake: the lock is the existence of the file.
LockLeft(p) == UNCHANGED lock

Unlocked(p) == lock' = IF lock = p THEN NoProc ELSE lock

Exit(p) ==
    /\ Goto(p, "exit", "ran")
    /\ Unlocked(p)
    /\ UNCHANGED <<owner, folders, next>>

Crash(p) ==
    /\ at[p] \notin Ended
    /\ at' = [at EXCEPT ![p] = "crashed"]
    /\ Unlocked(p)
    /\ UNCHANGED <<owner, folders, next>>

(* The next command of the user.                                           *)
Restart(p) ==
    /\ at[p] \in Ended
    /\ at' = [at EXCEPT ![p] = "start"]
    /\ next' = [next EXCEPT ![p] = 1]
    /\ UNCHANGED <<owner, folders, lock>>

(* The command line is parsed, and the command is carried out.             *)
Work(p) ==
    /\ Goto(p, "run", "exit")
    /\ UNCHANGED <<owner, folders, lock, next>>

StartStep(p) ==
    \/ FindMiq(p) \/ Confirm(p) \/ Mkdir(p) \/ Chown(p)
    \/ FolderExists(p) \/ CreateFolder(p) \/ FoldersDone(p)
    \/ Lock(p) \/ Exit(p) \/ Crash(p) \/ Restart(p)
-----------------------------------------------------------------------------
(* Properties.                                                             *)

\* One process works at a time, and finds the folders it works in: what
\* check_dirs has seen without the lock still holds when the lock is taken.
WorksAloneInFolders ==
    \A p \in Procs : at[p] \in {"run", "exit"} =>
        /\ lock = p
        /\ folders = {Folders[i] : i \in 1 .. 3} /\ owner = "user"

(* The inductive invariant behind it.                                      *)
FoldersSeen ==
    \A p \in Procs :
        /\ \A i \in 1 .. 3 : i < next[p] => Folders[i] \in folders
        /\ at[p] = "create" => next[p] \in 1 .. 3
        /\ at[p] \in {"lock", "run", "exit"} => next[p] = 4

LockHeld == \A p \in Procs : at[p] \in {"run", "exit"} <=> lock = p

FoldersOfUser == folders # {} => owner = "user"

StartInv == StartTypeOK /\ FoldersSeen /\ LockHeld /\ FoldersOfUser

\* The race of check_dirs costs some processes their run, but never all of
\* them: when each has been confirmed and none has died, one has run.
SomeoneRuns ==
    owner = "user" /\ (\A p \in Procs : at[p] \in {"refused", "busy", "ran"})
        => \E p \in Procs : at[p] = "ran"

(* Its inductive invariant: of the processes that have not been turned     *)
(* away, one has not lost the race for its folder either, namely the one   *)
(* that has made the last folder, or holds the lock, or came later.        *)
LostRace(p) == at[p] = "create" /\ Folders[next[p]] \in folders

SomeoneIsInTheRunning ==
    owner = "user" => \E p \in Procs : at[p] \notin {"refused", "busy"} /\ ~LostRace(p)
=============================================================================
