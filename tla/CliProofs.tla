------------------------------- MODULE CliProofs -------------------------------
(***************************************************************************)
(* What holds of any number of processes that start at the same time, die  *)
(* anywhere and are started again: whoever works, works alone, in folders  *)
(* that are there, and what `miq store` then does is what it was told to.  *)
(***************************************************************************)
EXTENDS Cli, PathProofs

LEMMA StartInitial == StartInit => StartInv
  BY ProcsAssumption
  DEF StartInit, StartInv, StartTypeOK, FoldersSeen, LockHeld, FoldersOfUser, Folders, States

(* The steps before the lock, one lemma for those that leave the folders   *)
(* alone and one for the step that makes one.                              *)
LEMMA BeforeFolders ==
  ASSUME StartInv, NEW p \in Procs,
         FindMiq(p) \/ Confirm(p) \/ Mkdir(p) \/ Chown(p)
  PROVE  StartInv'
<1> USE DEF StartInv, StartTypeOK, FoldersSeen, LockHeld, FoldersOfUser, Folders, States, Goto
<1>1. CASE FindMiq(p)  BY <1>1, ProcsAssumption DEF FindMiq
<1>2. CASE Confirm(p)  BY <1>2, ProcsAssumption DEF Confirm
<1>3. CASE Mkdir(p)    BY <1>3, ProcsAssumption DEF Mkdir
<1>4. CASE Chown(p)    BY <1>4, ProcsAssumption DEF Chown
<1>5. QED  BY <1>1, <1>2, <1>3, <1>4

LEMMA AtFolders ==
  ASSUME StartInv, NEW p \in Procs, FolderExists(p) \/ FoldersDone(p)
  PROVE  StartInv'
<1> USE DEF StartInv, StartTypeOK, FoldersSeen, LockHeld, FoldersOfUser, Folders, States, Goto
<1>1. CASE FolderExists(p)  BY <1>1, ProcsAssumption DEF FolderExists
<1>2. CASE FoldersDone(p)   BY <1>2, ProcsAssumption DEF FoldersDone
<1>3. QED  BY <1>1, <1>2

LEMMA FolderMade ==
  ASSUME StartInv, NEW p \in Procs, CreateFolder(p)
  PROVE  StartInv'
  BY ProcsAssumption
  DEF StartInv, StartTypeOK, FoldersSeen, LockHeld, FoldersOfUser, Folders, States, Goto,
      CreateFolder

LEMMA LockAndAfter ==
  ASSUME StartInv, NEW p \in Procs,
         Lock(p) \/ Work(p) \/ Exit(p) \/ Crash(p) \/ Restart(p)
  PROVE  StartInv'
<1> USE DEF StartInv, StartTypeOK, FoldersSeen, LockHeld, FoldersOfUser, Folders, States, Goto
<1>1. CASE Lock(p)     BY <1>1, ProcsAssumption DEF Lock
<1>2. CASE Work(p)     BY <1>2, ProcsAssumption DEF Work
<1>3. CASE Exit(p)     BY <1>3, ProcsAssumption DEF Exit, Unlocked
<1>4. CASE Crash(p)    BY <1>4, ProcsAssumption DEF Crash, Unlocked, Ended
<1>5. CASE Restart(p)  BY <1>5, ProcsAssumption DEF Restart, Ended
<1>6. QED  BY <1>1, <1>2, <1>3, <1>4, <1>5

LEMMA StartNextInv == StartInv /\ [CliNext]_cliVars => StartInv'
<1> SUFFICES ASSUME StartInv, [CliNext]_cliVars PROVE StartInv'
  OBVIOUS
<1>1. CASE UNCHANGED startVars
  BY <1>1
  DEF startVars, StartInv, StartTypeOK, FoldersSeen, LockHeld, FoldersOfUser
<1>2. ASSUME NEW p \in Procs, StartStep(p) \/ Work(p) PROVE StartInv'
  BY <1>2, BeforeFolders, AtFolders, FolderMade, LockAndAfter DEF StartStep
<1>3. QED
  BY <1>1, <1>2 DEF CliNext, Starts, Command, Wipe, cliVars

\* StartInv holds in every reachable state: what a process has seen of the
\* folders before the lock is still so, and the lock is with whoever works.
THEOREM StartInvariant == CliSpec => []StartInv
<1>1. CliInit => StartInv  BY StartInitial DEF CliInit
<1>2. QED  BY <1>1, StartNextInv, PTL DEF CliSpec

\* However many processes run check_dirs (src/main.rs) at a time, and wherever
\* they die: the one that works has the lock and all of its folders.
THEOREM WorkersAreAlone == CliSpec => []WorksAloneInFolders
<1>1. StartInv => WorksAloneInFolders
  BY DEF StartInv, StartTypeOK, FoldersSeen, LockHeld, FoldersOfUser, Folders,
         WorksAloneInFolders
<1>2. QED  BY <1>1, StartInvariant, PTL

-----------------------------------------------------------------------------
(* Someone runs.  A process that is turned away leaves behind the one that *)
(* turned it away: the maker of its folder, or the holder of the lock.     *)
LEMMA StillInTheRunning ==
  ASSUME StartInv, SomeoneIsInTheRunning, NEW p \in Procs, StartStep(p) \/ Work(p)
  PROVE  SomeoneIsInTheRunning'
<1> USE DEF StartInv, StartTypeOK, FoldersSeen, LockHeld, FoldersOfUser, Folders, States, Goto,
            SomeoneIsInTheRunning, LostRace
<1>1. CASE FindMiq(p)       BY <1>1 DEF FindMiq
<1>2. CASE Confirm(p)       BY <1>2 DEF Confirm
<1>3. CASE Mkdir(p)         BY <1>3 DEF Mkdir
<1>4. CASE Chown(p)         BY <1>4 DEF Chown
<1>5. CASE FolderExists(p)  BY <1>5 DEF FolderExists
<1>6. CASE CreateFolder(p)  BY <1>6 DEF CreateFolder
<1>7. CASE FoldersDone(p)   BY <1>7 DEF FoldersDone
<1>8. CASE Lock(p)          BY <1>8, ProcsAssumption DEF Lock
<1>9. CASE Work(p)          BY <1>9 DEF Work
<1>10. CASE Exit(p)         BY <1>10 DEF Exit
<1>11. CASE Crash(p)        BY <1>11 DEF Crash
<1>12. CASE Restart(p)      BY <1>12 DEF Restart
<1>13. QED
  BY <1>1, <1>2, <1>3, <1>4, <1>5, <1>6, <1>7, <1>8, <1>9, <1>10, <1>11, <1>12 DEF StartStep

LEMMA RunningNext ==
  ASSUME StartInv, SomeoneIsInTheRunning, [CliNext]_cliVars
  PROVE  SomeoneIsInTheRunning'
<1>1. CASE UNCHANGED startVars
  BY <1>1 DEF startVars, SomeoneIsInTheRunning, LostRace
<1>2. ASSUME NEW p \in Procs, StartStep(p) \/ Work(p) PROVE SomeoneIsInTheRunning'
  BY <1>2, StillInTheRunning
<1>3. QED
  BY <1>1, <1>2 DEF CliNext, Starts, Command, Wipe, cliVars

\* However many processes race in check_dirs (src/main.rs), and wherever they
\* die: when all the others have been turned away, one has run.
THEOREM TheRaceIsWon == CliSpec => []SomeoneRuns
<1>1. CliInit => SomeoneIsInTheRunning
  BY DEF CliInit, StartInit, SomeoneIsInTheRunning
<1>2. StartInv /\ SomeoneIsInTheRunning /\ [CliNext]_cliVars => SomeoneIsInTheRunning'
  BY RunningNext
<1>3. SomeoneIsInTheRunning => SomeoneRuns
  BY DEF SomeoneIsInTheRunning, SomeoneRuns, LostRace
<1>4. QED  BY <1>1, <1>2, <1>3, StartInvariant, PTL DEF CliSpec

-----------------------------------------------------------------------------
(* The store under the lock: no step of another process comes between the  *)
(* removals of one `rm --all`, and what they are about stays as it was.    *)
LEMMA NobodyWipes ==
  ASSUME StartInv, WiperHasLock, NEW p \in Procs, at[p] = "run"
  PROVE  wiping = {} /\ lock = p
  BY DEF StartInv, LockHeld, WiperHasLock

LEMMA StartsKeepsPaths ==
  ASSUME StartInv, PathInv, WiperHasLock, NEW p \in Procs, Starts(p)
  PROVE  PathInv' /\ WiperHasLock'
<1>1. PathInv'
  BY StopKeepsPaths DEF Starts
<1>2. CASE lock = p /\ wiping # {}
  BY <1>1, <1>2 DEF Starts, WipeStops, WiperHasLock
<1>3. CASE wiping = {}
  BY <1>1, <1>3 DEF Starts, pathVars, WiperHasLock
<1>4. CASE lock # p /\ wiping # {}
  <2>1. wiping' = wiping /\ StartStep(p)
    BY <1>4 DEF Starts, pathVars
  <2>2. PICK q \in Procs : lock = q /\ at[q] = "exit" /\ q # p /\ q # NoProc
    BY <1>4, ProcsAssumption DEF WiperHasLock
  <2>3. lock' = lock
    BY <1>4, <2>1, <2>2
    DEF StartStep, FindMiq, Confirm, Mkdir, Chown, FolderExists, CreateFolder, FoldersDone,
        Lock, Exit, Crash, Restart, Unlocked
  <2>4. at'[q] = at[q]
    BY <2>1, <2>2
    DEF StartInv, StartTypeOK, StartStep, FindMiq, Confirm, Mkdir, Chown, FolderExists,
        CreateFolder, FoldersDone, Lock, Exit, Crash, Restart, Goto
  <2>5. QED
    BY <1>1, <2>2, <2>3, <2>4 DEF WiperHasLock
<1>5. QED
  BY <1>2, <1>3, <1>4

LEMMA CommandKeepsPaths ==
  ASSUME StartInv, PathInv, WiperHasLock, AllAbsolute, NEW p \in Procs, Command(p)
  PROVE  PathInv' /\ WiperHasLock'
<1>1. at[p] = "run" /\ wiping = {}
  BY NobodyWipes DEF Command, Work, Goto
<1>2. CASE \E loc \in StoreLocations : Build(loc)
  BY <1>1, <1>2, BuildKeepsPaths DEF Build, WiperHasLock
<1>3. CASE \E s \in Spellings : StoreAdd(s) \/ StoreIsPath(s)
  BY <1>1, <1>3, AddKeepsPaths DEF StoreAdd, StoreIsPath, WiperHasLock
<1>4. CASE \E s \in Spellings : StoreRemove(s)
  BY <1>1, <1>4, RemoveKeepsPaths DEF StoreRemove, WiperHasLock, AllAbsolute
<1>5. CASE UNCHANGED pathVars
  BY <1>1, <1>5, StopKeepsPaths DEF pathVars, WiperHasLock
<1>6. QED
  BY <1>2, <1>3, <1>4, <1>5 DEF Command, StoreCommand

LEMMA WipeKeepsPaths ==
  ASSUME StartInv, PathInv, WiperHasLock, NEW p \in Procs, Wipe(p)
  PROVE  PathInv' /\ WiperHasLock'
<1>1. CASE Work(p) /\ WipeStart
  <2>1. at[p] = "run" /\ at'[p] = "exit" /\ lock' = lock
    BY <1>1 DEF Work, Goto, StartInv, StartTypeOK
  <2>2. lock = p
    BY <2>1, NobodyWipes
  <2>3. QED
    BY <1>1, <2>1, <2>2, WipeStartKeepsPaths DEF WiperHasLock
<1>2. ASSUME NEW r \in wiping, WipeOne(r), UNCHANGED startVars
      PROVE  PathInv' /\ WiperHasLock'
  BY <1>2, WipeOneKeepsPaths DEF WiperHasLock, startVars
<1>3. QED
  BY <1>1, <1>2 DEF Wipe

LEMMA CliNextInv ==
  ASSUME AllAbsolute, CliInv, [CliNext]_cliVars
  PROVE  CliInv'
<1>1. StartInv'
  BY StartNextInv DEF CliInv
<1>2. SomeoneIsInTheRunning'
  BY RunningNext DEF CliInv
<1>3. CASE UNCHANGED cliVars
  BY <1>1, <1>2, <1>3, StopKeepsPaths DEF CliInv, cliVars, startVars, pathVars, WiperHasLock
<1>4. CASE CliNext
  BY <1>1, <1>2, <1>4, StartsKeepsPaths, CommandKeepsPaths, WipeKeepsPaths DEF CliInv, CliNext
<1>5. QED
  BY <1>3, <1>4

\* For every set of outputs, of links between them and of absolute paths,
\* however they are spelled, and any number of processes that may die between
\* two removals: CliInv holds in every reachable state.
THEOREM CliInvariant ==
  ASSUME AllAbsolute
  PROVE  CliSpec => []CliInv
<1>1. CliInit => CliInv
  <2>1. CliInit => SomeoneIsInTheRunning /\ WiperHasLock
    BY DEF CliInit, StartInit, PathInit, SomeoneIsInTheRunning, WiperHasLock
  <2>2. QED
    BY <2>1, StartInitial, PathInitial DEF CliInit, CliInv
<1>2. CliInv /\ [CliNext]_cliVars => CliInv'
  BY CliNextInv
<1>3. QED
  BY <1>1, <1>2, PTL DEF CliSpec

\* db::Args::main and clean_path (src/db.rs, src/build.rs): after an `rm` or an
\* `rm --all` that has succeeded, each path it was given is free for a builder,
\* or is a link that led nowhere.
THEOREM RemovedPathsAreFree ==
  ASSUME AllAbsolute
  PROVE  CliSpec => []RemovedIsGone
<1>1. CliInv => RemovedIsGone
  BY DEF CliInv, PathInv
<1>2. QED
  BY <1>1, CliInvariant, PTL

\* fix_dir_trailing_slash (src/db.rs): what a build has registered is found
\* under every absolute spelling without "..", of whatever length.
THEOREM SpellingsAgree ==
  ASSUME AllAbsolute
  PROVE  CliSpec => []AnswersAgree
<1>1. AnswersAgree
  BY AnswersAgreeAlways
<1>2. QED
  BY <1>1, PTL

\* remove_file and remove_dir_all (src/build.rs): `miq store` never changes
\* anything but at the paths that it was given; it goes through no link.
THEOREM LinksAreNotFollowed ==
  ASSUME AllAbsolute
  PROVE  CliSpec => OnlyNamedChanges
<1> DEFINE Step == last'.cmd # "build" =>
                      \A loc \in Locations : entry'[loc] # entry[loc] => loc \in last'.locs
<1>1. CliInv /\ [CliNext]_cliVars => [Step]_pathVars
  <2> SUFFICES ASSUME CliInv, CliNext, NEW loc \in Locations, entry'[loc] # entry[loc],
                      last'.cmd # "build"
               PROVE  loc \in last'.locs
    BY DEF cliVars
  <2>1. ~UNCHANGED pathVars
    BY DEF pathVars
  <2>2. StoreCommand \/ WipeStart \/ (\E r \in wiping : WipeOne(r)) \/ WipeStops
    BY <2>1 DEF CliNext, Starts, Command, Wipe
  <2>3. QED
    BY <2>2, OnlyNamed DEF CliInv
<1>2. QED
  BY <1>1, CliInvariant, PTL DEF CliSpec, OnlyNamedChanges
=============================================================================
