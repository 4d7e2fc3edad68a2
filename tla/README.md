# A TLA+ model of miq

miq is a package manager: it evaluates a Lua program into *units* (packages and
fetches), arranges a unit and all it depends on in a graph, builds the units of
the graph in parallel into `/miq/store`, and records in a sqlite database which
paths are built. This directory models the parts of it that decide whether the
store can be trusted, model-checks them with TLC, and proves the main results
for every graph with TLAPS. Paths below are relative to the repository.

## 1. Inventory

| part | source | state | operations | what is hard |
|---|---|---|---|---|
| scheduler of `miq build` | `src/build.rs` | map `build_tasks`, sentry, the set of futures | scan, spawn, drain, fail | tasks end while the scan runs; a limit counted anew for each node; the loop must end |
| tasks of units | `src/build_package.rs`, `src/build_fetch.rs` | none of their own: store path, log, row | query, remove, clean, launch, follow, check, register | any step may fail; a drop at an `await`; processes that survive |
| store database | `src/db.rs` | table `store`, files under `/miq/store` | add, remove, is_db_path, list | files and rows are not written together |
| process | `src/main.rs` | `/miq/lock`, directories | check_dirs, lock, dispatch | crashes between any two steps; builders that outlive miq |
| dag | `src/eval.rs` (`dag`, `add_children_recursive`) | graph with `visited` marks | walk | recursion over shared units, cycles, unreadable files |
| unit files | `src/eval.rs` (`write_to_disk`, `from_result`, `MiqResult::create`) | `/miq/eval/*.toml` | write, read, name | partial writes, rewriting over an existing file |
| Lua evaluator | `src/lua*.rs`, `src/lua/f.lua` | values of the program | fetch, package, f, interpolate | dependencies must travel with the texts |
| eval command, schema, busybox, memfds | `src/eval.rs`, `src/schema_eval.rs`, `src/busybox.rs`, `src/mem_app.rs` | none that lasts | print | pure output or tables |
| semaphore | `src/semaphore.rs` | | | compiled out with `#[cfg(no)]` |

How they interact: a command starts (`check_dirs`, then the lock), evaluates a
`UnitRef` (Lua program or unit file), lets `dag` read the unit files, and gives
the graph to the scheduler. The scheduler spawns one tokio task for each unit;
tasks share the database behind one `Mutex` and nothing else; the main future
alone updates `build_tasks`. `miq store` uses the database and the files
directly. The lock keeps two miqs apart, but not a miq and the builders that an
earlier one lost, and not two miqs in `check_dirs`.

## 2. Modules

| module | models | role |
|---|---|---|
| `UnitGraph` | what `dag` returns | constants and their assumption |
| `BuildPlan` | what a parallel build promises | abstract specification |
| `BuildLoop` | `build::Args::_main` | scheduler |
| `Store` | `DbConnection`, `clean_path` | rows and contents of store paths |
| `BuildJob` | `Package::build`, `Fetch::build` | tasks; extends `BuildLoop` and `Store` |
| `Miq` | `main`, `db::Args::main` | commands, faults; extends `BuildJob` |
| `Evaluator` | fetch, package, f, `write_to_disk` | from programs to unit files |
| `DagBuild` | `dag`, `add_children_recursive` | the walk that makes the graph |
| `Frontend` | `UnitRef`, `eval::Args::main` | from a `UnitRef` to a dag; extends `Evaluator` and `DagBuild` |
| `Startup` | `check_dirs`, the lock in `main` | processes that start |
| `StorePaths` | `db::Args::main`, `fix_dir_trailing_slash`, `clean_path` | the paths `miq store` is given, and what may be there |
| `Cli` | `main` | extends `Startup` and `StorePaths` |
| `MCBuildLoop`, `MCMiq`, `MCFrontend`, `MCCli` | | instances for TLC |
| `BuildLoopProofs`, `SentryProofs`, `MiqProofs`, `EvaluatorProofs`, `DagProofs`, `FrontendProofs`, `PathProofs`, `CliProofs` | | theorems |

Three compositions, then: `Miq` (commands, scheduler, tasks, store), `Frontend`
(programs, unit files, dag) and `Cli` (processes, lock, paths). They meet at
`UnitGraph`, whose assumption is what `Frontend` establishes (section 4), and at
the lock, which `Cli` shows to be held by one process and `Miq` relies on.

**BuildLoop.** `tasks` is `build_tasks` ("None": no entry), `node` the position
in the `for` loop, `sentry` the counter, `pc` the place in `_main`; `job` is the
tokio task of a unit, from spawned to collected. The three ways through the body
of the `for` loop are `SkipNode`, `SpawnNode`, `DeferNode`; the `ensure!` is
`SentryTrips`. Each `try_next` that yields is `Collect`, `CollectError` or, if
`bars.println` fails, `CollectUnprinted`. After an error `_main` is left, the
runtime is dropped and waits for the tasks: `teardown`, `RuntimeDropped`. Tasks
return, raise (an error or a panic) and are cancelled at any moment.

**Store.** A path is seen through who wrote what is there: nothing ("absent"),
the builder that runs now ("fresh"), one builder that succeeded ("whole"), or
anything else ("junk"). `remove` is four actions, because the files go before
the row and a tree goes piece by piece; `removing` is the held mutex.

**BuildJob.** One `stage` for each stretch of a task between two places where
another actor may act or the task may fail or be dropped: `query` (is_db_path),
`remove` and `unregister` (the second `lock()` and what it guards), `clean`,
`launch` (spawn of the builder, or request and `File::create`), `running`,
`check` (try_exists), `register`. The sandbox is set up in the forked child,
and `spawn` fails when that does (`LaunchFails`).
`Cancel` is possible only where the code awaits.

**Miq.** `proc` is the command that holds the lock. When it is gone nothing but
the store is left (`ProcessGone`), and builders in `orphans`: after a kill of
miq alone, or processes of a script that `kill_on_drop` does not reach, or that
a script with exit status 0 has left in the background (`Strays`).
`--all-packages` is modelled as the code has it: accepted, then an error.
`suspect` is a history variable and has no counterpart in the code: it holds the
units whose path the protocol does not control at the moment (`Watch`), because
a lost builder still writes there, because a removal stopped between the files
and the row, or because something incomplete was registered by hand; a unit
leaves it when its path is empty and has no row. It says to what the damage of a
fault is confined, so that the properties hold under all faults.

**Evaluator.** A program is any sequence of calls on values it has. A text is
the set of units whose path it contains and the set it carries as `deps`.
`meaning` is what the input says of units whose hash a result is: hashes do not
collide. Names and literal text are not in it; inputs that differ in nothing else
have different results with the same meaning. The file
is opened without truncation, so a rewrite puts the same bytes over a complete
file. Programs take the values of `fetch`, `package` and `f` as they are; one
that reads the `script` of a unit back as a string loses the dependencies and
is not modelled.

**DagBuild.** The recursion is an explicit stack; `Call` records the `visited`
flag that the code copies on entry. What the files contain is fixed when the
walk starts (`DagStart`), since the lock keeps other miqs away.

**Frontend.** `ref` is the kind of the command's `UnitRef`. A Lua program runs
as in `Evaluator` and `dag` starts from its result; a file under `/miq/eval` is
read as it is, left there by programs of any earlier command or written by hand
(`HandRef`, with every small graph). `dag` reads what is on disk: a file that is
absent or cut is one that `from_result` refuses.

**Startup.** `at` is the place of each process in `check_dirs` and `main`,
`owner` that of `/miq`. `sudo mkdir` and `sudo chown` are run without a look at
their exit status, so each may have done nothing. The lock is not waited for,
and the kernel releases it when a process is gone. Any process may die anywhere.

**StorePaths.** A path is spelled as the sequence of what stands between its
slashes; `Location` is where the kernel comes to, `Fixed` what
`fix_dir_trailing_slash` makes of it, and rows are compared as texts. At a
location is nothing, a file (or a directory, which is treated alike), a link, or
something else. `Metadata` follows links as `fs::metadata` does, removal does
not. Each removal is one step here; its parts are in `Store`. In `Cli` a process
works only between taking the lock and leaving.

## 3. Runs

| run | instance | what it shows |
|---|---|---|
| `loop_parallel` | 6 units, 2 jobs, sentry 23 | `DepsFirst`, `JobLimit`, `SuccessMeansAllBuilt`, `NoSpuriousAbort`, the invariants `LoopInv` and `ProgressInv`, that the loop implements `BuildPlan`, and `Termination` |
| `loop_zero_jobs` | 3 units, `-j 0`, sentry 1000 | the sentry ends a build that can never start a package; `StepsRunOut` bounds the steps |
| `miq_commands` | diamond; build with each flag, rm, rm --all, add; failing builders, calls and removals, interrupts | the store can be trusted, suspect units apart, and `--rebuild` and `--rebuild-all` repair those they are about (`RebuildHeals`) |
| `miq_faults` | package and fetch under a root; all commands, all faults | the same with builders that outlive miq; commands end and leave nothing behind; `OnlyRemovalOrOrphansMutate` |
| `frontend` | a fetch and two packages, 2 texts; by hand all graphs of 3 units and all acyclic ones of 4, any of the files unreadable | unit files are closed, acyclic and never damaged, texts carry dependencies, what is evaluated can be built; the walk ends, in one pass, with the closure or the error it should be |
| `cli` | two processes, two outputs, a file of the user, five absolute spellings | no command works without the lock and its folders, the race in `check_dirs` never stops everyone, `CliInv` is an invariant, `miq store` changes what it was told to and finds what builds have registered |
| `loop_sentry` | chain of 32 packages, sentry 1000 | violation of `NoSpuriousAbort` |
| `loop_eager` | as loop_parallel | violation of `StartedWhenReady` |
| `miq_torn_removal` | diamond; rebuild interrupted | violation of `RowsAreWhole` |
| `miq_stray` | diamond; a failing builder | violation of `ErrorStopsTasks` |
| `miq_all_packages` | diamond | violation of `AllPackagesRemoved` |
| `cli_relative` | as cli, with relative paths | violation of `OnlyNamedChanges` |

The properties of the store: `RegisteredIsWhole` (a row means a complete
output), `SuccessMeansAvailable` (success means that everything is there),
`ScriptSeesDeps` (dependencies are there while a script runs), `DepsEnterFirst`
(a unit enters the store after its dependencies), each for the units that are
not suspect; and that suspicion is not for ever (`RebuildHeals`).

**The disagreements.**
*loop_sentry*: the sentry counts all visits of all waves, so a deep graph is
aborted although nothing is wrong (32 waves of 32 units are 1024 visits).
*loop_eager*: the wave is drained before the next scan; the documentation has a
unit start as soon as its last dependency is built.
*miq_torn_removal*: `remove` deletes the files and then the row; interrupted in
between it leaves a row that later builds believe.
*miq_stray*: only bash is killed when a task is dropped.
*miq_all_packages*: the flag is never matched.
*cli_relative*: `fix_dir_trailing_slash` pushes the components on `/`, so that
`store rm a` removes `/a` wherever it is called.
Not run, being text only: `doc/_annex.tex:283` gives 1 as the default of
`--jobs`; the code, and its own help text, take the number of cpus.
Without a run of its own, but reachable in `cli`: a build may leave something
that is neither a file nor a directory and is registered; `clean_path` fails for
it, and since `rm --all` ends with the first error, the store cannot be wiped
from then on, as `src/db.rs:52` and `doc/_annex.tex:356` promise.

**Bounds and why they are enough.** The tree of `loop_parallel` has three
packages that become ready together, one more than there are jobs, over fetches
that they share, in the order in which `dag` numbers them, so that a dependency
may come before or after its dependents in a scan; four waves happen, and 23 is
the least sentry that admits them. The diamond has two packages that run side by
side on a shared unit below one that needs both: the smallest graph in which a
unit has two dependents and two dependencies. `miq_faults` uses a root over a
package and a fetch: both kinds of task run concurrently and share the mutex.
`frontend` has chains and nesting: two packages, one over the other, over a
fetch; `MaxTexts` bounds the texts a program holds at a time; among the graphs
written by hand is the diamond with a tail, where a shared unit with children
is walked twice. Files are by hand only while no program has written any, which
keeps the two sources of files apart. `cli` has the least number of processes
that can race and of outputs that can be links to each other; processes are
interchangeable (`ProcSymmetry`), and no liveness is checked there. Numbers of
commands, crashes and retries are unbounded in all runs.

**Fairness.** `LoopFairness`: the runtime polls the main future, and every
builder ends; the second is an assumption about scripts and servers, for miq
has no timeout. `MiqFairness`: the same, for each task and for the process; no
strong fairness is assumed of the mutex, since there are finitely many users
of it in a command. Faults are never fair. `FrontSpec`: a walk that has begun
goes on (`DagGoes`); programs need not end. `CliSpec` has none: a user may
leave a process at the question for ever. Deadlock is checked in every run;
where a component is done, `Stopped` says so.

## 4. Proofs

`BuildLoopProofs`, for every finite graph, limit and sentry: `LoopInv` is
inductive (`LoopInvariant`); it gives `DepsBeforeDependents`, `JobsWithinLimit`,
`SuccessIsComplete`, and under it each step maps to a step of `BuildPlan` or a
stutter (`SchedulerImplementsPlan`). None of the four properties is inductive:
`DepsFirst` needs `TaskIsJob` (what the map says of a unit agrees with its
task), the limit needs the count over the map rather than over the tasks, and
success needs `EntriesSeen` (after a scan every node has an entry) and
`WaveBarrier` (no task outlives its wave).

`SentryProofs`, about the sentry of the same loop. `EveryWaveStarts`: in an
acyclic graph and with `--jobs` above 0, `ProgressInv` is inductive relative to
`LoopInv`. Where a scan starts, some unit has all its dependencies built; until
something is building, the scan has such a unit before it, because a unit is
deferred only for a dependency or for a package that is building. So the visits
are at most one scan for each unit that was started. `SentryNeverAborts`: with a
sentry that allows the square of the number of units (`RoomForAll`), a build
fails only when a builder or the console does. For the code's 1000 that is any
graph of up to 31 units; a chain of 32 is what `loop_sentry` aborts, so the
bound is exact. That the graph has no cycle is a hypothesis here and is what
`GraphIsAsAssumed` shows of `dag`'s result. `SchedulerRunsOutOfSteps` needs none
of this: for any graph, any `--jobs`, 0 included, and any sentry, each step
lowers `StepsLeft`, a number. With it `Termination` rests on nothing but that
steps which can be taken are taken.

`MiqProofs`, for every graph, every set of commands and every set of faults:
`StoreInv` together with `LoopInv` is inductive (`StoreInvariant`). Per unit it
says that a task has a stage only while its job runs, that a unit under
construction has no row, what its stage implies for its path, that a held mutex
belongs to a removal under way, that a row means a complete output, that a
returned job left its unit available, and why a unit may be suspect. A step of a
task touches its own unit (`Apart`) and re-establishes these for it (`Own`), so
the argument is about one unit at a time. From it follow `NothingIsLeftHeld`,
`RegisteredPathsAreWhole`, `ScriptsSeeTheirDependencies`,
`SuccessIsAvailability`, `DependenciesEnterFirst`, `StoreIsImmutable` and
`RebuildRepairs`. The last of the store's theorems is without suspicion:
`CompleteRemovalsKeepRowsWhole` assumes `RemovalsComplete` (builders do not
survive miq, no path is added by hand, removals do not fail, and if miq may be
interrupted then nothing is removed) and shows that `suspect` then stays empty
and every row is whole. Each part is needed: `miq_torn_removal` shows the last,
`miq_stray` how the first fails in the code, `add` registers anything, and a
failed removal leaves a row as an interrupted one does.

`EvaluatorProofs`, for any units and texts: `EvalInv` is inductive. What makes
`ClosedOnDisk` so is that a program holds only units that are written
(`HeldIsWritten`) and that what it is about to write depends on what it holds;
`NoCycleOnDisk` needs that a name is given after the names it contains
(`NamedAfterDeps`, `NewResultClosesNoCycle`).

`DagProofs`, for any unit files and any root: `DagInv` is inductive. It says that
nodes and edges are without repetition and belong to the closure of the root,
that the edges have no cycle, that below a visited unit all is visited and
linked, and that the calls under way form a path of the dag which contains every
node that is not visited. The last part decides the cases: a dependency that is
a node already is visited, or on the path and then its edge would close a cycle
(`FoundIsVisited`). It follows that one walk is enough (`OneWalkIsEnough`), that
the recursion is bounded (`RecursionIsBounded`), that the result is the closure
(`ClosureIsFound`), that errors have a reason and results none
(`VerdictIsSound`), and that the result is as the scheduler's proofs assume
(`GraphIsAsAssumed`: `DagResult` and `GraphAcyclic` of `UnitGraph`, with the
dag's nodes and edges in the place of its constants; in a set of units without a
cycle, the one that leads to the fewest of them needs none of them).

`FrontendProofs` composes the two: `FrontInv` is `EvalInv`, `DagInv` and that a
walk over what programs have left is over an acyclic graph with nothing missing;
hence `WhatIsEvaluatedCanBeBuilt`. Together with the above, what a Lua program
evaluates is built in the order of its dependencies and only then reported.

`PathProofs`, for paths of any length: what `Walk`, `NamesOf` and `Ends` compute
is found by induction over the length (`Induction`, from the library's fact that
the natural numbers are well-founded; `StepByStep` and `StepsStayIn`, that a
function defined step by step exists and stays in its set). A path without its
empty segments and dots leads to the same place (`NamesLeadThere`); without ".."
it spells that place (`FixedIsCanonical`); and a link that leads nowhere still
does when something is removed (`NowhereStays`). Then one lemma for each command
of `miq store`, that it preserves `PathInv`.

`CliProofs`, for any number of processes: `StartInv` is inductive
(`StartInvariant`). Folders are never removed, so what was seen before the lock
holds after it (`WorkersAreAlone`). For `SomeoneRuns` the invariant is
`SomeoneIsInTheRunning`: some process has neither been turned away nor lost the
race for the folder it is about to create. The one that made a folder, or that
holds the lock, is left when it turns others away (`TheRaceIsWon`).
`CliInvariant` adds the store, for any outputs, any links between them and any
absolute spellings (`AllAbsolute`; with relative ones the code breaks the
properties, as `cli_relative` shows). While `rm --all` is under way, each of the
paths it is about is free or has its row yet to come (`WipeGoesOn`), and no
other command comes between (`WiperHasLock`). From it `RemovedPathsAreFree` and
`LinksAreNotFollowed`; `SpellingsAgree` is about `Fixed` alone.

TLC evaluates the assumptions on constants (`GraphAssumption`,
`JobsAssumption`, `NoUnitAssumption`, `FaultsAssumption`, `CommandsAssumption`,
`DagAssumption`, `EvaluatorAssumption`, `BoundsAssumption`, `FrontAssumption`,
`ProcsAssumption`, `PathsAssumption`) in the runs. `PathsAssumption` says that
a store path has no "..", "." or empty segment, which is how
`MiqResult::store_path` makes it, and that what the user names is one of
finitely many locations.

Only model-checked: liveness (`Termination`, `CommandEnds`, `DagTermination`),
which is out of reach of the prover. Every other property of a passing run is a
theorem; `NoSpuriousAbort` under `RoomForAll`, where the run has the least
sentry that its graph needs.

## 5. Not modelled

Progress bars and logs; dot output; the JSON schema; the two memfds; command
line parsing; the migration; namespaces and mounts. Loss of power: files are not
synced before their rows. What two results of one hash, or two unit files of one
result, would do. The bytes of unit files: the tail that a file keeps when it is
written over by a shorter one, and a file that is cut and still parses, would
need the grammar of TOML. The scopes of Lua, in which `f` looks names up. The
semaphore, which is compiled out.

## 6. What would come next

Versions of the unit format with the bytes of a file reduced to a few pieces;
step bounds as in `StepsRunOut` for the walk of `dag` and for a command of
`Miq`; `Miq` over the store of `StorePaths`, with links at the paths that tasks
clean and write.
