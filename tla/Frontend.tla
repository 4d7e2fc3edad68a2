------------------------------- MODULE Frontend -------------------------------
(***************************************************************************)
(* How `miq build` and `miq eval` come from a UnitRef to a dag             *)
(* (src/eval.rs, src/build.rs): ref_to_unit runs a Lua program or reads    *)
(* one unit file, and dag then works on what is under /miq/eval by that    *)
(* time.  Commands follow each other under the lock of miq; dag only       *)
(* reads, so its interruption leaves nothing behind and is left out.       *)
(***************************************************************************)
EXTENDS Evaluator, DagBuild

CONSTANT Folders    \* contents of /miq/eval that no program has written

ASSUME FrontAssumption ==
    /\ Units \subseteq Names
    /\ Folders \subseteq
          [root : Names, deps : [Names -> SUBSET Names], missing : SUBSET Names]

VARIABLE ref        \* the UnitRef of the command: "lua", "file", or none;
                    \* "hand" for a file of a folder written by hand

frontVars == <<evalVars, dagVars, ref>>

FrontInit == EvalInit /\ DagInit /\ ref = "none"
-----------------------------------------------------------------------------
Written == {u \in Units : file[u] = "whole"}

(* What Unit::from_result finds.                                           *)
DagOnDisk(u) ==
    DagStart(u, [n \in Names |-> IF n \in Written THEN DepsOf(n) ELSE {}], Names \ Written)

LuaRef ==
    /\ ref = "none" /\ ref' = "lua"
    /\ StartEval
    /\ UNCHANGED dagVars

LuaRuns == proc = "eval" /\ EvalNext /\ UNCHANGED <<dagVars, ref>>

LuaToDag ==
    /\ ref = "lua" /\ proc = "none" /\ phase = "idle"
    /\ result # NoUnit /\ DagOnDisk(result)
    /\ UNCHANGED <<evalVars, ref>>

(* UnitRef::Serialized: a file that cannot be read ends the command.       *)
FileRef(u) ==
    /\ ref = "none" /\ ref' = "file"
    /\ u \in Written /\ DagOnDisk(u)
    /\ UNCHANGED evalVars

HandRef ==
    /\ ref = "none" /\ ref' = "hand"
    /\ \A u \in Units : file[u] = "absent"
    /\ \E f \in Folders : DagStart(f.root, f.deps, f.missing)
    /\ UNCHANGED evalVars

DagGoes == DagStep /\ UNCHANGED <<evalVars, ref>>

FrontEnds ==
    /\ \/ phase \in {"ok", "err"}
       \/ ref = "lua" /\ proc = "none" /\ result = NoUnit
    /\ ref' = "none" /\ result' = NoUnit
    /\ DagExit
    /\ UNCHANGED <<proc, held, texts, writing, meaning, file>>

FrontNext ==
    \/ LuaRef \/ LuaRuns \/ LuaToDag \/ HandRef
    \/ \E u \in Units : FileRef(u)
    \/ DagGoes \/ FrontEnds

FrontSpec == FrontInit /\ [][FrontNext]_frontVars /\ WF_frontVars(DagGoes)
-----------------------------------------------------------------------------
(* Properties.                                                             *)

\* What a program has evaluated can be built: dag refuses neither the result of
\* a program nor a unit file that any program has completed, whatever has been
\* interrupted or has failed in this program and in those before.
EvaluatedIsBuildable == ref \in {"lua", "file"} => phase # "err"

(* Why: the result of a program is written, and the files that dag reads   *)
(* from there are closed and acyclic; see EvalInv and DagInv.              *)
ResultIsWritten == result # NoUnit => result \in Written

DagIsOfProgram == ref \in {"lua", "file"} /\ phase # "idle" => Acyclic /\ Readable

FrontInv ==
    /\ EvalInv /\ DagInv
    /\ ResultIsWritten /\ DagIsOfProgram
    /\ ref = "none" => phase = "idle"
=============================================================================
