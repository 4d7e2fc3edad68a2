------------------------------ MODULE Evaluator ------------------------------
(***************************************************************************)
(* From a Lua program to the files under /miq/eval: the functions f, fetch *)
(* and package that miq gives to Lua (src/lua.rs, src/lua_fetch.rs,        *)
(* src/lua_package.rs, src/lua/f.lua) and Unit::write_to_disk              *)
(* (src/eval.rs).                                                          *)
(*                                                                         *)
(* A program is any sequence of calls; it uses the units and the texts     *)
(* that earlier calls have returned.  A text is seen through the units     *)
(* whose store path it contains, and the dependencies it carries along.    *)
(* The programs follow each other, under the lock of miq, and each may be  *)
(* cut short; the files stay.                                              *)
(***************************************************************************)
EXTENDS FiniteSets, Naturals

CONSTANTS
    Fetches,    \* the results (name and hash) of the fetches
    Packages,   \* the results of the packages
    NoUnit,     \* stands for no unit
    NoInput,    \* stands for the input of a package that was never made
    MaxTexts    \* a bound on the texts a program holds

Units == Fetches \cup Packages

ASSUME EvaluatorAssumption ==
    /\ IsFiniteSet(Units) /\ Fetches \cap Packages = {}
(* MetaTextInput: a plain string, when it has no dependencies, or a        *)
(* MetaText.                                                               *)
Texts == [value : SUBSET Units, deps : SUBSET Units]

Plain == [value |-> {}, deps |-> {}]

(* What a PackageInput says of units.  The texts of its env are taken      *)
(* together; its name, its version and the literal parts of its texts are  *)
(* left to what tells the results of packages apart, see Named.            *)
Inputs == [deps : SUBSET Units, script : Texts, env : Texts]

ASSUME BoundsAssumption ==
    /\ NoUnit \notin Units /\ NoInput \notin Inputs
    /\ MaxTexts \in Nat

VARIABLES
    proc,       \* "eval" while a program runs, else "none"
    held,       \* the units it has got from fetch and package
    texts,      \* the texts it has got from f
    writing,    \* the unit of the call of write_to_disk under way, or NoUnit
    result,     \* the unit that the last program was run for, if it ended well
    meaning,    \* what the input says that the result of a package is the hash of
    file        \* "torn" where a file exists that is not complete

evalVars == <<proc, held, texts, writing, result, meaning, file>>

EvalTypeOK ==
    /\ proc \in {"none", "eval"}
    /\ held \subseteq Units /\ texts \subseteq Texts
    /\ writing \in Units \cup {NoUnit}
    /\ result \in Units \cup {NoUnit}
    /\ meaning \in [Packages -> Inputs \cup {NoInput}]
    /\ file \in [Units -> {"absent", "torn", "whole"}]
    /\ proc = "none" => held = {} /\ texts = {} /\ writing = NoUnit

EvalInit ==
    /\ proc = "none" /\ held = {} /\ texts = {}
    /\ writing = NoUnit /\ result = NoUnit
    /\ meaning = [p \in Packages |-> NoInput]
    /\ file = [u \in Units |-> "absent"]
-----------------------------------------------------------------------------
(* miq.interpolate: a unit becomes its store path and one dependency; a    *)
(* MetaText and a string are taken as they are.  f puts the pieces in the  *)
(* place of its blocks, and passes all of their dependencies on.           *)
UnitText(u) == [value |-> {u}, deps |-> {u}]

Pieces == {UnitText(u) : u \in held} \cup texts

Joined(parts) ==
    [value |-> UNION {t.value : t \in parts},
     deps  |-> UNION {t.deps : t \in parts}]

\* The deps of the Package: those it lists, and those of its texts.
\* A mistake: the dependencies of the env are left out.
CollectedSansEnv(i) == i.deps \cup i.script.deps

Collected(i) == i.deps \cup i.script.deps \cup i.env.deps

DepsOf(u) ==
    IF u \in Packages /\ meaning[u] # NoInput THEN Collected(meaning[u]) ELSE {}

(* MiqResult::create hashes all of the input: collisions of the hash       *)
(* aside, a result stands for one input, and so for what it says of units. *)
(* Inputs that differ in their name or their literal text only say the     *)
(* same of units and have different results.                               *)
\* A mistake: the result is the name only, whatever the input is.
NamedAnyhow(p, i) == p \in Packages

Named(p, i) == meaning[p] \in {NoInput, i}
-----------------------------------------------------------------------------
StartEval ==
    /\ proc = "none"
    /\ proc' = "eval"
    /\ result' = NoUnit
    /\ UNCHANGED <<held, texts, writing, meaning, file>>

Idle == proc = "eval" /\ writing = NoUnit

FString ==
    /\ Idle
    /\ \E a, b \in Pieces : texts' = texts \cup {Joined({a, b})}
    /\ Cardinality(texts') <= MaxTexts
    /\ UNCHANGED <<proc, held, writing, result, meaning, file>>

Fetch(u) ==
    /\ Idle
    /\ u \in Fetches
    /\ writing' = u
    /\ UNCHANGED <<proc, held, texts, result, meaning, file>>

Package(p) ==
    /\ Idle
    /\ \E deps \in SUBSET held, script, env \in texts \cup {Plain} :
          LET i == [deps |-> deps, script |-> script, env |-> env]
          IN  Named(p, i) /\ meaning' = [meaning EXCEPT ![p] = i]
    /\ writing' = p
    /\ UNCHANGED <<proc, held, texts, result, file>>

(* write_to_disk opens the file without truncating it: where a complete    *)
(* file is, the same bytes are written over it and it is complete all the  *)
(* time.  A unit is returned to the program only when it is written.       *)
\* A mistake: the file is truncated.
WriteTruncates(u) ==
    /\ writing = u
    /\ file[u] # "torn"
    /\ file' = [file EXCEPT ![u] = "torn"]
    /\ UNCHANGED <<proc, held, texts, writing, result, meaning>>

WriteStarts(u) ==
    /\ writing = u
    /\ file[u] = "absent"
    /\ file' = [file EXCEPT ![u] = "torn"]
    /\ UNCHANGED <<proc, held, texts, writing, result, meaning>>

WriteEnds(u) ==
    /\ writing = u
    /\ file[u] # "absent"
    /\ file' = [file EXCEPT ![u] = "whole"]
    /\ held' = held \cup {u}
    /\ writing' = NoUnit
    /\ UNCHANGED <<proc, texts, result, meaning>>

\* A mistake: the error is dropped and the unit is returned all the same.
WriteErrorDropped(u) ==
    /\ writing = u
    /\ writing' = NoUnit
    /\ held' = held \cup {u}
    /\ UNCHANGED <<proc, texts, result, meaning, file>>

\* The panic of expect ends the program, unless it goes on behind a pcall.
WriteFails(u) ==
    /\ writing = u
    /\ writing' = NoUnit
    /\ UNCHANGED <<proc, held, texts, result, meaning, file>>

(* LuaRef::ref_to_unit: the program has returned its table, and the        *)
(* element asked for is a unit.                                            *)
EvalEnds(u) ==
    /\ Idle
    /\ u \in held
    /\ result' = u
    /\ proc' = "none" /\ held' = {} /\ texts' = {}
    /\ UNCHANGED <<writing, meaning, file>>

(* An error of the program, or an interrupt at any point.                  *)
EvalAborted ==
    /\ proc = "eval"
    /\ proc' = "none" /\ held' = {} /\ texts' = {} /\ writing' = NoUnit
    /\ UNCHANGED <<result, meaning, file>>

EvalNext ==
    \/ StartEval \/ FString \/ EvalAborted
    \/ \E u \in Units :
          \/ Fetch(u) \/ WriteStarts(u) \/ WriteEnds(u) \/ WriteFails(u) \/ EvalEnds(u)
    \/ \E p \in Packages : Package(p)

EvalSpec == EvalInit /\ [][EvalNext]_evalVars
-----------------------------------------------------------------------------
(* Properties.                                                             *)

Reach(u) ==
    {v \in Units : \A S \in SUBSET Units :
                      u \in S /\ (\A w \in S : DepsOf(w) \subseteq S) => v \in S}

\* What a unit file refers to is there: whatever is interrupted, and whatever is
\* evaluated again over existing files, a complete file names complete files.
ClosedOnDisk ==
    \A u \in Units : file[u] = "whole" => \A d \in DepsOf(u) : file[d] = "whole"

\* A package whose script or env contains the store path of a unit has that unit
\* among its deps, through any nesting of f in f (doc/_impl_lua.tex:146).
PathsTracked ==
    \A p \in Packages : meaning[p] # NoInput =>
        meaning[p].script.value \cup meaning[p].env.value \subseteq DepsOf(p)

\* No program makes units that depend on each other, since a result is the hash
\* of results: the cycles that dag refuses are in files edited by hand.
NoCycleOnDisk == \A u \in Units : \A d \in DepsOf(u) : u \notin Reach(d)

\* A complete file is complete for ever, while it is written again, and after
\* an interrupt or an error in the middle of it.
WholeStaysWhole ==
    [][\A u \in Units : file[u] = "whole" => file'[u] = "whole"]_evalVars

(* The inductive invariant behind these.  What a program holds is written, *)
(* what it passes on is what it holds, and a result is named for units     *)
(* that were there before it.                                              *)
Known == Fetches \cup {p \in Packages : meaning[p] # NoInput}

HeldIsWritten == \A u \in held : file[u] = "whole"

TextsTracked == \A t \in texts : t.value \subseteq t.deps /\ t.deps \subseteq held

WritingIsNamed == writing # NoUnit => writing \in Known /\ DepsOf(writing) \subseteq held

FilesAreNamed == \A u \in Units : file[u] # "absent" => u \in Known

NamedAfterDeps == \A u \in Known : DepsOf(u) \subseteq Known

EvalInv ==
    /\ EvalTypeOK /\ HeldIsWritten /\ TextsTracked /\ WritingIsNamed
    /\ FilesAreNamed /\ NamedAfterDeps
    /\ ClosedOnDisk /\ PathsTracked /\ NoCycleOnDisk
=============================================================================
