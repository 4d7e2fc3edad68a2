---------------------------- MODULE FrontendProofs ----------------------------
(***************************************************************************)
(* From a Lua program to a dag, for every program, every set of units and  *)
(* every content of /miq/eval: what has been evaluated can be built.       *)
(***************************************************************************)
EXTENDS Frontend, EvaluatorProofs, DagProofs

(* The files that programs have completed, read from one of them, give an  *)
(* acyclic graph with nothing missing.                                     *)
LEMMA FilesAreADag ==
  ASSUME EvalInv, NEW u \in Written, DagOnDisk(u)
  PROVE  (Acyclic /\ Readable)'
<1> DEFINE D == [n \in Names |-> IF n \in Written THEN DepsOf(n) ELSE {}]
           E == {e \in Names \X Names : e[2] \in D[e[1]]}
<1>1. Written \subseteq Units /\ Units \subseteq Names
  BY FrontAssumption DEF Written
<1>2. \A w \in Written : DepsOf(w) \subseteq Written
  <2>1. \A w : DepsOf(w) \subseteq Units
    BY DEF EvalInv, EvalTypeOK, DepsOf, Collected, Inputs, Texts
  <2>2. QED  BY <2>1 DEF EvalInv, ClosedOnDisk, Written
<1>3. root' = u /\ deps' = D /\ missing' = Names \ Written
  BY DEF DagOnDisk, DagStart
<1>4. DepEdges' = E
  BY <1>3 DEF DepEdges
<1>5. ClosedUnder(E, Written)
  BY <1>1, <1>2 DEF ClosedUnder
<1>6. \A v \in Names : Leads(E, u, v) => v \in Written
  BY <1>1, <1>5 DEF Leads
<1>7. Closure' \subseteq Written
  BY <1>3, <1>4, <1>6 DEF Closure
<1>8. Readable'
  BY <1>3, <1>7 DEF Readable
<1>9. ASSUME NEW v \in Written, NEW d \in D[v] PROVE ~Leads(E, d, v)
  <2>1. v \in Units /\ d \in DepsOf(v)
    BY <1>1, <1>9
  <2>2. v \notin Reach(d)
    BY <2>1 DEF EvalInv, NoCycleOnDisk
  <2>3. PICK S \in SUBSET Units : /\ d \in S /\ v \notin S
                                  /\ \A w \in S : DepsOf(w) \subseteq S
    BY <2>1, <2>2 DEF Reach
  <2>4. ClosedUnder(E, S)
    BY <2>3 DEF ClosedUnder
  <2>5. QED  BY <1>1, <2>3, <2>4 DEF Leads
<1>10. Acyclic'
  BY <1>3, <1>4, <1>7, <1>9 DEF Acyclic
<1>11. QED  BY <1>8, <1>10

LEMMA FrontInitial == FrontInit => FrontInv
BY EvalInitial, DagInitial
DEF FrontInit, FrontInv, EvalInit, DagInit, ResultIsWritten, DagIsOfProgram

(* The parts that a step leaves alone.                                     *)
LEMMA SameEval ==
  ASSUME EvalInv, ResultIsWritten, UNCHANGED evalVars
  PROVE  EvalInv' /\ ResultIsWritten'
<1>1. EvalInv'
  BY EvalNextInv
<1>2. QED  BY <1>1 DEF evalVars, ResultIsWritten, Written

LEMMA SameFiles ==
  ASSUME UNCHANGED <<root, deps, missing>>
  PROVE  (Acyclic /\ Readable)' = (Acyclic /\ Readable)
BY DEF Acyclic, Readable, Closure, DepEdges

LEMMA SameDag ==
  ASSUME DagInv, UNCHANGED dagVars
  PROVE  DagInv' /\ phase' = phase /\ (Acyclic /\ Readable)' = (Acyclic /\ Readable)
<1>1. DagInv'
  BY DagNextInv
<1>2. QED  BY <1>1, SameFiles DEF dagVars

LEMMA ProgramGoes ==
  ASSUME FrontInv, EvalNext, UNCHANGED dagVars, ref' = ref \/ (ref = "none" /\ ref' = "lua")
  PROVE  FrontInv'
<1>1. EvalInv'
  BY EvalNextInv DEF FrontInv
<1>2. DagInv' /\ phase' = phase /\ (Acyclic /\ Readable)' = (Acyclic /\ Readable)
  BY SameDag DEF FrontInv
<1>3. ResultIsWritten'
  BY BoundsAssumption
  DEF FrontInv, EvalInv, EvalTypeOK, HeldIsWritten, ResultIsWritten, Written, EvalNext, StartEval,
      FString, EvalAborted, Fetch, Package, WriteStarts, WriteEnds, WriteFails, EvalEnds, Idle
<1>4. QED  BY <1>1, <1>2, <1>3 DEF FrontInv, DagIsOfProgram

LEMMA DagBegins ==
  ASSUME FrontInv, UNCHANGED evalVars, NEW u \in Written, DagOnDisk(u), ref' \in {"lua", "file"}
  PROVE  FrontInv'
<1>1. EvalInv' /\ ResultIsWritten'
  BY SameEval DEF FrontInv
<1>2. (Acyclic /\ Readable)'
  BY FilesAreADag DEF FrontInv
<1>3. u \in Names /\ Units \subseteq Names
  BY FrontAssumption DEF Written
<1>4. \A n : DepsOf(n) \subseteq Units
  BY DEF FrontInv, EvalInv, EvalTypeOK, DepsOf, Collected, Inputs, Texts
<1>5. [n \in Names |-> IF n \in Written THEN DepsOf(n) ELSE {}] \in [Names -> SUBSET Names]
  BY <1>3, <1>4
<1>6. Names \ Written \in SUBSET Names
  OBVIOUS
<1>7. DagInv'
  BY <1>3, <1>5, <1>6, StartStep DEF FrontInv, DagOnDisk
<1>8. QED  BY <1>1, <1>2, <1>7 DEF FrontInv, DagIsOfProgram

LEMMA FrontNextInv == FrontInv /\ [FrontNext]_frontVars => FrontInv'
<1> SUFFICES ASSUME FrontInv, [FrontNext]_frontVars PROVE FrontInv'
  OBVIOUS
<1>1. CASE LuaRef
  BY <1>1, ProgramGoes DEF LuaRef, EvalNext
<1>2. CASE LuaRuns
  BY <1>2, ProgramGoes DEF LuaRuns
<1>3. CASE LuaToDag
  BY <1>3, DagBegins DEF LuaToDag, FrontInv, ResultIsWritten
<1>4. ASSUME NEW u \in Units, FileRef(u) PROVE FrontInv'
  BY <1>4, DagBegins DEF FileRef
<1>5. CASE HandRef
  <2>1. PICK f \in Folders : DagStart(f.root, f.deps, f.missing)
    BY <1>5 DEF HandRef
  <2>2. f.root \in Names /\ f.deps \in [Names -> SUBSET Names] /\ f.missing \in SUBSET Names
    BY FrontAssumption
  <2>3. DagInv'
    BY <2>1, <2>2, StartStep DEF FrontInv
  <2>4. EvalInv' /\ ResultIsWritten'
    BY <1>5, SameEval DEF FrontInv, HandRef
  <2>5. QED  BY <1>5, <2>3, <2>4 DEF FrontInv, HandRef, DagIsOfProgram
<1>6. CASE DagGoes
  <2>1. DagInv'
    BY <1>6, DagNextInv DEF FrontInv, DagGoes, DagNext
  <2>2. EvalInv' /\ ResultIsWritten'
    BY <1>6, SameEval DEF FrontInv, DagGoes
  <2>3. phase # "idle" /\ UNCHANGED <<root, deps, missing>>
    BY <1>6
    DEF DagGoes, DagStep, DagDone, DagWalk, CallReturns, Unreadable, NewChild, KnownChild,
        CyclicChild, WalkAgain, NextDep, fileVars
  <2>4. QED
    BY <1>6, <2>1, <2>2, <2>3, SameFiles DEF FrontInv, DagGoes, DagIsOfProgram
<1>7. CASE FrontEnds
  <2>1. DagInv' /\ phase' = "idle"
    BY <1>7, ExitStep DEF FrontInv, FrontEnds, DagExit
  <2>2. EvalInv' /\ ResultIsWritten'
    <3>1. UNCHANGED <<proc, held, texts, writing, meaning, file>> /\ result' = NoUnit
      BY <1>7 DEF FrontEnds
    <3>2. (\A u : DepsOf(u)' = DepsOf(u)) /\ Known' = Known
      BY <3>1, SameMeaning DEF FrontInv
    <3>3. NoCycleOnDisk'
      BY <3>1, <3>2 DEF FrontInv, EvalInv, NoCycleOnDisk, Reach
    <3>4. QED
      BY <3>1, <3>2, <3>3
      DEF FrontInv, EvalInv, EvalTypeOK, HeldIsWritten, TextsTracked, WritingIsNamed,
          FilesAreNamed, NamedAfterDeps, ClosedOnDisk, PathsTracked, ResultIsWritten
  <2>3. QED  BY <1>7, <2>1, <2>2 DEF FrontInv, DagIsOfProgram
<1>8. CASE UNCHANGED frontVars
  <2>1. UNCHANGED <<evalVars, dagVars, ref>>
    BY <1>8 DEF frontVars
  <2>2. QED  BY <2>1, SameEval, SameDag DEF FrontInv, DagIsOfProgram
<1>9. QED
  BY <1>1, <1>2, <1>3, <1>4, <1>5, <1>6, <1>7, <1>8 DEF FrontNext

(* The two parts keep their invariants together.                           *)
THEOREM FrontInvariant == FrontSpec => []FrontInv
<1>1. QED  BY FrontInitial, FrontNextInv, PTL DEF FrontSpec

(* dag refuses nothing that a Lua program has evaluated, neither in the    *)
(* command that ran the program nor in a later one.                        *)
THEOREM WhatIsEvaluatedCanBeBuilt == FrontSpec => []EvaluatedIsBuildable
<1>1. FrontInv => EvaluatedIsBuildable
  BY DEF FrontInv, DagInv, DagIsOfProgram, EvaluatedIsBuildable
<1>2. QED  BY <1>1, FrontInvariant, PTL
=============================================================================
