---------------------------- MODULE EvaluatorProofs ----------------------------
(***************************************************************************)
(* What Lua programs leave under /miq/eval, for every number of units and  *)
(* of texts: the files are closed and acyclic, and the texts carry their   *)
(* dependencies.                                                           *)
(***************************************************************************)
EXTENDS Evaluator, TLAPS

LEMMA JoinedIsTracked ==
  ASSUME EvalInv, NEW parts \in SUBSET Pieces
  PROVE  /\ Joined(parts) \in Texts
         /\ Joined(parts).value \subseteq Joined(parts).deps
         /\ Joined(parts).deps \subseteq held
<1>1. \A t \in Pieces : t \in Texts /\ t.value \subseteq t.deps /\ t.deps \subseteq held
  BY DEF EvalInv, EvalTypeOK, TextsTracked, Pieces, UnitText, Texts
<1>2. QED  BY <1>1 DEF Joined, Texts

(* A dependency is the unit of a text or a listed one.                     *)
LEMMA PackageInputIsTracked ==
  ASSUME EvalInv, NEW deps \in SUBSET held,
         NEW script \in texts \cup {Plain}, NEW env \in texts \cup {Plain},
         NEW i, i = [deps |-> deps, script |-> script, env |-> env]
  PROVE  /\ i \in Inputs
         /\ Collected(i) \subseteq held
         /\ i.script.value \cup i.env.value \subseteq Collected(i)
<1>1. \A t \in texts \cup {Plain} :
          t \in Texts /\ t.value \subseteq t.deps /\ t.deps \subseteq held
  BY DEF EvalInv, EvalTypeOK, TextsTracked, Plain, Texts
<1>2. held \subseteq Units
  BY DEF EvalInv, EvalTypeOK
<1>3. QED  BY <1>1, <1>2 DEF Inputs, Collected

LEMMA EvalInitial == EvalInit => EvalInv
<1> SUFFICES ASSUME EvalInit PROVE EvalInv
  OBVIOUS
<1>1. \A u : DepsOf(u) = {}
  BY DEF EvalInit, DepsOf
<1>2. EvalTypeOK
  BY BoundsAssumption DEF EvalInit, EvalTypeOK
<1>3. NoCycleOnDisk
  BY <1>1 DEF NoCycleOnDisk
<1>4. QED
  BY <1>1, <1>2, <1>3
  DEF EvalInit, EvalInv, HeldIsWritten, TextsTracked, WritingIsNamed, FilesAreNamed,
      NamedAfterDeps, ClosedOnDisk, PathsTracked

(* Where the meanings of the results do not change, nor do dependencies.   *)
LEMMA SameMeaning ==
  ASSUME EvalInv, UNCHANGED meaning
  PROVE  /\ \A u : DepsOf(u)' = DepsOf(u)
         /\ Known' = Known
         /\ NamedAfterDeps' /\ PathsTracked' /\ NoCycleOnDisk'
<1>1. \A u : DepsOf(u)' = DepsOf(u)
  BY DEF DepsOf
<1>2. Known' = Known
  BY DEF Known
<1>3. \A u : Reach(u)' = Reach(u)
  BY <1>1 DEF Reach
<1>4. QED
  BY <1>1, <1>2, <1>3 DEF EvalInv, NamedAfterDeps, PathsTracked, NoCycleOnDisk

(* The steps that touch no file.                                           *)
LEMMA ProgramSteps ==
  ASSUME EvalInv,
         \/ StartEval \/ FString \/ EvalAborted
         \/ \E u \in Units : Fetch(u) \/ WriteFails(u) \/ EvalEnds(u)
  PROVE  EvalInv'
<1> USE SameMeaning
<1> USE DEF EvalInv, EvalTypeOK, HeldIsWritten, TextsTracked, WritingIsNamed, FilesAreNamed,
            ClosedOnDisk
<1>1. CASE StartEval    BY <1>1 DEF StartEval
<1>2. CASE FString
  <2>1. PICK a \in Pieces, b \in Pieces : texts' = texts \cup {Joined({a, b})}
    BY <1>2 DEF FString
  <2>2. {a, b} \in SUBSET Pieces
    OBVIOUS
  <2> DEFINE t == Joined({a, b})
  <2>3. t \in Texts /\ t.value \subseteq t.deps /\ t.deps \subseteq held
    BY <2>2, JoinedIsTracked
  <2> HIDE DEF t
  <2>4. UNCHANGED <<proc, held, writing, result, meaning, file>> /\ proc = "eval"
    BY <1>2 DEF FString, Idle
  <2>5. QED  BY <2>1, <2>3, <2>4 DEF t
<1>3. CASE EvalAborted  BY <1>3 DEF EvalAborted
<1>4. ASSUME NEW u \in Units, Fetch(u) PROVE EvalInv'
  BY <1>4, EvaluatorAssumption DEF Fetch, Idle, Known, DepsOf, Units
<1>5. ASSUME NEW u \in Units, WriteFails(u) PROVE EvalInv'
  BY <1>5, BoundsAssumption DEF WriteFails
<1>6. ASSUME NEW u \in Units, EvalEnds(u) PROVE EvalInv'
  BY <1>6 DEF EvalEnds, Idle
<1>7. QED  BY <1>1, <1>2, <1>3, <1>4, <1>5, <1>6

(* The steps of write_to_disk.                                             *)
LEMMA WriteSteps ==
  ASSUME EvalInv, NEW u \in Units, WriteStarts(u) \/ WriteEnds(u)
  PROVE  EvalInv'
<1> USE SameMeaning, BoundsAssumption
<1> USE DEF EvalInv, EvalTypeOK, HeldIsWritten, TextsTracked, WritingIsNamed, FilesAreNamed
<1>1. CASE WriteStarts(u)
  <2>1. EvalTypeOK' /\ HeldIsWritten' /\ TextsTracked' /\ WritingIsNamed' /\ FilesAreNamed'
    BY <1>1 DEF WriteStarts
  <2>2. ClosedOnDisk'
    BY <1>1 DEF WriteStarts, ClosedOnDisk
  <2>3. QED  BY <1>1, <2>1, <2>2 DEF WriteStarts
<1>2. CASE WriteEnds(u)
  <2>1. EvalTypeOK' /\ HeldIsWritten' /\ TextsTracked' /\ WritingIsNamed' /\ FilesAreNamed'
    BY <1>2 DEF WriteEnds
  <2>2. ClosedOnDisk'
    BY <1>2 DEF WriteEnds, ClosedOnDisk
  <2>3. QED  BY <1>2, <2>1, <2>2 DEF WriteEnds
<1>3. QED  BY <1>1, <1>2

(* A new result depends on older ones only, so it closes no circle.        *)
LEMMA NewResultClosesNoCycle ==
  ASSUME EvalInv, NEW p \in Packages, NEW i \in Inputs,
         p \notin Known, Collected(i) \subseteq Known,
         meaning' = [meaning EXCEPT ![p] = i]
  PROVE  NoCycleOnDisk'
<1>1. Known \subseteq Units /\ p \in Units
  BY DEF Known, Units
<1>2. DepsOf(p)' = Collected(i)
  BY BoundsAssumption DEF EvalInv, EvalTypeOK, DepsOf
<1>3. \A u \in Known : DepsOf(u)' = DepsOf(u) /\ DepsOf(u) \subseteq Known
  BY DEF EvalInv, EvalTypeOK, DepsOf, NamedAfterDeps
<1>4. \A u \in Units \ (Known \cup {p}) : DepsOf(u)' = {}
  BY DEF EvalInv, EvalTypeOK, DepsOf, Known
<1>5. SUFFICES ASSUME NEW u \in Units, NEW d \in DepsOf(u)' PROVE u \notin Reach(d)'
  BY DEF NoCycleOnDisk
<1>6. CASE u = p
  <2>1. d \in Known
    BY <1>2, <1>6
  <2>2. QED
    BY <1>1, <1>3, <1>6, <2>1 DEF Reach
<1>7. CASE u \in Known
  <2>1. d \in DepsOf(u) /\ d \in Known
    BY <1>3, <1>7
  <2>2. u \notin Reach(d)
    BY <1>1, <1>7, <2>1 DEF EvalInv, NoCycleOnDisk
  <2>3. PICK S \in SUBSET Units :
            d \in S /\ (\A w \in S : DepsOf(w) \subseteq S) /\ u \notin S
    BY <1>1, <1>7, <2>2 DEF Reach
  <2> DEFINE old == S \cap Known
  <2>4. old \in SUBSET Units /\ d \in old /\ u \notin old
    BY <2>1, <2>3
  <2>5. \A w \in old : DepsOf(w)' \subseteq old
    BY <1>3, <2>3
  <2> HIDE DEF old
  <2>6. QED  BY <2>4, <2>5 DEF Reach
<1>8. QED  BY <1>4, <1>6, <1>7

(* A call of package.                                                      *)
LEMMA PackageStep ==
  ASSUME EvalInv, NEW p \in Packages, Package(p)
  PROVE  EvalInv'
<1>1. PICK deps \in SUBSET held, script \in texts \cup {Plain}, env \in texts \cup {Plain} :
          LET i == [deps |-> deps, script |-> script, env |-> env]
          IN  Named(p, i) /\ meaning' = [meaning EXCEPT ![p] = i]
  BY DEF Package
<1> DEFINE i == [deps |-> deps, script |-> script, env |-> env]
<1>2. Named(p, i) /\ meaning' = [meaning EXCEPT ![p] = i]
  BY <1>1
<1>3. /\ i \in Inputs
      /\ Collected(i) \subseteq held
      /\ i.script.value \cup i.env.value \subseteq Collected(i)
  BY PackageInputIsTracked
<1> HIDE DEF i
<1>4. /\ proc = "eval" /\ writing = NoUnit /\ writing' = p
      /\ UNCHANGED <<proc, held, texts, result, file>>
  BY DEF Package, Idle
<1>5. p \in Units /\ i # NoInput /\ NoUnit \notin Units
  BY <1>3, BoundsAssumption DEF Units
<1>6. meaning'[p] = i /\ \A q \in Packages \ {p} : meaning'[q] = meaning[q]
  BY <1>2 DEF EvalInv, EvalTypeOK
<1>7. held \subseteq Known
  BY DEF EvalInv, EvalTypeOK, HeldIsWritten, FilesAreNamed
<1>8. Known' = Known \cup {p}
  BY <1>5, <1>6 DEF Known
<1>9. DepsOf(p)' = Collected(i)
  BY <1>5, <1>6 DEF DepsOf
<1>10. \A u \in Units \ {p} : DepsOf(u)' = DepsOf(u)
  BY <1>6 DEF DepsOf
<1>11. EvalTypeOK'
  BY <1>2, <1>3, <1>4, <1>5 DEF EvalInv, EvalTypeOK
<1>12. HeldIsWritten' /\ TextsTracked'
  BY <1>4 DEF EvalInv, HeldIsWritten, TextsTracked
<1>13. WritingIsNamed'
  BY <1>3, <1>4, <1>8, <1>9 DEF WritingIsNamed
<1>14. FilesAreNamed'
  BY <1>4, <1>8 DEF EvalInv, FilesAreNamed
<1>15. Known \subseteq Units
  BY DEF Known, Units
<1>16. NamedAfterDeps'
  BY <1>3, <1>7, <1>8, <1>9, <1>10, <1>15 DEF EvalInv, NamedAfterDeps
<1>17. ClosedOnDisk'
  <2>1. \A d \in Collected(i) : file[d] = "whole"
    BY <1>3 DEF EvalInv, HeldIsWritten
  <2>2. QED  BY <1>4, <1>9, <1>10, <2>1 DEF EvalInv, ClosedOnDisk
<1>18. PathsTracked'
  <2>1. \A q \in Packages \ {p} : q \in Units
    BY DEF Units
  <2>2. QED  BY <1>3, <1>6, <1>9, <1>10, <2>1 DEF EvalInv, PathsTracked
<1>19. NoCycleOnDisk'
  <2>1. CASE meaning[p] = i
    <3>1. meaning' = meaning
      BY <1>2, <2>1 DEF EvalInv, EvalTypeOK
    <3>2. QED  BY <3>1, SameMeaning
  <2>2. CASE meaning[p] = NoInput
    <3>1. p \notin Known
      BY <2>2, EvaluatorAssumption DEF Known
    <3>2. QED  BY <1>2, <1>3, <1>7, <3>1, NewResultClosesNoCycle
  <2>3. QED  BY <1>2, <2>1, <2>2 DEF Named
<1>20. QED
  BY <1>11, <1>12, <1>13, <1>14, <1>16, <1>17, <1>18, <1>19 DEF EvalInv

LEMMA EvalNextInv == EvalInv /\ [EvalNext]_evalVars => EvalInv'
<1> SUFFICES ASSUME EvalInv, [EvalNext]_evalVars PROVE EvalInv'
  OBVIOUS
<1>1. CASE UNCHANGED evalVars
  <2>1. UNCHANGED <<proc, held, texts, writing, result, meaning, file>>
    BY <1>1 DEF evalVars
  <2>2. QED
    BY <2>1, SameMeaning
    DEF EvalInv, EvalTypeOK, HeldIsWritten, TextsTracked, WritingIsNamed, FilesAreNamed,
        ClosedOnDisk
<1>2. CASE EvalNext
  BY <1>2, ProgramSteps, WriteSteps, PackageStep DEF EvalNext
<1>3. QED  BY <1>1, <1>2

\* EvalInv holds in every reachable state.
THEOREM EvalInvariant == EvalSpec => []EvalInv
<1>1. QED  BY EvalInitial, EvalNextInv, PTL DEF EvalSpec

\* A complete unit file (write_to_disk, src/eval.rs) names complete unit files,
\* whatever has failed or was cut short while they were written.
THEOREM FilesStayClosed == EvalSpec => []ClosedOnDisk
<1>1. EvalInv => ClosedOnDisk  BY DEF EvalInv
<1>2. QED  BY <1>1, EvalInvariant, PTL

\* Through any nesting of f (src/lua/f.lua) and interpolate (src/lua.rs), the
\* deps of a package hold every unit whose path its texts contain.
THEOREM PathsAreTracked == EvalSpec => []PathsTracked
<1>1. EvalInv => PathsTracked  BY DEF EvalInv
<1>2. QED  BY <1>1, EvalInvariant, PTL

\* The units that programs make never depend on themselves (MiqResult::create,
\* src/eval.rs), so dag finds no cycle in them.
THEOREM UnitsAreAcyclic == EvalSpec => []NoCycleOnDisk
<1>1. EvalInv => NoCycleOnDisk  BY DEF EvalInv
<1>2. QED  BY <1>1, EvalInvariant, PTL

\* A unit file that is complete is never incomplete again, since write_to_disk
\* does not truncate it (src/eval.rs).
THEOREM FilesStayWhole == EvalSpec => WholeStaysWhole
<1>1. ASSUME EvalInv, EvalNext, NEW u \in Units, file[u] = "whole" PROVE file'[u] = "whole"
  BY <1>1
  DEF EvalInv, EvalTypeOK, EvalNext, StartEval, FString, EvalAborted, Fetch, Package,
      WriteStarts, WriteEnds, WriteFails, EvalEnds
<1>2. ASSUME EvalInv, [EvalNext]_evalVars
      PROVE  [\A u \in Units : file[u] = "whole" => file'[u] = "whole"]_evalVars
  BY <1>1, <1>2
<1>3. QED  BY <1>2, EvalInvariant, PTL DEF EvalSpec, WholeStaysWhole
=============================================================================
