------------------------------- MODULE DagProofs -------------------------------
(***************************************************************************)
(* What dag (src/eval.rs) returns, for every set of unit files: when it    *)
(* returns a graph, this is the closure of the root, and it is acyclic;    *)
(* when it returns an error, there is a reason.                            *)
(***************************************************************************)
EXTENDS DagBuild, SequenceTheorems, FiniteSetTheorems, WellFoundedInduction, TLAPS

(***************************************************************************)
(* Sequences without repetition, and their elements.                       *)
(***************************************************************************)
LEMMA ElemsOfAppend ==
  ASSUME NEW S, NEW s \in Seq(S), NEW x \in S
  PROVE  /\ Elems(Append(s, x)) = Elems(s) \cup {x}
         /\ NoRepeats(s) /\ x \notin Elems(s) => NoRepeats(Append(s, x))
<1>1. /\ Len(Append(s, x)) = Len(s) + 1 /\ Len(s) \in Nat
      /\ \A i \in 1 .. Len(s) : Append(s, x)[i] = s[i]
      /\ Append(s, x)[Len(s) + 1] = x
  BY AppendProperties, LenProperties
<1>2. 1 .. Len(s) + 1 = (1 .. Len(s)) \cup {Len(s) + 1}
  BY <1>1
<1>3. Elems(Append(s, x)) = Elems(s) \cup {x}
  BY <1>1, <1>2 DEF Elems
<1>4. NoRepeats(s) /\ x \notin Elems(s) => NoRepeats(Append(s, x))
  BY <1>1, <1>2 DEF Elems, NoRepeats
<1>5. QED  BY <1>3, <1>4

(***************************************************************************)
(* Ways in a graph.                                                        *)
(***************************************************************************)
LEMMA LeadsSelf ==
  ASSUME NEW E, NEW a
  PROVE  Leads(E, a, a)
  BY DEF Leads

LEMMA LeadsOn ==
  ASSUME NEW E, NEW a, NEW b, NEW c, Leads(E, a, b), <<b, c>> \in E
  PROVE  Leads(E, a, c)
  BY DEF Leads, ClosedUnder

LEMMA LeadsJoin ==
  ASSUME NEW E, NEW a, NEW b, NEW c, Leads(E, a, b), Leads(E, b, c)
  PROVE  Leads(E, a, c)
  BY DEF Leads

LEMMA LeadsInMore ==
  ASSUME NEW E, NEW F, E \subseteq F, NEW a, NEW b, Leads(E, a, b)
  PROVE  Leads(F, a, b)
  BY DEF Leads, ClosedUnder

(* What a unit leads to, as a set that is closed.                          *)
LEMMA LeadsClosed ==
  ASSUME NEW E \in SUBSET (Names \X Names), NEW a \in Names
  PROVE  LET R == {x \in Names : Leads(E, a, x)}
         IN  R \in SUBSET Names /\ a \in R /\ ClosedUnder(E, R)
  BY DEF Leads, ClosedUnder

(* An edge that add_edge accepts.                                          *)
LEMMA EdgeClosesNoCycle ==
  ASSUME NEW E \in SUBSET (Names \X Names), NEW a \in Names, NEW b \in Names,
         \A e \in E : ~Leads(E, e[2], e[1]), ~Leads(E, b, a),
         NEW F, F = E \cup {<<a, b>>}
  PROVE  \A e \in F : ~Leads(F, e[2], e[1])
<1> DEFINE R(x) == {y \in Names : Leads(E, x, y)}
<1>1. \A x \in Names : R(x) \in SUBSET Names /\ x \in R(x) /\ ClosedUnder(E, R(x))
  BY LeadsClosed
<1>2. ~Leads(F, b, a)
  <2>1. R(b) \in SUBSET Names /\ b \in R(b) /\ a \notin R(b) /\ ClosedUnder(F, R(b))
    BY <1>1 DEF ClosedUnder
  <2>2. QED  BY <2>1 DEF Leads
<1>3. ASSUME NEW e \in E PROVE ~Leads(F, e[2], e[1])
  <2>1. e[1] \in Names /\ e[2] \in Names /\ e = <<e[1], e[2]>>
    OBVIOUS
  <2>2. e[1] \notin R(e[2])
    BY <2>1
  <2>3. CASE a \notin R(e[2])
    <3>1. ClosedUnder(F, R(e[2]))
      BY <1>1, <2>1, <2>3 DEF ClosedUnder
    <3>2. QED  BY <1>1, <2>1, <2>2, <3>1 DEF Leads
  <2>4. CASE a \in R(e[2])
    <3>1. e[1] \notin R(b)
      <4>1. SUFFICES ASSUME Leads(E, b, e[1]) PROVE FALSE
        OBVIOUS
      <4>2. Leads(E, b, e[2])
        BY <2>1, <4>1, LeadsOn
      <4>3. QED  BY <2>4, <4>2, LeadsJoin
    <3> DEFINE S == R(e[2]) \cup R(b)
    <3>2. S \in SUBSET Names /\ e[2] \in S /\ e[1] \notin S
      BY <1>1, <2>1, <2>2, <3>1
    <3>3. ClosedUnder(F, S)
      BY <1>1, <2>1 DEF ClosedUnder
    <3>4. QED  BY <3>2, <3>3 DEF Leads
  <2>5. QED  BY <2>3, <2>4
<1>4. SUFFICES ASSUME NEW e \in F PROVE ~Leads(F, e[2], e[1])
  OBVIOUS
<1>5. CASE e = <<a, b>>
  <2>1. e[1] = a /\ e[2] = b
    BY <1>5
  <2>2. QED  BY <1>2, <2>1
<1>6. QED  BY <1>3, <1>5

(* Of any units without a cycle, the one that leads to the fewest of them  *)
(* has no edge to another.                                                 *)
LEMMA NoCycleHasEnd ==
  ASSUME NEW E \in SUBSET (Names \X Names), \A e \in E : ~Leads(E, e[2], e[1]),
         NEW S \in SUBSET Names, S # {}
  PROVE  \E u \in S : \A e \in E : e[1] = u => e[2] \notin S
<1> DEFINE R(x) == {y \in S : Leads(E, x, y)}
           Sizes == {Cardinality(R(x)) : x \in S}
<1>1. \A x \in S : IsFiniteSet(R(x)) /\ Cardinality(R(x)) \in Nat
  <2>1. \A x \in S : R(x) \subseteq Names
    OBVIOUS
  <2>2. QED  BY <2>1, DagAssumption, FS_Subset, FS_CardinalityType
<1>2. PICK n \in Sizes : \A m \in Sizes : ~(<<m, n>> \in OpToRel(<, Nat))
  <2>1. Sizes \subseteq Nat /\ Sizes # {}
    BY <1>1
  <2> HIDE DEF Sizes
  <2>2. QED  BY <2>1, NatLessThanWellFounded, WFMin
<1>3. PICK u \in S : Cardinality(R(u)) = n
  BY <1>2
<1>4. \A x \in S : ~(Cardinality(R(x)) < Cardinality(R(u)))
  BY <1>1, <1>2, <1>3 DEF OpToRel
<1>5. ASSUME NEW e \in E, e[1] = u, e[2] \in S PROVE FALSE
  <2>1. Leads(E, u, e[2])
    BY <1>5, LeadsSelf, LeadsOn
  <2>2. R(e[2]) \subseteq R(u) /\ u \in R(u) /\ u \notin R(e[2])
    BY <1>5, <2>1, LeadsSelf, LeadsJoin
  <2> HIDE DEF R
  <2>3. Cardinality(R(e[2])) < Cardinality(R(u))
    BY <1>1, <1>5, <2>2, FS_Subset
  <2>4. QED  BY <1>4, <1>5, <2>3
<1>6. QED  BY <1>5

(***************************************************************************)
(* The start, the tests of the loop, and the ends.                         *)
(***************************************************************************)
LEMMA CallIsCall ==
  ASSUME NEW u \in Names, deps \in [Names -> SUBSET Names]
  PROVE  Call(u) \in Calls
<1>1. deps[u] \in SUBSET Names
  OBVIOUS
<1>2. (u \in visited) \in BOOLEAN
  OBVIOUS
<1>3. QED  BY <1>1, <1>2, Zenon DEF Call, Calls

LEMMA DagInitial == DagInit => DagInv
<1> SUFFICES ASSUME DagInit PROVE DagInv
  OBVIOUS
<1>1. root \in Names
  BY DagAssumption DEF DagInit
<1>2. DagTypeOK
  BY <1>1 DEF DagInit, DagTypeOK, Elems
<1>3. NoUnitTwiceOnStack
  BY DEF DagInit, NoUnitTwiceOnStack
<1>4. QED  BY <1>2, <1>3 DEF DagInit, DagInv

LEMMA ExitStep ==
  ASSUME DagInv, DagExit
  PROVE  DagInv'
<1>1. root' \in Names
  BY DagAssumption DEF DagExit
<1>2. DagTypeOK'
  BY <1>1 DEF DagExit, DagTypeOK, Elems
<1>3. NoUnitTwiceOnStack'
  BY DEF DagExit, NoUnitTwiceOnStack
<1>4. QED  BY <1>2, <1>3 DEF DagExit, DagInv

LEMMA StartStep ==
  ASSUME DagInv, NEW r \in Names, NEW d \in [Names -> SUBSET Names], NEW m \in SUBSET Names,
         DagStart(r, d, m)
  PROVE  DagInv'
<1>1. /\ root' = r /\ deps' = d /\ missing' = m /\ phase' = "test" /\ nodes' = <<r>>
      /\ edges' = <<>> /\ visited' = {} /\ stack' = <<>> /\ cycle' = 0
  BY DEF DagStart
<1>2. Elems(nodes)' = {r} /\ Elems(edges)' = {}
  BY <1>1 DEF Elems
<1>3. DagTypeOK'
  BY <1>1, <1>2 DEF DagTypeOK
<1>4. NodesInv'
  <2>1. r \in Closure'
    BY <1>1, LeadsSelf DEF Closure
  <2>2. QED  BY <1>1, <1>2, <2>1 DEF NodesInv, NoRepeats
<1>5. EdgesInv' /\ VisitedInv' /\ NoUnitTwiceOnStack'
  BY <1>1, <1>2 DEF EdgesInv, VisitedInv, NoRepeats, NoUnitTwiceOnStack
<1>6. NothingYet'
  BY <1>1 DEF NothingYet
<1>7. QED  BY <1>1, <1>3, <1>4, <1>5, <1>6 DEF DagInv

LEMMA DoneStep ==
  ASSUME DagInv, DagDone
  PROVE  DagInv'
<1>1. /\ phase = "test" /\ phase' = "ok" /\ AllVisited
      /\ UNCHANGED <<root, deps, missing, nodes, edges, visited, stack, cycle>>
  BY DEF DagDone, fileVars
<1>2. QED
  BY <1>1
  DEF DagInv, DagTypeOK, NodesInv, EdgesInv, VisitedInv, AllVisited, NoUnitTwiceOnStack,
      Closure, DepEdges

LEMMA WalkStep ==
  ASSUME DagInv, DagWalk
  PROVE  DagInv'
<1>1. /\ phase = "test" /\ phase' = "walk" /\ cycle' = cycle + 1
      /\ stack' = <<Call(root)>>
      /\ UNCHANGED <<root, deps, missing, nodes, edges, visited>>
  BY DEF DagWalk, fileVars
<1>2. nodes = <<root>> /\ edges = <<>> /\ visited = {}
  BY DEF DagWalk, DagInv, NothingYet
<1>3. Elems(nodes) = {root} /\ Elems(edges) = {}
  BY <1>2 DEF Elems
<1>4. Call(root) \in Calls
  BY CallIsCall DEF DagInv, DagTypeOK
<1>4a. PICK c \in Calls : c = Call(root)
  BY <1>4
<1>4b. c.unit = root /\ ~c.seen /\ c.left = deps[root]
  BY <1>2, <1>4a DEF Call
<1>5. Len(stack') = 1 /\ stack'[1] = c /\ stack' \in Seq(Calls) /\ stack' # <<>>
  BY <1>1, <1>4a
<1>6. DagTypeOK'
  BY <1>1, <1>5 DEF DagInv, DagTypeOK
<1>7. NodesInv' /\ EdgesInv' /\ VisitedInv'
  BY <1>1 DEF DagInv, NodesInv, EdgesInv, VisitedInv, Closure, DepEdges
<1>8. WalkInv'
  <2>1. \A i \in 1 .. Len(stack') : stack'[i] = c
    BY <1>5
  <2>2. Elems(nodes)' = {root} /\ Elems(edges)' = {} /\ visited' = {}
    BY <1>1, <1>2, <1>3 DEF Elems
  <2>3. (\A i \in 1 .. Len(stack) : CallInv(stack[i]))'
    BY <1>1, <1>4b, <2>1, <2>2 DEF CallInv
  <2>4. PathInv'
    BY <1>1, <1>4b, <1>5, LeadsSelf DEF PathInv
  <2>5. QED  BY <1>1, <1>4b, <1>5, <2>2, <2>3, <2>4 DEF WalkInv
<1>9. NoUnitTwiceOnStack'
  BY <1>5 DEF NoUnitTwiceOnStack
<1>10. QED  BY <1>1, <1>6, <1>7, <1>8, <1>9 DEF DagInv

(***************************************************************************)
(* The stack.                                                              *)
(***************************************************************************)
LEMMA PathIsSimple ==
  ASSUME NEW E, NEW s \in Seq(Calls),
         \A e \in E : ~Leads(E, e[2], e[1]),
         \A i \in 1 .. Len(s) : \A j \in i .. Len(s) : Leads(E, s[i].unit, s[j].unit),
         \A i \in 1 .. Len(s) - 1 : <<s[i].unit, s[i + 1].unit>> \in E
  PROVE  \A i, j \in 1 .. Len(s) : s[i].unit = s[j].unit => i = j
<1>1. Len(s) \in Nat
  OBVIOUS
<1>2. ASSUME NEW i \in 1 .. Len(s), NEW j \in 1 .. Len(s), i < j, s[i].unit = s[j].unit
      PROVE  FALSE
  <2>1. j - 1 \in 1 .. Len(s) - 1 /\ j - 1 \in i .. Len(s) /\ (j - 1) + 1 = j
    BY <1>1, <1>2
  <2>2. <<s[j - 1].unit, s[j].unit>> \in E
    BY <2>1
  <2>3. ~Leads(E, s[j].unit, s[j - 1].unit)
    BY <2>2
  <2>4. Leads(E, s[i].unit, s[j - 1].unit)
    BY <2>1
  <2>5. QED  BY <1>2, <2>3, <2>4
<1>3. QED  BY <1>1, <1>2

(* A call is made.                                                         *)
LEMMA DescendStack ==
  ASSUME stack \in Seq(Calls), stack # <<>>, deps \in [Names -> SUBSET Names],
         NEW d \in Names, Descend(d)
  PROVE  /\ stack' \in Seq(Calls) /\ Len(stack) \in Nat \ {0} /\ Len(stack') = Len(stack) + 1
         /\ \A i \in 1 .. Len(stack) - 1 : stack'[i] = stack[i]
         /\ stack'[Len(stack)].unit = Top.unit
         /\ stack'[Len(stack)].seen = Top.seen
         /\ stack'[Len(stack)].left = Top.left \ {d}
         /\ stack'[Len(stack) + 1] = Call(d)
<1> DEFINE n == Len(stack)
           top == [unit |-> Top.unit, seen |-> Top.seen, left |-> Top.left \ {d}]
           below == [stack EXCEPT ![n] = top]
<1>1. n \in Nat \ {0} /\ n \in 1 .. n
  OBVIOUS
<1>2. Top \in Calls
  BY <1>1 DEF Top
<1>3. top \in Calls
  BY <1>2 DEF Calls
<1>4. below = [stack EXCEPT ![n].left = @ \ {d}]
  BY <1>1, <1>2 DEF Top, Calls
<1>5. /\ below \in Seq(Calls) /\ Len(below) = n
      /\ \A j \in 1 .. n : below[j] = IF j = n THEN top ELSE stack[j]
  BY <1>1, <1>3, ExceptSeq
<1>6. Call(d) \in Calls
  BY CallIsCall
<1> HIDE DEF below
<1>7. stack' = Append(below, Call(d))
  BY <1>4 DEF Descend
<1>8. /\ stack' \in Seq(Calls) /\ Len(stack') = n + 1
      /\ \A j \in 1 .. n : stack'[j] = below[j]
      /\ stack'[n + 1] = Call(d)
  BY <1>5, <1>6, <1>7, AppendProperties
<1>9. stack'[n] = top
  BY <1>1, <1>5, <1>8
<1>10. ASSUME NEW i \in 1 .. n - 1 PROVE stack'[i] = stack[i]
  <2>1. i \in 1 .. n /\ i # n
    BY <1>1
  <2>2. QED  BY <1>5, <1>8, <2>1
<1>11. QED  BY <1>1, <1>8, <1>9, <1>10

(* What the walk goes on with.                                             *)
LEMMA TopFacts ==
  ASSUME DagInv, NEW d \in Names, NextDep(d)
  PROVE  /\ phase = "walk" /\ WalkInv /\ NodesInv /\ EdgesInv /\ VisitedInv /\ DagTypeOK
         /\ stack \in Seq(Calls) /\ stack # <<>> /\ Len(stack) \in 1 .. Len(stack)
         /\ Top.unit \in Names /\ Top.unit \in Elems(nodes) /\ Top.unit \in Closure
         /\ d \in Top.left /\ d \in deps[Top.unit] /\ <<Top.unit, d>> \in DepEdges
         /\ d \in Closure
         /\ Elems(edges) \in SUBSET (Names \X Names) /\ Elems(edges) \subseteq DepEdges
         /\ Elems(nodes) \subseteq Names
<1>1. /\ phase = "walk" /\ WalkInv /\ NodesInv /\ EdgesInv /\ VisitedInv /\ DagTypeOK
      /\ stack \in Seq(Calls) /\ stack # <<>> /\ d \in Top.left
  BY DEF DagInv, DagTypeOK, NextDep
<1>2. Len(stack) \in 1 .. Len(stack)
  BY <1>1
<1>3. Top \in Calls /\ CallInv(Top)
  BY <1>1, <1>2 DEF WalkInv, Top
<1>4. Top.unit \in Names /\ Top.unit \in Elems(nodes) /\ Top.unit \in Closure
  BY <1>1, <1>3 DEF CallInv, Calls, NodesInv
<1>5. d \in deps[Top.unit] /\ <<Top.unit, d>> \in DepEdges
  BY <1>1, <1>3, <1>4 DEF CallInv, DepEdges
<1>6. d \in Closure
  BY <1>4, <1>5, LeadsOn DEF Closure
<1>7. /\ Elems(edges) \in SUBSET (Names \X Names) /\ Elems(edges) \subseteq DepEdges
      /\ Elems(nodes) \subseteq Names
  BY <1>1 DEF EdgesInv, NodesInv, DepEdges, Closure
<1>8. QED  BY <1>1, <1>2, <1>4, <1>5, <1>6, <1>7

(* A child is entered: it is new, or it is visited; its edge is there.     *)
LEMMA DescendKeeps ==
  ASSUME DagInv, NEW d \in Names, NextDep(d), Descend(d),
         UNCHANGED <<root, deps, missing, phase, visited>>,
         Elems(edges') = Elems(edges) \cup {<<Top.unit, d>>},
         Elems(nodes') = Elems(nodes) \cup {d},
         d \in visited \/ d \notin Elems(nodes)
  PROVE  WalkInv'
<1> DEFINE n == Len(stack)
           a == Top.unit
           E == Elems(edges)
<1>1. DagTypeOK /\ WalkInv /\ EdgesInv /\ NoUnitTwiceOnStack /\ n \in 1 .. n
  BY TopFacts DEF DagInv
<1>2. a \in Elems(nodes) /\ d \in deps[a] /\ E \subseteq Elems(nodes) \X Elems(nodes)
  BY TopFacts DEF EdgesInv
<1>3. /\ stack' \in Seq(Calls) /\ n \in Nat \ {0} /\ Len(stack') = n + 1
      /\ \A i \in 1 .. n - 1 : stack'[i] = stack[i]
      /\ stack'[n].unit = a /\ stack'[n].seen = Top.seen /\ stack'[n].left = Top.left \ {d}
      /\ stack'[n + 1] = Call(d)
  BY <1>1, DescendStack, TopFacts DEF DagTypeOK
<1>4. Call(d).unit = d /\ (Call(d).seen <=> d \in visited) /\ Call(d).left = deps[d]
  BY DEF Call
<1>5. \A i \in 1 .. n : stack'[i].unit = stack[i].unit
  BY <1>3 DEF Top
<1>6. stack'[n + 1].unit = d /\ stack[n].unit = a
  BY <1>3, <1>4 DEF Top
<1>7. (1 .. n + 1) = (1 .. n - 1) \cup {n, n + 1} /\ \A i \in 1 .. n - 1 : i \in 1 .. n /\ i # n
  BY <1>3
<1>8. ASSUME NEW i \in 1 .. n + 1 PROVE CallInv(stack[i])'
  <2>1. CASE i \in 1 .. n - 1
    <3>1. CallInv(stack[i]) /\ stack'[i] = stack[i] /\ stack[i].unit # a
      BY <1>1, <1>3, <1>6, <1>7, <2>1 DEF WalkInv, NoUnitTwiceOnStack
    <3>2. PICK c : c = stack[i]
      OBVIOUS
    <3>3. CallInv(c) /\ c.unit # a /\ stack'[i] = c
      BY <3>1, <3>2
    <3>4. CallInv(c)'
      BY <3>3 DEF CallInv
    <3>5. QED  BY <3>3, <3>4 DEF CallInv
  <2>2. CASE i = n
    <3>1. CallInv(Top)
      BY <1>1 DEF WalkInv, Top
    <3>2. QED  BY <1>2, <1>3, <2>2, <3>1 DEF CallInv
  <2>3. CASE i = n + 1
    <3>1. \A x : <<d, x>> \notin Elems(edges') \/ d \in visited
      BY <1>2
    <3>2. QED  BY <1>3, <1>4, <2>3, <3>1 DEF CallInv
  <2>4. QED  BY <1>7, <2>1, <2>2, <2>3
<1>9. ASSUME NEW i \in 1 .. n + 1, NEW j \in i .. n + 1
      PROVE  Leads(Elems(edges'), stack'[i].unit, stack'[j].unit)
  <2>1. \A k \in 1 .. n : \A l \in k .. n :
            Leads(Elems(edges'), stack'[k].unit, stack'[l].unit)
    <3>1. \A k \in 1 .. n : \A l \in k .. n : Leads(E, stack[k].unit, stack[l].unit)
      BY <1>1 DEF WalkInv, PathInv
    <3>2. \A k \in 1 .. n : \A l \in k .. n : l \in 1 .. n
      OBVIOUS
    <3>3. QED  BY <1>5, <3>1, <3>2, LeadsInMore
  <2>2. CASE j \in 1 .. n
    <3>1. i \in 1 .. n /\ j \in i .. n
      BY <1>3, <2>2
    <3>2. QED  BY <2>1, <3>1
  <2>3. CASE i \in 1 .. n /\ j = n + 1
    <3>1. n \in i .. n
      BY <1>3, <2>3
    <3>2. Leads(Elems(edges'), stack'[i].unit, a)
      BY <1>3, <2>1, <2>3, <3>1
    <3>3. QED  BY <1>6, <2>3, <3>2, LeadsOn
  <2>4. CASE i = n + 1 /\ j = n + 1
    BY <2>4, LeadsSelf
  <2>5. QED  BY <1>3, <2>2, <2>3, <2>4
<1>10. ASSUME NEW i \in 1 .. n PROVE <<stack'[i].unit, stack'[i + 1].unit>> \in Elems(edges')
  <2>1. CASE i = n
    BY <1>3, <1>6, <2>1
  <2>2. CASE i # n
    <3>1. i \in 1 .. n - 1 /\ i + 1 \in 1 .. n
      BY <1>3, <2>2
    <3>2. <<stack[i].unit, stack[i + 1].unit>> \in E
      BY <1>1, <3>1 DEF WalkInv, PathInv
    <3>3. QED  BY <1>5, <3>1, <3>2
  <2>3. QED  BY <2>1, <2>2
<1>11. ASSUME NEW i \in 1 .. n + 1, NEW x \in deps[stack'[i].unit] \ stack'[i].left
       PROVE  x \in visited \/ (i < n + 1 /\ x = stack'[i + 1].unit)
  <2>1. CASE i \in 1 .. n - 1
    <3>1. x \in deps[stack[i].unit] \ stack[i].left
      BY <1>3, <2>1
    <3>2. x \in visited \/ x = stack[i + 1].unit
      BY <1>1, <1>7, <2>1, <3>1 DEF WalkInv, PathInv
    <3>3. i + 1 \in 1 .. n /\ i < n + 1
      BY <1>3, <2>1
    <3>4. QED  BY <1>5, <3>2, <3>3
  <2>2. CASE i = n
    <3>1. CASE x = d
      BY <1>3, <1>6, <2>2, <3>1
    <3>2. CASE x # d
      <4>1. x \in deps[stack[n].unit] \ stack[n].left
        BY <1>3, <1>6, <2>2, <3>2 DEF Top
      <4>2. x \in visited \/ (n < n /\ x = stack[n + 1].unit)
        BY <1>1, <4>1 DEF WalkInv, PathInv
      <4>3. QED  BY <1>3, <4>2
    <3>3. QED  BY <3>1, <3>2
  <2>3. CASE i = n + 1
    BY <1>3, <1>4, <2>3
  <2>4. QED  BY <1>7, <2>1, <2>2, <2>3
<1> HIDE DEF n, a, E
<1>12. PathInv'
  <2>1. Len(stack') = n + 1 /\ Len(stack') - 1 = n /\ deps' = deps /\ visited' = visited
    BY <1>3
  <2>2. \A i \in 1 .. Len(stack') : \A j \in i .. Len(stack') :
            Leads(Elems(edges'), stack'[i].unit, stack'[j].unit)
    BY <1>9, <2>1
  <2>3. \A i \in 1 .. Len(stack') - 1 :
            <<stack'[i].unit, stack'[i + 1].unit>> \in Elems(edges')
    BY <1>10, <2>1
  <2>4. \A i \in 1 .. Len(stack') : \A x \in deps'[stack'[i].unit] \ stack'[i].left :
            x \in visited' \/ (i < Len(stack') /\ x = stack'[i + 1].unit)
    BY <1>11, <2>1
  <2>5. QED  BY <2>2, <2>3, <2>4 DEF PathInv
<1> USE DEF n, a, E
<1>13. ASSUME NEW u \in Elems(nodes') \ visited PROVE \E i \in 1 .. n + 1 : stack'[i].unit = u
  <2>1. CASE u = d
    BY <1>3, <1>6, <2>1
  <2>2. CASE u # d
    <3>1. PICK i \in 1 .. n : stack[i].unit = u
      BY <1>1, <2>2 DEF WalkInv
    <3>2. i \in 1 .. n + 1 /\ stack'[i].unit = u
      BY <1>3, <1>5, <3>1
    <3>3. QED  BY <3>2
  <2>3. QED  BY <2>1, <2>2
<1>14. stack' # <<>>
  BY <1>3
<1>15. QED  BY <1>3, <1>8, <1>12, <1>13, <1>14 DEF WalkInv

(* An edge to a child that does not lead back is added.                    *)
LEMMA EdgeKeeps ==
  ASSUME DagInv, NEW d \in Names, NextDep(d),
         UNCHANGED <<root, deps, missing, visited>>,
         edges' = Append(edges, <<Top.unit, d>>),
         Elems(nodes') = Elems(nodes) \cup {d},
         <<Top.unit, d>> \notin Elems(edges),
         ~Leads(Elems(edges), d, Top.unit)
  PROVE  /\ edges' \in Seq(Names \X Names)
         /\ Elems(edges') = Elems(edges) \cup {<<Top.unit, d>>}
         /\ EdgesInv' /\ VisitedInv'
<1>1. <<Top.unit, d>> \in Names \X Names /\ edges \in Seq(Names \X Names)
  BY TopFacts DEF DagTypeOK
<1>2. /\ edges' \in Seq(Names \X Names)
      /\ Elems(edges') = Elems(edges) \cup {<<Top.unit, d>>}
      /\ NoRepeats(edges')
  <2>1. Append(edges, <<Top.unit, d>>) \in Seq(Names \X Names)
    BY <1>1, AppendProperties
  <2>2. /\ Elems(Append(edges, <<Top.unit, d>>)) = Elems(edges) \cup {<<Top.unit, d>>}
        /\ NoRepeats(edges) /\ <<Top.unit, d>> \notin Elems(edges)
              => NoRepeats(Append(edges, <<Top.unit, d>>))
    BY <1>1, ElemsOfAppend
  <2>3. NoRepeats(edges)
    BY TopFacts DEF EdgesInv
  <2>4. edges' = Append(edges, <<Top.unit, d>>) /\ <<Top.unit, d>> \notin Elems(edges)
    OBVIOUS
  <2>5. QED  BY <2>1, <2>2, <2>3, <2>4, Zenon
<1>3. Elems(edges') \subseteq DepEdges' \cap (Elems(nodes') \X Elems(nodes'))
  <2>1. DepEdges' = DepEdges
    BY DEF DepEdges
  <2>2. /\ Elems(edges) \subseteq DepEdges \cap (Elems(nodes) \X Elems(nodes))
        /\ <<Top.unit, d>> \in DepEdges /\ Top.unit \in Elems(nodes)
    BY TopFacts DEF EdgesInv
  <2>3. <<Top.unit, d>> \in Elems(nodes') \X Elems(nodes')
    BY <2>2
  <2>4. QED  BY <1>2, <2>1, <2>2, <2>3
<1>4. \A e \in Elems(edges') : ~Leads(Elems(edges'), e[2], e[1])
  BY <1>2, TopFacts, EdgeClosesNoCycle DEF EdgesInv
<1>5. VisitedInv'
  BY <1>2, TopFacts DEF VisitedInv
<1>6. QED  BY <1>2, <1>3, <1>4, <1>5 DEF EdgesInv

(* The calls under way are for different units, after such a step.         *)
LEMMA StillSimple ==
  ASSUME stack' \in Seq(Calls), EdgesInv', PathInv'
  PROVE  NoUnitTwiceOnStack'
  BY PathIsSimple DEF EdgesInv, PathInv, NoUnitTwiceOnStack

(***************************************************************************)
(* The steps of add_children_recursive.                                    *)
(***************************************************************************)
LEMMA NewChildStep ==
  ASSUME DagInv, NEW d \in Names, NewChild(d)
  PROVE  DagInv'
<1>1. /\ NextDep(d) /\ d \notin missing /\ d \notin Elems(nodes)
      /\ nodes' = Append(nodes, d) /\ edges' = Append(edges, <<Top.unit, d>>) /\ Descend(d)
      /\ root' = root /\ deps' = deps /\ missing' = missing /\ phase' = phase
      /\ visited' = visited /\ cycle' = cycle
  BY DEF NewChild, fileVars
<1>2. /\ phase = "walk" /\ WalkInv /\ NodesInv /\ EdgesInv /\ VisitedInv /\ DagTypeOK
      /\ Top.unit \in Elems(nodes) /\ d \in Closure
  BY <1>1, TopFacts
<1>3. <<Top.unit, d>> \notin Elems(edges) /\ ~Leads(Elems(edges), d, Top.unit)
  <2>1. \A e \in Elems(edges) : e[1] # d /\ e[2] # d
    BY <1>1, <1>2 DEF EdgesInv
  <2>2. ClosedUnder(Elems(edges), {d}) /\ Top.unit \notin {d}
    BY <1>1, <1>2, <2>1 DEF ClosedUnder
  <2>3. QED  BY <2>1, <2>2 DEF Leads
<1>4. /\ nodes' \in Seq(Names) /\ Elems(nodes') = Elems(nodes) \cup {d} /\ NoRepeats(nodes')
      /\ nodes' # <<>> /\ nodes'[1] = nodes[1]
  <2>1. nodes \in Seq(Names) /\ NoRepeats(nodes) /\ nodes # <<>>
    BY <1>2 DEF DagTypeOK, NodesInv
  <2>2. 1 \in 1 .. Len(nodes)
    BY <2>1
  <2>3. nodes' \in Seq(Names) /\ nodes' # <<>> /\ nodes'[1] = nodes[1]
    BY <1>1, <2>1, <2>2
  <2>4. QED  BY <1>1, <2>1, <2>3, ElemsOfAppend
<1>5. /\ edges' \in Seq(Names \X Names) /\ EdgesInv' /\ VisitedInv'
      /\ Elems(edges') = Elems(edges) \cup {<<Top.unit, d>>}
  BY <1>1, <1>3, <1>4, EdgeKeeps
<1>6. NodesInv'
  <2>1. Closure' = Closure
    BY <1>1 DEF Closure, DepEdges
  <2>2. QED  BY <1>1, <1>2, <1>4, <2>1 DEF NodesInv
<1>7. WalkInv'
  BY <1>1, <1>4, <1>5, DescendKeeps
<1>8. stack' \in Seq(Calls)
  BY <1>1, TopFacts, DescendStack DEF DagTypeOK
<1>9. DagTypeOK'
  BY <1>1, <1>2, <1>4, <1>5, <1>8 DEF DagTypeOK
<1>10. NoUnitTwiceOnStack'
  BY <1>5, <1>7, <1>8, StillSimple DEF WalkInv
<1>11. QED  BY <1>1, <1>2, <1>5, <1>6, <1>7, <1>9, <1>10 DEF DagInv

(* A node that does not lead back to the call under way is visited.        *)
LEMMA FoundIsVisited ==
  ASSUME DagInv, NEW d \in Names, NextDep(d), d \in Elems(nodes),
         ~Leads(Elems(edges), d, Top.unit)
  PROVE  d \in visited
<1>1. SUFFICES ASSUME d \notin visited PROVE FALSE
  OBVIOUS
<1>2. WalkInv /\ Len(stack) \in 1 .. Len(stack)
  BY TopFacts
<1>3. PICK i \in 1 .. Len(stack) : stack[i].unit = d
  BY <1>1, <1>2 DEF WalkInv
<1>4. Len(stack) \in i .. Len(stack)
  BY <1>2, <1>3
<1>5. Leads(Elems(edges), stack[i].unit, stack[Len(stack)].unit)
  BY <1>2, <1>4 DEF WalkInv, PathInv
<1>6. QED  BY <1>3, <1>5 DEF Top

LEMMA KnownChildStep ==
  ASSUME DagInv, NEW d \in Names, KnownChild(d)
  PROVE  DagInv'
<1>1. /\ NextDep(d) /\ d \in Elems(nodes) /\ ~Top.seen /\ ~Leads(Elems(edges), d, Top.unit)
      /\ nodes' = nodes /\ edges' = Append(edges, <<Top.unit, d>>) /\ Descend(d)
      /\ root' = root /\ deps' = deps /\ missing' = missing /\ phase' = phase
      /\ visited' = visited /\ cycle' = cycle
  BY DEF KnownChild, fileVars, WouldCycle
<1>2. /\ phase = "walk" /\ WalkInv /\ NodesInv /\ EdgesInv /\ VisitedInv /\ DagTypeOK
      /\ d \in deps[Top.unit] /\ d \in Top.left /\ Len(stack) \in 1 .. Len(stack)
  BY <1>1, TopFacts
<1>3. <<Top.unit, d>> \notin Elems(edges)
  <2>1. CallInv(Top)
    BY <1>2 DEF WalkInv, Top
  <2>2. QED  BY <1>1, <1>2, <2>1 DEF CallInv
<1>4. Elems(nodes') = Elems(nodes) \cup {d} /\ d \in visited
  BY <1>1, FoundIsVisited
<1>5. /\ edges' \in Seq(Names \X Names) /\ EdgesInv' /\ VisitedInv'
      /\ Elems(edges') = Elems(edges) \cup {<<Top.unit, d>>}
  BY <1>1, <1>3, <1>4, EdgeKeeps
<1>6. NodesInv'
  BY <1>1, <1>2 DEF NodesInv, Closure, DepEdges
<1>7. WalkInv'
  BY <1>1, <1>4, <1>5, DescendKeeps
<1>8. stack' \in Seq(Calls)
  BY <1>1, TopFacts, DescendStack DEF DagTypeOK
<1>9. DagTypeOK'
  BY <1>1, <1>2, <1>5, <1>8 DEF DagTypeOK
<1>10. NoUnitTwiceOnStack'
  BY <1>5, <1>7, <1>8, StillSimple DEF WalkInv
<1>11. QED  BY <1>1, <1>2, <1>5, <1>6, <1>7, <1>9, <1>10 DEF DagInv

LEMMA WalkAgainStep ==
  ASSUME DagInv, NEW d \in Names, WalkAgain(d)
  PROVE  DagInv'
<1>1. /\ NextDep(d) /\ d \in Elems(nodes) /\ Top.seen
      /\ nodes' = nodes /\ edges' = edges /\ Descend(d)
      /\ root' = root /\ deps' = deps /\ missing' = missing /\ phase' = phase
      /\ visited' = visited /\ cycle' = cycle
  BY DEF WalkAgain, fileVars
<1>2. /\ phase = "walk" /\ WalkInv /\ NodesInv /\ EdgesInv /\ VisitedInv /\ DagTypeOK
      /\ d \in deps[Top.unit] /\ Len(stack) \in 1 .. Len(stack)
  BY <1>1, TopFacts
<1>3. d \in visited /\ <<Top.unit, d>> \in Elems(edges)
  <2>1. CallInv(Top)
    BY <1>2 DEF WalkInv, Top
  <2>2. Top.unit \in visited
    BY <1>1, <2>1 DEF CallInv
  <2>3. QED  BY <1>2, <2>2 DEF VisitedInv
<1>4. /\ Elems(nodes') = Elems(nodes) \cup {d}
      /\ Elems(edges') = Elems(edges) \cup {<<Top.unit, d>>}
  BY <1>1, <1>3
<1>5. EdgesInv' /\ VisitedInv' /\ NodesInv'
  BY <1>1, <1>2 DEF EdgesInv, VisitedInv, NodesInv, Closure, DepEdges
<1>6. WalkInv'
  BY <1>1, <1>3, <1>4, DescendKeeps
<1>7. stack' \in Seq(Calls)
  BY <1>1, TopFacts, DescendStack DEF DagTypeOK
<1>8. DagTypeOK'
  BY <1>1, <1>2, <1>7 DEF DagTypeOK
<1>9. NoUnitTwiceOnStack'
  BY <1>5, <1>6, <1>7, StillSimple DEF WalkInv
<1>10. QED  BY <1>1, <1>2, <1>5, <1>6, <1>8, <1>9 DEF DagInv
(* An error has a reason.                                                  *)
LEMMA ErrStep ==
  ASSUME DagInv, phase' = "err", ~(Acyclic /\ Readable), phase = "walk",
         UNCHANGED <<root, deps, missing, nodes, edges, visited, stack, cycle>>
  PROVE  DagInv'
<1>1. DagTypeOK' /\ NodesInv' /\ EdgesInv' /\ VisitedInv' /\ NoUnitTwiceOnStack'
  BY DEF DagInv, DagTypeOK, NodesInv, EdgesInv, VisitedInv, NoUnitTwiceOnStack, Closure, DepEdges
<1>2. (~(Acyclic /\ Readable))'
  BY DEF Acyclic, Readable, Closure, DepEdges
<1>3. QED  BY <1>1, <1>2 DEF DagInv

LEMMA UnreadableStep ==
  ASSUME DagInv, NEW d \in Names, Unreadable(d)
  PROVE  DagInv'
<1>1. NextDep(d) /\ d \in missing /\ phase' = "err"
      /\ UNCHANGED <<root, deps, missing, nodes, edges, visited, stack, cycle>>
  BY DEF Unreadable, fileVars
<1>2. /\ phase = "walk" /\ Top.unit \in Closure /\ d \in deps[Top.unit] /\ d \in Closure
  BY <1>1, TopFacts
<1>3. CASE d # root
  <2>1. ~Readable
    BY <1>1, <1>2, <1>3 DEF Readable
  <2>2. QED  BY <1>1, <1>2, <2>1, ErrStep
<1>4. CASE d = root
  <2>1. ~Acyclic
    BY <1>2, <1>4 DEF Acyclic, Closure
  <2>2. QED  BY <1>1, <1>2, <2>1, ErrStep
<1>5. QED  BY <1>3, <1>4

LEMMA CyclicChildStep ==
  ASSUME DagInv, NEW d \in Names, CyclicChild(d)
  PROVE  DagInv'
<1>1. NextDep(d) /\ Leads(Elems(edges), d, Top.unit) /\ phase' = "err"
      /\ UNCHANGED <<root, deps, missing, nodes, edges, visited, stack, cycle>>
  BY DEF CyclicChild, fileVars, WouldCycle
<1>2. /\ phase = "walk" /\ Top.unit \in Closure /\ d \in deps[Top.unit]
      /\ Elems(edges) \subseteq DepEdges
  BY <1>1, TopFacts
<1>3. Leads(DepEdges, d, Top.unit)
  BY <1>1, <1>2, LeadsInMore
<1>4. ~Acyclic
  BY <1>2, <1>3 DEF Acyclic
<1>5. QED  BY <1>1, <1>2, <1>4, ErrStep

LEMMA ReturnStep ==
  ASSUME DagInv, CallReturns
  PROVE  DagInv'
<1>1. /\ phase = "walk" /\ stack # <<>> /\ Top.left = {}
      /\ visited' = visited \cup {Top.unit}
      /\ stack' = SubSeq(stack, 1, Len(stack) - 1)
      /\ phase' = IF Len(stack) = 1 THEN "test" ELSE "walk"
      /\ root' = root /\ deps' = deps /\ missing' = missing
      /\ nodes' = nodes /\ edges' = edges /\ cycle' = cycle
  BY DEF CallReturns, fileVars
<1>2. DagTypeOK /\ NodesInv /\ EdgesInv /\ VisitedInv /\ WalkInv /\ NoUnitTwiceOnStack
  BY <1>1 DEF DagInv
<1>3. PICK n \in Nat \ {0} : n = Len(stack)
  BY <1>1, <1>2 DEF DagTypeOK
<1>4. PICK a : a = Top.unit
  OBVIOUS
<1>5. n \in 1 .. n /\ stack[n].unit = a /\ stack[n].left = {} /\ stack[n] = Top
  BY <1>1, <1>3, <1>4 DEF Top
<1>6. /\ stack' \in Seq(Calls) /\ Len(stack') = n - 1
      /\ \A i \in 1 .. n - 1 : stack'[i] = stack[i]
  <2>1. stack \in Seq(Calls) /\ 1 \in 1 .. Len(stack) + 1 /\ n - 1 \in 0 .. Len(stack)
    BY <1>2, <1>3 DEF DagTypeOK
  <2>2. QED  BY <1>1, <1>3, <2>1
<1>7. \A i \in 1 .. n - 1 : i \in 1 .. n /\ i # n /\ i + 1 \in 1 .. n
  BY <1>3
<1>8. CallInv(Top)
  BY <1>2, <1>3, <1>5 DEF WalkInv
<1>9. VisitedInv'
  <2>1. ASSUME NEW d \in deps[a] PROVE d \in visited /\ <<a, d>> \in Elems(edges)
    <3>1. d \in visited
      <4>1. d \in deps[stack[n].unit] \ stack[n].left
        BY <1>5
      <4>2. d \in visited \/ n < n
        BY <1>2, <1>3, <1>5, <4>1 DEF WalkInv, PathInv
      <4>3. QED  BY <1>3, <4>2
    <3>2. CASE Top.seen
      BY <1>2, <1>4, <1>8, <3>1, <3>2 DEF CallInv, VisitedInv
    <3>3. CASE ~Top.seen
      BY <1>1, <1>4, <1>8, <3>1, <3>3 DEF CallInv
    <3>4. QED  BY <3>2, <3>3
  <2>2. QED  BY <1>1, <1>2, <1>4, <2>1 DEF VisitedInv
<1>10. DagTypeOK'
  BY <1>1, <1>2, <1>6, <1>8 DEF DagTypeOK, CallInv
<1>11. NodesInv' /\ EdgesInv'
  BY <1>1, <1>2 DEF NodesInv, EdgesInv, Closure, DepEdges
<1>12. NoUnitTwiceOnStack'
  BY <1>2, <1>3, <1>6, <1>7 DEF NoUnitTwiceOnStack
<1>13. CASE n = 1
  <2>1. stack' = <<>> /\ phase' = "test"
    BY <1>1, <1>3, <1>6, <1>13
  <2>2. AllVisited'
    <3>1. \A u \in Elems(nodes) \ visited : u = a
      BY <1>2, <1>3, <1>5, <1>13 DEF WalkInv
    <3>2. QED  BY <1>1, <1>4, <3>1 DEF AllVisited
  <2>3. QED  BY <1>9, <1>10, <1>11, <1>12, <2>1, <2>2 DEF DagInv
<1>14. CASE n # 1
  <2>1. phase' = "walk" /\ stack' # <<>>
    <3>1. Len(stack) # 1 /\ Len(stack') # 0
      BY <1>3, <1>6, <1>14
    <3>2. phase' = "walk"
      BY <1>1, <3>1
    <3>3. stack' # <<>>
      BY <3>1
    <3>4. QED  BY <3>2, <3>3
  <2>2. ASSUME NEW i \in 1 .. n - 1 PROVE CallInv(stack[i])'
    <3>1. CallInv(stack[i]) /\ stack'[i] = stack[i] /\ stack[i].unit # a
      BY <1>2, <1>3, <1>5, <1>6, <1>7 DEF WalkInv, NoUnitTwiceOnStack
    <3>2. PICK c : c = stack[i]
      OBVIOUS
    <3>3. CallInv(c) /\ c.unit # a /\ stack'[i] = c
      BY <3>1, <3>2
    <3>4. CallInv(c)'
      BY <1>1, <1>4, <3>3 DEF CallInv
    <3>5. QED  BY <3>3, <3>4 DEF CallInv
  <2>3. PathInv'
    <3>1. \A i \in 1 .. Len(stack') : \A j \in i .. Len(stack') :
              Leads(Elems(edges'), stack'[i].unit, stack'[j].unit)
      <4>1. \A i \in 1 .. n : \A j \in i .. n : Leads(Elems(edges), stack[i].unit, stack[j].unit)
        BY <1>2, <1>3 DEF WalkInv, PathInv
      <4>2. \A i \in 1 .. n - 1 : \A j \in i .. n - 1 : j \in 1 .. n - 1 /\ j \in i .. n
        BY <1>3
      <4>3. QED  BY <1>1, <1>6, <1>7, <4>1, <4>2
    <3>2. \A i \in 1 .. Len(stack') - 1 :
              <<stack'[i].unit, stack'[i + 1].unit>> \in Elems(edges')
      <4>1. \A i \in 1 .. n - 1 : <<stack[i].unit, stack[i + 1].unit>> \in Elems(edges)
        BY <1>2, <1>3 DEF WalkInv, PathInv
      <4>2. \A i \in 1 .. (n - 1) - 1 : i \in 1 .. n - 1 /\ i + 1 \in 1 .. n - 1
        BY <1>3
      <4>3. QED  BY <1>1, <1>6, <4>1, <4>2
    <3>3. ASSUME NEW i \in 1 .. n - 1, NEW d \in deps[stack[i].unit] \ stack[i].left
          PROVE  d \in visited' \/ (i < n - 1 /\ d = stack[i + 1].unit)
      <4>1. d \in visited \/ d = stack[i + 1].unit
        BY <1>2, <1>3, <1>7 DEF WalkInv, PathInv
      <4>2. i < n - 1 \/ i + 1 = n
        BY <1>3
      <4>3. QED  BY <1>1, <1>4, <1>5, <4>1, <4>2
    <3>4. \A i \in 1 .. Len(stack') : \A d \in deps'[stack'[i].unit] \ stack'[i].left :
              d \in visited' \/ (i < Len(stack') /\ d = stack'[i + 1].unit)
      <4>1. SUFFICES ASSUME NEW i \in 1 .. n - 1, NEW d \in deps[stack[i].unit] \ stack[i].left
                     PROVE  d \in visited' \/ (i < n - 1 /\ d = stack'[i + 1].unit)
        BY <1>1, <1>6
      <4>2. i < n - 1 => i + 1 \in 1 .. n - 1
        BY <1>3
      <4>3. QED  BY <1>6, <3>3, <4>2
    <3>5. QED  BY <3>1, <3>2, <3>4 DEF PathInv
  <2>4. ASSUME NEW u \in Elems(nodes') \ visited'
        PROVE  \E i \in 1 .. n - 1 : stack'[i].unit = u
    <3>1. PICK i \in 1 .. n : stack[i].unit = u
      BY <1>1, <1>2, <1>3 DEF WalkInv
    <3>2. i # n
      BY <1>1, <1>4, <1>5, <3>1
    <3>3. i \in 1 .. n - 1
      BY <1>3, <3>2
    <3>4. QED  BY <1>6, <3>1, <3>3
  <2>5. WalkInv'
    BY <1>6, <2>1, <2>2, <2>3, <2>4 DEF WalkInv
  <2>6. QED  BY <1>9, <1>10, <1>11, <1>12, <2>1, <2>5 DEF DagInv
<1>15. QED  BY <1>13, <1>14

LEMMA DagNextInv == DagInv /\ [DagNext]_dagVars => DagInv'
<1> SUFFICES ASSUME DagInv, [DagNext]_dagVars PROVE DagInv'
  OBVIOUS
<1>1. CASE DagStep
  BY <1>1, DoneStep, WalkStep, ReturnStep, UnreadableStep, NewChildStep, KnownChildStep,
     CyclicChildStep, WalkAgainStep
  DEF DagStep
<1>2. CASE DagExit
  BY <1>2, ExitStep
<1>3. ASSUME NEW r \in Names, NEW d \in [Names -> SUBSET Names], NEW m \in SUBSET Names,
             DagStart(r, d, m)
      PROVE  DagInv'
  BY <1>3, StartStep
<1>4. CASE UNCHANGED dagVars
  <2>1. UNCHANGED <<root, deps, missing, phase, nodes, edges, visited, stack, cycle>>
    BY <1>4 DEF dagVars
  <2>2. Elems(nodes)' = Elems(nodes) /\ Elems(edges)' = Elems(edges)
    BY <2>1
  <2>3. DepEdges' = DepEdges
    BY <2>1 DEF DepEdges
  <2>4. Closure' = Closure
    BY <2>1, <2>3 DEF Closure
  <2>5. DagTypeOK' = DagTypeOK
    BY <2>1, <2>2 DEF DagTypeOK
  <2>6. NodesInv' = NodesInv /\ EdgesInv' = EdgesInv /\ VisitedInv' = VisitedInv
    BY <2>1, <2>2, <2>3, <2>4 DEF NodesInv, EdgesInv, VisitedInv
  <2>7. WalkInv' = WalkInv
    <3>1. PathInv' = PathInv
      BY <2>1, <2>2 DEF PathInv
    <3>2. (\A i \in 1 .. Len(stack) : CallInv(stack[i]))'
            = (\A i \in 1 .. Len(stack) : CallInv(stack[i]))
      BY <2>1, <2>2 DEF CallInv
    <3>3. QED  BY <2>1, <2>2, <3>1, <3>2 DEF WalkInv
  <2>8. NothingYet' = NothingYet /\ AllVisited' = AllVisited
    BY <2>1, <2>2 DEF NothingYet, AllVisited
  <2>9. NoUnitTwiceOnStack' = NoUnitTwiceOnStack
    BY <2>1 DEF NoUnitTwiceOnStack
  <2>10. (Acyclic /\ Readable)' = (Acyclic /\ Readable)
    BY <2>1, <2>3, <2>4 DEF Acyclic, Readable
  <2>11. QED
    BY <2>1, <2>5, <2>6, <2>7, <2>8, <2>9, <2>10 DEF DagInv
<1>5. QED  BY <1>1, <1>2, <1>3, <1>4 DEF DagNext

(* The walk of every graph keeps DagInv.                                   *)
THEOREM DagInvariant == DagSpec => []DagInv
<1>1. DagInit => DagInv
  BY DagInitial
<1>2. DagInv /\ [DagNext]_dagVars => DagInv'
  BY DagNextInv
<1>3. QED  BY <1>1, <1>2, PTL DEF DagSpec

(* One walk from the root is enough: the bound on the walks, and the       *)
(* ensure! in the loop of dag, are never met.                              *)
THEOREM OneWalkIsEnough == DagSpec => []SinglePass
<1>1. DagInv => SinglePass
  BY DEF DagInv, SinglePass, NothingYet
<1>2. QED  BY <1>1, DagInvariant, PTL

(* The recursion is never deeper than the units are many, not even on      *)
(* files that form a cycle.                                                *)
THEOREM RecursionIsBounded == DagSpec => []NoUnitTwiceOnStack
<1>1. DagInv => NoUnitTwiceOnStack
  BY DEF DagInv
<1>2. QED  BY <1>1, DagInvariant, PTL
(***************************************************************************)
(* What dag returns.                                                       *)
(***************************************************************************)
LEMMA OkFacts ==
  ASSUME DagInv, phase = "ok"
  PROVE  /\ Elems(nodes) = Closure /\ NoRepeats(nodes) /\ nodes # <<>> /\ nodes[1] = root
         /\ Elems(edges) = DepEdges \cap (Closure \X Names) /\ NoRepeats(edges)
         /\ \A u \in Closure : \A d \in deps[u] : d \in Closure /\ <<u, d>> \in Elems(edges)
<1>1. DagTypeOK /\ NodesInv /\ EdgesInv /\ VisitedInv /\ AllVisited
  BY DEF DagInv
<1>2. Elems(nodes) = visited
  BY <1>1 DEF AllVisited, DagTypeOK
<1>3. \A u \in Elems(nodes) : \A d \in deps[u] : d \in Elems(nodes) /\ <<u, d>> \in Elems(edges)
  BY <1>1, <1>2 DEF VisitedInv
<1>4. Elems(nodes) \in SUBSET Names /\ Elems(nodes) \subseteq Closure
  BY <1>1 DEF NodesInv, Closure
<1>5. root \in Elems(nodes)
  <2>1. nodes \in Seq(Names) /\ nodes # <<>> /\ nodes[1] = root
    BY <1>1 DEF DagTypeOK, NodesInv
  <2>2. 1 \in 1 .. Len(nodes)
    BY <2>1
  <2>3. QED  BY <2>1, <2>2 DEF Elems
<1>6. ClosedUnder(DepEdges, Elems(nodes))
  BY <1>3 DEF ClosedUnder, DepEdges
<1>7. Closure \subseteq Elems(nodes)
  BY <1>4, <1>5, <1>6 DEF Closure, Leads
<1>8. Elems(nodes) = Closure
  BY <1>4, <1>7
<1>9. DepEdges \cap (Closure \X Names) \subseteq Elems(edges)
  BY <1>3, <1>8 DEF DepEdges
<1>10. Elems(edges) \subseteq DepEdges \cap (Closure \X Names)
  BY <1>1, <1>4, <1>8 DEF EdgesInv
<1>11. QED  BY <1>1, <1>3, <1>8, <1>9, <1>10 DEF NodesInv, EdgesInv

(* A graph that dag returns is the closure of the root: each unit the root *)
(* needs once, each dependency once.                                       *)
THEOREM ClosureIsFound == DagSpec => []OkMeansClosure
<1>1. DagInv => OkMeansClosure
  BY OkFacts DEF OkMeansClosure
<1>2. QED  BY <1>1, DagInvariant, PTL

(* dag returns an error if and only if the units that the root needs have  *)
(* a cycle, or one of them cannot be read.                                 *)
THEOREM VerdictIsSound == DagSpec => []VerdictIsRight
<1>1. ASSUME DagInv, phase = "ok" PROVE Acyclic
  <2>1. SUFFICES ASSUME NEW u \in Closure, NEW d \in deps[u] PROVE ~Leads(DepEdges, d, u)
    BY DEF Acyclic
  <2>2. d \in Closure /\ <<u, d>> \in Elems(edges) /\ Closure \in SUBSET Names
    BY <1>1, OkFacts DEF Closure
  <2>3. ~Leads(Elems(edges), d, u)
    BY <1>1, <2>2 DEF DagInv, EdgesInv
  <2>4. PICK S \in SUBSET Names : d \in S /\ ClosedUnder(Elems(edges), S) /\ u \notin S
    BY <2>3 DEF Leads
  <2>5. ClosedUnder(DepEdges, S \cap Closure)
    <3>1. SUFFICES ASSUME NEW e \in DepEdges, e[1] \in S \cap Closure
                   PROVE  e[2] \in S \cap Closure
      BY DEF ClosedUnder
    <3>2. e[2] \in deps[e[1]] /\ e = <<e[1], e[2]>>
      BY DEF DepEdges
    <3>3. e[2] \in Closure /\ e \in Elems(edges)
      BY <1>1, <3>1, <3>2, OkFacts
    <3>4. QED  BY <2>4, <3>1, <3>3 DEF ClosedUnder
  <2>6. QED  BY <2>2, <2>4, <2>5 DEF Leads
<1>2. ASSUME DagInv, phase = "ok" PROVE Readable
  <2>1. Elems(nodes) = Closure /\ Elems(nodes) \cap missing \subseteq {root}
    BY <1>2, OkFacts DEF DagInv, NodesInv
  <2>2. QED  BY <2>1 DEF Readable
<1>3. DagInv => VerdictIsRight
  BY <1>1, <1>2 DEF DagInv, VerdictIsRight
<1>4. QED  BY <1>3, DagInvariant, PTL

(* What the scheduler assumes of its graph is what dag returns.            *)
THEOREM GraphIsAsAssumed == DagSpec => []MeetsGraphAssumption
<1>1. ASSUME DagInv, phase = "ok" PROVE MeetsGraphAssumption
  <2>1. /\ Elems(nodes) = Closure /\ NoRepeats(nodes) /\ nodes # <<>> /\ nodes[1] = root
        /\ Elems(edges) \subseteq Names \X Closure
        /\ \A e \in Elems(edges) : e[2] \in deps[e[1]]
    <3>1. /\ Elems(nodes) = Closure /\ NoRepeats(nodes) /\ nodes # <<>> /\ nodes[1] = root
          /\ Elems(edges) = DepEdges \cap (Closure \X Names)
          /\ \A u \in Closure : \A d \in deps[u] : d \in Closure
      BY <1>1, OkFacts
    <3>2. Closure \subseteq Names
      BY DEF Closure
    <3>3. QED  BY <3>1, <3>2 DEF DepEdges
  <2>2. nodes \in Seq(Names) /\ 1 \in 1 .. Len(nodes)
    BY <1>1, <2>1 DEF DagInv, DagTypeOK
  <2>3. IsFiniteSet(Elems(nodes))
    BY <2>1, DagAssumption, FS_Subset DEF Closure
  <2>4. root \in Elems(nodes)
    BY <2>1, <2>2 DEF Elems
  <2>5. /\ [u \in Elems(nodes) |-> {e[2] : e \in {x \in Elems(edges) : x[1] = u}}]
            \in [Elems(nodes) -> SUBSET Elems(nodes)]
        /\ \A u \in Elems(nodes) \ {v \in Elems(nodes) : deps[v] # {}} :
              {e[2] : e \in {x \in Elems(edges) : x[1] = u}} = {}
    BY <2>1
  <2>6. nodes \in Seq(Elems(nodes))
    BY <2>2 DEF Elems
  <2>7. /\ \A u \in Elems(nodes) : \E i \in 1 .. Len(nodes) : nodes[i] = u
        /\ \A i, j \in 1 .. Len(nodes) : nodes[i] = nodes[j] => i = j
    BY <2>1 DEF Elems, NoRepeats
  <2>8. {v \in Elems(nodes) : deps[v] # {}} \subseteq Elems(nodes)
    OBVIOUS
  <2>9. Graph!IsFiniteSet(Elems(nodes))
    BY <2>3 DEF IsFiniteSet, Graph!IsFiniteSet
  <2>10. Graph!DagResult
    BY <2>4, <2>5, <2>6, <2>7, <2>8, <2>9 DEF Graph!DagResult
  <2>11. ASSUME NEW S \in SUBSET Elems(nodes), S # {}
         PROVE  \E u \in S : {e[2] : e \in {x \in Elems(edges) : x[1] = u}} \cap S = {}
    <3>1. /\ Elems(edges) \in SUBSET (Names \X Names) /\ S \in SUBSET Names
          /\ \A e \in Elems(edges) : ~Leads(Elems(edges), e[2], e[1])
      BY <1>1, <2>1 DEF DagInv, EdgesInv, DepEdges, Closure
    <3>2. PICK u \in S : \A e \in Elems(edges) : e[1] = u => e[2] \notin S
      BY <2>11, <3>1, NoCycleHasEnd
    <3>3. QED  BY <3>2
  <2>12. Graph!GraphAcyclic(Elems(nodes))
    BY <2>11 DEF Graph!GraphAcyclic
  <2>13. QED  BY <2>1, <2>10, <2>12 DEF MeetsGraphAssumption
<1>2. DagInv => MeetsGraphAssumption
  BY <1>1 DEF MeetsGraphAssumption
<1>3. QED  BY <1>2, DagInvariant, PTL
=============================================================================
