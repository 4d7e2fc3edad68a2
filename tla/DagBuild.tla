------------------------------ MODULE DagBuild ------------------------------
(***************************************************************************)
(* How `miq build` and `miq eval` find the graph they work on: eval::dag   *)
(* and add_children_recursive (src/eval.rs).                               *)
(*                                                                         *)
(* Starting from one unit, the files under /miq/eval of its dependencies   *)
(* are read one after the other, depth first.  A unit is known by the name *)
(* of its file, as write_to_disk leaves it.  The recursion is an explicit  *)
(* stack here; what the files contain is given at the start and stays,     *)
(* since the lock keeps every other miq away.                              *)
(***************************************************************************)
EXTENDS Naturals, Sequences, FiniteSets

CONSTANTS
    Names,          \* the units that any file mentions
    MaxDagCycles    \* MAX_DAG_CYCLES

ASSUME DagAssumption == IsFiniteSet(Names) /\ Names # {} /\ MaxDagCycles \in Nat

VARIABLES
    root,       \* the unit given on the command line
    deps,       \* the field deps of every unit
    missing,    \* the units whose file is absent or does not parse
    phase,      \* "test" or "walk" in the loop of dag, then "ok" or "err"
    nodes,      \* the weights of the dag, by node index
    edges,      \* its edges, in the order in which they were added
    visited,    \* the nodes whose weight is marked visited
    stack,      \* the calls of add_children_recursive under way
    cycle       \* the number of walks from the root

fileVars == <<root, deps, missing>>

dagVars == <<root, deps, missing, phase, nodes, edges, visited, stack, cycle>>

Elems(s) == {s[i] : i \in 1 .. Len(s)}

NoRepeats(s) == \A i, j \in 1 .. Len(s) : s[i] = s[j] => i = j

(* One call: its unit, the flag it read on entry, and the deps to go.      *)
Call(u) == [unit |-> u, seen |-> u \in visited, left |-> deps[u]]

Calls == [unit : Names, seen : BOOLEAN, left : SUBSET Names]

DagTypeOK ==
    /\ root \in Names
    /\ deps \in [Names -> SUBSET Names]
    /\ missing \subseteq Names
    /\ phase \in {"idle", "test", "walk", "ok", "err"}
    /\ nodes \in Seq(Names)
    /\ edges \in Seq(Names \X Names)
    /\ visited \subseteq Elems(nodes)
    /\ stack \in Seq(Calls)
    /\ cycle \in Nat

DagInit ==
    /\ root = CHOOSE u \in Names : TRUE
    /\ deps = [u \in Names |-> {}]
    /\ missing = {}
    /\ phase = "idle"
    /\ nodes = <<>> /\ edges = <<>> /\ visited = {} /\ stack = <<>> /\ cycle = 0

(* dag(r), when the files say d and those in m cannot be read.             *)
DagStart(r, d, m) ==
    /\ phase = "idle"
    /\ root' = r /\ deps' = d /\ missing' = m
    /\ phase' = "test"
    /\ nodes' = <<r>> /\ edges' = <<>> /\ visited' = {} /\ stack' = <<>> /\ cycle' = 0

(* The process ends; the next one has no dag.                              *)
DagExit ==
    /\ root' = CHOOSE u \in Names : TRUE
    /\ deps' = [u \in Names |-> {}]
    /\ missing' = {}
    /\ phase' = "idle"
    /\ nodes' = <<>> /\ edges' = <<>> /\ visited' = {} /\ stack' = <<>> /\ cycle' = 0
-----------------------------------------------------------------------------
(* daggy refuses an edge whose source can be reached from its target.      *)
ClosedUnder(E, S) == \A e \in E : e[1] \in S => e[2] \in S

Leads(E, a, b) == \A S \in SUBSET Names : a \in S /\ ClosedUnder(E, S) => b \in S

\* Two mistakes: a cycle is never seen, and a diamond is taken for one.
CycleNeverSeen(a, b) == FALSE

SharedIsCycle(a, b) == \E e \in Elems(edges) : e[2] = b

WouldCycle(a, b) == Leads(Elems(edges), b, a)

(* The loop of dag.  The guard on cycle is its ensure!, whose error branch *)
(* has no action: SinglePass shows that it is never taken.                 *)
AllVisited == Elems(nodes) \subseteq visited

DagDone ==
    /\ phase = "test" /\ AllVisited
    /\ phase' = "ok"
    /\ UNCHANGED <<fileVars, nodes, edges, visited, stack, cycle>>

DagWalk ==
    /\ phase = "test" /\ ~AllVisited
    /\ cycle <= MaxDagCycles
    /\ cycle' = cycle + 1
    /\ phase' = "walk"
    /\ stack' = <<Call(root)>>
    /\ UNCHANGED <<fileVars, nodes, edges, visited>>

(* add_children_recursive: the innermost call takes its next dependency.   *)
Top == stack[Len(stack)]

NextDep(d) == phase = "walk" /\ stack # <<>> /\ d \in Top.left

Descend(d) ==
    stack' = Append([stack EXCEPT ![Len(stack)].left = @ \ {d}], Call(d))

Unreadable(d) ==
    /\ NextDep(d) /\ d \in missing
    /\ phase' = "err"
    /\ UNCHANGED <<fileVars, nodes, edges, visited, stack, cycle>>

\* A mistake: a new child gets an edge and no node.
NewChildUnlisted(d) ==
    /\ NextDep(d) /\ d \notin missing
    /\ d \notin Elems(nodes)
    /\ edges' = Append(edges, <<Top.unit, d>>)
    /\ Descend(d)
    /\ UNCHANGED <<fileVars, phase, nodes, visited, cycle>>

NewChild(d) ==
    /\ NextDep(d) /\ d \notin missing
    /\ d \notin Elems(nodes)
    /\ nodes' = Append(nodes, d)
    /\ edges' = Append(edges, <<Top.unit, d>>)
    /\ Descend(d)
    /\ UNCHANGED <<fileVars, phase, visited, cycle>>

\* A mistake: a shared unit gets an edge from its first parent only.
KnownChildUnlinked(d) ==
    /\ NextDep(d) /\ d \notin missing
    /\ d \in Elems(nodes)
    /\ ~Top.seen /\ ~WouldCycle(Top.unit, d)
    /\ Descend(d)
    /\ UNCHANGED <<fileVars, phase, nodes, edges, visited, cycle>>

\* A mistake: a shared unit gets a node for each parent.
KnownChildCopied(d) ==
    /\ NextDep(d) /\ d \notin missing
    /\ d \in Elems(nodes)
    /\ ~Top.seen /\ ~WouldCycle(Top.unit, d)
    /\ nodes' = Append(nodes, d)
    /\ edges' = Append(edges, <<Top.unit, d>>)
    /\ Descend(d)
    /\ UNCHANGED <<fileVars, phase, visited, cycle>>

KnownChild(d) ==
    /\ NextDep(d) /\ d \notin missing
    /\ d \in Elems(nodes)
    /\ ~Top.seen /\ ~WouldCycle(Top.unit, d)
    /\ edges' = Append(edges, <<Top.unit, d>>)
    /\ Descend(d)
    /\ UNCHANGED <<fileVars, phase, nodes, visited, cycle>>

\* A mistake: the walk goes on after the edge was refused.
CyclicChildRetried(d) ==
    /\ NextDep(d) /\ d \notin missing
    /\ d \in Elems(nodes)
    /\ ~Top.seen /\ WouldCycle(Top.unit, d)
    /\ UNCHANGED dagVars

CyclicChild(d) ==
    /\ NextDep(d) /\ d \notin missing
    /\ d \in Elems(nodes)
    /\ ~Top.seen /\ WouldCycle(Top.unit, d)
    /\ phase' = "err"
    /\ UNCHANGED <<fileVars, nodes, edges, visited, stack, cycle>>

WalkAgain(d) ==
    /\ NextDep(d) /\ d \notin missing
    /\ d \in Elems(nodes)
    /\ Top.seen
    /\ Descend(d)
    /\ UNCHANGED <<fileVars, phase, nodes, edges, visited, cycle>>

\* A mistake: a unit without dependencies is not marked.
CallReturnsUnmarked ==
    /\ phase = "walk" /\ stack # <<>> /\ Top.left = {}
    /\ visited' = visited \cup {u \in {Top.unit} : deps[u] # {}}
    /\ stack' = SubSeq(stack, 1, Len(stack) - 1)
    /\ phase' = IF Len(stack) = 1 THEN "test" ELSE "walk"
    /\ UNCHANGED <<fileVars, nodes, edges, cycle>>

CallReturns ==
    /\ phase = "walk" /\ stack # <<>> /\ Top.left = {}
    /\ visited' = visited \cup {Top.unit}
    /\ stack' = SubSeq(stack, 1, Len(stack) - 1)
    /\ phase' = IF Len(stack) = 1 THEN "test" ELSE "walk"
    /\ UNCHANGED <<fileVars, nodes, edges, cycle>>

DagStep ==
    \/ DagDone \/ DagWalk \/ CallReturns
    \/ \E d \in Names :
          \/ Unreadable(d) \/ NewChild(d) \/ KnownChild(d)
          \/ CyclicChild(d) \/ WalkAgain(d)

DagNext ==
    \/ DagStep
    \/ phase \in {"ok", "err"} /\ DagExit
    \/ \E r \in Names, d \in [Names -> SUBSET Names], m \in SUBSET Names : DagStart(r, d, m)

DagSpec == DagInit /\ [][DagNext]_dagVars /\ WF_dagVars(DagStep)
-----------------------------------------------------------------------------
(* Properties.                                                             *)

DepEdges == {e \in Names \X Names : e[2] \in deps[e[1]]}

Closure == {u \in Names : Leads(DepEdges, root, u)}

Acyclic == \A u \in Closure : \A d \in deps[u] : ~Leads(DepEdges, d, u)

\* The dag has one node for each unit the root needs, directly or not, and
\* one edge for each dependency, however often a shared unit is walked.
OkMeansClosure ==
    phase = "ok" =>
        /\ Elems(nodes) = Closure /\ NoRepeats(nodes)
        /\ Elems(edges) = DepEdges \cap (Closure \X Names) /\ NoRepeats(edges)

\* The result is an error exactly when the units have a cycle or one of them
\* cannot be read: a diamond is no cycle, and no cycle is walked for ever.
Readable == (Closure \ {root}) \cap missing = {}

VerdictIsRight ==
    /\ phase = "ok" => Acyclic /\ Readable
    /\ phase = "err" => ~(Acyclic /\ Readable)

\* The recursion is never deeper than the units are many, even when they form
\* a cycle: the calls under way are for different units.
NoUnitTwiceOnStack ==
    \A i, j \in 1 .. Len(stack) : stack[i].unit = stack[j].unit => i = j

\* One walk from the root visits every node: MAX_DAG_CYCLES is never reached.
SinglePass == phase = "test" /\ ~AllVisited => cycle = 0

\* The walk ends.
DagTermination == phase = "test" ~> phase \in {"ok", "err"}

(* The graph as the scheduler sees it.                                     *)
Graph == INSTANCE UnitGraph WITH
    Units    <- Elems(nodes),
    Root     <- root,
    Packages <- {u \in Elems(nodes) : deps[u] # {}},
    Deps     <- [u \in Elems(nodes) |-> {e[2] : e \in {x \in Elems(edges) : x[1] = u}}],
    Order    <- nodes

\* What is assumed of the graph in UnitGraph is what dag returns; no unit in it
\* needs itself, and its first node is the root.
MeetsGraphAssumption ==
    phase = "ok" =>
        Graph!DagResult /\ Graph!GraphAcyclic(Elems(nodes)) /\ nodes[1] = root

(* The inductive invariant behind these: what the nodes and edges so far   *)
(* are worth, that below a visited unit everything is visited, and that    *)
(* the calls under way form a path in the dag, so that a unit is visited,  *)
(* on the stack or not yet found.                                          *)
NodesInv ==
    /\ nodes # <<>> /\ nodes[1] = root /\ NoRepeats(nodes)
    /\ Elems(nodes) \subseteq Closure
    /\ Elems(nodes) \cap missing \subseteq {root}

EdgesInv ==
    /\ NoRepeats(edges)
    /\ Elems(edges) \subseteq DepEdges \cap (Elems(nodes) \X Elems(nodes))
    /\ \A e \in Elems(edges) : ~Leads(Elems(edges), e[2], e[1])

VisitedInv == \A u \in visited : \A d \in deps[u] : d \in visited /\ <<u, d>> \in Elems(edges)

CallInv(c) ==
    /\ c.left \subseteq deps[c.unit]
    /\ c.unit \in Elems(nodes)
    /\ c.seen <=> c.unit \in visited
    /\ ~c.seen => \A d \in deps[c.unit] : <<c.unit, d>> \in Elems(edges) <=> d \notin c.left

PathInv ==
    /\ \A i \in 1 .. Len(stack) : \A j \in i .. Len(stack) :
          Leads(Elems(edges), stack[i].unit, stack[j].unit)
    /\ \A i \in 1 .. Len(stack) - 1 : <<stack[i].unit, stack[i + 1].unit>> \in Elems(edges)
    /\ \A i \in 1 .. Len(stack) : \A d \in deps[stack[i].unit] \ stack[i].left :
          d \in visited \/ (i < Len(stack) /\ d = stack[i + 1].unit)

WalkInv ==
    /\ stack # <<>>
    /\ \A i \in 1 .. Len(stack) : CallInv(stack[i])
    /\ PathInv
    /\ \A u \in Elems(nodes) \ visited : \E i \in 1 .. Len(stack) : stack[i].unit = u

NothingYet == cycle = 0 /\ nodes = <<root>> /\ edges = <<>> /\ visited = {}

DagInv ==
    /\ DagTypeOK
    /\ phase # "idle" => NodesInv /\ EdgesInv /\ VisitedInv
    /\ phase = "walk" => WalkInv
    /\ phase = "test" => stack = <<>> /\ (NothingYet \/ AllVisited)
    /\ phase = "ok" => AllVisited
    /\ phase = "err" => ~(Acyclic /\ Readable)
    /\ phase \in {"idle", "ok"} => stack = <<>>
    /\ NoUnitTwiceOnStack
=============================================================================
