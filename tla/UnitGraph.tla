------------------------------ MODULE UnitGraph ------------------------------
(***************************************************************************)
(* The dependency graph `miq build` works on: the value that eval::dag     *)
(* returns for the unit the user asked for.  A unit stands for the content *)
(* of one evaluated unit.toml; its store path, its eval path and its       *)
(* database row are all named by its `result`, so they are all indexed by  *)
(* the unit here.                                                          *)
(***************************************************************************)
EXTENDS Naturals, Sequences, FiniteSets

CONSTANTS
    Units,      \* the weights of the nodes of the dag
    Packages,   \* those that are a Unit::PackageUnit; the others are Unit::FetchUnit
    Deps,       \* Deps[u]: the weights of the children of u
    Root,       \* the unit given on the command line
    Order       \* the weights in the order of dag.graph().node_indices()

(* What eval::dag guarantees of its result: the root is node 0, every node *)
(* has one index, a child is a node, and a FetchUnit has no children.      *)
DagResult ==
    /\ IsFiniteSet(Units)
    /\ Packages \subseteq Units
    /\ Root \in Units
    /\ Deps \in [Units -> SUBSET Units]
    /\ \A u \in Units \ Packages : Deps[u] = {}
    /\ Order \in Seq(Units)
    /\ \A u \in Units : \E i \in 1 .. Len(Order) : Order[i] = u
    /\ \A i, j \in 1 .. Len(Order) : Order[i] = Order[j] => i = j

ASSUME GraphAssumption == DagResult

FetchUnits == Units \ Packages

(* It also guarantees that no unit needs itself, directly or not: of any   *)
(* units, one needs none of the others.  It is not part of what is assumed *)
(* here, and has a parameter, because TLC would otherwise go through the   *)
(* sets of units of each graph, however large, before a run starts.        *)
GraphAcyclic(units) == \A S \in SUBSET units : S # {} => \E u \in S : Deps[u] \cap S = {}
=============================================================================
