------------------------------ MODULE BuildPlan ------------------------------
(***************************************************************************)
(* What a parallel `miq build` promises, with no scheduler in it: every    *)
(* unit of the graph is built once, never before its dependencies, never   *)
(* more than MaxJobs packages at a time, and success is reported only when *)
(* there is nothing left to build.                                         *)
(***************************************************************************)
EXTENDS UnitGraph

CONSTANT MaxJobs        \* the number of package builds allowed at a time

VARIABLES
    building,           \* units handed to a builder that has not reported yet
    built,              \* units whose builder has reported success
    outcome             \* "running", then "ok" or "err"

planVars == <<building, built, outcome>>

PlanInit ==
    /\ building = {}
    /\ built = {}
    /\ outcome = "running"

Start(u) ==
    /\ outcome = "running"
    /\ u \notin building \cup built
    /\ Deps[u] \subseteq built
    /\ u \in Packages => Cardinality(building \cap Packages) < MaxJobs
    /\ building' = building \cup {u}
    /\ UNCHANGED <<built, outcome>>

Complete(u) ==
    /\ outcome = "running"
    /\ u \in building
    /\ building' = building \ {u}
    /\ built' = built \cup {u}
    /\ UNCHANGED outcome

Succeed ==
    /\ outcome = "running"
    /\ built = Units
    /\ outcome' = "ok"
    /\ UNCHANGED <<building, built>>

Abort ==
    /\ outcome = "running"
    /\ outcome' = "err"
    /\ UNCHANGED <<building, built>>

PlanNext ==
    \/ \E u \in Units : Start(u) \/ Complete(u)
    \/ Succeed
    \/ Abort

PlanSpec == PlanInit /\ [][PlanNext]_planVars
=============================================================================
