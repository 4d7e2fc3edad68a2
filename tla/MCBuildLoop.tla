----------------------------- MODULE MCBuildLoop -----------------------------
(* The graphs on which the scheduler is checked; a unit is a string here.  *)
EXTENDS BuildLoop

(* Three packages below the root that become ready together, over two      *)
(* fetches that they share; in the order in which eval::dag, depth first,  *)
(* numbers them.                                                           *)
TreeDeps ==
    [u \in {"root", "a", "b", "c", "f", "g"} |->
        CASE u = "root" -> {"a", "b", "c"}
          [] u = "a" -> {"f"}
          [] u = "b" -> {"f", "g"}
          [] u = "c" -> {"g"}
          [] OTHER -> {}]
TreeUnits == DOMAIN TreeDeps
TreePackages == {"root", "a", "b", "c"}
TreeOrder == <<"root", "a", "f", "b", "g", "c">>

\* With two jobs there are four waves, each of them a scan of six units; this
\* is the count before the last visit, the least that lets the build go on.
TreeSentry == 23

(* A package that needs a fetch, and a fetch of its own.                   *)
PairDeps == [u \in {"root", "a", "f"} |-> IF u = "root" THEN {"a", "f"} ELSE {}]
PairUnits == DOMAIN PairDeps
PairPackages == {"root", "a"}
PairOrder == <<"root", "a", "f">>

(* A chain of packages, each one the only dependency of the one before.    *)
ChainUnits == 1 .. 32
ChainDeps == [u \in ChainUnits |-> IF u = 32 THEN {} ELSE {u + 1}]
ChainOrder == [i \in 1 .. 32 |-> i]
=============================================================================
