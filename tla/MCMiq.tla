-------------------------------- MODULE MCMiq --------------------------------
(* Two packages that can be built side by side, from a fetch they share,   *)
(* below the one that is asked for.                                        *)
EXTENDS Miq

DiamondDeps ==
    [u \in {"root", "left", "right", "src"} |->
        CASE u = "root" -> {"left", "right"}
          [] u = "src" -> {}
          [] OTHER -> {"src"}]
DiamondUnits == DOMAIN DiamondDeps
DiamondPackages == {"root", "left", "right"}
DiamondOrder == <<"root", "left", "src", "right">>

(* A package and a fetch side by side, for the runs with every fault.      *)
ForkDeps == [u \in {"root", "lib", "src"} |-> IF u = "root" THEN {"lib", "src"} ELSE {}]
ForkUnits == DOMAIN ForkDeps
ForkPackages == {"root", "lib"}
ForkOrder == <<"root", "lib", "src">>

OnlyPlainArgs == {PlainArgs}
AnyArgs == [rebuild : BOOLEAN, rebuild_all : BOOLEAN]

\* Both flags together do what --rebuild alone does.
EachArg == AnyArgs \ {[rebuild |-> TRUE, rebuild_all |-> TRUE]}
=============================================================================
