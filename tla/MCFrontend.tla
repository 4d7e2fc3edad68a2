------------------------------ MODULE MCFrontend ------------------------------
(* Programs make one fetch, 3, and two packages, which may use it and each *)
(* other; unit 4 is in files written by hand only.                         *)
EXTENDS Frontend

MCNames == 1 .. 4
MCFetches == {3}
MCPackages == {1, 2}

(* Every way in which three units can refer to each other, and every       *)
(* acyclic graph of four, up to their names; any of the files may be       *)
(* unreadable.                                                             *)
GraphOf(E) == [u \in MCNames |-> {d \in MCNames : <<u, d>> \in E}]
MCDeps ==
    {GraphOf(E) : E \in SUBSET ((1 .. 3) \X (1 .. 3))
                  \cup SUBSET {e \in MCNames \X MCNames : e[1] < e[2]}}
MCFolders == [root : {1}, deps : MCDeps, missing : SUBSET MCNames]
=============================================================================
