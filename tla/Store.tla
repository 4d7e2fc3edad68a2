-------------------------------- MODULE Store --------------------------------
(***************************************************************************)
(* What miq keeps on disk about a unit: its output under /miq/store and    *)
(* its row in the table `store` of /miq/db.sqlite (src/db.rs).  The two    *)
(* are written by separate system calls; nothing but the order of these    *)
(* calls keeps them in step.                                               *)
(*                                                                         *)
(* A row is one sqlite transaction, so it is there or not.  An output is   *)
(* a file or a tree, and is seen here through the only thing that matters  *)
(* to its users: who wrote what is there.                                  *)
(***************************************************************************)
EXTENDS UnitGraph

CONSTANT NoUnit         \* stands for no unit at all

ASSUME NoUnitAssumption == NoUnit \notin Units

(* "absent": nothing is there.  "fresh": all of it was written by the      *)
(* builder that runs now.  "whole": the complete output of one builder     *)
(* that succeeded.  "junk": anything else, e.g. the part of an output that *)
(* a builder had written, or a removal had left, when it was interrupted.  *)
Contents == {"absent", "fresh", "whole", "junk"}

VARIABLES
    row,        \* the units whose store_path is in the table
    content,    \* what is at the store path of the unit
    removing,   \* the unit whose removal holds the database mutex, or NoUnit
    cleared     \* that removal has come back from clean_path

storeVars == <<row, content, removing, cleared>>

StoreTypeOK ==
    /\ row \subseteq Units
    /\ content \in [Units -> Contents]
    /\ removing \in Units \cup {NoUnit}
    /\ cleared \in BOOLEAN

StoreInit ==
    /\ row = {}
    /\ content = [u \in Units |-> "absent"]
    /\ removing = NoUnit
    /\ cleared = FALSE
-----------------------------------------------------------------------------
MutexFree == removing = NoUnit

IsDbPath(u) == u \in row

(* build::clean_path: nothing is left, or an error left part of it.        *)
CleanPath(u) == content' = [content EXCEPT ![u] = "absent"]

CleanPathFails(u) ==
    /\ content[u] # "absent"
    /\ \/ UNCHANGED content
       \/ u \in Packages /\ content' = [content EXCEPT ![u] = "junk"]

(* DbConnection::remove: the files first, then the row.  The output of a   *)
(* fetch is one file and goes at once; that of a package may be a tree,    *)
(* and remove_dir_all takes it to pieces on the way.                       *)
RemoveBegin(u) ==
    /\ MutexFree
    /\ removing' = u
    /\ UNCHANGED <<row, content, cleared>>

RemovePart(u) ==
    /\ removing = u /\ ~cleared
    /\ u \in Packages /\ content[u] # "absent"
    /\ content' = [content EXCEPT ![u] = "junk"]
    /\ UNCHANGED <<row, removing, cleared>>

RemoveFiles(u) ==
    /\ removing = u /\ ~cleared
    /\ CleanPath(u)
    /\ cleared' = TRUE
    /\ UNCHANGED <<row, removing>>

RemoveRow(u) ==
    /\ removing = u /\ cleared
    /\ row' = row \ {u}
    /\ removing' = NoUnit /\ cleared' = FALSE
    /\ UNCHANGED content

\* A mistake: the mutex stays locked after an error.
RemoveFailsLocked(u) ==
    /\ removing = u
    /\ UNCHANGED storeVars

\* An error of clean_path or of the DELETE statement; what was done stays.
RemoveFails(u) ==
    /\ removing = u
    /\ removing' = NoUnit /\ cleared' = FALSE
    /\ UNCHANGED <<row, content>>

(* DbConnection::add: it looks at the table only, never at the path.       *)
Add(u) ==
    /\ MutexFree
    /\ row' = row \cup {u}
    /\ UNCHANGED <<content, removing, cleared>>

(* What remains of the store when every miq process and builder is gone.   *)
StoreSettled ==
    /\ content' = [u \in Units |-> IF content[u] = "fresh" THEN "junk" ELSE content[u]]
    /\ removing' = NoUnit /\ cleared' = FALSE
    /\ UNCHANGED row
=============================================================================
