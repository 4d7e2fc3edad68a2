------------------------------ MODULE StorePaths ------------------------------
(***************************************************************************)
(* The paths that `miq store` is given, and what it does with them:        *)
(* db::Args::main and fix_dir_trailing_slash (src/db.rs), and clean_path   *)
(* (src/build.rs) on whatever is at a path.                                *)
(*                                                                         *)
(* A path is spelled as the sequence of what is between its slashes; a     *)
(* location is the sequence of names that the kernel comes to.  Each       *)
(* removal is one step here; what may come between its parts is in Miq.    *)
(***************************************************************************)
EXTENDS Naturals, Sequences, FiniteSets

CONSTANTS
    StoreLocations, \* the locations of the outputs of packages
    OtherLocations, \* locations of files that are not miq's
    Cwd,            \* the working directory of the user
    Spellings       \* the paths that the user writes on the command line

Locations == StoreLocations \cup OtherLocations

(* [root |-> TRUE, segs |-> <<"s", "", "a">>] is "/s//a".  Where a ".."     *)
(* occurs, what comes before it is taken to be a directory.                *)
Paths == [root : BOOLEAN, segs : Seq(STRING)]

(* Paths from the root, as the tests of the repository use them.           *)
AllAbsolute == \A p \in Spellings : p.root

Canonical(loc) == [root |-> TRUE, segs |-> loc]

IsName(s) == s \notin {"", "."}

(* Where the kernel comes to from loc through s, and through all of segs.  *)
Enter(loc, s) ==
    IF ~IsName(s) THEN loc
    ELSE IF s # ".." THEN Append(loc, s)
    ELSE SubSeq(loc, 1, Len(loc) - 1)

Walk(loc, segs) ==
    LET at[i \in 0 .. Len(segs)] == IF i = 0 THEN loc ELSE Enter(at[i - 1], segs[i])
    IN  at[Len(segs)]

Location(p) == Walk(IF p.root THEN <<>> ELSE Cwd, p.segs)

(* Path::components drops what is empty and every "." but a leading one.   *)
Keep(names, s) == IF IsName(s) THEN Append(names, s) ELSE names

NamesOf(segs) ==
    LET kept[i \in 0 .. Len(segs)] ==
            IF i = 0 THEN <<>> ELSE Keep(kept[i - 1], segs[i])
    IN  kept[Len(segs)]

Components(p) ==
    IF ~p.root /\ p.segs # <<>> /\ p.segs[1] = "."
    THEN <<".">> \o NamesOf(p.segs) ELSE NamesOf(p.segs)

\* A mistake: the path is taken as it is written.
FixedNot(p) == [root |-> TRUE, segs |-> p.segs]

(* fix_dir_trailing_slash: the components, pushed on "/".                  *)
Fixed(p) == [root |-> TRUE, segs |-> Components(p)]

(* A store path has no "..", and what the user names is somewhere.         *)
ASSUME PathsAssumption ==
    /\ StoreLocations \subseteq Seq({s \in STRING : IsName(s) /\ s # ".."})
    /\ OtherLocations \subseteq Seq(STRING) /\ IsFiniteSet(Locations)
    /\ Cwd \in Seq(STRING)
    /\ Spellings \subseteq Paths
    /\ \A p \in Spellings : {Location(p), Location(Fixed(p))} \subseteq Locations

VARIABLES
    rows,       \* the texts in the table `store`
    entry,      \* what is at each location
    wiping,     \* the rows that `rm --all` has listed and not dealt with
    last        \* the last command, the locations it was given, its success

pathVars == <<rows, entry, wiping, last>>

Nothing == [kind |-> "absent", to |-> <<>>]
Regular == [kind |-> "file", to |-> <<>>]

(* What a builder may leave: a file (or a directory, which is treated like *)
(* one), something that is neither, or a link to another output.           *)
Outputs(loc) ==
    [kind : {"file", "special"}, to : {<<>>}]
        \cup [kind : {"link"}, to : StoreLocations \ {loc}]

Did(cmd, locs, ok) == last' = [cmd |-> cmd, locs |-> locs, ok |-> ok]

PathInit ==
    /\ rows = {} /\ wiping = {}
    /\ entry = [loc \in Locations |-> IF loc \in OtherLocations THEN Regular ELSE Nothing]
    /\ last = [cmd |-> "none", locs |-> {}, ok |-> TRUE]
-----------------------------------------------------------------------------
(* fs::metadata: links are followed; after more of them than there are     *)
(* locations they lead in a circle.  Ends(e)[l] is where l leads to in e.  *)
Ends(e) ==
    LET after[n \in 0 .. Cardinality(Locations)] ==
            IF n = 0 THEN [l \in Locations |-> l]
            ELSE [l \in Locations |-> IF e[l].kind = "link" THEN after[n - 1][e[l].to] ELSE l]
    IN  after[Cardinality(Locations)]

Target(loc) == Ends(entry)[loc]

Metadata(loc) == entry[Target(loc)].kind

Dangling(loc) == entry[loc].kind = "link" /\ Metadata(loc) = "absent"

(* clean_path: remove_file and remove_dir_all take a link and not what it  *)
(* leads to; a link that leads nowhere is taken for nothing and stays; for *)
(* anything else but files and directories it is an error.                 *)
Cleanable(loc) == Metadata(loc) \in {"absent", "file"}

\* Two mistakes: a link is left alone, and a link is followed.
CleanedFiles(loc) ==
    IF entry[loc].kind # "file" THEN entry ELSE [entry EXCEPT ![loc] = Nothing]

CleanedTarget(loc) ==
    IF Metadata(loc) = "absent" THEN entry ELSE [entry EXCEPT ![Target(loc)] = Nothing]

Cleaned(loc) ==
    IF Metadata(loc) = "absent" THEN entry ELSE [entry EXCEPT ![loc] = Nothing]

(* What a builder may leave, when it writes to nothing but its path: what  *)
(* it opens there goes through a link that has been left.                  *)
Written(loc) ==
    IF Dangling(loc)
    THEN {entry, [entry EXCEPT ![Target(loc)] = Regular]}
    ELSE {[Cleaned(loc) EXCEPT ![loc] = out] : out \in Outputs(loc) \cup {Nothing}}

(* A build of a unit that has no row, as far as it matters here; its row   *)
(* is canonical.  try_exists follows links, too.                           *)
Build(loc) ==
    /\ Canonical(loc) \notin rows
    /\ Cleanable(loc)
    /\ entry' \in Written(loc)
    /\ \E ok \in BOOLEAN :
          /\ ok => Metadata(loc)' \in {"file", "special"}
          /\ rows' = IF ok THEN rows \cup {Canonical(loc)} ELSE rows
          /\ Did("build", {loc}, ok)
    /\ UNCHANGED wiping

(* store add.                                                              *)
StoreAdd(p) ==
    /\ rows' = rows \cup {Fixed(p)}
    /\ Did("add", {Location(p)}, TRUE)
    /\ UNCHANGED <<entry, wiping>>

(* store is-path.                                                          *)
StoreIsPath(p) ==
    /\ Did("is-path", {Location(p)}, Fixed(p) \in rows)
    /\ UNCHANGED <<rows, entry, wiping>>

(* DbConnection::remove of a text: an error of clean_path keeps the row.   *)
Removes(text) ==
    IF Cleanable(Location(text))
    THEN entry' = Cleaned(Location(text)) /\ rows' = rows \ {text}
    ELSE UNCHANGED <<rows, entry>>

(* store rm PATH.                                                          *)
StoreRemove(p) ==
    /\ Removes(Fixed(p))
    /\ Did("rm", {Location(p)}, Cleanable(Location(Fixed(p))))
    /\ UNCHANGED wiping

(* store rm --all: the rows that list returns, in any order.               *)
WipeStart ==
    /\ rows # {}
    /\ wiping' = rows
    /\ Did("rm --all", {Location(r) : r \in rows}, FALSE)
    /\ UNCHANGED <<rows, entry>>

WipeOne(r) ==
    /\ r \in wiping
    /\ Removes(r)
    /\ wiping' = IF Cleanable(Location(r)) THEN wiping \ {r} ELSE {}
    /\ Did("rm --all", last.locs, Cleanable(Location(r)) /\ wiping = {r})

\* The process has died in the middle of it.
WipeStops ==
    /\ wiping' = {}
    /\ UNCHANGED <<rows, entry, last>>

StoreCommand ==
    \/ \E loc \in StoreLocations : Build(loc)
    \/ \E p \in Spellings : StoreAdd(p) \/ StoreIsPath(p) \/ StoreRemove(p)
-----------------------------------------------------------------------------
(* Properties.                                                             *)

\* A removal that reports success has left the path free for the next builder,
\* except for a link that led nowhere when it was looked at.
Freed(loc) == entry[loc] = Nothing \/ Dangling(loc)

RemovedIsGone ==
    last.cmd \in {"rm", "rm --all"} /\ last.ok => \A loc \in last.locs : Freed(loc)

\* A path that a build has registered is found under every spelling of it but
\* those with "..", with extra slashes, dots and a slash at the end.
AnswersAgree ==
    \A loc \in StoreLocations : Canonical(loc) \in rows =>
        \A p \in Spellings :
            Location(p) = loc /\ ".." \notin {p.segs[i] : i \in 1 .. Len(p.segs)}
                => Fixed(p) \in rows

\* `store` changes what is at the locations that the user has named, as the
\* shell understands them, and nothing else: links are not followed.
OnlyNamedChanges ==
    [][last'.cmd # "build" =>
          \A loc \in Locations : entry'[loc] # entry[loc] => loc \in last'.locs]_pathVars

(* The inductive invariant: what rows and entries there are, and that of   *)
(* the locations that `rm --all` is about, each is free or has its row yet *)
(* to come.                                                                *)
Entries ==
    {Nothing} \cup [kind : {"file", "special"}, to : {<<>>}]
        \cup [kind : {"link"}, to : StoreLocations]

PathTypeOK ==
    /\ rows \subseteq {Fixed(p) : p \in Spellings} \cup {Canonical(loc) : loc \in StoreLocations}
    /\ entry \in [Locations -> Entries]
    /\ wiping \subseteq rows
    /\ last \in [cmd : {"none", "build", "add", "is-path", "rm", "rm --all"},
                 locs : SUBSET Locations, ok : BOOLEAN]

WipeGoesOn ==
    wiping # {} =>
        /\ last.cmd = "rm --all" /\ ~last.ok
        /\ \A r \in wiping : Location(r) \in last.locs
        /\ \A loc \in last.locs : Freed(loc) \/ \E r \in wiping : Location(r) = loc

PathInv == PathTypeOK /\ WipeGoesOn /\ RemovedIsGone
=============================================================================
