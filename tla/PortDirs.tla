------------------------------ MODULE PortDirs ------------------------------
(***************************************************************************)
(* Directories in port.c: creation, listing, and removal with everything   *)
(* inside, on a file system with symbolic links.  A path is a sequence of  *)
(* names from the root.                                                    *)
(***************************************************************************)
EXTENDS Integers, Sequences

CONSTANTS Paths,        \* paths that may exist, each after its parent
          Orders,       \* orders in which readdir may have the names
          MaxLinks      \* bound: links followed before the system gives up

VARIABLES
    fs,         \* what is at each path: "file", "dir", "none", or the target of a link
    locked,     \* directories whose entries cannot be changed
    last        \* the last call, its path, its result, and fs before it

vars == <<fs, locked, last>>

Dir == <<"dir">>
File == <<"file">>
None == <<"none">>
IsLink(e) == e \notin {Dir, File, None}

\* The directory a path names something in, and the name.
Parent(p) == SubSeq(p, 1, Len(p) - 1)

Name(p) == p[Len(p)]

Names == {Name(p) : p \in Paths}

At(f, p) == IF p \in Paths THEN f[p] ELSE None

\* Where a path leads, links followed; <<>> when it leads nowhere.
Walk(f, p) ==
    LET walk[done, rest \in Seq(STRING), links \in 0..MaxLinks] ==
            IF rest = <<>> THEN done
            ELSE LET q == Append(done, Head(rest))
                 IN  IF ~IsLink(At(f, q)) THEN walk[q, Tail(rest), links]
                     ELSE IF links = MaxLinks THEN <<>> ELSE walk[<<>>, At(f, q) \o Tail(rest), links + 1]
    IN  walk[<<>>, p, 0]

\* The same, the last name not followed: what remove and rmdir act on.
Lookup(f, p) ==
    LET dir == Walk(f, Parent(p))
    IN  IF dir = <<>> /\ Len(p) > 1 THEN <<>> ELSE Append(dir, Name(p))

Entries(f, q) == {n \in Names : At(f, Append(q, n)) # None}

Unlink(f, q) == [f EXCEPT ![q] = None]

MayChange(q) == q # <<>> /\ Parent(q) \notin locked

\* stat follows the links.
bctbx_directory_exists(f, p) == At(f, Walk(f, p)) = Dir

\* The names in the order readdir has them.
bctbx_parse_directory(f, p, order) ==
    LET names == SelectSeq(order, LAMBDA n : n \in Entries(f, Walk(f, p)))
    IN  IF bctbx_directory_exists(f, p) THEN [i \in DOMAIN names |-> Append(p, names[i])] ELSE <<>>

\* rmdir takes no link and no directory with something in it.
bctbx_rmemptydir(f, p) ==
    LET q == Lookup(f, p)
    IN  IF At(f, q) = Dir /\ Entries(f, q) = {} /\ MayChange(q)
        THEN [fs |-> Unlink(f, q), ret |-> 0] ELSE [fs |-> f, ret |-> -1]

\* remove(): a file or a link.
RemoveEntry(f, p) ==
    LET q == Lookup(f, p)
    IN  IF At(f, q) \notin {None, Dir} /\ MayChange(q) THEN Unlink(f, q) ELSE f

\* bctbx_list_for_each over the list, which was made before anything went; a
\* failure is not looked at.  Mutant: what is below is removed as a file would.
remove_flat(f, list) ==
    LET after[i \in 0..Len(list)] == IF i = 0 THEN f ELSE RemoveEntry(after[i - 1], list[i]) IN after[Len(list)]

RemoveAll(f, list, order) ==
    LET remove[g \in [Paths -> Seq(STRING)], l \in Seq(Seq(STRING))] ==
            LET path == Head(l)
                removeFileFromList ==
                    IF bctbx_directory_exists(g, path)
                    THEN bctbx_rmemptydir(remove[g, bctbx_parse_directory(g, path, order)], path).fs
                    ELSE RemoveEntry(g, path)
            IN  IF l = <<>> THEN g ELSE remove[removeFileFromList, Tail(l)]
    IN  remove[f, list]

\* Mutant: directories inside are not entered.
rmdir_flat(f, path, recursive, order) ==
    IF ~recursive THEN bctbx_rmemptydir(f, path)
    ELSE IF ~bctbx_directory_exists(f, path) THEN [fs |-> f, ret |-> -1]
    ELSE bctbx_rmemptydir(remove_flat(f, bctbx_parse_directory(f, path, order)), path)

bctbx_rmdir(f, path, recursive, order) ==
    IF ~recursive THEN bctbx_rmemptydir(f, path)
    ELSE IF ~bctbx_directory_exists(f, path) THEN [fs |-> f, ret |-> -1]
    ELSE bctbx_rmemptydir(RemoveAll(f, bctbx_parse_directory(f, path, order), order), path)

bctbx_mkdir(f, path) ==
    LET q == Lookup(f, path)
    IN  IF At(f, q) = None /\ (Len(q) = 1 \/ At(f, Parent(q)) = Dir) /\ MayChange(q)
        THEN [fs |-> [f EXCEPT ![q] = Dir], ret |-> 0] ELSE [fs |-> f, ret |-> -1]

-----------------------------------------------------------------------------

Call(path, op, r) == /\ fs' = r.fs
                     /\ last' = [op |-> op, path |-> path, ret |-> r.ret, before |-> fs]
                     /\ UNCHANGED locked

Rmdir(path) ==
    \E recursive \in BOOLEAN, order \in Orders :
        Call(path, IF recursive THEN "rmtree" ELSE "rmdir", bctbx_rmdir(fs, path, recursive, order))

Mkdir(path) == Call(path, "mkdir", bctbx_mkdir(fs, path))

Next == \E path \in Paths : Rmdir(path) \/ Mkdir(path)
=============================================================================
