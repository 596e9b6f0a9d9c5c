------------------------------- MODULE MemFS -------------------------------
(***************************************************************************)
(* The in-memory file tree behind every CalDAV user handler, as far as     *)
(* internal/caldav uses it: webdav.NewMemFS of golang.org/x/net.           *)
(*                                                                         *)
(* A path is a non-empty sequence of names, a tree maps every path of the  *)
(* bounded universe Paths to the content of a file, to Dir or to Absent.   *)
(***************************************************************************)
EXTENDS Naturals, FiniteSets, SequencesExt

CONSTANTS
    Names,      \* the names a path consists of
    Paths,      \* the resource paths of the instance, closed under prefixes
    Contents,   \* the file contents, as far as they can be told apart
    Empty,      \* the content of zero bytes
    Dir,        \* marks a collection
    Absent      \* marks a path where nothing is

ASSUME ContentsAssumption ==
    /\ Empty \in Contents
    /\ Dir \notin Contents
    /\ Absent \notin Contents
    /\ Dir # Absent

ASSUME PathsAssumption ==
    \A p \in Paths :
        /\ p \in Seq(Names)
        /\ p # <<>>
        /\ \A n \in 1..Len(p) : SubSeq(p, 1, n) \in Paths

FileSystems == [Paths -> Contents \cup {Dir, Absent}]

Above(p) == {q \in Paths : IsStrictPrefix(q, p)}

Under(p) == {q \in Paths : IsStrictPrefix(p, q)}

Tree(p) == {p} \cup Under(p)

(* Mutant: something is there, file or collection. *)
ReachableThroughFiles(f, p) == \A q \in Above(p) : f[q] # Absent

(* memFS.find: every name on the way to p is a collection. *)
Reachable(f, p) == \A q \in Above(p) : f[q] = Dir

Exists(f, p) == f[p] # Absent

IsFile(f, p) == f[p] \in Contents

(* RemoveAll(p). *)
Removed(f, p) == [q \in Paths |-> IF q \in Tree(p) THEN Absent ELSE f[q]]

(* The place of q when the tree at src is put at dst. *)
Rebase(q, src, dst) == dst \o SubSeq(q, Len(src) + 1, Len(q))

(* f with a copy of the tree that g holds at src put at dst. *)
Grafted(f, g, src, dst) ==
    [q \in Paths |->
        IF q \notin Tree(dst) THEN f[q]
        ELSE LET origin == Rebase(q, dst, src)
             IN IF origin \in Paths THEN g[origin] ELSE Absent]

(* Rename(src, dst): the tree at src leaves its place for dst. *)
Renamed(f, src, dst) == Grafted(Removed(f, src), f, src, dst)

(* The tree at src, put at dst, stays inside the bounded universe of paths. *)
Fits(f, src, dst) ==
    \A q \in Tree(src) : Exists(f, q) => Rebase(q, src, dst) \in Paths

(* No file has anything below it, and nothing hangs in the air. *)
WellFormedTree(f) == \A p \in Paths : Exists(f, p) => Reachable(f, p)
=============================================================================
