---------------------------- MODULE MemFS_proofs ----------------------------
(***************************************************************************)
(* What the tree operations of MemFS preserve: types, and that every entry *)
(* hangs in a collection.                                                  *)
(***************************************************************************)
EXTENDS MemFS, SequenceTheorems, TLAPS

-----------------------------------------------------------------------------
(* Paths as sequences of names.                                            *)

LEMMA PathType ==
    ASSUME NEW p \in Paths
    PROVE  /\ p \in Seq(Names)
           /\ Len(p) \in Nat \ {0}
           /\ \A n \in 1..Len(p) : SubSeq(p, 1, n) \in Paths
<1>1. p \in Seq(Names) /\ p # <<>> /\ \A n \in 1..Len(p) : SubSeq(p, 1, n) \in Paths
    BY PathsAssumption
<1> QED  BY <1>1, EmptySeq

(* A prefix and what is left of the sequence make it up. *)
LEMMA PrefixSplits ==
    ASSUME NEW p \in Seq(Names), NEW q \in Seq(Names), IsPrefix(p, q)
    PROVE  /\ SubSeq(q, Len(p) + 1, Len(q)) \in Seq(Names)
           /\ q = p \o SubSeq(q, Len(p) + 1, Len(q))
<1>1. Len(p) \in Nat /\ Len(q) \in Nat /\ Len(p) <= Len(q)
    BY LenProperties DEF IsPrefix
<1>2. SubSeq(q, Len(p) + 1, Len(q)) \in Seq(Names)
  <2>1. \A i \in Len(p) + 1 .. Len(q) : q[i] \in Names
    BY <1>1, ElementOfSeq
  <2> QED  BY <1>1, <2>1, SubSeqProperties
<1>3. SubSeq(q, 1, Len(p)) \o SubSeq(q, Len(p) + 1, Len(q)) = SubSeq(q, 1, Len(q))
  <2>1. 1 \in 1..Len(q) + 1 /\ Len(p) \in 1 - 1 .. Len(q) /\ Len(q) \in Len(p)..Len(q)
    BY <1>1
  <2> QED  BY <2>1, ConcatAdjacentSubSeq
<1>4. SubSeq(q, 1, Len(p)) = p
    BY SubSeqFull DEF IsPrefix
<1> QED  BY <1>2, <1>3, <1>4, SubSeqFull

(* The front part of a concatenation is a prefix, and the rest is the rest. *)
LEMMA ConcatSplits ==
    ASSUME NEW p \in Seq(Names), p # <<>>, NEW t \in Seq(Names)
    PROVE  /\ IsPrefix(p, p \o t)
           /\ SubSeq(p \o t, Len(p) + 1, Len(p \o t)) = t
<1>1. Len(p) \in Nat \ {0} /\ Len(t) \in Nat
    BY EmptySeq, LenProperties
<1>2. Len(p \o t) = Len(p) + Len(t)
    BY ConcatProperties
<1>3. SubSeq(p \o t, 1, Len(p)) = SubSeq(p, 1, Len(p))
    BY <1>1, SubSeqOfConcat1
<1>4. SubSeq(p \o t, Len(p) + 1, Len(p \o t)) = t
  <2>1. CASE Len(t) = 0
    <3>1. t = <<>>
      BY <2>1, EmptySeq
    <3>2. SubSeq(p \o t, Len(p) + 1, Len(p \o t)) = <<>>
      BY <1>1, <1>2, <2>1, SubSeqEmpty
    <3> QED  BY <3>1, <3>2
  <2>2. CASE Len(t) # 0
    <3>1. /\ Len(p) + 1 \in Len(p) + 1 .. Len(p) + Len(t)
          /\ Len(p) + Len(t) \in Len(p) + 1 .. Len(p) + Len(t)
      BY <1>1, <2>2
    <3>2. SubSeq(p \o t, Len(p) + 1, Len(p) + Len(t)) = SubSeq(t, 1, Len(t))
      BY <1>1, <3>1, SubSeqOfConcat2
    <3> QED  BY <1>2, <3>2, SubSeqFull
  <2> QED  BY <2>1, <2>2
<1> QED  BY <1>1, <1>2, <1>3, <1>4 DEF IsPrefix

(* The tree at p holds the paths that continue p. *)
LEMMA TreeIsPrefix ==
    ASSUME NEW p \in Paths, NEW q \in Paths
    PROVE  /\ q \in Tree(p) <=> IsPrefix(p, q)
           /\ q \in Above(p) <=> IsPrefix(q, p) /\ q # p
           /\ q \in Under(p) <=> p \in Above(q)
<1>1. IsPrefix(p, p)
    BY PathType DEF IsPrefix
<1> QED  BY <1>1 DEF Tree, Under, Above, IsStrictPrefix

LEMMA PrefixTransitive ==
    ASSUME NEW p \in Paths, NEW q \in Paths, NEW s \in Paths,
           IsPrefix(p, q), IsPrefix(q, s)
    PROVE  IsPrefix(p, s)
<1>1. p \in Seq(Names) /\ q \in Seq(Names) /\ s \in Seq(Names)
    BY PathType
<1> DEFINE t == SubSeq(q, Len(p) + 1, Len(q))
           v == SubSeq(s, Len(q) + 1, Len(s))
<1>2. t \in Seq(Names) /\ q = p \o t /\ v \in Seq(Names) /\ s = q \o v
    BY <1>1, PrefixSplits
<1> HIDE DEF t, v
<1>3. s = p \o (t \o v) /\ t \o v \in Seq(Names)
    BY <1>1, <1>2, ConcatAssociative, ConcatProperties
<1> QED  BY <1>1, <1>3, ConcatSplits, PathType, EmptySeq

(* Of two prefixes of a path one is a prefix of the other. *)
LEMMA PrefixesCompare ==
    ASSUME NEW p \in Paths, NEW q \in Paths, NEW s \in Paths,
           IsPrefix(p, s), IsPrefix(q, s)
    PROVE  IsPrefix(p, q) \/ IsPrefix(q, p)
<1>1. /\ p \in Seq(Names) /\ q \in Seq(Names) /\ s \in Seq(Names)
      /\ Len(p) \in Nat \ {0} /\ Len(q) \in Nat \ {0} /\ Len(s) \in Nat \ {0}
    BY PathType
<1>2. Len(p) <= Len(s) /\ Len(q) <= Len(s)
    BY DEF IsPrefix
<1>3. \A i \in 1..Len(p) : p[i] = s[i]
  <2>1. p = SubSeq(s, 1, Len(p))
    BY <1>1, SubSeqFull DEF IsPrefix
  <2>2. \A i \in 1..Len(p) : s[i] \in Names
    BY <1>1, <1>2, ElementOfSeq
  <2> QED  BY <1>1, <2>1, <2>2, SubSeqProperties
<1>4. \A i \in 1..Len(q) : q[i] = s[i]
  <2>1. q = SubSeq(s, 1, Len(q))
    BY <1>1, SubSeqFull DEF IsPrefix
  <2>2. \A i \in 1..Len(q) : s[i] \in Names
    BY <1>1, <1>2, ElementOfSeq
  <2> QED  BY <1>1, <2>1, <2>2, SubSeqProperties
<1>5. ASSUME NEW a \in Seq(Names), NEW b \in Seq(Names),
             Len(a) \in Nat \ {0}, Len(b) \in Nat \ {0}, Len(a) <= Len(b),
             \A i \in 1..Len(a) : a[i] = b[i]
      PROVE  IsPrefix(a, b)
  <2>1. \A i \in 1..Len(a) : b[i] \in Names
    BY <1>5, ElementOfSeq
  <2>2. /\ SubSeq(b, 1, Len(a)) \in Seq(Names)
        /\ Len(SubSeq(b, 1, Len(a))) = Len(a)
        /\ \A i \in 1..Len(a) : SubSeq(b, 1, Len(a))[i] = b[i]
    BY <1>5, <2>1, SubSeqProperties
  <2>3. SubSeq(b, 1, Len(a)) = a
    BY <1>5, <2>2, SeqEqual
  <2>4. SubSeq(a, 1, Len(a)) = a
    BY <1>5, SubSeqFull
  <2> QED  BY <1>5, <2>3, <2>4 DEF IsPrefix
<1>6. CASE Len(p) <= Len(q)
    BY <1>1, <1>3, <1>4, <1>5, <1>6
<1>7. CASE Len(q) <= Len(p)
    BY <1>1, <1>3, <1>4, <1>5, <1>7
<1> QED  BY <1>1, <1>6, <1>7

-----------------------------------------------------------------------------
(* Rebasing.                                                               *)

(* A path below src, rebased to dst, is below dst, and rebasing it back    *)
(* gives it again.                                                         *)
LEMMA RebaseInverse ==
    ASSUME NEW src \in Paths, NEW dst \in Paths, NEW n \in Tree(src),
           Rebase(n, src, dst) \in Paths
    PROVE  /\ Rebase(n, src, dst) \in Tree(dst)
           /\ Rebase(Rebase(n, src, dst), dst, src) = n
<1>0. n \in Paths
    BY DEF Tree, Under
<1>1. /\ src \in Seq(Names) /\ dst \in Seq(Names) /\ n \in Seq(Names)
      /\ src # <<>> /\ dst # <<>>
    BY <1>0, PathType, EmptySeq
<1>2. IsPrefix(src, n)
    BY <1>0, TreeIsPrefix
<1> DEFINE t == SubSeq(n, Len(src) + 1, Len(n))
<1>3. t \in Seq(Names) /\ n = src \o t
    BY <1>1, <1>2, PrefixSplits
<1>4. Rebase(n, src, dst) = dst \o t
    BY DEF Rebase
<1> HIDE DEF t
<1>5. IsPrefix(dst, dst \o t) /\ SubSeq(dst \o t, Len(dst) + 1, Len(dst \o t)) = t
    BY <1>1, <1>3, ConcatSplits
<1>6. Rebase(n, src, dst) \in Tree(dst)
    BY <1>4, <1>5, TreeIsPrefix
<1>7. Rebase(dst \o t, dst, src) = src \o t
    BY <1>5 DEF Rebase
<1> QED  BY <1>3, <1>4, <1>6, <1>7

(* A path between the root of a tree and a path in it is rebased to a path *)
(* between the images of the two.                                          *)
LEMMA RebaseAbove ==
    ASSUME NEW src \in Paths, NEW dst \in Paths,
           NEW p \in Tree(dst), NEW q \in Tree(dst), q \in Above(p),
           Rebase(p, dst, src) \in Paths
    PROVE  Rebase(q, dst, src) \in Above(Rebase(p, dst, src))
<1>0. p \in Paths /\ q \in Paths
    BY DEF Tree, Under
<1>1. /\ src \in Seq(Names) /\ dst \in Seq(Names) /\ p \in Seq(Names)
      /\ q \in Seq(Names) /\ src # <<>> /\ dst # <<>> /\ q # <<>>
    BY <1>0, PathType, EmptySeq
<1>2. IsPrefix(dst, q) /\ IsPrefix(q, p) /\ q # p
    BY <1>0, TreeIsPrefix
<1> DEFINE t == SubSeq(q, Len(dst) + 1, Len(q))
           v == SubSeq(p, Len(q) + 1, Len(p))
<1>3. t \in Seq(Names) /\ q = dst \o t /\ v \in Seq(Names) /\ p = q \o v
    BY <1>1, <1>2, PrefixSplits
<1>4. Rebase(q, dst, src) = src \o t
    BY DEF Rebase
<1> HIDE DEF t, v
<1>5. p = dst \o (t \o v) /\ t \o v \in Seq(Names)
    BY <1>1, <1>3, ConcatAssociative, ConcatProperties
<1>6. Rebase(p, dst, src) = src \o (t \o v)
    BY <1>1, <1>5, ConcatSplits DEF Rebase
<1>7. Rebase(p, dst, src) = (src \o t) \o v
  <2>1. (src \o t) \o v = src \o (t \o v)
    BY <1>1, <1>3, ConcatAssociative
  <2> QED  BY <1>6, <2>1
<1>8. src \o t \in Seq(Names) /\ src \o t # <<>>
    BY <1>1, <1>3, ConcatProperties, ConcatEqualIffEmpty
<1>9. IsPrefix(src \o t, (src \o t) \o v)
    BY <1>3, <1>8, ConcatSplits
<1>10. v # <<>>
    BY <1>1, <1>2, <1>3, ConcatEmptySeq
<1>11. src \o t # (src \o t) \o v
    BY <1>3, <1>8, <1>10, ConcatEqualIffEmpty
<1>12. src \o t \in Paths
  <2> DEFINE s == (src \o t) \o v
  <2>1. s \in Paths
    BY <1>7
  <2>2. SubSeq(s, 1, Len(src \o t)) = src \o t
    BY <1>8, <1>9, SubSeqFull DEF IsPrefix
  <2>3. Len(src \o t) \in 1..Len(s)
    BY <1>8, <1>9, <2>1, EmptySeq, PathType DEF IsPrefix
  <2> QED  BY <2>1, <2>2, <2>3, PathType
<1> QED  BY <1>4, <1>7, <1>9, <1>11, <1>12, TreeIsPrefix

-----------------------------------------------------------------------------
(* The operations on trees.                                                *)

LEMMA TreeTypes ==
    ASSUME NEW f \in FileSystems, NEW g \in FileSystems,
           NEW src \in Paths, NEW dst \in Paths,
           NEW v \in Contents \cup {Dir, Absent}
    PROVE  /\ [f EXCEPT ![dst] = v] \in FileSystems
           /\ Removed(f, dst) \in FileSystems
           /\ Grafted(f, g, src, dst) \in FileSystems
           /\ Renamed(f, src, dst) \in FileSystems
<1>1. \A h \in FileSystems, k \in FileSystems : Grafted(h, k, src, dst) \in FileSystems
    BY DEF Grafted, FileSystems
<1>2. \A h \in FileSystems, p \in Paths : Removed(h, p) \in FileSystems
    BY DEF Removed, FileSystems
<1>3. [f EXCEPT ![dst] = v] \in FileSystems
    BY DEF FileSystems
<1> QED  BY <1>1, <1>2, <1>3 DEF Renamed

(* Nothing exists below what is not a collection. *)
LEMMA NothingBelow ==
    ASSUME NEW f \in FileSystems, WellFormedTree(f),
           NEW p \in Paths, f[p] # Dir, NEW q \in Under(p)
    PROVE  f[q] = Absent
<1>1. q \in Paths /\ p \in Above(q)
    BY TreeIsPrefix DEF Under
<1> QED  BY <1>1 DEF WellFormedTree, Exists, Reachable

(* An entry set where it can be reached, other than over a collection. *)
LEMMA SetWellFormed ==
    ASSUME NEW f \in FileSystems, WellFormedTree(f),
           NEW p \in Paths, Reachable(f, p), f[p] # Dir, NEW v \in Contents \cup {Dir}
    PROVE  WellFormedTree([f EXCEPT ![p] = v])
<1> DEFINE h == [f EXCEPT ![p] = v]
<1>1. SUFFICES ASSUME NEW s \in Paths, Exists(h, s), NEW q \in Above(s)
               PROVE  h[q] = Dir
    BY DEF WellFormedTree, Reachable
<1>2. q \in Paths
    BY DEF Above
<1>3. CASE s = p
  <2>1. q # p
    BY <1>3, TreeIsPrefix, <1>2
  <2>2. f[q] = Dir
    BY <1>3 DEF Reachable
  <2> QED  BY <1>2, <2>1, <2>2 DEF FileSystems
<1>4. CASE s # p
  <2>1. f[s] # Absent
    BY <1>1, <1>4 DEF Exists, FileSystems
  <2>2. f[q] = Dir
    BY <1>1, <2>1 DEF WellFormedTree, Exists, Reachable
  <2>3. q # p
    BY <2>2
  <2> QED  BY <1>2, <2>2, <2>3 DEF FileSystems
<1> QED  BY <1>3, <1>4

LEMMA RemovedWellFormed ==
    ASSUME NEW f \in FileSystems, WellFormedTree(f), NEW p \in Paths
    PROVE  WellFormedTree(Removed(f, p))
<1>1. SUFFICES ASSUME NEW s \in Paths, Exists(Removed(f, p), s), NEW q \in Above(s)
               PROVE  Removed(f, p)[q] = Dir
    BY DEF WellFormedTree, Reachable
<1>2. q \in Paths
    BY DEF Above
<1>3. s \notin Tree(p) /\ f[s] # Absent
    BY <1>1 DEF Exists, Removed
<1>4. f[q] = Dir
    BY <1>1, <1>3 DEF WellFormedTree, Exists, Reachable
<1>5. q \notin Tree(p)
    BY <1>1, <1>2, <1>3, TreeIsPrefix, PrefixTransitive
<1> QED  BY <1>2, <1>4, <1>5 DEF Removed

(* A tree put at a place that can be reached. *)
LEMMA GraftedWellFormed ==
    ASSUME NEW f \in FileSystems, WellFormedTree(f),
           NEW g \in FileSystems, WellFormedTree(g),
           NEW src \in Paths, NEW dst \in Paths, Reachable(f, dst)
    PROVE  WellFormedTree(Grafted(f, g, src, dst))
<1> DEFINE h == Grafted(f, g, src, dst)
<1>1. SUFFICES ASSUME NEW s \in Paths, Exists(h, s), NEW q \in Above(s)
               PROVE  h[q] = Dir
    BY DEF WellFormedTree, Reachable
<1>2. q \in Paths /\ IsPrefix(q, s) /\ q # s
    BY TreeIsPrefix DEF Above
<1>3. CASE s \notin Tree(dst)
  <2>1. f[s] # Absent
    BY <1>1, <1>3 DEF Grafted, Exists
  <2>2. f[q] = Dir
    BY <2>1 DEF WellFormedTree, Exists, Reachable
  <2>3. q \notin Tree(dst)
    BY <1>2, <1>3, TreeIsPrefix, PrefixTransitive
  <2> QED  BY <1>2, <2>2, <2>3 DEF Grafted
<1>4. CASE s \in Tree(dst) /\ q \notin Tree(dst)
  <2>1. IsPrefix(dst, s) /\ ~IsPrefix(dst, q)
    BY <1>2, <1>4, TreeIsPrefix
  <2>2. IsPrefix(q, dst) /\ q # dst
    BY <1>2, <2>1, PrefixesCompare, TreeIsPrefix DEF Tree
  <2>3. f[q] = Dir
    BY <1>2, <2>2, TreeIsPrefix DEF Reachable
  <2> QED  BY <1>2, <1>4, <2>3 DEF Grafted
<1>5. CASE s \in Tree(dst) /\ q \in Tree(dst)
  <2> DEFINE so == Rebase(s, dst, src)
             qo == Rebase(q, dst, src)
  <2>1. so \in Paths /\ g[so] # Absent
    BY <1>1, <1>5 DEF Grafted, Exists
  <2>2. qo \in Above(so)
    BY <1>5, <2>1, RebaseAbove
  <2>3. qo \in Paths /\ g[qo] = Dir
    BY <2>1, <2>2 DEF WellFormedTree, Exists, Reachable, Above
  <2> QED  BY <1>2, <1>5, <2>3 DEF Grafted
<1> QED  BY <1>3, <1>4, <1>5

LEMMA RenamedWellFormed ==
    ASSUME NEW f \in FileSystems, WellFormedTree(f),
           NEW src \in Paths, NEW dst \in Paths, Reachable(f, dst),
           dst \notin Under(src), dst # src
    PROVE  WellFormedTree(Renamed(f, src, dst))
<1>1. Removed(f, src) \in FileSystems /\ WellFormedTree(Removed(f, src))
    BY TreeTypes, RemovedWellFormed
<1>2. Reachable(Removed(f, src), dst)
  <2>1. SUFFICES ASSUME NEW q \in Above(dst)
                 PROVE  Removed(f, src)[q] = Dir
    BY DEF Reachable
  <2>2. q \in Paths /\ f[q] = Dir /\ IsPrefix(q, dst)
    BY TreeIsPrefix DEF Above, Reachable
  <2>3. q \notin Tree(src)
    <3>1. SUFFICES ASSUME q \in Tree(src)
                   PROVE  FALSE
      OBVIOUS
    <3>2. IsPrefix(src, dst)
      BY <2>2, <3>1, TreeIsPrefix, PrefixTransitive
    <3> QED  BY <3>2, TreeIsPrefix DEF Tree
  <2> QED  BY <2>2, <2>3 DEF Removed
<1> QED  BY <1>1, <1>2, GraftedWellFormed DEF Renamed

(* A file that is moved is found at its new place. *)
LEMMA GraftedFile ==
    ASSUME NEW f \in FileSystems, NEW g \in FileSystems,
           NEW src \in Paths, NEW dst \in Paths,
           NEW n \in Tree(src), Rebase(n, src, dst) \in Paths
    PROVE  Grafted(f, g, src, dst)[Rebase(n, src, dst)] = g[n]
<1>1. n \in Paths
    BY DEF Tree, Under
<1> QED  BY <1>1, RebaseInverse DEF Grafted
=============================================================================
