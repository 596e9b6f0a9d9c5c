-------------------------- MODULE MCCalDAVHandler --------------------------
(* Instances of CalDAVHandler for TLC. *)
EXTENDS CalDAVRefinement, CalDAVClaims

CONSTANTS d, x, e, c1, c2

OnePath == {<<e>>}
TwoPaths == {<<d>>, <<e>>}
NestedPaths == {<<d>>, <<d, x>>}
TreePaths == {<<d>>, <<d, x>>, <<e>>}

NoTags == {NoHeader}
OneTag == {NoHeader, Tags({c1})}
TagOrStar == {NoHeader, Star, Tags({c1})}

Resources == {"GET", "PUT", "DELETE"}
Collections == {"PUT", "DELETE", "MKCOL"}
Moves == {"PUT", "MOVE"}
OnlyPut == {"PUT"}
Mutations == {"PUT", "DELETE", "MKCOL", "MOVE", "COPY"}
TreeMethods == Mutations \ {"COPY"}

Symmetry == Permutations(Reqs)
=============================================================================
