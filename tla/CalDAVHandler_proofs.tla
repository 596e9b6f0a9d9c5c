------------------------ MODULE CalDAVHandler_proofs ------------------------
(***************************************************************************)
(* Proofs about CalDAVHandler: its types, the shape of the trees, and what *)
(* requests carry from stage to stage.                                     *)
(***************************************************************************)
EXTENDS CalDAVHandler, MemFS_proofs, WellFoundedInduction

-----------------------------------------------------------------------------
(* Rows and requests.                                                      *)

LEMMA RequestType ==
    ASSUME NEW q \in Requests
    PROVE  /\ q.method \in AllMethods /\ q.user \in Users /\ q.path \in Paths
           /\ q.body \in Contents /\ q.dest \in Paths /\ q.overwrite \in BOOLEAN
BY HandlerAssumption DEF Requests

(* Any non-empty set of rows has one with the least id, which First returns. *)
LEMMA FirstIsRow ==
    ASSUME NEW R, R \subseteq Row, R # {}
    PROVE  First(R) \in R /\ \A other \in R : First(R).id <= other.id
<1> DEFINE ids == {row.id : row \in R}
<1>1. ids \subseteq Nat /\ ids # {}
    BY DEF Row
<1>2. PICK n \in ids : \A m \in ids : <<m, n>> \notin OpToRel(<, Nat)
    BY <1>1, NatLessThanWellFounded, WFMin
<1>3. \A m \in ids : n <= m
  <2>1. \A m \in Nat : m < n => <<m, n>> \in OpToRel(<, Nat)
    BY <1>1 DEF OpToRel
  <2>2. SUFFICES ASSUME NEW m \in ids PROVE n <= m
    OBVIOUS
  <2>3. m \in Nat /\ n \in Nat
    BY <1>1
  <2>4. ~(m < n)
    BY <1>2, <2>1, <2>3
  <2> QED  BY <2>3, <2>4
<1>4. PICK row \in R : row.id = n
    BY <1>2
<1>5. \A other \in R : row.id <= other.id
    BY <1>3, <1>4
<1> QED  BY <1>5 DEF First

(* With one row at most, that row's content is what is stored. *)
LEMMA StoredUnique ==
    ASSUME NEW k, NEW row \in RowsAt(k), UniqueAt(k), rows \subseteq Row
    PROVE  Stored(k) = row.content
<1>1. RowsAt(k) \subseteq Row
    BY DEF RowsAt
<1>2. First(RowsAt(k)) = row
    BY <1>1, FirstIsRow DEF UniqueAt
<1> QED  BY <1>2 DEF Stored

-----------------------------------------------------------------------------
(* Base is inductive.                                                      *)

LEMMA EmptyTreeType == EmptyTree \in FileSystems /\ WellFormedTree(EmptyTree)
BY DEF EmptyTree, FileSystems, WellFormedTree, Exists

LEMMA InitBase == Init => Base
<1> SUFFICES ASSUME Init PROVE Base
    OBVIOUS
<1>1. TypeOK
  <2>1. fs \in [Users -> FileSystems]
    BY EmptyTreeType DEF Init
  <2>2. reply \in [Reqs -> Reply]
    BY DEF Init, NoReply, Reply, Statuses
  <2> QED  BY <2>1, <2>2, HandlerAssumption DEF Init, TypeOK, Stages
<1>2. TreesWellFormed
    BY EmptyTreeType DEF Init, TreesWellFormed
<1>3. IdsOK
    BY DEF Init, IdsOK
<1>4. \A r \in Reqs : RequestOK(r)
    BY DEF Init, RequestOK, InFlight
<1> QED  BY <1>1, <1>2, <1>3, <1>4 DEF Base

(* A tree built from rows is a tree, if no stored path lies above another. *)
LEMMA HydratedTreeType ==
    ASSUME TypeOK, NEW u \in Users, NEW tree \in HydratedTrees(u)
    PROVE  /\ tree \in FileSystems
           /\ Hydratable(u) => WellFormedTree(tree)
           /\ \A p \in Paths :
                 /\ p \in StoredPaths(u) =>
                       \E row \in RowsAt(<<u, p>>) : tree[p] = row.content
                 /\ p \notin StoredPaths(u) => tree[p] \in {Dir, Absent}
<1>1. PICK pick \in [StoredPaths(u) -> Contents] :
          /\ \A p \in StoredPaths(u) :
                pick[p] \in {row.content : row \in RowsAt(<<u, p>>)}
          /\ tree = [p \in Paths |-> IF p \in StoredPaths(u) THEN pick[p]
                         ELSE IF \E q \in Under(p) : q \in StoredPaths(u) THEN Dir
                         ELSE Absent]
    BY DEF HydratedTrees
<1>2. tree \in FileSystems
    BY <1>1 DEF FileSystems
<1>3. ASSUME Hydratable(u) PROVE WellFormedTree(tree)
  <2>1. SUFFICES ASSUME NEW s \in Paths, Exists(tree, s), NEW q \in Above(s)
                 PROVE  tree[q] = Dir
    BY DEF WellFormedTree, Reachable
  <2>2. q \in Paths /\ s \in Under(q)
    BY TreeIsPrefix DEF Above
  <2>3. PICK t \in StoredPaths(u) : t = s \/ t \in Under(s)
    BY <1>1, <2>1 DEF Exists
  <2>4. t \in Paths /\ t \in Under(q)
    <3>1. t \in Paths
      BY DEF StoredPaths
    <3>2. CASE t = s
      BY <2>2, <3>1, <3>2
    <3>3. CASE t \in Under(s)
      <4>1. IsPrefix(q, s) /\ IsPrefix(s, t) /\ q # s /\ s # t
        BY <2>2, <3>1, <3>3, TreeIsPrefix DEF Under
      <4>2. IsPrefix(q, t)
        BY <2>2, <3>1, <4>1, PrefixTransitive
      <4>3. q # t
        <5>1. q = t => IsPrefix(t, s)
          BY <4>1
        <5> QED  BY <2>2, <3>1, <4>1, <5>1, PathType DEF IsPrefix
      <4> QED  BY <2>2, <3>1, <4>2, <4>3, TreeIsPrefix
    <3> QED  BY <2>3, <3>1, <3>2, <3>3
  <2>5. q \notin StoredPaths(u)
    BY <1>3, <2>2, <2>4, TreeIsPrefix DEF Hydratable
  <2> QED  BY <1>1, <2>2, <2>4, <2>5
<1>4. ASSUME NEW p \in Paths
      PROVE  /\ p \in StoredPaths(u) =>
                    \E row \in RowsAt(<<u, p>>) : tree[p] = row.content
             /\ p \notin StoredPaths(u) => tree[p] \in {Dir, Absent}
    BY <1>1
<1> QED  BY <1>2, <1>3, <1>4

(* The steps that only settle an answer. *)
LEMMA AnswerBase ==
    ASSUME Base, NEW r \in Reqs, stage[r] \in {"load", "serve", "return"},
           stage' = [stage EXCEPT ![r] = "done"],
           reply' \in [Reqs -> Reply], seen' \in [Reqs -> Contents \cup {Absent}],
           UNCHANGED <<up, handlers, fs, rows, nextId, arg, node, held, crashes,
                       disturbed>>
    PROVE  Base'
<1>1. TypeOK'
    BY DEF Base, TypeOK, Stages
<1>2. TreesWellFormed' /\ IdsOK'
    BY DEF Base, TreesWellFormed, IdsOK
<1>3. ASSUME NEW s \in Reqs PROVE RequestOK(s)'
  <2>1. RequestOK(s) /\ stage \in [Reqs -> Stages]
    BY DEF Base, TypeOK
  <2>2. CASE s = r
    BY <2>1, <2>2 DEF RequestOK, InFlight
  <2>3. CASE s # r
    BY <2>1, <2>3 DEF RequestOK, InFlight, Key, RowsAt
  <2> QED  BY <2>2, <2>3
<1> QED  BY <1>1, <1>2, <1>3 DEF Base

LEMMA SettleType ==
    ASSUME TypeOK, NEW r \in Reqs, NEW status \in Statuses,
           NEW etag \in Contents \cup {Absent}, NEW body \in Contents \cup {Absent}
    PROVE  /\ [reply EXCEPT ![r] = [status |-> status, etag |-> etag,
                                    body |-> body]] \in [Reqs -> Reply]
           /\ [seen EXCEPT ![r] = Absent] \in [Reqs -> Contents \cup {Absent}]
<1>1. [status |-> status, etag |-> etag, body |-> body] \in Reply
    BY DEF Reply
<1> QED  BY <1>1 DEF TypeOK

LEMMA ETagType ==
    ASSUME TypeOK, NEW r \in Reqs, arg[r] \in Requests
    PROVE  ResponseETag(r) \in Contents \cup {Absent}
<1>1. arg[r].body \in Contents /\ seen[r] \in Contents \cup {Absent}
    BY RequestType DEF TypeOK
<1> QED  BY <1>1 DEF ResponseETag

(* What every answer of the WebDAV handler changes. *)
LEMMA RespondType ==
    ASSUME TypeOK, NEW r \in Reqs, arg[r] \in Requests, NEW status \in Statuses,
           NEW body \in Contents \cup {Absent}, Respond(r, status, body)
    PROVE  /\ stage' = [stage EXCEPT ![r] = "done"]
           /\ reply' \in [Reqs -> Reply]
           /\ seen' \in [Reqs -> Contents \cup {Absent}]
<1> QED  BY ETagType, SettleType DEF Respond, Answer, Settle, GoTo

LEMMA PlainAnswersBase ==
    ASSUME Base, NEW r \in Reqs,
           \/ PreconditionFailed(r) \/ LoadFails(r) \/ ServeLocked(r)
           \/ PutRefused(r) \/ DeleteRefused(r) \/ Return(r)
    PROVE  Base'
<1>0. TypeOK
    BY DEF Base
<1>1. CASE Return(r)
    BY <1>0, <1>1, AnswerBase DEF Return, GoTo, TypeOK
<1>2. ASSUME NEW status \in {"error", "precondition failed"},
             AnswerBare(r, status)
      PROVE  /\ stage' = [stage EXCEPT ![r] = "done"]
             /\ reply' \in [Reqs -> Reply]
             /\ seen' \in [Reqs -> Contents \cup {Absent}]
    BY <1>0, <1>2, SettleType DEF AnswerBare, Answer, Settle, GoTo, Statuses
<1>3. CASE PreconditionFailed(r)
    BY <1>2, <1>3, AnswerBase DEF PreconditionFailed
<1>4. CASE LoadFails(r)
    BY <1>2, <1>4, AnswerBase DEF LoadFails
<1>5. ASSUME NEW status \in {"locked", "refused"}, stage[r] = "serve",
             Respond(r, status, Absent)
      PROVE  /\ stage' = [stage EXCEPT ![r] = "done"]
             /\ reply' \in [Reqs -> Reply]
             /\ seen' \in [Reqs -> Contents \cup {Absent}]
  <2>1. arg[r] \in Requests /\ status \in Statuses
    BY <1>5 DEF Base, RequestOK, Statuses
  <2> QED  BY <1>0, <1>5, <2>1, RespondType
<1>6. CASE ServeLocked(r)
    BY <1>5, <1>6, AnswerBase DEF ServeLocked
<1>7. CASE PutRefused(r)
    BY <1>5, <1>7, AnswerBase DEF PutRefused, Serving
<1>8. CASE DeleteRefused(r)
    BY <1>5, <1>8, AnswerBase DEF DeleteRefused, Serving
<1> QED  BY <1>1, <1>3, <1>4, <1>6, <1>7, <1>8

LEMMA GetBase ==
    ASSUME Base, NEW r \in Reqs, ServeGet(r)
    PROVE  Base'
<1>0. TypeOK /\ arg[r] \in Requests /\ stage[r] = "serve"
    BY DEF Base, TypeOK, RequestOK, ServeGet, Serving
<1>1. /\ stage' = [stage EXCEPT ![r] = "done"]
      /\ reply' \in [Reqs -> Reply]
      /\ seen' \in [Reqs -> Contents \cup {Absent}]
  <2>1. "ok" \in Statuses /\ "refused" \in Statuses
    BY DEF Statuses
  <2>2. CASE IsFile(TreeOf(r), arg[r].path)
    <3>1. Respond(r, "ok", TreeOf(r)[arg[r].path])
      BY <2>2 DEF ServeGet
    <3> QED  BY <1>0, <2>1, <2>2, <3>1, RespondType DEF IsFile
  <2>3. CASE ~IsFile(TreeOf(r), arg[r].path)
    <3>1. Respond(r, "refused", Absent)
      BY <2>3 DEF ServeGet
    <3> QED  BY <1>0, <2>1, <3>1, RespondType
  <2> QED  BY <2>2, <2>3
<1> QED  BY <1>0, <1>1, AnswerBase DEF ServeGet

(* The cached trees after getUserHandler. *)
LEMMA HandlerBase ==
    ASSUME Base, NEW u \in Users, GetUserHandler(u)
    PROVE  /\ handlers' \subseteq Users /\ handlers \subseteq handlers'
           /\ u \in handlers'
           /\ fs' \in [Users -> FileSystems]
           /\ \A v \in Users : WellFormedTree(fs'[v])
           /\ \A v \in handlers : fs'[v] = fs[v]
<1>0. /\ handlers \subseteq Users /\ fs \in [Users -> FileSystems] /\ TypeOK
      /\ \A v \in Users : WellFormedTree(fs[v])
    BY DEF Base, TypeOK, TreesWellFormed
<1>1. CASE u \in handlers /\ UNCHANGED <<handlers, fs>>
    BY <1>0, <1>1
<1>2. CASE /\ u \notin handlers /\ Hydratable(u) /\ handlers' = handlers \cup {u}
           /\ \E tree \in HydratedTrees(u) : fs' = [fs EXCEPT ![u] = tree]
  <2>1. PICK tree \in HydratedTrees(u) : fs' = [fs EXCEPT ![u] = tree]
    BY <1>2
  <2>2. tree \in FileSystems /\ WellFormedTree(tree)
    BY <1>0, <1>2, HydratedTreeType
  <2> QED  BY <1>0, <1>2, <2>1, <2>2
<1> QED  BY <1>1, <1>2 DEF GetUserHandler

LEMMA AcceptBase ==
    ASSUME Base, NEW r \in Reqs, Accept(r)
    PROVE  Base'
<1>0. PICK q \in Requests : GetUserHandler(q.user) /\ arg' = [arg EXCEPT ![r] = q]
    BY DEF Accept
<1>1. q.user \in Users
    BY RequestType
<1>2. /\ handlers' \subseteq Users /\ handlers \subseteq handlers'
      /\ q.user \in handlers'
      /\ fs' \in [Users -> FileSystems]
      /\ \A v \in Users : WellFormedTree(fs'[v])
      /\ \A v \in handlers : fs'[v] = fs[v]
    BY <1>0, <1>1, HandlerBase
<1>3. TypeOK'
    BY <1>0, <1>2 DEF Base, TypeOK, Accept, GoTo, Stages
<1>4. TreesWellFormed' /\ IdsOK'
    BY <1>2 DEF Base, TreesWellFormed, IdsOK, Accept
<1>5. ASSUME NEW s \in Reqs PROVE RequestOK(s)'
  <2>1. RequestOK(s) /\ TypeOK
    BY DEF Base
  <2>2. CASE s = r
    <3>1. arg'[s] = q /\ stage'[s] = "load" /\ stage[s] = "idle" /\ node'[s] = node[s]
      BY <1>0, <2>1, <2>2 DEF TypeOK, Accept, GoTo
    <3>2. node'[s] = Nothing
      BY <2>1, <3>1 DEF RequestOK
    <3> QED  BY <1>2, <3>1, <3>2 DEF RequestOK, InFlight
  <2>3. CASE s # r
    <3>1. arg'[s] = arg[s] /\ stage'[s] = stage[s]
      BY <1>0, <2>1, <2>3 DEF TypeOK, Accept, GoTo
    <3>2. InFlight(s) => fs'[arg[s].user] = fs[arg[s].user]
      BY <1>2, <2>1 DEF RequestOK
    <3> QED  BY <1>2, <2>1, <3>1, <3>2 DEF RequestOK, InFlight, Key, RowsAt, Accept
  <2> QED  BY <2>2, <2>3
<1> QED  BY <1>3, <1>4, <1>5 DEF Base

LEMMA AcceptFailsBase ==
    ASSUME Base, NEW r \in Reqs, AcceptFails(r)
    PROVE  Base'
<1>0. PICK q \in Requests : arg' = [arg EXCEPT ![r] = q]
    BY DEF AcceptFails
<1>1. TypeOK
    BY DEF Base
<1>2. /\ stage' = [stage EXCEPT ![r] = "done"]
      /\ reply' \in [Reqs -> Reply]
      /\ seen' \in [Reqs -> Contents \cup {Absent}]
  <2>1. AnswerBare(r, "error")
    BY DEF AcceptFails
  <2> QED  BY <1>1, <2>1, SettleType DEF AnswerBare, Answer, Settle, GoTo, Statuses
<1>3. TypeOK'
    BY <1>0, <1>2 DEF Base, TypeOK, AcceptFails, Stages
<1>4. TreesWellFormed' /\ IdsOK'
    BY DEF Base, TreesWellFormed, IdsOK, AcceptFails
<1>5. ASSUME NEW s \in Reqs PROVE RequestOK(s)'
  <2>1. RequestOK(s)
    BY DEF Base
  <2>2. CASE s = r
    <3>1. arg'[s] = q /\ stage'[s] = "done" /\ stage[s] = "idle" /\ node'[s] = node[s]
      BY <1>0, <1>1, <1>2, <2>2 DEF TypeOK, AcceptFails
    <3>2. node'[s] = Nothing
      BY <2>1, <3>1 DEF RequestOK
    <3> QED  BY <3>1, <3>2 DEF RequestOK, InFlight
  <2>3. CASE s # r
    <3>1. arg'[s] = arg[s] /\ stage'[s] = stage[s]
      BY <1>0, <1>1, <1>2, <2>3 DEF TypeOK
    <3> QED  BY <2>1, <3>1 DEF RequestOK, InFlight, Key, RowsAt, AcceptFails
  <2> QED  BY <2>2, <2>3
<1> QED  BY <1>3, <1>4, <1>5 DEF Base

LEMMA LoadBase ==
    ASSUME Base, NEW r \in Reqs, Load(r)
    PROVE  Base'
<1>0. TypeOK /\ arg[r] \in Requests /\ stage[r] = "load"
    BY DEF Base, RequestOK, Load
<1>1. Stored(Key(r)) \in Contents \cup {Absent}
  <2>1. RowsAt(Key(r)) \subseteq Row
    BY <1>0 DEF TypeOK, RowsAt
  <2>2. RowsAt(Key(r)) # {} => First(RowsAt(Key(r))) \in Row
    BY <2>1, FirstIsRow
  <2> QED  BY <2>2 DEF Stored, Row
<1>2. TypeOK'
    BY <1>0, <1>1 DEF TypeOK, Load, GoTo, Stages
<1>3. TreesWellFormed' /\ IdsOK'
    BY DEF Base, TreesWellFormed, IdsOK, Load
<1>4. ASSUME NEW s \in Reqs PROVE RequestOK(s)'
  <2>1. RequestOK(s)
    BY DEF Base
  <2>2. stage'[s] = IF s = r THEN "serve" ELSE stage[s]
    BY <1>0 DEF Load, GoTo, TypeOK
  <2> QED  BY <1>0, <2>1, <2>2 DEF RequestOK, InFlight, Key, RowsAt, Load
<1> QED  BY <1>2, <1>3, <1>4 DEF Base

(* What Base says of the request that is being served. *)
LEMMA ServingFacts ==
    ASSUME Base, NEW r \in Reqs, stage[r] \in {"serve", "write"}
    PROVE  /\ arg[r] \in Requests
           /\ arg[r].user \in Users /\ arg[r].path \in Paths
           /\ arg[r].dest \in Paths /\ arg[r].body \in Contents
           /\ arg[r].user \in handlers
           /\ TreeOf(r) \in FileSystems /\ WellFormedTree(TreeOf(r))
           /\ Key(r) \in Keys
<1>1. arg[r] \in Requests /\ arg[r].user \in handlers
    BY DEF Base, RequestOK, InFlight
<1>2. arg[r].user \in Users
    BY <1>1, RequestType
<1> QED  BY <1>1, <1>2, RequestType DEF Base, TypeOK, TreesWellFormed, TreeOf, Key, Keys

(* One user's tree is replaced by another tree. *)
LEMMA SetTreeType ==
    ASSUME Base, NEW r \in Reqs, arg[r].user \in Users, NEW tree \in FileSystems,
           WellFormedTree(tree), fs' = [fs EXCEPT ![arg[r].user] = tree]
    PROVE  /\ fs' \in [Users -> FileSystems]
           /\ fs'[arg[r].user] = tree
           /\ TreesWellFormed'
BY DEF Base, TypeOK, TreesWellFormed

LEMMA SettleMutationType ==
    ASSUME TypeOK, NEW r \in Reqs, arg[r] \in Requests, SettleMutation(r)
    PROVE  reply' \in [Reqs -> Reply] /\ seen' \in [Reqs -> Contents \cup {Absent}]
<1>1. "ok" \in Statuses
    BY DEF Statuses
<1> QED  BY <1>1, ETagType, SettleType DEF SettleMutation, Settle

LEMMA PutOnCollectionBase ==
    ASSUME Base, NEW r \in Reqs, PutOnCollection(r)
    PROVE  Base'
<1>0. /\ TypeOK /\ stage[r] = "serve" /\ arg[r] \in Requests /\ Key(r) \in Keys
      /\ stage' = [stage EXCEPT ![r] = "find"]
    BY ServingFacts DEF Base, PutOnCollection, Serving, GoTo
<1>1. TypeOK'
    BY <1>0, SettleMutationType DEF TypeOK, PutOnCollection, Stages
<1>2. TreesWellFormed' /\ IdsOK'
    BY DEF Base, TreesWellFormed, IdsOK, PutOnCollection
<1>3. ASSUME NEW s \in Reqs PROVE RequestOK(s)'
  <2>1. RequestOK(s)
    BY DEF Base
  <2>2. stage'[s] = IF s = r THEN "find" ELSE stage[s]
    BY <1>0 DEF TypeOK
  <2> QED  BY <1>0, <2>1, <2>2 DEF RequestOK, InFlight, Key, RowsAt, PutOnCollection
<1> QED  BY <1>1, <1>2, <1>3 DEF Base

LEMMA PutOpenBase ==
    ASSUME Base, NEW r \in Reqs, PutOpen(r)
    PROVE  Base'
<1> DEFINE u == arg[r].user
           p == arg[r].path
           g == [TreeOf(r) EXCEPT ![p] = Empty]
<1>0. /\ TypeOK /\ stage[r] = "serve"
      /\ stage' = [stage EXCEPT ![r] = "write"]
      /\ node' = [node EXCEPT ![r] = p]
      /\ fs' = [fs EXCEPT ![u] = g]
    BY DEF Base, PutOpen, Serving, GoTo, SetTree
<1>1. /\ u \in Users /\ p \in Paths /\ u \in handlers /\ arg[r] \in Requests
      /\ TreeOf(r) \in FileSystems /\ WellFormedTree(TreeOf(r)) /\ Key(r) \in Keys
    BY <1>0, ServingFacts
<1>2. g \in FileSystems /\ WellFormedTree(g)
    BY <1>1, TreeTypes, SetWellFormed, ContentsAssumption DEF PutOpen
<1>3. fs' \in [Users -> FileSystems] /\ fs'[u] = g /\ TreesWellFormed'
    BY <1>0, <1>1, <1>2, SetTreeType
<1>4. Crossed(r) \subseteq Keys
    BY <1>1 DEF Crossed
<1>5. TypeOK'
    BY <1>0, <1>1, <1>3, <1>4 DEF TypeOK, PutOpen, Stages
<1>6. IdsOK'
    BY DEF Base, IdsOK, PutOpen
<1>7. ASSUME NEW s \in Reqs PROVE RequestOK(s)'
  <2>1. RequestOK(s)
    BY DEF Base
  <2>2. /\ stage'[s] = IF s = r THEN "write" ELSE stage[s]
        /\ node'[s] = IF s = r THEN p ELSE node[s]
    BY <1>0 DEF TypeOK
  <2>3. CASE s = r
    <3>1. IsFile(fs'[u], p) /\ p # Nothing
      BY <1>1, <1>3, ContentsAssumption, HandlerAssumption DEF IsFile, FileSystems
    <3> QED  BY <1>1, <2>2, <2>3, <3>1 DEF RequestOK, InFlight, PutOpen
  <2>4. CASE s # r
    <3>1. ASSUME node[s] # Nothing
          PROVE  IsFile(fs'[arg[s].user], node[s])
      <4>1. /\ IsFile(fs[arg[s].user], node[s]) /\ arg[s].user \in Users
            /\ node[s] \in Paths
        BY <1>0, <2>1, <3>1, RequestType DEF RequestOK, TypeOK
      <4> QED  BY <1>0, <1>1, <1>3, <4>1, ContentsAssumption
               DEF IsFile, TypeOK, TreeOf, FileSystems
    <3> QED  BY <2>1, <2>2, <2>4, <3>1 DEF RequestOK, InFlight, Key, RowsAt, PutOpen
  <2> QED  BY <2>3, <2>4
<1> QED  BY <1>3, <1>5, <1>6, <1>7 DEF Base

LEMMA PutWriteBase ==
    ASSUME Base, NEW r \in Reqs, PutWrite(r)
    PROVE  Base'
<1> DEFINE u == arg[r].user
           g == [TreeOf(r) EXCEPT ![node[r]] = arg[r].body]
           silent == node[r] = Nothing \/ arg[r].body = Empty
<1>0. /\ TypeOK /\ stage[r] = "write" /\ RequestOK(r)
      /\ stage' = [stage EXCEPT ![r] = "find"]
      /\ node' = [node EXCEPT ![r] = Nothing]
      /\ IF silent THEN fs' = fs ELSE fs' = [fs EXCEPT ![u] = g]
    BY DEF Base, PutWrite, GoTo, SetTree
<1>1. /\ u \in Users /\ arg[r].body \in Contents /\ u \in handlers /\ arg[r] \in Requests
      /\ TreeOf(r) \in FileSystems /\ WellFormedTree(TreeOf(r)) /\ Key(r) \in Keys
    BY <1>0, ServingFacts
<1>2. ASSUME ~silent PROVE node[r] \in Paths /\ IsFile(TreeOf(r), node[r])
    BY <1>0, <1>2 DEF TypeOK, RequestOK, TreeOf
<1>3. ASSUME ~silent PROVE g \in FileSystems /\ WellFormedTree(g)
  <2>1. Reachable(TreeOf(r), node[r]) /\ TreeOf(r)[node[r]] # Dir
    BY <1>1, <1>2, <1>3, ContentsAssumption DEF WellFormedTree, Exists, IsFile
  <2> QED  BY <1>1, <1>2, <1>3, <2>1, TreeTypes, SetWellFormed
<1>4. fs' \in [Users -> FileSystems] /\ TreesWellFormed'
  <2>1. CASE silent
    BY <1>0, <2>1 DEF Base, TypeOK, TreesWellFormed
  <2>2. CASE ~silent
    BY <1>0, <1>1, <1>3, <2>2, SetTreeType
  <2> QED  BY <2>1, <2>2
<1>5. TypeOK'
    BY <1>0, <1>1, <1>4, SettleMutationType DEF TypeOK, PutWrite, Stages
<1>6. IdsOK'
    BY DEF Base, IdsOK, PutWrite
<1>7. ASSUME NEW s \in Reqs PROVE RequestOK(s)'
  <2>1. RequestOK(s)
    BY DEF Base
  <2>2. /\ stage'[s] = IF s = r THEN "find" ELSE stage[s]
        /\ node'[s] = IF s = r THEN Nothing ELSE node[s]
    BY <1>0 DEF TypeOK
  <2>3. CASE s = r
    BY <1>1, <2>2, <2>3 DEF RequestOK, InFlight, PutWrite
  <2>4. CASE s # r
    <3>1. ASSUME node[s] # Nothing
          PROVE  IsFile(fs'[arg[s].user], node[s])
      <4>1. /\ IsFile(fs[arg[s].user], node[s]) /\ arg[s].user \in Users
            /\ node[s] \in Paths
        BY <1>0, <2>1, <3>1, RequestType DEF RequestOK, TypeOK
      <4> QED  BY <1>0, <1>1, <1>2, <4>1 DEF IsFile, TypeOK, TreeOf, FileSystems
    <3> QED  BY <2>1, <2>2, <2>4, <3>1 DEF RequestOK, InFlight, Key, RowsAt, PutWrite
  <2> QED  BY <2>3, <2>4
<1> QED  BY <1>4, <1>5, <1>6, <1>7 DEF Base

(* A step of r that puts tree g in the place of its user's and moves or    *)
(* drops the files that are open in it: the files stay under their         *)
(* handles, and what is moved or dropped is disturbed.                     *)
LEMMA TreeStepBase ==
    ASSUME Base, NEW r \in Reqs, stage[r] = "serve",
           NEW g \in FileSystems, WellFormedTree(g),
           fs' = [fs EXCEPT ![arg[r].user] = g],
           NEW next \in {"delete", "done"},
           stage' = [stage EXCEPT ![r] = next],
           reply' \in [Reqs -> Reply], seen' \in [Reqs -> Contents \cup {Absent}],
           node' \in [Reqs -> Paths \cup {Nothing}],
           disturbed \subseteq disturbed', disturbed' \subseteq Keys,
           UNCHANGED <<up, handlers, rows, nextId, arg, held, crashes>>,
           \A s \in Reqs :
              \/ node[s] = Nothing \/ arg[s].user # arg[r].user
              \/ node'[s] = node[s] /\ IsFile(g, node[s])
              \/ node'[s] = Nothing /\ <<arg[s].user, node[s]>> \in disturbed'
              \/ /\ IsFile(g, node'[s])
                 /\ <<arg[s].user, node[s]>> \in disturbed'
                 /\ <<arg[s].user, node'[s]>> \in disturbed',
           \A s \in Reqs :
              node[s] = Nothing \/ arg[s].user # arg[r].user => node'[s] = node[s]
    PROVE  Base'
<1>0. /\ TypeOK /\ arg[r] \in Requests /\ arg[r].user \in Users
      /\ arg[r].user \in handlers
    BY ServingFacts DEF Base
<1>1. fs' \in [Users -> FileSystems] /\ fs'[arg[r].user] = g /\ TreesWellFormed'
    BY <1>0, SetTreeType
<1>2. TypeOK'
    BY <1>0, <1>1 DEF TypeOK, Stages
<1>3. IdsOK'
    BY DEF Base, IdsOK
<1>4. ASSUME NEW s \in Reqs PROVE RequestOK(s)'
  <2>1. RequestOK(s)
    BY DEF Base
  <2>2. /\ stage'[s] = IF s = r THEN next ELSE stage[s]
        /\ arg'[s] = arg[s]
    BY <1>0 DEF TypeOK
  <2>3. node'[s] # Nothing => node[s] # Nothing
    OBVIOUS
  <2>4. CASE s = r
    <3>1. node[s] = Nothing /\ node'[s] = Nothing
      BY <2>1, <2>4 DEF RequestOK
    <3> QED  BY <1>0, <2>2, <2>4, <3>1 DEF RequestOK, InFlight
  <2>5. CASE s # r /\ node[s] = Nothing
    <3>1. node'[s] = Nothing
      BY <2>5
    <3> QED  BY <2>1, <2>2, <2>5, <3>1 DEF RequestOK, InFlight, Key, RowsAt
  <2>6. CASE s # r /\ node[s] # Nothing
    <3>1. /\ stage[s] = "write" /\ arg[s] \in Requests
          /\ IsFile(fs[arg[s].user], node[s])
          /\ node[s] # arg[s].path =>
                {Key(s), <<arg[s].user, node[s]>>} \subseteq disturbed
      BY <2>1, <2>6 DEF RequestOK
    <3>2. arg[s].user \in Users
      BY <3>1, RequestType
    <3>3. /\ node'[s] # Nothing =>
               /\ IsFile(fs'[arg[s].user], node'[s])
               /\ node'[s] # arg[s].path =>
                     {Key(s), <<arg[s].user, node'[s]>>} \subseteq disturbed'
          /\ node'[s] = Nothing => Key(s) \in disturbed'
      <4>1. CASE arg[s].user # arg[r].user
        BY <1>0, <2>6, <3>1, <3>2, <4>1 DEF TypeOK
      <4>2. CASE arg[s].user = arg[r].user
        BY <1>1, <2>6, <3>1, <4>2 DEF Key
      <4> QED  BY <4>1, <4>2
    <3>4. Key(s)' = Key(s)
      BY DEF Key
    <3> QED  BY <2>1, <2>2, <2>6, <3>1, <3>3, <3>4 DEF RequestOK, InFlight
  <2> QED  BY <2>4, <2>5, <2>6
<1> QED  BY <1>1, <1>2, <1>3, <1>4 DEF Base

LEMMA DeleteBase ==
    ASSUME Base, NEW r \in Reqs, ServeDelete(r)
    PROVE  Base'
<1> DEFINE f == TreeOf(r)
           p == arg[r].path
           g == Removed(f, p)
<1>0. /\ TypeOK /\ stage[r] = "serve"
      /\ stage' = [stage EXCEPT ![r] = "delete"]
      /\ fs' = [fs EXCEPT ![arg[r].user] = g]
      /\ node' = [s \in Reqs |->
            IF node[s] # Nothing /\ arg[s].user = arg[r].user
            THEN IF node[s] \in Tree(p) THEN Nothing ELSE node[s]
            ELSE node[s]]
      /\ disturbed' = disturbed \cup Crossed(r)
            \cup IF f[p] = Dir THEN KeysOf(r, Under(p)) ELSE {}
    BY DEF Base, ServeDelete, Serving, GoTo, SetTree, Relocate
<1>1. /\ arg[r] \in Requests /\ arg[r].user \in Users /\ p \in Paths
      /\ f \in FileSystems /\ WellFormedTree(f) /\ Key(r) \in Keys
    BY <1>0, ServingFacts
<1>2. g \in FileSystems /\ WellFormedTree(g)
    BY <1>1, TreeTypes, RemovedWellFormed
<1>3. /\ reply' \in [Reqs -> Reply] /\ seen' \in [Reqs -> Contents \cup {Absent}]
    BY <1>0, <1>1, SettleMutationType DEF ServeDelete
<1>4. /\ disturbed \subseteq disturbed' /\ disturbed' \subseteq Keys
  <2>1. Crossed(r) \subseteq Keys /\ KeysOf(r, Under(p)) \subseteq Keys
    BY <1>1 DEF Crossed, KeysOf, Keys, Under
  <2> QED  BY <1>0, <2>1 DEF TypeOK
<1>5. node' \in [Reqs -> Paths \cup {Nothing}]
    BY <1>0 DEF TypeOK
<1>6. ASSUME NEW s \in Reqs, node[s] # Nothing, arg[s].user = arg[r].user
      PROVE  \/ node'[s] = node[s] /\ IsFile(g, node[s])
             \/ node'[s] = Nothing /\ <<arg[s].user, node[s]>> \in disturbed'
  <2>1. /\ node[s] \in Paths /\ IsFile(f, node[s]) /\ stage[s] = "write"
    BY <1>0, <1>6 DEF TypeOK, Base, RequestOK, TreeOf
  <2>2. CASE node[s] \notin Tree(p)
    BY <1>0, <1>6, <2>1, <2>2 DEF IsFile, Removed
  <2>3. CASE node[s] = p
    <3>1. s # r
      BY <1>0, <2>1
    <3>2. <<arg[s].user, node[s]>> \in disturbed'
      <4>1. CASE arg[s].path = p
        <5>1. Busy(s) /\ Key(s) = Key(r)
          BY <1>6, <2>1, <4>1 DEF Busy, Key
        <5> QED  BY <1>0, <1>6, <2>3, <3>1, <5>1 DEF Crossed, Key
      <4>2. CASE arg[s].path # p
        BY <1>0, <1>6, <2>3, <4>2 DEF Base, RequestOK
      <4> QED  BY <4>1, <4>2
    <3> QED  BY <1>0, <1>6, <2>3, <3>2 DEF Tree
  <2>4. CASE node[s] \in Under(p)
    <3>1. f[p] = Dir
      BY <1>1, <2>1, <2>4, NothingBelow, ContentsAssumption DEF IsFile
    <3> QED  BY <1>0, <1>6, <2>4, <3>1 DEF Tree, KeysOf
  <2> QED  BY <2>2, <2>3, <2>4 DEF Tree
<1>7. \A s \in Reqs :
         node[s] = Nothing \/ arg[s].user # arg[r].user => node'[s] = node[s]
    BY <1>0
<1>8. UNCHANGED <<up, handlers, rows, nextId, arg, held, crashes>>
    BY DEF ServeDelete
<1> HIDE DEF f, p, g
<1> QED  BY <1>0, <1>2, <1>3, <1>4, <1>5, <1>6, <1>7, <1>8, TreeStepBase

LEMMA MkcolBase ==
    ASSUME Base, NEW r \in Reqs, ServeMkcol(r)
    PROVE  Base'
<1> DEFINE f == TreeOf(r)
           p == arg[r].path
           g == [f EXCEPT ![p] = Dir]
<1>0. TypeOK /\ stage[r] = "serve"
    BY DEF Base, ServeMkcol, Serving
<1>1. /\ arg[r] \in Requests /\ arg[r].user \in Users /\ p \in Paths
      /\ f \in FileSystems /\ WellFormedTree(f) /\ Key(r) \in Keys
    BY <1>0, ServingFacts
<1>2. UNCHANGED <<up, handlers, rows, nextId, arg, node, held, crashes, disturbed>>
    BY DEF ServeMkcol
<1>3. ASSUME NEW status \in {"ok", "refused"}, Respond(r, status, Absent)
      PROVE  /\ stage' = [stage EXCEPT ![r] = "done"]
             /\ reply' \in [Reqs -> Reply]
             /\ seen' \in [Reqs -> Contents \cup {Absent}]
    BY <1>0, <1>1, <1>3, RespondType DEF Statuses
<1>4. CASE Reachable(f, p) /\ ~Exists(f, p)
  <2>1. fs' = [fs EXCEPT ![arg[r].user] = g] /\ Respond(r, "ok", Absent)
    BY <1>4 DEF ServeMkcol, SetTree
  <2>2. f[p] = Absent
    BY <1>4 DEF Exists
  <2>3. g \in FileSystems /\ WellFormedTree(g)
    BY <1>1, <1>4, <2>2, TreeTypes, SetWellFormed, ContentsAssumption
  <2>4. \A s \in Reqs : node[s] # Nothing /\ arg[s].user = arg[r].user =>
           node'[s] = node[s] /\ IsFile(g, node[s])
    <3>1. SUFFICES ASSUME NEW s \in Reqs, node[s] # Nothing,
                          arg[s].user = arg[r].user
                   PROVE  IsFile(g, node[s])
      BY <1>2
    <3>2. node[s] \in Paths /\ IsFile(f, node[s])
      BY <1>0, <3>1 DEF TypeOK, Base, RequestOK, TreeOf
    <3> QED  BY <1>1, <2>2, <3>2, ContentsAssumption DEF IsFile, FileSystems
  <2>5. /\ node' \in [Reqs -> Paths \cup {Nothing}]
        /\ disturbed \subseteq disturbed' /\ disturbed' \subseteq Keys
    BY <1>0, <1>2 DEF TypeOK
  <2>6. /\ stage' = [stage EXCEPT ![r] = "done"]
        /\ reply' \in [Reqs -> Reply]
        /\ seen' \in [Reqs -> Contents \cup {Absent}]
    BY <1>3, <2>1
  <2> HIDE DEF f, p, g
  <2> QED  BY <1>0, <1>2, <2>1, <2>3, <2>4, <2>5, <2>6, TreeStepBase
<1>5. CASE ~(Reachable(f, p) /\ ~Exists(f, p))
    BY <1>0, <1>2, <1>3, <1>5, AnswerBase DEF ServeMkcol
<1> QED  BY <1>4, <1>5

LEMMA MoveBase ==
    ASSUME Base, NEW r \in Reqs, ServeMove(r)
    PROVE  Base'
<1> DEFINE f == TreeOf(r)
           src == arg[r].path
           dst == arg[r].dest
           allowed == dst # src /\ (Exists(f, dst) => arg[r].overwrite)
           g == IF allowed /\ Exists(f, dst) THEN Removed(f, dst) ELSE f
           moved == /\ allowed
                    /\ dst \notin Under(src)
                    /\ Exists(g, src)
                    /\ Reachable(g, dst)
           h == IF moved THEN Renamed(g, src, dst) ELSE g
           Place(n) == IF n \in Tree(dst) /\ g # f THEN Nothing
                       ELSE IF moved /\ n \in Tree(src) THEN Rebase(n, src, dst)
                       ELSE n
           added == IF moved THEN KeysOf(r, Tree(src) \cup Tree(dst))
                    ELSE IF g # f THEN KeysOf(r, Tree(dst)) ELSE {}
<1>0. /\ TypeOK /\ stage[r] = "serve"
      /\ moved => Fits(g, src, dst)
      /\ fs' = [fs EXCEPT ![arg[r].user] = h]
      /\ node' = [s \in Reqs |->
            IF node[s] # Nothing /\ arg[s].user = arg[r].user
            THEN Place(node[s]) ELSE node[s]]
      /\ disturbed' = disturbed \cup added
      /\ Respond(r, IF moved THEN "ok" ELSE "refused", Absent)
      /\ UNCHANGED <<up, handlers, rows, nextId, arg, held, crashes>>
    BY DEF Base, ServeMove, Serving, SetTree, Relocate
<1>1. /\ arg[r] \in Requests /\ arg[r].user \in Users /\ src \in Paths /\ dst \in Paths
      /\ f \in FileSystems /\ WellFormedTree(f)
    BY <1>0, ServingFacts
<1>2. g \in FileSystems /\ WellFormedTree(g)
    BY <1>1, TreeTypes, RemovedWellFormed
<1>3. h \in FileSystems /\ WellFormedTree(h)
    BY <1>1, <1>2, TreeTypes, RenamedWellFormed
<1>4. /\ stage' = [stage EXCEPT ![r] = "done"]
      /\ reply' \in [Reqs -> Reply]
      /\ seen' \in [Reqs -> Contents \cup {Absent}]
  <2>1. (IF moved THEN "ok" ELSE "refused") \in Statuses
    BY DEF Statuses
  <2> QED  BY <1>0, <1>1, <2>1, RespondType
<1>5. disturbed \subseteq disturbed' /\ disturbed' \subseteq Keys
  <2>1. added \subseteq Keys
    BY <1>1 DEF KeysOf, Keys, Tree, Under
  <2> QED  BY <1>0, <2>1 DEF TypeOK
<1>6. ASSUME NEW s \in Reqs, node[s] # Nothing, arg[s].user = arg[r].user
      PROVE  /\ node'[s] \in Paths \cup {Nothing}
             /\ \/ node'[s] = node[s] /\ IsFile(h, node[s])
                \/ node'[s] = Nothing /\ <<arg[s].user, node[s]>> \in disturbed'
                \/ /\ IsFile(h, node'[s])
                   /\ <<arg[s].user, node[s]>> \in disturbed'
                   /\ <<arg[s].user, node'[s]>> \in disturbed'
  <2> DEFINE n == node[s]
  <2>1. n \in Paths /\ IsFile(f, n) /\ node'[s] = Place(n)
    BY <1>0, <1>6 DEF TypeOK, Base, RequestOK, TreeOf
  <2>2. CASE n \in Tree(dst) /\ g # f
    BY <1>0, <1>6, <2>1, <2>2 DEF KeysOf
  <2>3. ASSUME ~(n \in Tree(dst) /\ g # f)
        PROVE  g[n] = f[n] /\ Exists(g, n)
    <3>1. g[n] = f[n]
      BY <2>1, <2>3 DEF Removed
    <3> QED  BY <2>1, <3>1, ContentsAssumption DEF IsFile, Exists
  <2>4. CASE ~(n \in Tree(dst) /\ g # f) /\ moved /\ n \in Tree(src)
    <3>1. Rebase(n, src, dst) \in Paths
      BY <1>0, <2>3, <2>4 DEF Fits
    <3>2. Rebase(n, src, dst) \in Tree(dst)
      BY <1>1, <2>4, <3>1, RebaseInverse
    <3>3. h[Rebase(n, src, dst)] = g[n]
      <4>1. Removed(g, src) \in FileSystems
        BY <1>1, <1>2, TreeTypes
      <4> QED  BY <1>1, <1>2, <2>4, <3>1, <4>1, GraftedFile DEF Renamed
    <3>4. IsFile(h, Rebase(n, src, dst))
      BY <2>1, <2>3, <2>4, <3>3 DEF IsFile
    <3>5. node'[s] = Rebase(n, src, dst)
      BY <2>1, <2>4
    <3>6. {<<arg[s].user, n>>, <<arg[s].user, Rebase(n, src, dst)>>} \subseteq disturbed'
      BY <1>0, <1>6, <2>4, <3>2 DEF KeysOf
    <3> QED  BY <3>1, <3>4, <3>5, <3>6
  <2>5. CASE ~(n \in Tree(dst) /\ g # f) /\ ~(moved /\ n \in Tree(src))
    <3>1. node'[s] = n
      BY <2>1, <2>5
    <3>2. CASE ~moved
      BY <2>1, <2>3, <2>5, <3>1, <3>2 DEF IsFile
    <3>3. CASE moved
      <4>1. n \notin Tree(dst)
        <5>1. SUFFICES ASSUME n \in Tree(dst) PROVE FALSE
          OBVIOUS
        <5>2. f[dst] = Absent
          <6>1. Exists(f, dst) => g = Removed(f, dst) /\ g = f
            BY <2>5, <3>3, <5>1
          <6>2. Removed(f, dst)[dst] = Absent
            BY <1>1 DEF Removed, Tree
          <6> QED  BY <6>1, <6>2 DEF Exists
        <5>3. f[n] = Absent
          BY <1>1, <5>1, <5>2, NothingBelow, ContentsAssumption DEF Tree
        <5> QED  BY <2>1, <5>3, ContentsAssumption DEF IsFile
      <4>2. h[n] = g[n]
        BY <2>1, <2>5, <3>3, <4>1 DEF Renamed, Grafted, Removed
      <4> QED  BY <2>1, <2>3, <2>5, <3>1, <4>2 DEF IsFile
    <3> QED  BY <3>2, <3>3
  <2> QED  BY <2>2, <2>4, <2>5
<1>7. \A s \in Reqs :
         node[s] = Nothing \/ arg[s].user # arg[r].user => node'[s] = node[s]
    BY <1>0
<1>8. node' \in [Reqs -> Paths \cup {Nothing}]
    BY <1>0, <1>6, <1>7 DEF TypeOK
<1> HIDE DEF h
<1> QED  BY <1>0, <1>3, <1>4, <1>5, <1>6, <1>7, <1>8, TreeStepBase

LEMMA CopyBase ==
    ASSUME Base, NEW r \in Reqs, ServeCopy(r)
    PROVE  Base'
<1> DEFINE f == TreeOf(r)
           src == arg[r].path
           dst == arg[r].dest
           copied == /\ dst # src
                     /\ Exists(f, src)
                     /\ Exists(f, dst) => arg[r].overwrite
                     /\ Reachable(f, dst)
           h == IF copied THEN Grafted(f, f, src, dst) ELSE f
           Place(n) == IF copied /\ n \in Tree(dst) THEN Nothing ELSE n
           added == IF copied THEN KeysOf(r, Tree(dst)) ELSE {}
<1>0. /\ TypeOK /\ stage[r] = "serve"
      /\ fs' = [fs EXCEPT ![arg[r].user] = h]
      /\ node' = [s \in Reqs |->
            IF node[s] # Nothing /\ arg[s].user = arg[r].user
            THEN Place(node[s]) ELSE node[s]]
      /\ disturbed' = disturbed \cup added
      /\ Respond(r, IF copied THEN "ok" ELSE "refused", Absent)
      /\ UNCHANGED <<up, handlers, rows, nextId, arg, held, crashes>>
    BY DEF Base, ServeCopy, Serving, SetTree, Relocate
<1>1. /\ arg[r] \in Requests /\ arg[r].user \in Users /\ src \in Paths /\ dst \in Paths
      /\ f \in FileSystems /\ WellFormedTree(f)
    BY <1>0, ServingFacts
<1>3. h \in FileSystems /\ WellFormedTree(h)
    BY <1>1, TreeTypes, GraftedWellFormed
<1>4. /\ stage' = [stage EXCEPT ![r] = "done"]
      /\ reply' \in [Reqs -> Reply]
      /\ seen' \in [Reqs -> Contents \cup {Absent}]
  <2>1. (IF copied THEN "ok" ELSE "refused") \in Statuses
    BY DEF Statuses
  <2> QED  BY <1>0, <1>1, <2>1, RespondType
<1>5. disturbed \subseteq disturbed' /\ disturbed' \subseteq Keys
  <2>1. added \subseteq Keys
    BY <1>1 DEF KeysOf, Keys, Tree, Under
  <2> QED  BY <1>0, <2>1 DEF TypeOK
<1>6. ASSUME NEW s \in Reqs, node[s] # Nothing, arg[s].user = arg[r].user
      PROVE  \/ node'[s] = node[s] /\ IsFile(h, node[s])
             \/ node'[s] = Nothing /\ <<arg[s].user, node[s]>> \in disturbed'
  <2>1. /\ node[s] \in Paths /\ IsFile(f, node[s]) /\ node'[s] = Place(node[s])
    BY <1>0, <1>6 DEF TypeOK, Base, RequestOK, TreeOf
  <2>2. CASE copied /\ node[s] \in Tree(dst)
    BY <1>0, <1>6, <2>1, <2>2 DEF KeysOf
  <2>3. CASE ~(copied /\ node[s] \in Tree(dst))
    BY <2>1, <2>3 DEF IsFile, Grafted
  <2> QED  BY <2>2, <2>3
<1>7. \A s \in Reqs :
         node[s] = Nothing \/ arg[s].user # arg[r].user => node'[s] = node[s]
    BY <1>0
<1>8. node' \in [Reqs -> Paths \cup {Nothing}]
    BY <1>0 DEF TypeOK
<1> HIDE DEF h
<1> QED  BY <1>0, <1>3, <1>4, <1>5, <1>6, <1>7, <1>8, TreeStepBase

-----------------------------------------------------------------------------

(* A step of r between two stages of persistMutation. *)
LEMMA PersistFindBase ==
    ASSUME Base, NEW r \in Reqs, PersistFind(r)
    PROVE  Base'
<1> DEFINE R == RowsAt(Key(r))
<1>0. TypeOK /\ IdsOK /\ stage[r] = "find" /\ R \subseteq Row
    BY DEF Base, PersistFind, TypeOK, RowsAt
<1>1. /\ R = {} => held' = held /\ stage' = [stage EXCEPT ![r] = "create"]
      /\ R # {} => /\ held' = [held EXCEPT ![r] = First(R)]
                   /\ stage' = [stage EXCEPT ![r] = "save"]
    BY DEF PersistFind, GoTo
<1>2. R # {} => First(R) \in R
    BY <1>0, FirstIsRow
<1>3. TypeOK'
    BY <1>0, <1>1, <1>2 DEF TypeOK, PersistFind, Stages
<1>4. TreesWellFormed' /\ IdsOK'
    BY DEF Base, TreesWellFormed, IdsOK, PersistFind
<1>5. ASSUME NEW s \in Reqs PROVE RequestOK(s)'
  <2>1. RequestOK(s)
    BY DEF Base
  <2>2. CASE s # r
    <3>1. stage'[s] = stage[s] /\ held'[s] = held[s]
      BY <1>0, <1>1, <2>2 DEF TypeOK
    <3> QED  BY <2>1, <3>1 DEF RequestOK, InFlight, Key, RowsAt, PersistFind
  <2>3. CASE s = r /\ R = {}
    <3>1. stage'[s] = "create" /\ node[s] = Nothing
      BY <1>0, <1>1, <2>1, <2>3 DEF TypeOK, RequestOK
    <3> QED  BY <1>0, <2>1, <2>3, <3>1 DEF RequestOK, InFlight, PersistFind
  <2>4. CASE s = r /\ R # {}
    <3>1. stage'[s] = "save" /\ node[s] = Nothing /\ held'[s] = First(R)
      BY <1>0, <1>1, <2>1, <2>4 DEF TypeOK, RequestOK
    <3>2. First(R) \in rows /\ <<First(R).user, First(R).path>> = Key(r)
      BY <1>2, <2>4 DEF RowsAt, Key
    <3>4. First(R) \in Row /\ First(R).id < nextId
      BY <1>0, <3>2 DEF IdsOK, TypeOK
    <3>5. Key(r)' = Key(r)
      BY DEF Key, PersistFind
    <3> HIDE DEF R
    <3> QED  BY <1>0, <2>1, <2>4, <3>1, <3>2, <3>4, <3>5
             DEF RequestOK, InFlight, PersistFind
  <2> QED  BY <2>2, <2>3, <2>4
<1> QED  BY <1>3, <1>4, <1>5 DEF Base

(* A step of r that gives its key other rows, with the primary keys the    *)
(* rows had, or a new one.                                                 *)
LEMMA RowStepBase ==
    ASSUME Base, NEW r \in Reqs, Busy(r), stage[r] # "write",
           stage' = [stage EXCEPT ![r] = "return"],
           held' \in [Reqs -> Row \cup {Nothing}],
           \A s \in Reqs \ {r} : held'[s] = held[s],
           rows' \subseteq Row, nextId' \in Nat, nextId <= nextId',
           \A a, b \in rows' : a.id = b.id => a = b,
           \A a \in rows' : a.id < nextId',
           disturbed \subseteq disturbed', disturbed' \subseteq Keys,
           UNCHANGED <<up, handlers, fs, arg, seen, node, reply, crashes>>
    PROVE  Base'
<1>0. TypeOK
    BY DEF Base
<1>1. TypeOK'
    BY <1>0 DEF TypeOK, Stages
<1>2. TreesWellFormed' /\ IdsOK'
    BY DEF Base, TreesWellFormed, IdsOK
<1>3. ASSUME NEW s \in Reqs PROVE RequestOK(s)'
  <2>1. RequestOK(s) /\ RequestOK(r)
    BY DEF Base
  <2>2. stage'[s] = IF s = r THEN "return" ELSE stage[s]
    BY <1>0 DEF TypeOK
  <2>3. CASE s = r
    BY <2>1, <2>2, <2>3 DEF RequestOK, InFlight, Busy
  <2>4. CASE s # r
    <3>1. stage'[s] = stage[s] /\ held'[s] = held[s] /\ Key(s)' = Key(s)
      BY <2>2, <2>4 DEF Key
    <3>2. stage[s] = "save" => held[s].id < nextId'
      BY <1>0, <2>1 DEF RequestOK, TypeOK, Row
    <3> QED  BY <2>1, <3>1, <3>2 DEF RequestOK, InFlight
  <2> QED  BY <2>3, <2>4
<1> QED  BY <1>1, <1>2, <1>3 DEF Base

LEMMA PersistCreateBase ==
    ASSUME Base, NEW r \in Reqs, PersistCreate(r)
    PROVE  Base'
<1> DEFINE new == [id |-> nextId, user |-> arg[r].user, path |-> arg[r].path,
                   content |-> arg[r].body]
<1>0. TypeOK /\ IdsOK /\ arg[r] \in Requests /\ stage[r] = "create"
    BY DEF Base, RequestOK, PersistCreate
<1>1. new \in Row /\ nextId \in Nat
    BY <1>0, RequestType DEF Row, TypeOK
<1>2. rows' = rows \cup {new} /\ nextId' = nextId + 1
    BY DEF PersistCreate
<1>3. /\ rows' \subseteq Row /\ nextId' \in Nat /\ nextId <= nextId'
      /\ \A a \in rows : a.id \in Nat /\ a.id < nextId
    BY <1>0, <1>1, <1>2 DEF TypeOK, IdsOK, Row
<1>4. /\ \A a, b \in rows' : a.id = b.id => a = b
      /\ \A a \in rows' : a.id < nextId'
    BY <1>0, <1>1, <1>2, <1>3 DEF IdsOK
<1>5. /\ Busy(r) /\ stage' = [stage EXCEPT ![r] = "return"]
      /\ held' = held /\ held \in [Reqs -> Row \cup {Nothing}]
      /\ disturbed' = disturbed /\ disturbed \subseteq Keys
      /\ UNCHANGED <<up, handlers, fs, arg, seen, node, reply, crashes>>
    BY <1>0 DEF Busy, PersistCreate, GoTo, TypeOK
<1> QED  BY <1>0, <1>3, <1>4, <1>5, RowStepBase

LEMMA PersistSaveBase ==
    ASSUME Base, NEW r \in Reqs, PersistSave(r)
    PROVE  Base'
<1> DEFINE new == [held[r] EXCEPT !.content = arg[r].body]
<1>0. /\ TypeOK /\ IdsOK /\ arg[r] \in Requests /\ stage[r] = "save"
      /\ held[r] \in Row /\ held[r].id < nextId
    BY DEF Base, RequestOK, PersistSave
<1>1. new \in Row /\ new.id = held[r].id /\ nextId \in Nat
    BY <1>0, RequestType DEF Row, TypeOK
<1>2. rows' = {row \in rows : row.id # held[r].id} \cup {new} /\ nextId' = nextId
    BY DEF PersistSave
<1>3. rows' \subseteq Row
    BY <1>0, <1>1, <1>2 DEF TypeOK
<1>4. /\ \A a, b \in rows' : a.id = b.id => a = b
      /\ \A a \in rows' : a.id < nextId'
    BY <1>0, <1>1, <1>2 DEF IdsOK
<1>5. /\ Busy(r) /\ stage' = [stage EXCEPT ![r] = "return"]
      /\ held' = [held EXCEPT ![r] = Nothing]
      /\ disturbed' = disturbed /\ disturbed \subseteq Keys
      /\ UNCHANGED <<up, handlers, fs, arg, seen, node, reply, crashes>>
    BY <1>0 DEF Busy, PersistSave, GoTo, TypeOK
<1>6. /\ held' \in [Reqs -> Row \cup {Nothing}]
      /\ \A s \in Reqs \ {r} : held'[s] = held[s]
    BY <1>0, <1>5 DEF TypeOK
<1>7. nextId' \in Nat /\ nextId <= nextId'
    BY <1>1, <1>2
<1> HIDE DEF new
<1> QED  BY <1>0, <1>3, <1>4, <1>5, <1>6, <1>7, RowStepBase

LEMMA PersistDeleteBase ==
    ASSUME Base, NEW r \in Reqs, PersistDelete(r)
    PROVE  Base'
<1>0. TypeOK /\ IdsOK /\ stage[r] = "delete"
    BY DEF Base, PersistDelete
<1>1. /\ rows' \subseteq rows /\ nextId' = nextId /\ nextId \in Nat
      /\ Busy(r) /\ stage' = [stage EXCEPT ![r] = "return"]
      /\ held' = held /\ held \in [Reqs -> Row \cup {Nothing}]
      /\ disturbed' = disturbed /\ disturbed \subseteq Keys
      /\ UNCHANGED <<up, handlers, fs, arg, seen, node, reply, crashes>>
    BY <1>0 DEF Busy, PersistDelete, GoTo, TypeOK
<1>2. /\ rows' \subseteq Row
      /\ \A a, b \in rows' : a.id = b.id => a = b
      /\ \A a \in rows' : a.id < nextId'
    BY <1>0, <1>1 DEF TypeOK, IdsOK
<1>3. nextId' \in Nat /\ nextId <= nextId'
    BY <1>1
<1> QED  BY <1>0, <1>1, <1>2, <1>3, RowStepBase

LEMMA PersistFailsBase ==
    ASSUME Base, NEW r \in Reqs, PersistFails(r)
    PROVE  Base'
<1>0. /\ TypeOK /\ IdsOK /\ stage[r] \in {"find", "create", "save", "delete"}
      /\ arg[r] \in Requests
    BY DEF Base, RequestOK, PersistFails
<1>1. Key(r) \in Keys
    BY <1>0, RequestType DEF Key, Keys
<1>2. /\ rows' = rows /\ nextId' = nextId /\ nextId \in Nat
      /\ Busy(r) /\ stage' = [stage EXCEPT ![r] = "return"]
      /\ held' = [held EXCEPT ![r] = Nothing]
      /\ disturbed \subseteq disturbed' /\ disturbed' \subseteq Keys
      /\ UNCHANGED <<up, handlers, fs, arg, seen, node, reply, crashes>>
    BY <1>0, <1>1 DEF Busy, PersistFails, GoTo, TypeOK
<1>3. /\ held' \in [Reqs -> Row \cup {Nothing}]
      /\ \A s \in Reqs \ {r} : held'[s] = held[s]
    BY <1>0, <1>2 DEF TypeOK
<1>4. /\ rows' \subseteq Row
      /\ \A a, b \in rows' : a.id = b.id => a = b
      /\ \A a \in rows' : a.id < nextId'
    BY <1>0, <1>2 DEF TypeOK, IdsOK
<1>5. nextId' \in Nat /\ nextId <= nextId'
    BY <1>2
<1>6. stage[r] # "write"
    BY <1>0
<1> QED  BY <1>2, <1>3, <1>4, <1>5, <1>6, RowStepBase

LEMMA CrashBase ==
    ASSUME Base, Crash
    PROVE  Base'
<1>0. TypeOK
    BY DEF Base
<1>1. TypeOK'
  <2>1. fs' \in [Users -> FileSystems]
    BY EmptyTreeType DEF Crash
  <2>2. stage' \in [Reqs -> Stages]
    BY <1>0 DEF TypeOK, Crash, Stages
  <2>3. disturbed' \subseteq Keys
    <3>1. ASSUME NEW r \in Reqs, stage[r] = "delete" PROVE Key(r) \in Keys
      BY <3>1, RequestType DEF Base, RequestOK, Key, Keys
    <3> QED  BY <1>0, <3>1 DEF TypeOK, Crash
  <2>4. crashes' \in Nat
    BY <1>0 DEF TypeOK, Crash
  <2> QED  BY <1>0, <2>1, <2>2, <2>3, <2>4 DEF TypeOK, Crash
<1>2. TreesWellFormed' /\ IdsOK'
    BY EmptyTreeType DEF Base, TreesWellFormed, IdsOK, Crash
<1>3. ASSUME NEW r \in Reqs PROVE RequestOK(r)'
  <2>1. RequestOK(r)
    BY DEF Base
  <2>2. /\ stage'[r] \in {"idle", "done", "lost"}
        /\ stage'[r] = "idle" => stage[r] = "idle"
        /\ node'[r] = Nothing
    BY <1>0 DEF Crash, InFlight, TypeOK
  <2> QED  BY <2>1, <2>2 DEF RequestOK, InFlight, Crash
<1> QED  BY <1>1, <1>2, <1>3 DEF Base

LEMMA RestartBase ==
    ASSUME Base, Restart
    PROVE  Base'
<1>0. TypeOK /\ DefaultUser \in Users
    BY HandlerAssumption DEF Base
<1>1. /\ handlers' \subseteq Users /\ handlers \subseteq handlers'
      /\ fs' \in [Users -> FileSystems]
      /\ \A v \in Users : WellFormedTree(fs'[v])
      /\ \A v \in handlers : fs'[v] = fs[v]
    BY <1>0, HandlerBase DEF Restart
<1>2. TypeOK'
    BY <1>0, <1>1 DEF TypeOK, Restart
<1>3. TreesWellFormed' /\ IdsOK'
    BY <1>1 DEF Base, TreesWellFormed, IdsOK, Restart
<1>4. ASSUME NEW r \in Reqs PROVE RequestOK(r)'
  <2>1. RequestOK(r)
    BY DEF Base
  <2>2. InFlight(r) => fs'[arg[r].user] = fs[arg[r].user]
    BY <1>1, <2>1 DEF RequestOK
  <2> QED  BY <1>1, <2>1, <2>2 DEF RequestOK, InFlight, Key, Restart
<1> QED  BY <1>2, <1>3, <1>4 DEF Base

LEMMA NextBase == Base /\ [Next]_vars => Base'
<1> SUFFICES ASSUME Base, [Next]_vars PROVE Base'
    OBVIOUS
<1>1. CASE UNCHANGED vars
    BY <1>1 DEF vars, Base, TypeOK, TreesWellFormed, IdsOK, RequestOK, InFlight, Key
<1>2. ASSUME NEW r \in Reqs, Accept(r) \/ AcceptFails(r) PROVE Base'
    BY <1>2, AcceptBase, AcceptFailsBase
<1>3. ASSUME NEW r \in Reqs, ServeHTTP(r) \/ LoadFails(r) \/ PersistFails(r)
      PROVE  Base'
    BY <1>3, LoadBase, PlainAnswersBase, GetBase, PutOnCollectionBase, PutOpenBase,
       PutWriteBase, DeleteBase, MkcolBase, MoveBase, CopyBase, PersistFindBase,
       PersistCreateBase, PersistSaveBase, PersistDeleteBase, PersistFailsBase
       DEF ServeHTTP, Serve, Persist
<1>4. CASE Crash \/ Restart
    BY <1>4, CrashBase, RestartBase
<1> QED  BY <1>1, <1>2, <1>3, <1>4 DEF Next

(* The state is well typed in every instance: whatever the paths, the      *)
(* users and the number of requests in flight, with faults and crashes.    *)
THEOREM TypeCorrect == Spec => []TypeOK
<1>1. Spec => []Base
    BY InitBase, NextBase, PTL DEF Spec
<1>2. Base => TypeOK
    BY DEF Base
<1> QED  BY <1>1, <1>2, PTL

-----------------------------------------------------------------------------
(* What rows hold was accepted.                                            *)

(* Between tree and rows, a request that will write a row is a PUT that    *)
(* has been answered with success.                                         *)
PutAccepted(r) ==
    /\ stage[r] \in {"write", "find", "create", "save"} => arg[r].method = "PUT"
    /\ stage[r] \in {"find", "create", "save"} => reply[r].status = "ok"

Written(r) == stage[r] \in {"return", "done", "lost"}

AcceptedInv == StoredWasAccepted /\ \A r \in Reqs : PutAccepted(r)

(* Whoever wrote a row stays its witness. *)
LEMMA WrittenStays ==
    ASSUME StoredWasAccepted,
           \A s \in Reqs : Written(s) =>
               Written(s)' /\ arg'[s] = arg[s] /\ reply'[s] = reply[s],
           \A row \in rows' \ rows : \E s \in Reqs :
               /\ Written(s)'
               /\ reply'[s].status = "ok"
               /\ arg'[s].method = "PUT"
               /\ <<arg'[s].user, arg'[s].path>> = <<row.user, row.path>>
               /\ arg'[s].body = row.content
    PROVE  StoredWasAccepted'
<1> SUFFICES ASSUME NEW row \in rows'
             PROVE  \E s \in Reqs : /\ Written(s)'
                                    /\ reply'[s].status = "ok"
                                    /\ arg'[s].method = "PUT"
                                    /\ <<arg'[s].user, arg'[s].path>> = <<row.user, row.path>>
                                    /\ arg'[s].body = row.content
    BY DEF StoredWasAccepted, Written, Key
<1>1. CASE row \in rows
  <2>1. PICK s \in Reqs : /\ Written(s)
                          /\ reply[s].status = "ok"
                          /\ arg[s].method = "PUT"
                          /\ <<arg[s].user, arg[s].path>> = <<row.user, row.path>>
                          /\ arg[s].body = row.content
    BY <1>1 DEF StoredWasAccepted, Written, Key
  <2> QED  BY <2>1
<1>2. CASE row \notin rows
    BY <1>2
<1> QED  BY <1>1, <1>2

(* A step of a request that has not written, or has answered. *)
LEMMA StepAccepted ==
    ASSUME AcceptedInv, NEW r \in Reqs,
           \A s \in Reqs \ {r} : /\ stage'[s] = stage[s] /\ arg'[s] = arg[s]
                                 /\ reply'[s] = reply[s],
           Written(r) => Written(r)' /\ arg'[r] = arg[r] /\ reply'[r] = reply[r],
           PutAccepted(r)',
           \A row \in rows' \ rows :
               /\ Written(r)'
               /\ reply'[r].status = "ok"
               /\ arg'[r].method = "PUT"
               /\ <<arg'[r].user, arg'[r].path>> = <<row.user, row.path>>
               /\ arg'[r].body = row.content
    PROVE  AcceptedInv'
<1>1. ASSUME NEW s \in Reqs PROVE PutAccepted(s)'
  <2>1. s # r => PutAccepted(s)'
    BY DEF AcceptedInv, PutAccepted
  <2> QED  BY <2>1
<1>2. ASSUME NEW s \in Reqs, Written(s)
      PROVE  Written(s)' /\ arg'[s] = arg[s] /\ reply'[s] = reply[s]
  <2>1. s # r => Written(s)' /\ arg'[s] = arg[s] /\ reply'[s] = reply[s]
    BY <1>2 DEF Written
  <2> QED  BY <1>2, <2>1
<1>3. StoredWasAccepted'
    BY <1>2, WrittenStays DEF AcceptedInv
<1> QED  BY <1>1, <1>3 DEF AcceptedInv

LEMMA QuietAccepted ==
    ASSUME TypeOK, AcceptedInv, NEW r \in Reqs,
           \/ Accept(r) \/ AcceptFails(r) \/ Load(r) \/ PreconditionFailed(r) \/ LoadFails(r)
           \/ ServeLocked(r) \/ ServeGet(r) \/ PutRefused(r) \/ DeleteRefused(r)
           \/ ServeMkcol(r) \/ ServeMove(r) \/ ServeCopy(r) \/ ServeDelete(r)
    PROVE  AcceptedInv'
<1>1. /\ stage[r] \in {"idle", "load", "serve"} /\ rows' = rows
      /\ \E s \in {"load", "serve", "done", "delete"} : stage' = [stage EXCEPT ![r] = s]
      /\ arg' = arg \/ \E q : arg' = [arg EXCEPT ![r] = q]
      /\ reply' = reply \/ \E a : reply' = [reply EXCEPT ![r] = a]
    BY DEF Accept, AcceptFails, Load, PreconditionFailed, LoadFails, ServeLocked, ServeGet,
           PutRefused, DeleteRefused, ServeMkcol, ServeMove, ServeCopy, ServeDelete, Serving,
           AnswerBare, Respond, SettleMutation, Answer, Settle, GoTo
<1>2. /\ \A s \in Reqs \ {r} : /\ stage'[s] = stage[s] /\ arg'[s] = arg[s]
                               /\ reply'[s] = reply[s]
      /\ stage'[r] \in {"load", "serve", "done", "delete"}
    BY <1>1 DEF TypeOK
<1>3. ~Written(r) /\ PutAccepted(r)'
    BY <1>1, <1>2 DEF Written, PutAccepted
<1> QED  BY <1>1, <1>2, <1>3, StepAccepted

LEMMA EndAccepted ==
    ASSUME TypeOK, AcceptedInv, NEW r \in Reqs,
           Return(r) \/ PersistFails(r) \/ PersistDelete(r)
    PROVE  AcceptedInv'
<1>1. /\ rows' \subseteq rows /\ arg' = arg /\ reply' = reply
      /\ \E s \in {"return", "done"} : stage' = [stage EXCEPT ![r] = s]
    BY DEF Return, PersistFails, PersistDelete, GoTo
<1>2. /\ \A s \in Reqs \ {r} : stage'[s] = stage[s]
      /\ stage'[r] \in {"return", "done"}
    BY <1>1 DEF TypeOK
<1>3. Written(r)' /\ PutAccepted(r)'
    BY <1>2 DEF Written, PutAccepted
<1> QED  BY <1>1, <1>2, <1>3, StepAccepted

LEMMA PutAcceptedSteps ==
    ASSUME TypeOK, AcceptedInv, NEW r \in Reqs,
           PutOnCollection(r) \/ PutOpen(r) \/ PutWrite(r) \/ PersistFind(r)
    PROVE  AcceptedInv'
<1>1. /\ stage[r] \in {"serve", "write", "find"} /\ rows' = rows /\ arg' = arg
      /\ arg[r].method = "PUT"
      /\ \E s \in {"write", "find", "create", "save"} : stage' = [stage EXCEPT ![r] = s]
    BY DEF PutOnCollection, PutOpen, PutWrite, PersistFind, Serving, GoTo,
           AcceptedInv, PutAccepted
<1>2. /\ \A s \in Reqs \ {r} : stage'[s] = stage[s]
      /\ stage'[r] \in {"write", "find", "create", "save"}
    BY <1>1 DEF TypeOK
<1>3. \/ reply' = reply /\ stage'[r] = "write"
      \/ reply' = reply /\ reply[r].status = "ok"
      \/ \E a : a.status = "ok" /\ reply' = [reply EXCEPT ![r] = a]
  <2>1. CASE PutOpen(r)
    BY <2>1 DEF PutOpen, GoTo, TypeOK
  <2>2. CASE PersistFind(r)
    BY <2>2 DEF PersistFind, AcceptedInv, PutAccepted
  <2>3. CASE PutOnCollection(r) \/ PutWrite(r)
    <3>1. PICK a : /\ a = [status |-> "ok", etag |-> ResponseETag(r), body |-> Absent]
                   /\ reply' = [reply EXCEPT ![r] = a]
      BY <2>3 DEF PutOnCollection, PutWrite, SettleMutation, Settle
    <3> QED  BY <3>1
  <2> QED  BY <2>1, <2>2, <2>3
<1>4. /\ \A s \in Reqs \ {r} : reply'[s] = reply[s]
      /\ stage'[r] = "write" \/ reply'[r].status = "ok"
    BY <1>3 DEF TypeOK
<1>5. ~Written(r) /\ PutAccepted(r)'
    BY <1>1, <1>4 DEF Written, PutAccepted
<1> QED  BY <1>1, <1>2, <1>4, <1>5, StepAccepted

(* The row that is written, or written again, holds the body of the PUT. *)
LEMMA RowsAccepted ==
    ASSUME Base, AcceptedInv, NEW r \in Reqs, PersistCreate(r) \/ PersistSave(r)
    PROVE  AcceptedInv'
<1>1. /\ stage[r] \in {"create", "save"} /\ arg' = arg /\ reply' = reply
      /\ stage' = [stage EXCEPT ![r] = "return"]
      /\ arg[r].method = "PUT" /\ reply[r].status = "ok"
    BY DEF PersistCreate, PersistSave, GoTo, AcceptedInv, PutAccepted
<1>2. /\ \A s \in Reqs \ {r} : stage'[s] = stage[s]
      /\ stage'[r] = "return"
    BY <1>1 DEF Base, TypeOK
<1>3. ASSUME NEW row \in rows' \ rows
      PROVE  <<row.user, row.path>> = Key(r) /\ row.content = arg[r].body
  <2>1. CASE PersistCreate(r)
    BY <1>3, <2>1 DEF PersistCreate, Key
  <2>2. CASE PersistSave(r)
    <3>1. row = [held[r] EXCEPT !.content = arg[r].body]
      BY <1>3, <2>2 DEF PersistSave
    <3>2. held[r] \in Row /\ <<held[r].user, held[r].path>> = Key(r)
      BY <2>2 DEF PersistSave, Base, RequestOK
    <3> QED  BY <3>1, <3>2 DEF Row
  <2> QED  BY <2>1, <2>2
<1>4. Written(r)' /\ PutAccepted(r)' /\ ~Written(r)
    BY <1>1, <1>2 DEF Written, PutAccepted
<1> QED  BY <1>1, <1>2, <1>3, <1>4, StepAccepted DEF Key

LEMMA NextAccepted == Base /\ AcceptedInv /\ [Next]_vars => AcceptedInv'
<1> SUFFICES ASSUME Base, AcceptedInv, [Next]_vars PROVE AcceptedInv'
    OBVIOUS
<1>0. TypeOK
    BY DEF Base
<1>1. ASSUME NEW r \in Reqs, Accept(r) \/ AcceptFails(r) PROVE AcceptedInv'
    BY <1>0, <1>1, QuietAccepted
<1>2. ASSUME NEW r \in Reqs, ServeHTTP(r) \/ LoadFails(r) \/ PersistFails(r)
      PROVE  AcceptedInv'
    BY <1>0, <1>2, QuietAccepted, EndAccepted, PutAcceptedSteps, RowsAccepted
       DEF ServeHTTP, Serve, Persist
<1>3. ASSUME rows' = rows, arg' = arg, reply' = reply,
             stage' = stage \/ stage' = [r \in Reqs |-> IF InFlight(r) THEN "lost" ELSE stage[r]]
      PROVE  AcceptedInv'
  <2>1. \A s \in Reqs : /\ stage'[s] \in {stage[s], "lost"}
                        /\ Written(s) => Written(s)'
    BY <1>0, <1>3 DEF TypeOK, InFlight, Written
  <2>2. \A s \in Reqs : PutAccepted(s)'
    BY <1>3, <2>1 DEF AcceptedInv, PutAccepted
  <2> QED  BY <1>3, <2>1, <2>2, WrittenStays DEF AcceptedInv
<1>4. CASE Crash \/ Restart \/ UNCHANGED vars
    BY <1>3, <1>4 DEF Crash, Restart, vars
<1> QED  BY <1>1, <1>2, <1>4 DEF Next

(* Every row is the body of a PUT to its key whose answer is success: no   *)
(* request that a lock, its If-Match or the tree refused leaves a row,     *)
(* whatever overlaps, fails or is cut off (ServeHTTP, persistMutation,     *)
(* which looks at the status first).                                       *)
THEOREM OnlyAcceptedIsStored == Spec => []StoredWasAccepted
<1>1. Init => Base /\ AcceptedInv
    BY InitBase DEF Init, AcceptedInv, StoredWasAccepted, PutAccepted
<1>2. Base /\ AcceptedInv /\ [Next]_vars => (Base /\ AcceptedInv)'
    BY NextBase, NextAccepted
<1>3. Base /\ AcceptedInv => StoredWasAccepted
    BY DEF AcceptedInv
<1> QED  BY <1>1, <1>2, <1>3, PTL DEF Spec
=============================================================================
