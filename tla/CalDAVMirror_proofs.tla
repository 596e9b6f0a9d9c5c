------------------------ MODULE CalDAVMirror_proofs ------------------------
(***************************************************************************)
(* Proofs about tree and rows.  They mirror each other at every key that   *)
(* nothing disturbed: Inv is inductive, and Mirror follows from it.  One   *)
(* lemma per action shows what it leaves of KeyOK, for the key of its      *)
(* request and for all others; CalDAVHandler_proofs has the rest.  From    *)
(* Inv follow that undisturbed rows fit into a tree, and that the handler  *)
(* does what ResourceMap promises.  The last part is about the disturbed   *)
(* keys: a write that is alone at one mends it (CalDAVRepair).             *)
(***************************************************************************)
EXTENDS CalDAVHandler_proofs, CalDAVRefinement, CalDAVRepair, FiniteSetTheorems

(* The part of Inv that is not Base. *)
Lag == HoldingOK /\ \A k \in Keys \ disturbed : KeyOK(k)

LEMMA InvImpliesMirror == Inv => Mirror
BY DEF Inv, Mirror, KeyOK, UniqueAt

LEMMA InitLag == Init => Lag
<1> SUFFICES ASSUME Init PROVE Lag
    OBVIOUS
<1>1. HoldingOK
    BY DEF Init, HoldingOK
<1>2. ASSUME NEW k \in Keys PROVE KeyOK(k)
  <2>1. RowsAt(k) = {} /\ ~IsFile(fs[k[1]], k[2])
    BY ContentsAssumption DEF Init, RowsAt, EmptyTree, IsFile, Keys
  <2>2. \A r \in Reqs : ~Busy(r)
    BY DEF Init, Busy
  <2> QED  BY <2>1, <2>2 DEF KeyOK, UniqueAt, WriterAt, Served, Stored
<1> QED  BY <1>1, <1>2 DEF Lag

-----------------------------------------------------------------------------
(* Frames.                                                                 *)

(* The keys of the requests that write. *)
LEMMA WriterKey ==
    ASSUME Base, NEW r \in Reqs, Busy(r) \/ stage[r] = "serve"
    PROVE  /\ arg[r] \in Requests /\ Key(r) \in Keys
           /\ arg[r].user \in Users /\ arg[r].path \in Paths
           /\ arg[r].user \in handlers /\ arg[r].body \in Contents
<1>1. arg[r] \in Requests /\ arg[r].user \in handlers
    BY DEF Base, RequestOK, InFlight, Busy
<1> QED  BY <1>1, RequestType DEF Key, Keys

(* A key that a step leaves alone: its rows, its file and its writers. *)
LEMMA KeyFrame ==
    ASSUME NEW k \in Keys, KeyOK(k),
           RowsAt(k)' = RowsAt(k), Served(k)' = Served(k),
           k[1] \in handlers' => k[1] \in handlers,
           \A s \in Reqs : WriterAt(s, k) <=> WriterAt(s, k)',
           \A s \in Reqs : WriterAt(s, k) =>
               stage'[s] = stage[s] /\ arg'[s] = arg[s] /\ held'[s] = held[s]
    PROVE  KeyOK(k)'
<1>1. UniqueAt(k)'
    BY DEF KeyOK, UniqueAt
<1>2. ASSUME NEW r \in Reqs, WriterAt(r, k)'
      PROVE  LagOK(r)' /\ \A s \in Reqs : WriterAt(s, k)' => s = r
  <2>1. WriterAt(r, k) /\ LagOK(r) /\ Key(r) = k /\ Key(r)' = k
    BY <1>2 DEF KeyOK, WriterAt
  <2>2. \A s \in Reqs : WriterAt(s, k)' => s = r
    BY <2>1 DEF KeyOK
  <2>3. LagOK(r)'
    BY <2>1 DEF LagOK
  <2> QED  BY <2>2, <2>3
<1>3. Quiet(k)' => Quiet(k)
    BY DEF Quiet, WriterAt
<1>4. Stored(k)' = Stored(k)
    BY DEF Stored
<1> QED  BY <1>1, <1>2, <1>3, <1>4 DEF KeyOK

(* Nothing changes but the stage of a request that is not writing. *)
LEMMA QuietStep ==
    ASSUME Base, Lag, NEW r \in Reqs, ~Busy(r), ~Busy(r)',
           \A s \in Reqs \ {r} : stage'[s] = stage[s] /\ arg'[s] = arg[s],
           \A k \in Keys \ disturbed' : Served(k)' = Served(k),
           disturbed \subseteq disturbed', UNCHANGED <<handlers, rows, held>>
    PROVE  Lag'
<1>1. \A s \in Reqs : Busy(s)' => Busy(s) /\ s # r
    BY DEF Busy
<1>2. HoldingOK'
  <2>1. \A s \in Reqs : stage'[s] = "save" =>
            s # r /\ stage[s] = "save" /\ Key(s)' = Key(s) /\ held'[s] = held[s]
    BY <1>1 DEF Busy, Key
  <2> QED  BY <2>1 DEF Lag, HoldingOK, RowsAt
<1>3. ASSUME NEW k \in Keys \ disturbed' PROVE KeyOK(k)'
  <2>1. KeyOK(k) /\ RowsAt(k)' = RowsAt(k) /\ Served(k)' = Served(k)
    BY <1>3 DEF Lag, RowsAt
  <2>2. \A s \in Reqs : WriterAt(s, k) <=> WriterAt(s, k)'
    BY <1>1 DEF WriterAt, Key, Busy
  <2>3. \A s \in Reqs : WriterAt(s, k) =>
            stage'[s] = stage[s] /\ arg'[s] = arg[s] /\ held'[s] = held[s]
    BY <1>1 DEF WriterAt
  <2> QED  BY <2>1, <2>2, <2>3, KeyFrame
<1> QED  BY <1>2, <1>3 DEF Lag

(* A step of r that writes: other keys are framed, r's own is shown apart. *)
LEMMA WriterStep ==
    ASSUME Base, Lag, NEW r \in Reqs, HoldingOK',
           \A s \in Reqs \ {r} : /\ stage'[s] = stage[s] /\ arg'[s] = arg[s]
                                 /\ held'[s] = held[s],
           arg'[r] = arg[r], handlers' = handlers, disturbed \subseteq disturbed',
           \A k \in Keys \ disturbed' : k # Key(r) =>
               RowsAt(k)' = RowsAt(k) /\ Served(k)' = Served(k),
           \A k \in Keys \ disturbed' : k = Key(r) => KeyOK(k)'
    PROVE  Lag'
<1>1. ASSUME NEW k \in Keys \ disturbed', k # Key(r) PROVE KeyOK(k)'
  <2>1. KeyOK(k) /\ RowsAt(k)' = RowsAt(k) /\ Served(k)' = Served(k)
    BY <1>1 DEF Lag
  <2>2. ~WriterAt(r, k) /\ ~WriterAt(r, k)'
    BY <1>1 DEF WriterAt, Key
  <2>3. \A s \in Reqs \ {r} : WriterAt(s, k) <=> WriterAt(s, k)'
    BY DEF WriterAt, Key, Busy
  <2>4. \A s \in Reqs : WriterAt(s, k) =>
            stage'[s] = stage[s] /\ arg'[s] = arg[s] /\ held'[s] = held[s]
    BY <2>2
  <2> QED  BY <2>1, <2>2, <2>3, <2>4, KeyFrame
<1> QED  BY <1>1 DEF Lag

(* r is left as the only writer at its key. *)
LEMMA OnlyWriter ==
    ASSUME NEW k \in Keys, NEW r \in Reqs, UniqueAt(k)', WriterAt(r, k)', LagOK(r)',
           \A s \in Reqs \ {r} : ~WriterAt(s, k)'
    PROVE  KeyOK(k)'
BY DEF KeyOK, Quiet, WriterAt

(* r, the last writer, leaves its key. *)
LEMMA LastWriter ==
    ASSUME NEW k \in Keys, NEW r \in Reqs, UniqueAt(k)', ~WriterAt(r, k)',
           Served(k)' = Stored(k)', \A s \in Reqs \ {r} : ~WriterAt(s, k)'
    PROVE  KeyOK(k)'
<1>1. \A s \in Reqs : ~WriterAt(s, k)'
    OBVIOUS
<1> QED  BY <1>1 DEF KeyOK

(* The facts a writer's step starts from: no one else is at its key. *)
LEMMA Alone ==
    ASSUME Base, Lag, NEW r \in Reqs, Busy(r), Key(r) \notin disturbed,
           \A s \in Reqs \ {r} : stage'[s] = stage[s] /\ arg'[s] = arg[s]
    PROVE  /\ UniqueAt(Key(r)) /\ LagOK(r)
           /\ \A s \in Reqs \ {r} : ~WriterAt(s, Key(r)) /\ (Busy(s)' => Key(s)' # Key(r))
<1>1. KeyOK(Key(r)) /\ WriterAt(r, Key(r))
    BY WriterKey DEF Lag, WriterAt
<1>2. LagOK(r) /\ \A s \in Reqs \ {r} : ~WriterAt(s, Key(r))
    BY <1>1 DEF KeyOK
<1>3. ASSUME NEW s \in Reqs \ {r}, Busy(s)' PROVE Key(s)' # Key(r)
    BY <1>2, <1>3 DEF WriterAt, Busy, Key
<1> QED  BY <1>1, <1>2, <1>3 DEF KeyOK

(* No row is touched: what saving requests hold stays as it is. *)
LEMMA HoldingFrame ==
    ASSUME Lag, rows' = rows,
           \A s \in Reqs : stage'[s] = "save" =>
               stage[s] = "save" /\ arg'[s] = arg[s] /\ held'[s] = held[s]
    PROVE  HoldingOK'
<1>1. \A s \in Reqs : stage'[s] = "save" => Key(s)' = Key(s)
    BY DEF Key
<1> QED  BY <1>1 DEF Lag, HoldingOK, RowsAt

-----------------------------------------------------------------------------
(* Steps of requests that do not write.                                    *)

LEMMA ReadersLag ==
    ASSUME Base, Lag, NEW r \in Reqs,
           \/ Load(r) \/ PreconditionFailed(r) \/ LoadFails(r) \/ ServeLocked(r)
           \/ ServeGet(r) \/ PutRefused(r) \/ DeleteRefused(r) \/ Return(r)
    PROVE  Lag'
<1>1. /\ UNCHANGED <<handlers, fs, rows, arg, held, disturbed>>
      /\ stage[r] \in {"load", "serve", "return"}
    BY DEF Load, PreconditionFailed, LoadFails, ServeLocked, ServeGet, PutRefused,
           DeleteRefused, Return, Serving
<1>2. \/ stage' = [stage EXCEPT ![r] = "serve"]
      \/ stage' = [stage EXCEPT ![r] = "done"]
    BY DEF Load, PreconditionFailed, LoadFails, ServeLocked, ServeGet, PutRefused,
           DeleteRefused, Return, AnswerBare, Respond, Answer, GoTo
<1>3. stage \in [Reqs -> Stages]
    BY DEF Base, TypeOK
<1>4. ~Busy(r) /\ ~Busy(r)' /\ \A s \in Reqs \ {r} : stage'[s] = stage[s]
    BY <1>1, <1>2, <1>3 DEF Busy
<1>5. \A k \in Keys \ disturbed' : Served(k)' = Served(k)
    BY <1>1 DEF Served
<1> QED  BY <1>1, <1>4, <1>5, QuietStep

LEMMA AcceptFailsLag ==
    ASSUME Base, Lag, NEW r \in Reqs, AcceptFails(r)
    PROVE  Lag'
<1>1. PICK q \in Requests : arg' = [arg EXCEPT ![r] = q]
    BY DEF AcceptFails
<1>2. /\ UNCHANGED <<handlers, fs, rows, held, disturbed>> /\ stage[r] = "idle"
      /\ stage' = [stage EXCEPT ![r] = "done"]
    BY DEF AcceptFails, AnswerBare, Answer, GoTo
<1>3. stage \in [Reqs -> Stages] /\ DOMAIN arg = Reqs
    BY DEF Base, TypeOK
<1>4. /\ ~Busy(r) /\ ~Busy(r)'
      /\ \A s \in Reqs \ {r} : stage'[s] = stage[s] /\ arg'[s] = arg[s]
    BY <1>1, <1>2, <1>3 DEF Busy
<1>5. \A k \in Keys \ disturbed' : Served(k)' = Served(k)
    BY <1>2 DEF Served
<1> QED  BY <1>2, <1>4, <1>5, QuietStep

(* A hydrated tree serves, at every key with one row at most, what is      *)
(* stored there.                                                           *)
LEMMA HydratedServes ==
    ASSUME Base, NEW u \in Users, NEW tree \in HydratedTrees(u), NEW p \in Paths,
           UniqueAt(<<u, p>>)
    PROVE  (IF IsFile(tree, p) THEN tree[p] ELSE Absent) = Stored(<<u, p>>)
<1>1. rows \subseteq Row /\ TypeOK
    BY DEF Base, TypeOK
<1>2. CASE p \in StoredPaths(u)
  <2>1. PICK row \in RowsAt(<<u, p>>) : tree[p] = row.content
    BY <1>1, <1>2, HydratedTreeType
  <2>2. row.content \in Contents
    BY <1>1 DEF RowsAt, Row
  <2> QED  BY <1>1, <2>1, <2>2, StoredUnique DEF IsFile
<1>3. CASE p \notin StoredPaths(u)
  <2>1. tree[p] \notin Contents
    BY <1>1, <1>3, HydratedTreeType, ContentsAssumption
  <2>2. RowsAt(<<u, p>>) = {}
    BY <1>3 DEF StoredPaths
  <2> QED  BY <2>1, <2>2 DEF IsFile, Stored
<1> QED  BY <1>2, <1>3

(* getUserHandler leaves what the cached trees serve, and the tree it adds *)
(* serves what the rows store; nobody writes to a tree not yet cached.     *)
LEMMA HandlerLag ==
    ASSUME Base, Lag, NEW u \in Users, GetUserHandler(u),
           \A s \in Reqs : Busy(s)' => Busy(s),
           \A s \in Reqs : Busy(s) => stage'[s] = stage[s] /\ arg'[s] = arg[s],
           UNCHANGED <<rows, held, disturbed>>
    PROVE  Lag'
<1>1. HoldingOK'
  <2>1. ASSUME NEW s \in Reqs, stage'[s] = "save"
        PROVE  stage[s] = "save" /\ arg'[s] = arg[s] /\ held'[s] = held[s]
    <3>1. Busy(s)
      BY <2>1 DEF Busy
    <3> QED  BY <2>1, <3>1
  <2> QED  BY <2>1, HoldingFrame
<1>2. ASSUME NEW k \in Keys \ disturbed' PROVE KeyOK(k)'
  <2>1. KeyOK(k) /\ RowsAt(k)' = RowsAt(k)
    BY DEF Lag, RowsAt
  <2>2. ASSUME NEW s \in Reqs PROVE WriterAt(s, k) <=> WriterAt(s, k)'
    <3>1. Busy(s) => Busy(s)'
      BY DEF Busy
    <3> QED  BY <3>1 DEF WriterAt, Key
  <2>3. \A s \in Reqs : WriterAt(s, k) =>
            stage'[s] = stage[s] /\ arg'[s] = arg[s] /\ held'[s] = held[s]
    BY DEF WriterAt
  <2>4. CASE u \in handlers /\ UNCHANGED <<handlers, fs>>
    <3>1. Served(k)' = Served(k)
      BY <2>4 DEF Served
    <3> QED  BY <2>1, <2>2, <2>3, <2>4, <3>1, KeyFrame
  <2>5. ASSUME u \notin handlers, handlers' = handlers \cup {u},
               NEW tree \in HydratedTrees(u), fs' = [fs EXCEPT ![u] = tree]
        PROVE  KeyOK(k)'
    <3>1. DOMAIN fs = Users /\ k[1] \in Users /\ k[2] \in Paths /\ k = <<k[1], k[2]>>
      BY DEF Base, TypeOK, Keys
    <3>2. CASE k[1] # u
      <4>1. Served(k)' = Served(k) /\ (k[1] \in handlers' => k[1] \in handlers)
        BY <2>5, <3>1, <3>2 DEF Served
      <4> QED  BY <2>1, <2>2, <2>3, <4>1, KeyFrame
    <3>3. CASE k[1] = u
      <4>1. \A s \in Reqs : ~WriterAt(s, k)'
        BY <2>2, <2>5, <3>3, WriterKey DEF WriterAt, Key
      <4>2. UniqueAt(k) /\ UniqueAt(k)' /\ Stored(k)' = Stored(k)
        BY <2>1 DEF KeyOK, UniqueAt, Stored
      <4>3. Served(k)' = IF IsFile(tree, k[2]) THEN tree[k[2]] ELSE Absent
        BY <2>5, <3>1, <3>3 DEF Served
      <4>4. Served(k)' = Stored(k)'
        BY <3>1, <3>3, <4>2, <4>3, HydratedServes
      <4> QED  BY <4>1, <4>2, <4>4 DEF KeyOK
    <3> QED  BY <3>2, <3>3
  <2> QED  BY <2>4, <2>5 DEF GetUserHandler
<1> QED  BY <1>1, <1>2 DEF Lag

LEMMA AcceptLag ==
    ASSUME Base, Lag, NEW r \in Reqs, Accept(r)
    PROVE  Lag'
<1>1. PICK q \in Requests : GetUserHandler(q.user) /\ arg' = [arg EXCEPT ![r] = q]
    BY DEF Accept
<1>2. /\ stage[r] = "idle" /\ stage' = [stage EXCEPT ![r] = "load"]
      /\ UNCHANGED <<rows, held, disturbed>>
    BY DEF Accept, GoTo
<1>3. stage \in [Reqs -> Stages] /\ DOMAIN arg = Reqs /\ q.user \in Users
    BY RequestType DEF Base, TypeOK
<1>4. /\ \A s \in Reqs : Busy(s)' => Busy(s)
      /\ \A s \in Reqs : Busy(s) => stage'[s] = stage[s] /\ arg'[s] = arg[s]
    BY <1>1, <1>2, <1>3 DEF Busy
<1> QED  BY <1>1, <1>2, <1>3, <1>4, HandlerLag

LEMMA RestartLag ==
    ASSUME Base, Lag, Restart
    PROVE  Lag'
<1>1. /\ GetUserHandler(DefaultUser) /\ DefaultUser \in Users
      /\ UNCHANGED <<rows, stage, arg, held, disturbed>>
    BY HandlerAssumption DEF Restart
<1>2. /\ \A s \in Reqs : Busy(s)' => Busy(s)
      /\ \A s \in Reqs : Busy(s) => stage'[s] = stage[s] /\ arg'[s] = arg[s]
    BY <1>1 DEF Busy
<1> QED  BY <1>1, <1>2, HandlerLag

(* Of the keys a crash heals, the rows are unique by what heals them. *)
LEMMA CrashLag ==
    ASSUME Base, Lag, Crash
    PROVE  Lag'
<1>1. \A s \in Reqs : ~Busy(s)' /\ stage'[s] # "save"
    BY DEF Base, TypeOK, Crash, InFlight, Busy
<1>2. ASSUME NEW k \in Keys \ disturbed' PROVE KeyOK(k)'
  <2>1. RowsAt(k)' = RowsAt(k) /\ handlers' = {}
    BY DEF Crash, RowsAt
  <2>2. UniqueAt(k)
    BY DEF Crash, Lag, KeyOK, UniqueAt
  <2> QED  BY <1>1, <2>1, <2>2 DEF KeyOK, UniqueAt, WriterAt
<1> QED  BY <1>1, <1>2 DEF Lag, HoldingOK

-----------------------------------------------------------------------------
(* Steps on the tree.                                                      *)

(* A request changes its user's tree and is done: what it serves otherwise *)
(* than before is disturbed.                                               *)
LEMMA TreeStepLag ==
    ASSUME Base, Lag, NEW r \in Reqs, stage[r] = "serve",
           stage' = [stage EXCEPT ![r] = "done"],
           NEW tree, fs' = [fs EXCEPT ![arg[r].user] = tree],
           \A p \in Paths : <<arg[r].user, p>> \notin disturbed' =>
               \/ tree[p] = TreeOf(r)[p]
               \/ tree[p] \notin Contents /\ TreeOf(r)[p] \notin Contents,
           disturbed \subseteq disturbed', UNCHANGED <<handlers, rows, arg, held>>
    PROVE  Lag'
<1>1. stage \in [Reqs -> Stages] /\ DOMAIN fs = Users
    BY DEF Base, TypeOK
<1>2. ~Busy(r) /\ ~Busy(r)' /\ \A s \in Reqs \ {r} : stage'[s] = stage[s]
    BY <1>1 DEF Busy
<1>3. ASSUME NEW k \in Keys \ disturbed' PROVE Served(k)' = Served(k)
  <2>1. k[1] \in Users /\ k[2] \in Paths /\ k = <<k[1], k[2]>>
    BY DEF Keys
  <2>2. CASE k[1] # arg[r].user
    BY <1>1, <2>1, <2>2 DEF Served
  <2>3. CASE k[1] = arg[r].user
    BY <1>1, <1>3, <2>1, <2>3 DEF Served, TreeOf, IsFile
  <2> QED  BY <2>2, <2>3
<1> QED  BY <1>2, <1>3, QuietStep

LEMMA MkcolLag ==
    ASSUME Base, Lag, NEW r \in Reqs, ServeMkcol(r)
    PROVE  Lag'
<1> DEFINE f == TreeOf(r)
           p == arg[r].path
           g == [f EXCEPT ![p] = Dir]
<1>0. /\ stage[r] = "serve" /\ stage' = [stage EXCEPT ![r] = "done"]
      /\ UNCHANGED <<handlers, rows, arg, held, disturbed>>
    BY DEF ServeMkcol, Serving, Respond, Answer, GoTo
<1>1. f \in FileSystems /\ p \in Paths /\ arg[r].user \in Users
    BY <1>0, ServingFacts
<1>2. CASE Reachable(f, p) /\ ~Exists(f, p)
  <2>1. fs' = [fs EXCEPT ![arg[r].user] = g]
    BY <1>2 DEF ServeMkcol, SetTree
  <2>2. ASSUME NEW q \in Paths
        PROVE  \/ g[q] = f[q]
               \/ g[q] \notin Contents /\ f[q] \notin Contents
    BY <1>1, <1>2, ContentsAssumption DEF FileSystems, Exists
  <2> HIDE DEF g
  <2> QED  BY <1>0, <2>1, <2>2, TreeStepLag
<1>3. CASE ~(Reachable(f, p) /\ ~Exists(f, p))
  <2>1. fs' = fs
    BY <1>3 DEF ServeMkcol
  <2>2. fs' = [fs EXCEPT ![arg[r].user] = f]
    BY <1>1, <2>1 DEF TreeOf, Base, TypeOK
  <2> QED  BY <1>0, <2>2, TreeStepLag
<1> QED  BY <1>2, <1>3

LEMMA MoveLag ==
    ASSUME Base, Lag, NEW r \in Reqs, ServeMove(r)
    PROVE  Lag'
<1> DEFINE f == TreeOf(r)
           src == arg[r].path
           dst == arg[r].dest
           allowed == dst # src /\ (Exists(f, dst) => arg[r].overwrite)
           g == IF allowed /\ Exists(f, dst) THEN Removed(f, dst) ELSE f
           moved == /\ allowed
                    /\ dst \notin Under(src)
                    /\ Exists(g, src)
                    /\ Reachable(g, dst)
           h == IF moved THEN Renamed(g, src, dst) ELSE g
           added == IF moved THEN KeysOf(r, Tree(src) \cup Tree(dst))
                    ELSE IF g # f THEN KeysOf(r, Tree(dst)) ELSE {}
<1>0. /\ stage[r] = "serve" /\ stage' = [stage EXCEPT ![r] = "done"]
      /\ fs' = [fs EXCEPT ![arg[r].user] = h]
      /\ disturbed' = disturbed \cup added
      /\ UNCHANGED <<handlers, rows, arg, held>>
    BY DEF ServeMove, Serving, SetTree, Respond, Answer, GoTo
<1>1. ASSUME NEW q \in Paths, <<arg[r].user, q>> \notin disturbed'
      PROVE  h[q] = f[q]
  <2>1. <<arg[r].user, q>> \notin added
    BY <1>0, <1>1
  <2>2. CASE moved
    <3>1. q \notin Tree(src) /\ q \notin Tree(dst)
      BY <2>1, <2>2 DEF KeysOf
    <3> QED  BY <1>1, <2>2, <3>1 DEF Renamed, Grafted, Removed
  <2>3. CASE ~moved /\ g # f
    <3>1. q \notin Tree(dst)
      BY <2>1, <2>3 DEF KeysOf
    <3> QED  BY <1>1, <2>3, <3>1 DEF Removed
  <2>4. CASE ~moved /\ g = f
    BY <2>4
  <2> QED  BY <2>2, <2>3, <2>4
<1>2. disturbed \subseteq disturbed'
    BY <1>0
<1> HIDE DEF f, h, added
<1> QED  BY <1>0, <1>1, <1>2, TreeStepLag DEF f

LEMMA CopyLag ==
    ASSUME Base, Lag, NEW r \in Reqs, ServeCopy(r)
    PROVE  Lag'
<1> DEFINE f == TreeOf(r)
           src == arg[r].path
           dst == arg[r].dest
           copied == /\ dst # src
                     /\ Exists(f, src)
                     /\ Exists(f, dst) => arg[r].overwrite
                     /\ Reachable(f, dst)
           h == IF copied THEN Grafted(f, f, src, dst) ELSE f
           added == IF copied THEN KeysOf(r, Tree(dst)) ELSE {}
<1>0. /\ stage[r] = "serve" /\ stage' = [stage EXCEPT ![r] = "done"]
      /\ fs' = [fs EXCEPT ![arg[r].user] = h]
      /\ disturbed' = disturbed \cup added
      /\ UNCHANGED <<handlers, rows, arg, held>>
    BY DEF ServeCopy, Serving, SetTree, Respond, Answer, GoTo
<1>1. ASSUME NEW q \in Paths, <<arg[r].user, q>> \notin disturbed'
      PROVE  h[q] = f[q]
  <2>1. CASE copied
    <3>1. q \notin Tree(dst)
      BY <1>0, <1>1, <2>1 DEF KeysOf
    <3> QED  BY <1>1, <2>1, <3>1 DEF Grafted
  <2>2. CASE ~copied
    BY <2>2
  <2> QED  BY <2>1, <2>2
<1>2. disturbed \subseteq disturbed'
    BY <1>0
<1> HIDE DEF f, h, added
<1> QED  BY <1>0, <1>1, <1>2, TreeStepLag DEF f

LEMMA PutOnCollectionLag ==
    ASSUME Base, Lag, NEW r \in Reqs, PutOnCollection(r)
    PROVE  Lag'
<1>0. /\ stage[r] = "serve" /\ stage' = [stage EXCEPT ![r] = "find"]
      /\ disturbed' = disturbed \cup {Key(r)}
      /\ UNCHANGED <<handlers, fs, rows, arg, held>>
    BY DEF PutOnCollection, Serving, GoTo
<1>1. stage \in [Reqs -> Stages]
    BY DEF Base, TypeOK
<1>2. /\ \A s \in Reqs \ {r} : stage'[s] = stage[s]
      /\ stage'[r] # "save"
    BY <1>0, <1>1
<1>3. HoldingOK'
    BY <1>0, <1>2, HoldingFrame
<1>4. \A k \in Keys \ disturbed' :
          k # Key(r) /\ RowsAt(k)' = RowsAt(k) /\ Served(k)' = Served(k)
    BY <1>0 DEF RowsAt, Served
<1>5. disturbed \subseteq disturbed'
    BY <1>0
<1> QED  BY <1>0, <1>2, <1>3, <1>4, <1>5, WriterStep

LEMMA PutOpenLag ==
    ASSUME Base, Lag, NEW r \in Reqs, PutOpen(r)
    PROVE  Lag'
<1> DEFINE u == arg[r].user
           p == arg[r].path
<1>0. /\ stage[r] = "serve" /\ stage' = [stage EXCEPT ![r] = "write"]
      /\ fs' = [fs EXCEPT ![u] = [TreeOf(r) EXCEPT ![p] = Empty]]
      /\ disturbed' = disturbed \cup Crossed(r)
      /\ UNCHANGED <<handlers, rows, arg, held>>
    BY DEF PutOpen, Serving, GoTo, SetTree
<1>1. /\ stage \in [Reqs -> Stages] /\ DOMAIN fs = Users /\ u \in Users /\ p \in Paths
      /\ TreeOf(r) \in FileSystems /\ Key(r) = <<u, p>>
    BY <1>0, ServingFacts DEF Base, TypeOK, Key
<1>2. \A s \in Reqs \ {r} : stage'[s] = stage[s]
    BY <1>0, <1>1
<1>3. stage'[r] = "write" /\ HoldingOK'
  <2>1. stage'[r] = "write"
    BY <1>0, <1>1
  <2> QED  BY <1>0, <1>2, <2>1, HoldingFrame
<1>4. ASSUME NEW k \in Keys \ disturbed', k # Key(r)
      PROVE  RowsAt(k)' = RowsAt(k) /\ Served(k)' = Served(k)
  <2>1. k[1] \in Users /\ k[2] \in Paths /\ k = <<k[1], k[2]>>
    BY DEF Keys
  <2>2. k[1] # u \/ k[2] # p
    BY <1>1, <1>4, <2>1
  <2>3. fs'[k[1]][k[2]] = fs[k[1]][k[2]]
    BY <1>0, <1>1, <2>1, <2>2 DEF TreeOf, FileSystems
  <2> QED  BY <1>0, <2>3 DEF RowsAt, Served, IsFile
<1>5. ASSUME NEW k \in Keys \ disturbed', k = Key(r) PROVE KeyOK(k)'
  <2>1. \A s \in Reqs \ {r} : ~WriterAt(s, k)
    BY <1>0, <1>5 DEF Crossed, WriterAt
  <2>2. ASSUME NEW s \in Reqs \ {r} PROVE ~WriterAt(s, k)'
    BY <1>0, <1>2, <2>1 DEF WriterAt, Busy, Key
  <2>3. UniqueAt(k)'
    BY <1>0 DEF Lag, KeyOK, UniqueAt, RowsAt
  <2>4. WriterAt(r, k)'
    BY <1>0, <1>3, <1>5 DEF WriterAt, Busy, Key
  <2>5. Served(k)' = Empty
    BY <1>0, <1>1, <1>5, ContentsAssumption DEF Served, IsFile, FileSystems
  <2>6. LagOK(r)'
    BY <1>3, <2>4, <2>5 DEF LagOK, WriterAt
  <2> QED  BY <2>2, <2>3, <2>4, <2>6, OnlyWriter
<1>6. disturbed \subseteq disturbed'
    BY <1>0
<1> HIDE DEF u, p
<1> QED  BY <1>0, <1>2, <1>3, <1>4, <1>5, <1>6, WriterStep

(* The file is still under its name, unless that or the new name is        *)
(* disturbed (RequestOK).                                                  *)
LEMMA PutWriteLag ==
    ASSUME Base, Lag, NEW r \in Reqs, PutWrite(r)
    PROVE  Lag'
<1> DEFINE u == arg[r].user
           p == arg[r].path
           same == node[r] = Nothing \/ arg[r].body = Empty
<1>0. /\ stage[r] = "write" /\ stage' = [stage EXCEPT ![r] = "find"]
      /\ UNCHANGED <<handlers, rows, arg, held, disturbed>>
    BY DEF PutWrite, GoTo
<1>1. /\ stage \in [Reqs -> Stages] /\ DOMAIN fs = Users /\ u \in Users /\ p \in Paths
      /\ TreeOf(r) \in FileSystems /\ Key(r) = <<u, p>> /\ arg[r].body \in Contents
    BY <1>0, ServingFacts DEF Base, TypeOK, Key
<1>2. /\ \A s \in Reqs \ {r} : stage'[s] = stage[s]
      /\ stage'[r] = "find" /\ Busy(r)
    BY <1>0, <1>1 DEF Busy
<1>3. HoldingOK'
    BY <1>0, <1>2, HoldingFrame
<1>4. /\ node[r] \in Paths \cup {Nothing}
      /\ node[r] # Nothing /\ node[r] # p =>
            Key(r) \in disturbed /\ <<u, node[r]>> \in disturbed
      /\ node[r] = Nothing => Key(r) \in disturbed
    BY <1>0 DEF Base, TypeOK, RequestOK
<1>5. /\ same => fs' = fs
      /\ ~same => fs' = [fs EXCEPT ![u] = [TreeOf(r) EXCEPT ![node[r]] = arg[r].body]]
    BY DEF PutWrite, SetTree
<1>6. ASSUME NEW k \in Keys \ disturbed', k # Key(r)
      PROVE  RowsAt(k)' = RowsAt(k) /\ Served(k)' = Served(k)
  <2>1. k[1] \in Users /\ k[2] \in Paths /\ k = <<k[1], k[2]>>
    BY DEF Keys
  <2>2. ASSUME k[1] = u, k[2] = node[r] PROVE FALSE
    <3>1. k = <<u, node[r]>> /\ node[r] # p /\ node[r] # Nothing
      BY <1>1, <1>6, <2>1, <2>2, HandlerAssumption
    <3> QED  BY <1>0, <1>4, <3>1
  <2>3. fs'[k[1]][k[2]] = fs[k[1]][k[2]]
    BY <1>1, <1>5, <2>1, <2>2 DEF TreeOf, FileSystems
  <2> QED  BY <1>0, <2>3 DEF RowsAt, Served, IsFile
<1>7. ASSUME NEW k \in Keys \ disturbed', k = Key(r) PROVE KeyOK(k)'
  <2>1. /\ UniqueAt(k) /\ LagOK(r)
        /\ \A s \in Reqs \ {r} : Busy(s)' => Key(s)' # k
    BY <1>0, <1>2, <1>7, Alone
  <2>2. UniqueAt(k)' /\ WriterAt(r, k)'
    BY <1>0, <1>2, <1>7, <2>1 DEF UniqueAt, RowsAt, WriterAt, Busy, Key
  <2>3. node[r] = p
    BY <1>0, <1>4, <1>7
  <2>4. Served(k)' = arg[r].body
    <3>1. CASE same
      <4>1. arg[r].body = Empty /\ Served(k) = Empty
        BY <1>0, <1>1, <1>4, <1>7, <2>1, <3>1 DEF LagOK
      <4>2. Served(k)' = Served(k)
        BY <1>5, <3>1 DEF Served
      <4> QED  BY <4>1, <4>2
    <3>2. CASE ~same
      <4>1. fs'[u][p] = arg[r].body
        BY <1>1, <1>5, <2>3, <3>2 DEF FileSystems
      <4>2. k[1] = u /\ k[2] = p
        BY <1>1, <1>7
      <4> QED  BY <1>1, <4>1, <4>2 DEF Served, IsFile
    <3> QED  BY <3>1, <3>2
  <2>5. LagOK(r)'
    BY <1>0, <1>2, <2>2, <2>4 DEF LagOK, WriterAt
  <2>6. \A s \in Reqs \ {r} : ~WriterAt(s, k)'
    BY <2>1 DEF WriterAt
  <2> QED  BY <2>2, <2>5, <2>6, OnlyWriter
<1> HIDE DEF u, p, same
<1> QED  BY <1>0, <1>2, <1>3, <1>6, <1>7, WriterStep

LEMMA DeleteLag ==
    ASSUME Base, Lag, NEW r \in Reqs, ServeDelete(r)
    PROVE  Lag'
<1> DEFINE u == arg[r].user
           p == arg[r].path
           f == TreeOf(r)
           below == IF f[p] = Dir THEN KeysOf(r, Under(p)) ELSE {}
<1>0. /\ stage[r] = "serve" /\ stage' = [stage EXCEPT ![r] = "delete"]
      /\ fs' = [fs EXCEPT ![u] = Removed(f, p)]
      /\ disturbed' = disturbed \cup Crossed(r) \cup below
      /\ UNCHANGED <<handlers, rows, arg, held>>
    BY DEF ServeDelete, Serving, GoTo, SetTree
<1>1. /\ stage \in [Reqs -> Stages] /\ DOMAIN fs = Users /\ u \in Users /\ p \in Paths
      /\ f \in FileSystems /\ WellFormedTree(f) /\ Key(r) = <<u, p>>
    BY <1>0, ServingFacts DEF Base, TypeOK, Key
<1>2. /\ \A s \in Reqs \ {r} : stage'[s] = stage[s]
      /\ stage'[r] = "delete"
    BY <1>0, <1>1
<1>3. HoldingOK'
    BY <1>0, <1>2, HoldingFrame
<1>4. ASSUME NEW k \in Keys \ disturbed', k # Key(r)
      PROVE  RowsAt(k)' = RowsAt(k) /\ Served(k)' = Served(k)
  <2>1. k[1] \in Users /\ k[2] \in Paths /\ k = <<k[1], k[2]>>
    BY DEF Keys
  <2>2. CASE k[1] # u
    BY <1>0, <1>1, <2>1, <2>2 DEF RowsAt, Served
  <2>3. CASE k[1] = u /\ k[2] \notin Under(p)
    <3>1. Removed(f, p)[k[2]] = f[k[2]]
      BY <1>1, <1>4, <2>1, <2>3 DEF Removed, Tree
    <3> QED  BY <1>0, <1>1, <2>1, <2>3, <3>1 DEF RowsAt, Served, IsFile, TreeOf
  <2>4. CASE k[1] = u /\ k[2] \in Under(p)
    <3>1. f[p] # Dir
      BY <1>0, <1>4, <2>1, <2>4 DEF KeysOf
    <3>2. f[k[2]] = Absent /\ Removed(f, p)[k[2]] = Absent
      BY <1>1, <2>1, <2>4, <3>1, NothingBelow DEF Removed
    <3> QED  BY <1>0, <1>1, <2>1, <2>4, <3>2 DEF RowsAt, Served, IsFile, TreeOf
  <2> QED  BY <2>2, <2>3, <2>4
<1>5. ASSUME NEW k \in Keys \ disturbed', k = Key(r) PROVE KeyOK(k)'
  <2>1. \A s \in Reqs \ {r} : ~WriterAt(s, k)
    BY <1>0, <1>5 DEF Crossed, WriterAt
  <2>2. ASSUME NEW s \in Reqs \ {r} PROVE ~WriterAt(s, k)'
    BY <1>0, <1>2, <2>1 DEF WriterAt, Busy, Key
  <2>3. UniqueAt(k)'
    BY <1>0 DEF Lag, KeyOK, UniqueAt, RowsAt
  <2>4. WriterAt(r, k)'
    BY <1>0, <1>2, <1>5 DEF WriterAt, Busy, Key
  <2>5. Served(k)' = Absent
    <3>1. Removed(f, p)[p] = Absent
      BY <1>1 DEF Removed, Tree
    <3>2. fs'[k[1]][k[2]] = Absent
      BY <1>0, <1>1, <1>5, <3>1
    <3> QED  BY <3>2, ContentsAssumption DEF Served, IsFile
  <2>6. LagOK(r)'
    BY <1>2, <2>4, <2>5 DEF LagOK, WriterAt
  <2> QED  BY <2>2, <2>3, <2>4, <2>6, OnlyWriter
<1>6. disturbed \subseteq disturbed'
    BY <1>0
<1> HIDE DEF u, p, f, below
<1> QED  BY <1>0, <1>2, <1>3, <1>4, <1>5, <1>6, WriterStep

-----------------------------------------------------------------------------
(* Steps on the rows.                                                      *)

(* A row found at a key is in no other request's hands for another key.    *)
LEMMA PersistFindLag ==
    ASSUME Base, Lag, NEW r \in Reqs, PersistFind(r)
    PROVE  Lag'
<1> DEFINE R == RowsAt(Key(r))
<1>0. /\ stage[r] = "find" /\ Busy(r) /\ R \subseteq Row /\ R \subseteq rows
      /\ UNCHANGED <<handlers, fs, rows, arg, disturbed>>
    BY DEF PersistFind, Busy, RowsAt, Base, TypeOK
<1>1. /\ stage \in [Reqs -> Stages] /\ DOMAIN held = Reqs
      /\ R = {} => held' = held /\ stage' = [stage EXCEPT ![r] = "create"]
      /\ R # {} => /\ held' = [held EXCEPT ![r] = First(R)]
                   /\ stage' = [stage EXCEPT ![r] = "save"]
    BY DEF PersistFind, GoTo, Base, TypeOK
<1>2. /\ \A s \in Reqs \ {r} : stage'[s] = stage[s] /\ held'[s] = held[s]
      /\ R = {} => stage'[r] = "create"
      /\ R # {} => stage'[r] = "save" /\ held'[r] = First(R)
    BY <1>1
<1>3. R # {} => First(R) \in R
    BY <1>0, FirstIsRow
<1>4. \A s \in Reqs : Key(s)' = Key(s)
    BY <1>0 DEF Key
<1>5. HoldingOK'
  <2>1. CASE R = {}
    BY <1>0, <1>1, <1>2, <2>1, HoldingFrame
  <2>2. CASE R # {}
    <3>1. ASSUME NEW s \in Reqs, stage'[s] = "save", NEW row \in rows,
                 row.id = held'[s].id
          PROVE  row \in RowsAt(Key(s))
      <4>1. CASE s = r
        <5>1. row = First(R)
          BY <1>0, <1>2, <1>3, <2>2, <3>1, <4>1 DEF Base, IdsOK
        <5> QED  BY <1>3, <2>2, <4>1, <5>1
      <4>2. CASE s # r
        BY <1>2, <3>1, <4>2 DEF Lag, HoldingOK
      <4> QED  BY <4>1, <4>2
    <3>2. ASSUME NEW s \in Reqs, stage'[s] = "save", held'[s].id = First(R).id
          PROVE  Key(s) = Key(r)
      <4>1. First(R) \in RowsAt(Key(s)) /\ First(R) \in RowsAt(Key(r))
        BY <1>0, <1>3, <2>2, <3>1, <3>2
      <4> QED  BY <4>1 DEF RowsAt, Key
    <3>3. ASSUME NEW s \in Reqs, NEW t \in Reqs, stage'[s] = "save",
                 stage'[t] = "save", held'[t].id = held'[s].id
          PROVE  Key(t) = Key(s)
      <4>1. CASE s = r \/ t = r
        BY <1>2, <2>2, <3>2, <3>3, <4>1
      <4>2. CASE s # r /\ t # r
        BY <1>2, <3>3, <4>2 DEF Lag, HoldingOK
      <4> QED  BY <4>1, <4>2
    <3>4. rows' = rows /\ \A s \in Reqs : RowsAt(Key(s))' = RowsAt(Key(s))
      BY <1>0 DEF RowsAt, Key
    <3> QED  BY <1>4, <3>1, <3>3, <3>4 DEF HoldingOK
  <2> QED  BY <2>1, <2>2
<1>6. \A k \in Keys \ disturbed' : k # Key(r) =>
          RowsAt(k)' = RowsAt(k) /\ Served(k)' = Served(k)
    BY <1>0 DEF RowsAt, Served
<1>7. ASSUME NEW k \in Keys \ disturbed', k = Key(r) PROVE KeyOK(k)'
  <2>1. /\ UniqueAt(k) /\ LagOK(r)
        /\ \A s \in Reqs \ {r} : Busy(s)' => Key(s)' # k
    BY <1>0, <1>2, <1>7, Alone
  <2>2. UniqueAt(k)' /\ RowsAt(k)' = R /\ WriterAt(r, k)'
    BY <1>0, <1>2, <1>4, <1>7, <2>1 DEF UniqueAt, RowsAt, WriterAt, Busy
  <2>3. Served(k)' = arg[r].body
    BY <1>0, <1>7, <2>1 DEF LagOK, Served
  <2>4. LagOK(r)'
    <3>1. Key(r)' = k /\ RowsAt(Key(r))' = R
      BY <1>4, <1>7, <2>2
    <3>2. R # {} => \A row \in R : row.id = First(R).id
      BY <1>3, <1>7, <2>1 DEF UniqueAt
    <3> HIDE DEF R
    <3> QED  BY <1>0, <1>2, <2>3, <3>1, <3>2 DEF LagOK
  <2>5. \A s \in Reqs \ {r} : ~WriterAt(s, k)'
    BY <2>1 DEF WriterAt
  <2> QED  BY <2>2, <2>4, <2>5, OnlyWriter
<1> HIDE DEF R
<1> QED  BY <1>0, <1>2, <1>5, <1>6, <1>7, WriterStep

LEMMA PersistCreateLag ==
    ASSUME Base, Lag, NEW r \in Reqs, PersistCreate(r)
    PROVE  Lag'
<1> DEFINE new == [id |-> nextId, user |-> arg[r].user, path |-> arg[r].path,
                   content |-> arg[r].body]
<1>0. /\ stage[r] = "create" /\ Busy(r) /\ stage' = [stage EXCEPT ![r] = "return"]
      /\ rows' = rows \cup {new}
      /\ UNCHANGED <<handlers, fs, arg, held, disturbed>>
    BY DEF PersistCreate, Busy, GoTo
<1>1. /\ stage \in [Reqs -> Stages] /\ rows \subseteq Row /\ nextId \in Nat
      /\ Key(r) \in Keys /\ new \in Row
    BY <1>0, WriterKey DEF Base, TypeOK, Row
<1>2. /\ \A s \in Reqs \ {r} : stage'[s] = stage[s]
      /\ stage'[r] = "return"
    BY <1>0, <1>1
<1>3. /\ \A k \in Keys : k # Key(r) => RowsAt(k)' = RowsAt(k)
      /\ RowsAt(Key(r))' = RowsAt(Key(r)) \cup {new}
  <2>1. ASSUME NEW k \in Keys, k # Key(r) PROVE new.user # k[1] \/ new.path # k[2]
    BY <2>1 DEF Key, Keys
  <2> QED  BY <1>0, <2>1 DEF RowsAt, Key
<1>4. HoldingOK'
  <2>1. ASSUME NEW s \in Reqs, stage'[s] = "save"
        PROVE  /\ stage[s] = "save" /\ Key(s)' = Key(s)
               /\ held[s].id # nextId
    <3>1. s # r /\ stage[s] = "save" /\ Key(s)' = Key(s)
      BY <1>0, <1>2, <2>1 DEF Key
    <3>2. held[s] \in Row /\ held[s].id < nextId
      BY <3>1 DEF Base, RequestOK
    <3> QED  BY <1>1, <3>1, <3>2 DEF Row
  <2>2. ASSUME NEW s \in Reqs, stage'[s] = "save", NEW row \in rows',
               row.id = held'[s].id
        PROVE  row \in RowsAt(Key(s))'
    <3>1. row \in rows /\ row \in RowsAt(Key(s))
      BY <1>0, <2>1, <2>2 DEF Lag, HoldingOK
    <3> QED  BY <1>0, <3>1 DEF RowsAt, Key
  <2> QED  BY <1>0, <2>1, <2>2 DEF Lag, HoldingOK
<1>5. \A k \in Keys \ disturbed' : k # Key(r) =>
          RowsAt(k)' = RowsAt(k) /\ Served(k)' = Served(k)
    BY <1>0, <1>3 DEF Served
<1>6. ASSUME NEW k \in Keys \ disturbed', k = Key(r) PROVE KeyOK(k)'
  <2>1. /\ LagOK(r) /\ \A s \in Reqs \ {r} : Busy(s)' => Key(s)' # k
    BY <1>0, <1>2, <1>6, Alone
  <2>2. RowsAt(k)' = {new}
    BY <1>0, <1>3, <1>6, <2>1 DEF LagOK, RowsAt, Key
  <2>3. UniqueAt(k)' /\ rows' \subseteq Row
    BY <1>0, <1>1, <2>2 DEF UniqueAt
  <2>4. Stored(k)' = arg[r].body
    <3>1. First({new}) = new
      BY <1>1, FirstIsRow
    <3> QED  BY <2>2, <3>1 DEF Stored
  <2>5. Served(k)' = arg[r].body
    BY <1>0, <1>6, <2>1 DEF LagOK, Served
  <2>6. ~WriterAt(r, k)' /\ \A s \in Reqs \ {r} : ~WriterAt(s, k)'
    BY <1>2, <2>1 DEF WriterAt, Busy
  <2> QED  BY <2>3, <2>4, <2>5, <2>6, LastWriter
<1> HIDE DEF new
<1> QED  BY <1>0, <1>2, <1>4, <1>5, <1>6, WriterStep

(* The row that is replaced, and the one that replaces it, are at r's key. *)
LEMMA PersistSaveLag ==
    ASSUME Base, Lag, NEW r \in Reqs, PersistSave(r)
    PROVE  Lag'
<1> DEFINE new == [held[r] EXCEPT !.content = arg[r].body]
<1>0. /\ stage[r] = "save" /\ Busy(r) /\ stage' = [stage EXCEPT ![r] = "return"]
      /\ rows' = {row \in rows : row.id # held[r].id} \cup {new}
      /\ held' = [held EXCEPT ![r] = Nothing]
      /\ UNCHANGED <<handlers, fs, arg, disturbed>>
    BY DEF PersistSave, Busy, GoTo
<1>1. /\ stage \in [Reqs -> Stages] /\ DOMAIN held = Reqs /\ rows \subseteq Row
      /\ Key(r) \in Keys /\ arg[r].body \in Contents
      /\ held[r] \in Row /\ <<held[r].user, held[r].path>> = Key(r)
    BY <1>0, WriterKey DEF Base, TypeOK, RequestOK
<1>2. \A s \in Reqs \ {r} : stage'[s] = stage[s] /\ held'[s] = held[s]
    BY <1>0, <1>1
<1>3. stage'[r] = "return"
    BY <1>0, <1>1
<1>4. /\ new \in Row /\ new.id = held[r].id /\ new.content = arg[r].body
      /\ <<new.user, new.path>> = Key(r)
    BY <1>1 DEF Row
<1> HIDE DEF new
<1>5. /\ \A k \in Keys : k # Key(r) => RowsAt(k)' = RowsAt(k)
      /\ RowsAt(Key(r))' = {row \in RowsAt(Key(r)) : row.id # new.id} \cup {new}
  <2>1. \A row \in rows : row.id = new.id => row \in RowsAt(Key(r))
    BY <1>0, <1>4 DEF Lag, HoldingOK
  <2>2. new.user = Key(r)[1] /\ new.path = Key(r)[2]
    BY <1>4 DEF Key
  <2>3. ASSUME NEW k \in Keys, k # Key(r) PROVE RowsAt(k)' = RowsAt(k)
    <3>1. Key(r)[1] # k[1] \/ Key(r)[2] # k[2]
      BY <2>3 DEF Key, Keys
    <3> QED  BY <1>0, <1>4, <2>1, <2>2, <3>1 DEF RowsAt
  <2>4. Key(r)' = Key(r)
    BY <1>0 DEF Key
  <2>5. RowsAt(Key(r))' = {row \in RowsAt(Key(r)) : row.id # new.id} \cup {new}
    BY <1>0, <1>4, <2>2, <2>4 DEF RowsAt
  <2> QED  BY <2>3, <2>5
<1>6. HoldingOK'
  <2>1. ASSUME NEW s \in Reqs, stage'[s] = "save"
        PROVE  s # r /\ stage[s] = "save" /\ Key(s)' = Key(s) /\ held'[s] = held[s]
    BY <1>0, <1>2, <1>3, <2>1 DEF Key
  <2>2. ASSUME NEW s \in Reqs, stage'[s] = "save", NEW row \in rows',
               row.id = held'[s].id
        PROVE  row \in RowsAt(Key(s))'
    <3>1. CASE row = new
      <4>1. Key(s) = Key(r) /\ Key(s)' = Key(r)
        BY <1>0, <1>4, <2>1, <2>2, <3>1 DEF Lag, HoldingOK
      <4>2. Key(r)' = Key(r)
        BY <1>0 DEF Key
      <4> QED  BY <1>5, <3>1, <4>1, <4>2
    <3>2. CASE row # new
      <4>1. row \in rows /\ row \in RowsAt(Key(s))
        BY <1>0, <2>1, <2>2, <3>2 DEF Lag, HoldingOK
      <4> QED  BY <2>1, <2>2, <4>1 DEF RowsAt
    <3> QED  BY <3>1, <3>2
  <2> QED  BY <2>1, <2>2 DEF Lag, HoldingOK
<1>7. \A k \in Keys \ disturbed' : k # Key(r) =>
          RowsAt(k)' = RowsAt(k) /\ Served(k)' = Served(k)
    BY <1>0, <1>5 DEF Served
<1>8. ASSUME NEW k \in Keys \ disturbed', k = Key(r) PROVE KeyOK(k)'
  <2>1. /\ LagOK(r) /\ \A s \in Reqs \ {r} : Busy(s)' => Key(s)' # k
    BY <1>0, <1>2, <1>8, Alone
  <2>2. \A row \in RowsAt(Key(r)) : row.id = new.id
    BY <1>0, <1>4, <2>1 DEF LagOK
  <2>3. RowsAt(k)' = {new}
    <3>1. Key(r)' = k
      BY <1>0, <1>8 DEF Key
    <3> QED  BY <1>5, <1>8, <2>2, <3>1
  <2>4. UniqueAt(k)'
    BY <2>3 DEF UniqueAt
  <2>5. Stored(k)' = arg[r].body
    <3>1. First({new}) = new
      BY <1>4, FirstIsRow
    <3> QED  BY <1>4, <2>3, <3>1 DEF Stored
  <2>6. Served(k)' = arg[r].body
    BY <1>0, <1>8, <2>1 DEF LagOK, Served
  <2>7. ~WriterAt(r, k)' /\ \A s \in Reqs \ {r} : ~WriterAt(s, k)'
    BY <1>3, <2>1 DEF WriterAt, Busy
  <2> QED  BY <2>4, <2>5, <2>6, <2>7, LastWriter
<1> QED  BY <1>0, <1>2, <1>6, <1>7, <1>8, WriterStep

LEMMA PersistDeleteLag ==
    ASSUME Base, Lag, NEW r \in Reqs, PersistDelete(r)
    PROVE  Lag'
<1>0. /\ stage[r] = "delete" /\ Busy(r) /\ stage' = [stage EXCEPT ![r] = "return"]
      /\ rows' = rows \ RowsAt(Key(r))
      /\ UNCHANGED <<handlers, fs, arg, held, disturbed>>
    BY DEF PersistDelete, Busy, GoTo
<1>1. stage \in [Reqs -> Stages] /\ Key(r) \in Keys
    BY <1>0, WriterKey DEF Base, TypeOK
<1>2. /\ \A s \in Reqs \ {r} : stage'[s] = stage[s]
      /\ stage'[r] = "return" /\ \A s \in Reqs : Key(s)' = Key(s)
    BY <1>0, <1>1 DEF Key
<1>3. /\ \A k \in Keys : k # Key(r) => RowsAt(k)' = RowsAt(k)
      /\ RowsAt(Key(r))' = {}
  <2>1. ASSUME NEW k \in Keys, k # Key(r) PROVE Key(r)[1] # k[1] \/ Key(r)[2] # k[2]
    BY <2>1 DEF Key, Keys
  <2> QED  BY <1>0, <1>2, <2>1 DEF RowsAt
<1>4. HoldingOK'
  <2>1. ASSUME NEW s \in Reqs, stage'[s] = "save"
        PROVE  stage[s] = "save" /\ Key(s)' = Key(s) /\ held'[s] = held[s]
    BY <1>0, <1>2, <2>1
  <2>2. ASSUME NEW s \in Reqs, stage'[s] = "save", NEW row \in rows',
               row.id = held'[s].id
        PROVE  row \in RowsAt(Key(s))'
    <3>1. row \in rows /\ row \in RowsAt(Key(s))
      BY <1>0, <2>1, <2>2 DEF Lag, HoldingOK
    <3> QED  BY <2>1, <2>2, <3>1 DEF RowsAt
  <2> QED  BY <2>1, <2>2 DEF Lag, HoldingOK
<1>5. \A k \in Keys \ disturbed' : k # Key(r) =>
          RowsAt(k)' = RowsAt(k) /\ Served(k)' = Served(k)
    BY <1>0, <1>3 DEF Served
<1>6. ASSUME NEW k \in Keys \ disturbed', k = Key(r) PROVE KeyOK(k)'
  <2>1. /\ LagOK(r) /\ \A s \in Reqs \ {r} : Busy(s)' => Key(s)' # k
    BY <1>0, <1>2, <1>6, Alone
  <2>2. RowsAt(k)' = {}
    BY <1>2, <1>3, <1>6
  <2>3. UniqueAt(k)' /\ Stored(k)' = Absent
    BY <2>2 DEF UniqueAt, Stored
  <2>4. Served(k)' = Absent
    BY <1>0, <1>6, <2>1 DEF LagOK, Served
  <2>5. ~WriterAt(r, k)' /\ \A s \in Reqs \ {r} : ~WriterAt(s, k)'
    BY <1>2, <2>1 DEF WriterAt, Busy
  <2> QED  BY <2>3, <2>4, <2>5, LastWriter
<1> QED  BY <1>0, <1>2, <1>4, <1>5, <1>6, WriterStep

LEMMA PersistFailsLag ==
    ASSUME Base, Lag, NEW r \in Reqs, PersistFails(r)
    PROVE  Lag'
<1>0. /\ Busy(r) /\ stage' = [stage EXCEPT ![r] = "return"]
      /\ held' = [held EXCEPT ![r] = Nothing]
      /\ disturbed' = disturbed \cup {Key(r)}
      /\ UNCHANGED <<handlers, fs, rows, arg>>
    BY DEF PersistFails, Busy, GoTo
<1>1. stage \in [Reqs -> Stages] /\ DOMAIN held = Reqs
    BY DEF Base, TypeOK
<1>2. /\ \A s \in Reqs \ {r} : stage'[s] = stage[s] /\ held'[s] = held[s]
      /\ stage'[r] = "return"
    BY <1>0, <1>1
<1>3. HoldingOK'
  <2>1. ASSUME NEW s \in Reqs, stage'[s] = "save"
        PROVE  stage[s] = "save" /\ arg'[s] = arg[s] /\ held'[s] = held[s]
    BY <1>0, <1>2, <2>1
  <2> QED  BY <1>0, <2>1, HoldingFrame
<1>4. \A k \in Keys \ disturbed' :
          k # Key(r) /\ RowsAt(k)' = RowsAt(k) /\ Served(k)' = Served(k)
    BY <1>0 DEF RowsAt, Served
<1>5. disturbed \subseteq disturbed'
    BY <1>0
<1> QED  BY <1>0, <1>2, <1>3, <1>4, <1>5, WriterStep

-----------------------------------------------------------------------------

LEMMA NextLag == Base /\ Lag /\ [Next]_vars => Lag'
<1> SUFFICES ASSUME Base, Lag, [Next]_vars PROVE Lag'
    OBVIOUS
<1>1. CASE UNCHANGED vars
  <2>1. /\ \A k \in Keys : /\ RowsAt(k)' = RowsAt(k) /\ Served(k)' = Served(k)
                           /\ \A s \in Reqs : WriterAt(s, k) <=> WriterAt(s, k)'
        /\ UNCHANGED <<handlers, rows, stage, arg, held, disturbed>>
    BY <1>1 DEF vars, RowsAt, Served, WriterAt, Busy, Key
  <2>2. HoldingOK'
    BY <2>1, HoldingFrame
  <2>3. ASSUME NEW k \in Keys \ disturbed' PROVE KeyOK(k)'
    <3>1. KeyOK(k)
      BY <2>1 DEF Lag
    <3> QED  BY <2>1, <3>1, KeyFrame
  <2> QED  BY <2>2, <2>3 DEF Lag
<1>2. ASSUME NEW r \in Reqs, Accept(r) \/ AcceptFails(r) PROVE Lag'
    BY <1>2, AcceptLag, AcceptFailsLag
<1>3. ASSUME NEW r \in Reqs, ServeHTTP(r) \/ LoadFails(r) \/ PersistFails(r)
      PROVE  Lag'
    BY <1>3, ReadersLag, PutOnCollectionLag, PutOpenLag, PutWriteLag, DeleteLag,
       MkcolLag, MoveLag, CopyLag, PersistFindLag, PersistCreateLag, PersistSaveLag,
       PersistDeleteLag, PersistFailsLag DEF ServeHTTP, Serve, Persist
<1>4. CASE Crash \/ Restart
    BY <1>4, CrashLag, RestartLag
<1> QED  BY <1>1, <1>2, <1>3, <1>4 DEF Next

(* The invariant behind the theorems on tree and rows: what a request has  *)
(* still to do at an undisturbed key is what tree and rows differ in.      *)
THEOREM InvHolds == Spec => []Inv
<1>1. Init => Base /\ Lag
    BY InitBase, InitLag
<1>2. Base /\ Lag /\ [Next]_vars => (Base /\ Lag)'
    BY NextBase, NextLag
<1>3. Base /\ Lag => Inv
    BY DEF Inv, Lag
<1> QED  BY <1>1, <1>2, <1>3, PTL DEF Spec

(* Rows and trees mirror each other wherever nothing disturbed a key, for  *)
(* any paths, users and number of requests, with crashes at any point      *)
(* between the tree and the store (ServeHTTP and persistMutation).         *)
THEOREM RowsMirrorTrees == Spec => []Mirror
<1>1. Inv => Mirror
    BY InvImpliesMirror
<1> QED  BY <1>1, InvHolds, PTL

-----------------------------------------------------------------------------
(* Rows that fit into a tree.                                              *)

(* Of two rows, one above the other, one is disturbed or about to go. *)
ExcusedAt(k) == k \in disturbed \/ \E r \in Reqs : stage[r] = "delete" /\ Key(r) = k

(* A cached tree has files at both, unless one is excused. *)
LEMMA CachedFits ==
    ASSUME Base, Lag, NEW u \in handlers, NEW p \in StoredPaths(u), NEW q \in StoredPaths(u),
           p \in Above(q)
    PROVE  ExcusedAt(<<u, p>>) \/ ExcusedAt(<<u, q>>)
<1>1. u \in Users /\ StoredPaths(u) \subseteq Paths
    BY DEF Base, TypeOK, StoredPaths
<1>2. ASSUME NEW m \in StoredPaths(u), ~ExcusedAt(<<u, m>>)
      PROVE  fs[u][m] \in Contents
  <2>1. PICK k : k = <<u, m>>
    OBVIOUS
  <2>2. k \in Keys \ disturbed /\ k[1] = u /\ k[2] = m
    BY <1>1, <1>2, <2>1 DEF ExcusedAt, Keys
  <2>3. KeyOK(k)
    BY <2>2 DEF Lag
  <2>4. Served(k) # Absent
    <3>1. CASE \E r \in Reqs : WriterAt(r, k)
      <4>1. PICK r \in Reqs : WriterAt(r, k)
        BY <3>1
      <4>2. LagOK(r) /\ Key(r) = k /\ Busy(r)
        BY <2>3, <4>1 DEF KeyOK, WriterAt
      <4>3. stage[r] # "delete"
        BY <1>2, <2>1, <4>2 DEF ExcusedAt
      <4>4. arg[r].body \in Contents
        BY <4>2, WriterKey
      <4>5. Served(k) \in {Empty, arg[r].body}
        BY <4>2, <4>3 DEF LagOK, Busy
      <4> QED  BY <4>4, <4>5, ContentsAssumption
    <3>2. CASE ~\E r \in Reqs : WriterAt(r, k)
      <4>1. Served(k) = Stored(k)
        BY <2>2, <2>3, <3>2 DEF KeyOK, Quiet, WriterAt
      <4>2. RowsAt(k) # {} /\ RowsAt(k) \subseteq Row
        BY <1>2, <2>1 DEF StoredPaths, RowsAt, Base, TypeOK
      <4>3. First(RowsAt(k)).content \in Contents
        BY <4>2, FirstIsRow DEF Row
      <4> QED  BY <4>1, <4>2, <4>3, ContentsAssumption DEF Stored
    <3> QED  BY <3>1, <3>2
  <2> QED  BY <2>2, <2>4 DEF Served, IsFile
<1>3. WellFormedTree(fs[u])
    BY <1>1 DEF Base, TreesWellFormed
<1>4. fs[u][q] \in Contents => fs[u][p] = Dir
    BY <1>1, <1>3, ContentsAssumption DEF WellFormedTree, Exists, Reachable
<1> QED  BY <1>2, <1>4, ContentsAssumption

(* What a crash leaves of a user whose rows do not fit is disturbed. *)
Unfit ==
    \A u \in Users \ handlers : \A p, q \in StoredPaths(u) :
        p \in Above(q) => <<u, p>> \in disturbed \/ <<u, q>> \in disturbed

LEMMA UnfitImpliesLoadable == Base /\ Lag /\ Unfit => LoadableWhenUndisturbed
<1> SUFFICES ASSUME Base, Lag, Unfit, NEW u \in Users,
                    ({u} \X Paths) \cap disturbed = {},
                    \A r \in Reqs : stage[r] = "delete" => arg[r].user # u,
                    NEW p \in StoredPaths(u), NEW q \in StoredPaths(u), p \in Above(q)
             PROVE  FALSE
    BY DEF LoadableWhenUndisturbed, Hydratable
<1>1. <<u, p>> \notin disturbed /\ <<u, q>> \notin disturbed
    BY DEF StoredPaths
<1>2. ~ExcusedAt(<<u, p>>) /\ ~ExcusedAt(<<u, q>>)
    BY <1>1 DEF ExcusedAt, Key
<1>3. CASE u \in handlers
    BY <1>2, <1>3, CachedFits
<1>4. CASE u \notin handlers
    BY <1>1, <1>4 DEF Unfit
<1> QED  BY <1>3, <1>4

(* Rows change for users with a handler only. *)
LEMMA UnfitFrame ==
    ASSUME Base, Unfit, handlers \subseteq handlers', disturbed \subseteq disturbed',
           \A k : k[1] \in Users \ handlers => RowsAt(k)' = RowsAt(k)
    PROVE  Unfit'
<1>1. ASSUME NEW u \in Users \ handlers' PROVE u \in Users \ handlers /\ StoredPaths(u)' = StoredPaths(u)
  <2>1. u \in Users \ handlers
    BY <1>1
  <2>2. ASSUME NEW p PROVE RowsAt(<<u, p>>)' = RowsAt(<<u, p>>)
    BY <2>1
  <2> QED  BY <2>1, <2>2 DEF StoredPaths
<1> QED  BY <1>1 DEF Unfit

LEMMA RowsOfWriter ==
    ASSUME Base, Lag, NEW r \in Reqs, PersistCreate(r) \/ PersistSave(r) \/ PersistDelete(r)
    PROVE  \A k : k[1] \in Users \ handlers => RowsAt(k)' = RowsAt(k)
<1>1. Busy(r) /\ arg[r].user \in handlers
    BY WriterKey DEF PersistCreate, PersistSave, PersistDelete, Busy
<1> SUFFICES ASSUME NEW k, k[1] \in Users \ handlers PROVE RowsAt(k)' = RowsAt(k)
    OBVIOUS
<1>2. k[1] # arg[r].user
    BY <1>1
<1>3. CASE PersistCreate(r)
    BY <1>1, <1>3 DEF PersistCreate, RowsAt
<1>4. CASE PersistSave(r)
  <2>1. stage[r] = "save"
    BY <1>4 DEF PersistSave
  <2>2. held[r] \in Row /\ held[r].user = arg[r].user
    BY <2>1 DEF Base, RequestOK, Key
  <2>3. \A row \in rows : row.id = held[r].id => row.user = arg[r].user
    BY <2>1 DEF Lag, HoldingOK, RowsAt, Key
  <2>4. PICK new : new = [held[r] EXCEPT !.content = arg[r].body]
    OBVIOUS
  <2>5. new.user = arg[r].user
    BY <2>2, <2>4 DEF Row
  <2>6. rows' = {row \in rows : row.id # held[r].id} \cup {new}
    BY <1>4, <2>4 DEF PersistSave
  <2> QED  BY <1>2, <2>3, <2>5, <2>6 DEF RowsAt
<1>5. CASE PersistDelete(r)
    BY <1>1, <1>5 DEF PersistDelete, RowsAt, Key
<1> QED  BY <1>3, <1>4, <1>5

(* Where a crash leaves rows that do not fit, it leaves them disturbed. *)
LEMMA CrashUnfit ==
    ASSUME Base, Lag, Unfit, Crash
    PROVE  Unfit'
<1>1. \A u \in Users : StoredPaths(u)' = StoredPaths(u)
    BY DEF Crash, StoredPaths, RowsAt
<1> SUFFICES ASSUME NEW u \in Users, NEW p \in StoredPaths(u), NEW q \in StoredPaths(u),
                    p \in Above(q)
             PROVE  (<<u, p>> \in disturbed \/ <<u, q>> \in disturbed)'
    BY <1>1 DEF Unfit
<1>2. ~Hydratable(u)
    BY DEF Hydratable, StoredPaths
<1>3. ASSUME NEW k, k[1] = u, ExcusedAt(k) PROVE k \in disturbed'
    BY <1>2, <1>3 DEF Crash, ExcusedAt
<1>4. ExcusedAt(<<u, p>>) \/ ExcusedAt(<<u, q>>)
  <2>1. CASE u \in handlers
    BY <2>1, CachedFits
  <2>2. CASE u \notin handlers
    BY <2>2 DEF Unfit, ExcusedAt
  <2> QED  BY <2>1, <2>2
<1> QED  BY <1>3, <1>4

LEMMA NextUnfit == Base /\ Lag /\ Unfit /\ [Next]_vars => Unfit'
<1> SUFFICES ASSUME Base, Lag, Unfit, [Next]_vars PROVE Unfit'
    OBVIOUS
<1>1. CASE UNCHANGED vars
    BY <1>1 DEF vars, Unfit, StoredPaths, RowsAt
<1>2. CASE Crash
    BY <1>2, CrashUnfit
<1>3. ASSUME handlers \subseteq handlers', disturbed \subseteq disturbed', rows' = rows
      PROVE  Unfit'
    BY <1>3, UnfitFrame DEF RowsAt
<1>4. CASE Restart
    BY <1>3, <1>4 DEF Restart, GetUserHandler
<1>5. ASSUME NEW r \in Reqs, Accept(r) \/ AcceptFails(r) \/ LoadFails(r) \/ PersistFails(r)
      PROVE  Unfit'
    BY <1>3, <1>5 DEF Accept, AcceptFails, LoadFails, PersistFails, GetUserHandler
<1>6. ASSUME NEW r \in Reqs, ServeHTTP(r), ~Persist(r) PROVE Unfit'
  <2>1. CASE Load(r) \/ PreconditionFailed(r) \/ Return(r)
    BY <1>3, <2>1 DEF Load, PreconditionFailed, Return
  <2>2. CASE ServeLocked(r) \/ ServeGet(r) \/ PutRefused(r) \/ DeleteRefused(r) \/ ServeMkcol(r)
    BY <1>3, <2>2 DEF ServeLocked, ServeGet, PutRefused, DeleteRefused, ServeMkcol
  <2>3. CASE PutOnCollection(r) \/ PutOpen(r) \/ PutWrite(r)
    BY <1>3, <2>3 DEF PutOnCollection, PutOpen, PutWrite
  <2>4. CASE ServeDelete(r)
    BY <1>3, <2>4 DEF ServeDelete
  <2>5. CASE ServeMove(r)
    BY <1>3, <2>5 DEF ServeMove
  <2>6. CASE ServeCopy(r)
    BY <1>3, <2>6 DEF ServeCopy
  <2> QED  BY <1>6, <2>1, <2>2, <2>3, <2>4, <2>5, <2>6 DEF ServeHTTP, Serve
<1>7. ASSUME NEW r \in Reqs, Persist(r) PROVE Unfit'
  <2>1. CASE PersistFind(r)
    BY <1>3, <2>1 DEF PersistFind
  <2>2. CASE PersistCreate(r) \/ PersistSave(r) \/ PersistDelete(r)
    <3>1. UNCHANGED <<handlers, disturbed>>
      BY <2>2 DEF PersistCreate, PersistSave, PersistDelete
    <3> QED  BY <2>2, <3>1, RowsOfWriter, UnfitFrame
  <2> QED  BY <1>7, <2>1, <2>2 DEF Persist
<1> QED  BY <1>1, <1>2, <1>4, <1>5, <1>6, <1>7 DEF Next

(* PUT, DELETE, MKCOL and crashes, in any order and number, leave a user   *)
(* whose keys nothing disturbed rows that getUserHandler can load, once no *)
(* DELETE is between the tree and the store: writeResourceToFS never finds *)
(* a file where it needs a collection.                                     *)
THEOREM UndisturbedIsLoadable == Spec => []LoadableWhenUndisturbed
<1>1. Init => Base /\ Lag /\ Unfit
  <2>1. Init => Unfit
    BY DEF Init, Unfit, StoredPaths, RowsAt
  <2> QED  BY <2>1, InitBase, InitLag
<1>2. Base /\ Lag /\ Unfit /\ [Next]_vars => (Base /\ Lag /\ Unfit)'
    BY NextBase, NextLag, NextUnfit
<1>3. Base /\ Lag /\ Unfit => LoadableWhenUndisturbed
    BY UnfitImpliesLoadable
<1> QED  BY <1>1, <1>2, <1>3, PTL DEF Spec
-----------------------------------------------------------------------------
(* The promise of ResourceMap.                                             *)

(* What ImplementsMap assumes of the instance: requests overlap on         *)
(* different keys only, all of them GET, PUT or DELETE of files in the     *)
(* root collection, and the store does not fail.                           *)
FilesOneByOne ==
    /\ Methods \subseteq {"GET", "PUT", "DELETE"}
    /\ MaxPerKey <= 1
    /\ Faults = FALSE
    /\ \A p \in Paths : Above(p) = {}

OnePerKey == \A r, s \in Reqs : InFlight(r) /\ InFlight(s) /\ Key(r) = Key(s) => r = s

NoCollections == \A u \in Users, p \in Paths : fs[u][p] # Dir

(* What the request found still holds when it is performed on the map.     *)
CarriesOn(r) ==
    /\ stage[r] = "serve" => seen[r] = Stored(Key(r))
    /\ stage[r] = "serve" \/ Busy(r) => PassesIfMatch(arg[r], Stored(Key(r)))
    /\ stage[r] \in {"write", "find", "create", "save"} => arg[r].method = "PUT"
    /\ stage[r] \in {"find", "create", "save"} =>
          reply[r] = [status |-> "ok", etag |-> arg[r].body, body |-> Absent]
    /\ stage[r] = "delete" =>
          /\ arg[r].method = "DELETE"
          /\ reply[r] = [status |-> "ok", etag |-> Absent, body |-> Absent]
          /\ Stored(Key(r)) # Absent

MapInv ==
    /\ disturbed = {}
    /\ IsFiniteSet({r \in Reqs : InFlight(r)})
    /\ OnePerKey
    /\ NoCollections
    /\ \A r \in Reqs : CarriesOn(r)

LEMMA FlatFacts ==
    ASSUME FilesOneByOne
    PROVE  /\ \A u : Hydratable(u)
           /\ \A p \in Paths : Under(p) = {} /\ \A f : Reachable(f, p)
BY DEF FilesOneByOne, Hydratable, StoredPaths, Above, Under, Reachable

(* A request that has been accepted. *)
LEMMA AcceptedFacts ==
    ASSUME FilesOneByOne, Base, NEW r \in Reqs, InFlight(r)
    PROVE  /\ arg[r] \in Requests /\ arg[r].method \in {"GET", "PUT", "DELETE"}
           /\ Key(r) \in Keys /\ arg[r].user \in Users /\ arg[r].path \in Paths
           /\ arg[r].user \in handlers /\ arg[r].body \in Contents
           /\ arg[r].ifMatch \in Headers
<1>1. arg[r] \in Requests /\ arg[r].user \in handlers
    BY DEF Base, RequestOK, InFlight
<1>2. arg[r].method \in Methods /\ arg[r].ifMatch \in IfMatches
    BY <1>1 DEF Requests
<1> QED  BY <1>1, <1>2, RequestType, HandlerAssumption DEF Key, Keys, FilesOneByOne

(* Before it touches the tree, the tree has what is stored. *)
LEMMA TreeHasStored ==
    ASSUME FilesOneByOne, Base, Lag, MapInv, NEW r \in Reqs, stage[r] = "serve"
    PROVE  Served(Key(r)) = Stored(Key(r))
<1>1. InFlight(r) /\ ~Busy(r)
    BY DEF InFlight, Busy
<1>2. \A s \in Reqs : Busy(s) => InFlight(s)
    BY DEF InFlight, Busy
<1>3. Quiet(Key(r))
    BY <1>1, <1>2 DEF Quiet, MapInv, OnePerKey
<1>4. Key(r) \in Keys \ disturbed /\ Key(r)[1] \in handlers
    BY <1>1, AcceptedFacts DEF MapInv, Key
<1> QED  BY <1>3, <1>4 DEF Lag, KeyOK

(* No lock is ever in the way, no tree refuses a PUT, no call fails. *)
LEMMA NeverServed ==
    ASSUME FilesOneByOne, Base, MapInv, NEW r \in Reqs
    PROVE  /\ ~Locked(r) \/ stage[r] # "serve"
           /\ ~(AcceptFails(r) \/ LoadFails(r) \/ PersistFails(r) \/ ServeLocked(r))
           /\ ~(PutRefused(r) \/ PutOnCollection(r))
           /\ ~(ServeMkcol(r) \/ ServeMove(r) \/ ServeCopy(r))
<1>1. ~(AcceptFails(r) \/ LoadFails(r) \/ PersistFails(r))
    BY FlatFacts DEF FilesOneByOne, AcceptFails, LoadFails, PersistFails
<1> SUFFICES ASSUME stage[r] = "serve"
             PROVE  /\ ~Locked(r) /\ ~ServeLocked(r) /\ ~(PutRefused(r) \/ PutOnCollection(r))
                    /\ ~(ServeMkcol(r) \/ ServeMove(r) \/ ServeCopy(r))
    BY <1>1 DEF ServeLocked, PutRefused, PutOnCollection, ServeMkcol, ServeMove, ServeCopy,
                Serving
<1>2. InFlight(r)
    BY DEF InFlight
<1>3. /\ arg[r].method \in {"GET", "PUT", "DELETE"}
      /\ arg[r].user \in Users /\ arg[r].path \in Paths
    BY <1>2, AcceptedFacts
<1>4. ASSUME NEW s \in Reqs \ {r}, stage[s] = "write", arg[s].user = arg[r].user,
             arg[s].path \in LockTargets(arg[r])
      PROVE  FALSE
  <2>1. InFlight(s) /\ arg[s].path = arg[r].path
    BY <1>3, <1>4 DEF InFlight, LockTargets
  <2> QED  BY <1>2, <1>4, <2>1 DEF MapInv, OnePerKey, Key
<1>5. ~Locked(r)
    BY <1>4 DEF Locked
<1>6. Reachable(TreeOf(r), arg[r].path) /\ TreeOf(r)[arg[r].path] # Dir
    BY <1>3, FlatFacts DEF MapInv, NoCollections, TreeOf
<1> QED  BY <1>3, <1>5, <1>6 DEF ServeLocked, PutRefused, PutOnCollection, ServeMkcol,
                                 ServeMove, ServeCopy, Serving

(* A step of an accepted request, at its own key. *)
LEMMA MapFrame ==
    ASSUME FilesOneByOne, Base, MapInv, NEW r \in Reqs, InFlight(r),
           \A s \in Reqs \ {r} : /\ stage'[s] = stage[s] /\ seen'[s] = seen[s]
                                 /\ reply'[s] = reply[s],
           arg' = arg, disturbed' = disturbed,
           \A k \in Keys : k # Key(r) => RowsAt(k)' = RowsAt(k),
           NoCollections', CarriesOn(r)'
    PROVE  MapInv'
<1>1. \A s \in Reqs : Key(s)' = Key(s) /\ (InFlight(s)' => InFlight(s))
    BY DEF Key, InFlight
<1>2. IsFiniteSet({s \in Reqs : InFlight(s)'})
  <2>1. {s \in Reqs : InFlight(s)'} \subseteq {s \in Reqs : InFlight(s)}
    BY <1>1
  <2> QED  BY <2>1, FS_Subset DEF MapInv
<1>3. OnePerKey'
    BY <1>1 DEF MapInv, OnePerKey
<1>4. ASSUME NEW s \in Reqs \ {r} PROVE CarriesOn(s)'
  <2>1. CASE stage[s] = "serve" \/ Busy(s)
    <3>1. InFlight(s)
      BY <2>1 DEF InFlight, Busy
    <3>2. Key(s) \in Keys /\ Key(s) # Key(r)
      BY <3>1, AcceptedFacts DEF MapInv, OnePerKey
    <3>3. RowsAt(Key(s))' = RowsAt(Key(s))
      <4>1. PICK k \in Keys : k = Key(s)
        BY <3>2
      <4>2. RowsAt(k)' = RowsAt(k)
        BY <3>2, <4>1
      <4> QED  BY <1>1, <4>1, <4>2
    <3>4. Stored(Key(s))' = Stored(Key(s))
      BY <3>3 DEF Stored
    <3>5. CarriesOn(s)
      BY DEF MapInv
    <3> QED  BY <3>4, <3>5 DEF CarriesOn, Busy
  <2>2. CASE ~(stage[s] = "serve" \/ Busy(s))
    BY <2>2 DEF CarriesOn, Busy
  <2> QED  BY <2>1, <2>2
<1> QED  BY <1>2, <1>3, <1>4 DEF MapInv

LEMMA HydratedFlat ==
    ASSUME FilesOneByOne, Base, MapInv, NEW u \in Users, GetUserHandler(u)
    PROVE  NoCollections'
<1>1. CASE fs' = fs
    BY <1>1 DEF MapInv, NoCollections
<1>2. ASSUME NEW tree \in HydratedTrees(u), fs' = [fs EXCEPT ![u] = tree]
      PROVE  NoCollections'
  <2>1. \A p \in Paths : tree[p] # Dir
    <3>1. PICK pick \in [StoredPaths(u) -> Contents] :
             tree = [p \in Paths |-> IF p \in StoredPaths(u) THEN pick[p]
                                     ELSE IF \E q \in Under(p) : q \in StoredPaths(u) THEN Dir
                                     ELSE Absent]
      BY <1>2 DEF HydratedTrees
    <3> QED  BY <3>1, FlatFacts, ContentsAssumption
  <2> QED  BY <1>2, <2>1 DEF MapInv, NoCollections, Base, TypeOK
<1> QED  BY <1>1, <1>2 DEF GetUserHandler

LEMMA AcceptMap ==
    ASSUME FilesOneByOne, Base, MapInv, NEW r \in Reqs, Accept(r)
    PROVE  MapInv'
<1>1. PICK q \in Requests : /\ WithinBounds(q) /\ GetUserHandler(q.user)
                            /\ arg' = [arg EXCEPT ![r] = q]
    BY DEF Accept
<1>2. /\ stage[r] = "idle" /\ stage' = [stage EXCEPT ![r] = "load"]
      /\ UNCHANGED <<rows, seen, reply, disturbed>>
    BY DEF Accept, GoTo
<1>3. /\ stage'[r] = "load" /\ arg'[r] = q
      /\ \A s \in Reqs \ {r} : stage'[s] = stage[s] /\ arg'[s] = arg[s]
    BY <1>1, <1>2 DEF Base, TypeOK
<1>4. NoCollections'
    BY <1>1, HydratedFlat, RequestType
<1>5. IsFiniteSet({s \in Reqs : InFlight(s)'})
  <2>1. {s \in Reqs : InFlight(s)'} \subseteq {s \in Reqs : InFlight(s)} \cup {r}
    BY <1>3 DEF InFlight
  <2>2. IsFiniteSet({s \in Reqs : InFlight(s)} \cup {r})
    BY FS_AddElement DEF MapInv
  <2> QED  BY <2>1, <2>2, FS_Subset
<1>6. \A s \in Reqs : ~(InFlight(s) /\ Key(s) = <<q.user, q.path>>)
  <2>1. PICK same : same = {s \in {t \in Reqs : InFlight(t)} : Key(s) = <<q.user, q.path>>}
    OBVIOUS
  <2>2. Cardinality(same) < MaxPerKey
    BY <1>1, <2>1 DEF WithinBounds
  <2>3. IsFiniteSet(same)
    BY <2>1, FS_Subset DEF MapInv
  <2>4. Cardinality(same) \in Nat
    BY <2>3, FS_CardinalityType
  <2>5. Cardinality(same) = 0
    BY <2>2, <2>4, HandlerAssumption DEF FilesOneByOne
  <2>6. same = {}
    BY <2>3, <2>5, FS_EmptySet
  <2> QED  BY <2>1, <2>6
<1>7. OnePerKey'
  <2>1. Key(r)' = <<q.user, q.path>> /\ \A s \in Reqs \ {r} : Key(s)' = Key(s)
    BY <1>3 DEF Key
  <2>2. \A s \in Reqs \ {r} : InFlight(s)' => InFlight(s)
    BY <1>3 DEF InFlight
  <2> QED  BY <1>6, <2>1, <2>2 DEF MapInv, OnePerKey
<1>8. ASSUME NEW s \in Reqs PROVE CarriesOn(s)'
  <2>1. CASE s = r
    BY <1>3, <2>1 DEF CarriesOn, Busy
  <2>2. CASE s # r
    <3>1. Key(s)' = Key(s)
      BY <1>3, <2>2 DEF Key
    <3>2. RowsAt(Key(s))' = RowsAt(Key(s))
      BY <1>2, <3>1 DEF RowsAt
    <3>3. Stored(Key(s))' = Stored(Key(s))
      BY <3>2 DEF Stored
    <3>4. CarriesOn(s)
      BY DEF MapInv
    <3> QED  BY <1>2, <1>3, <2>2, <3>1, <3>3, <3>4 DEF CarriesOn, Busy
  <2> QED  BY <2>1, <2>2
<1> QED  BY <1>2, <1>4, <1>5, <1>7, <1>8 DEF MapInv

(* Steps that touch neither tree nor rows. *)
LEMMA ReadersMap ==
    ASSUME FilesOneByOne, Base, MapInv, NEW r \in Reqs,
           \/ Load(r) \/ PreconditionFailed(r) \/ ServeGet(r) \/ DeleteRefused(r)
           \/ PersistFind(r) \/ Return(r)
    PROVE  MapInv'
<1>1. /\ InFlight(r) /\ UNCHANGED <<fs, rows, arg, disturbed>>
    BY DEF Load, PreconditionFailed, ServeGet, DeleteRefused, PersistFind, Return, Serving,
           InFlight
<1>2. /\ \E s \in {"serve", "done", "create", "save"} : stage' = [stage EXCEPT ![r] = s]
      /\ seen' = seen \/ \E c : seen' = [seen EXCEPT ![r] = c]
      /\ reply' = reply \/ \E a : reply' = [reply EXCEPT ![r] = a]
    BY DEF Load, PreconditionFailed, ServeGet, DeleteRefused, PersistFind, Return,
           AnswerBare, Respond, Answer, Settle, GoTo
<1>3. /\ \A s \in Reqs \ {r} : /\ stage'[s] = stage[s] /\ seen'[s] = seen[s]
                               /\ reply'[s] = reply[s]
      /\ stage'[r] \in {"serve", "done", "create", "save"}
    BY <1>2 DEF Base, TypeOK
<1>4. NoCollections' /\ \A k : RowsAt(k)' = RowsAt(k) /\ Stored(k)' = Stored(k)
    BY <1>1 DEF MapInv, NoCollections, RowsAt, Stored
<1>5. Key(r)' = Key(r) /\ Stored(Key(r))' = Stored(Key(r))
    BY <1>1, <1>4 DEF Key, Stored, RowsAt
<1>6. CarriesOn(r)
    BY DEF MapInv
<1>7. CarriesOn(r)'
  <2>1. CASE Load(r)
    <3>1. /\ stage'[r] = "serve" /\ seen'[r] = Stored(Key(r))
          /\ PassesIfMatch(arg[r], Stored(Key(r)))
      BY <2>1 DEF Load, GoTo, Base, TypeOK
    <3> QED  BY <1>1, <1>5, <3>1 DEF CarriesOn, Busy
  <2>2. CASE PersistFind(r)
    <3>1. stage[r] = "find" /\ reply' = reply /\ stage'[r] \in {"create", "save"}
      BY <2>2 DEF PersistFind, GoTo, Base, TypeOK
    <3> QED  BY <1>1, <1>5, <1>6, <3>1 DEF CarriesOn, Busy
  <2>3. CASE ~Load(r) /\ ~PersistFind(r)
    <3>1. stage'[r] = "done"
      BY <2>3 DEF PreconditionFailed, ServeGet, DeleteRefused, Return, AnswerBare,
                  Respond, Answer, GoTo, Base, TypeOK
    <3> QED  BY <3>1 DEF CarriesOn, Busy
  <2> QED  BY <2>1, <2>2, <2>3
<1> QED  BY <1>1, <1>3, <1>4, <1>7, MapFrame

LEMMA NoneCrossed ==
    ASSUME MapInv, NEW r \in Reqs, InFlight(r)
    PROVE  Crossed(r) = {}
BY DEF MapInv, OnePerKey, Crossed, Busy, InFlight

(* Steps on the tree. *)
LEMMA TreeMap ==
    ASSUME FilesOneByOne, Base, MapInv, NEW r \in Reqs,
           PutOpen(r) \/ PutWrite(r) \/ ServeDelete(r)
    PROVE  /\ stage[r] \in {"serve", "write"} /\ disturbed' = disturbed
           /\ UNCHANGED <<rows, arg>> /\ NoCollections'
           /\ \A s \in Reqs \ {r} : /\ stage'[s] = stage[s] /\ seen'[s] = seen[s]
                                    /\ reply'[s] = reply[s]
<1>1. /\ stage[r] \in {"serve", "write"} /\ UNCHANGED <<rows, arg>>
      /\ \E s \in {"write", "find", "delete"} : stage' = [stage EXCEPT ![r] = s]
      /\ seen' = seen \/ \E c : seen' = [seen EXCEPT ![r] = c]
      /\ reply' = reply \/ \E a : reply' = [reply EXCEPT ![r] = a]
    BY DEF PutOpen, PutWrite, ServeDelete, Serving, SettleMutation, Settle, GoTo
<1>2. \A s \in Reqs \ {r} : /\ stage'[s] = stage[s] /\ seen'[s] = seen[s]
                            /\ reply'[s] = reply[s]
    BY <1>1 DEF Base, TypeOK
<1>3. InFlight(r)
    BY <1>1 DEF InFlight
<1>4. /\ arg[r].user \in Users /\ arg[r].path \in Paths /\ arg[r].body \in Contents
      /\ Crossed(r) = {}
    BY <1>3, AcceptedFacts, NoneCrossed
<1>5. fs \in [Users -> FileSystems] /\ TreeOf(r) \in FileSystems
    BY <1>4 DEF Base, TypeOK, TreeOf
<1>6. \A p \in Paths : TreeOf(r)[p] # Dir
    BY <1>4 DEF MapInv, NoCollections, TreeOf
<1>7. ASSUME NEW tree, SetTree(r, tree), \A p \in Paths : tree[p] # Dir
      PROVE  NoCollections'
    BY <1>4, <1>5, <1>7 DEF SetTree, MapInv, NoCollections
<1>8. CASE PutOpen(r)
  <2>1. SetTree(r, [TreeOf(r) EXCEPT ![arg[r].path] = Empty]) /\ disturbed' = disturbed
    BY <1>4, <1>8 DEF PutOpen
  <2>2. \A p \in Paths : [TreeOf(r) EXCEPT ![arg[r].path] = Empty][p] # Dir
    BY <1>5, <1>6, ContentsAssumption DEF FileSystems
  <2> QED  BY <1>1, <1>2, <1>7, <2>1, <2>2
<1>9. CASE PutWrite(r)
  <2>1. disturbed' = disturbed
    BY <1>9 DEF PutWrite
  <2>2. fs' = fs \/ SetTree(r, [TreeOf(r) EXCEPT ![node[r]] = arg[r].body])
    BY <1>9 DEF PutWrite
  <2>3. \A p \in Paths : [TreeOf(r) EXCEPT ![node[r]] = arg[r].body][p] # Dir
    BY <1>4, <1>5, <1>6, ContentsAssumption DEF FileSystems
  <2>4. fs' = fs => NoCollections'
    BY DEF MapInv, NoCollections
  <2> QED  BY <1>1, <1>2, <1>7, <2>1, <2>2, <2>3, <2>4
<1>10. CASE ServeDelete(r)
  <2>1. SetTree(r, Removed(TreeOf(r), arg[r].path)) /\ disturbed' = disturbed
    BY <1>4, <1>6, <1>10 DEF ServeDelete
  <2>2. \A p \in Paths : Removed(TreeOf(r), arg[r].path)[p] # Dir
    BY <1>6, ContentsAssumption DEF Removed
  <2> QED  BY <1>1, <1>2, <1>7, <2>1, <2>2
<1> QED  BY <1>8, <1>9, <1>10

LEMMA TreeStepsMap ==
    ASSUME FilesOneByOne, Base, Lag, MapInv, NEW r \in Reqs,
           PutOpen(r) \/ PutWrite(r) \/ ServeDelete(r)
    PROVE  MapInv'
<1>1. /\ stage[r] \in {"serve", "write"} /\ UNCHANGED <<rows, arg, disturbed>> /\ NoCollections'
      /\ \A s \in Reqs \ {r} : /\ stage'[s] = stage[s] /\ seen'[s] = seen[s]
                               /\ reply'[s] = reply[s]
    BY TreeMap
<1>2. InFlight(r) /\ CarriesOn(r)
    BY <1>1 DEF InFlight, MapInv
<1>3. Key(r)' = Key(r)
    BY <1>1 DEF Key
<1>4. RowsAt(Key(r))' = RowsAt(Key(r))
    BY <1>1, <1>3 DEF RowsAt
<1>5. Stored(Key(r))' = Stored(Key(r))
    BY <1>4 DEF Stored
<1>6. stage \in [Reqs -> Stages] /\ reply \in [Reqs -> Reply]
    BY DEF Base, TypeOK
<1>7. PassesIfMatch(arg[r], Stored(Key(r)))
    BY <1>1, <1>2 DEF CarriesOn, Busy
<1>8. CarriesOn(r)'
  <2>1. CASE PutOpen(r)
    <3>1. stage'[r] = "write" /\ arg[r].method = "PUT"
      BY <1>6, <2>1 DEF PutOpen, GoTo, Serving
    <3> QED  BY <1>1, <1>5, <1>7, <3>1 DEF CarriesOn
  <2>2. CASE PutWrite(r)
    <3>1. stage[r] = "write" /\ stage'[r] = "find"
      BY <1>6, <2>2 DEF PutWrite, GoTo
    <3>2. arg[r].method = "PUT"
      BY <1>2, <3>1 DEF CarriesOn
    <3>3. reply'[r] = [status |-> "ok", etag |-> arg[r].body, body |-> Absent]
      BY <1>6, <2>2, <3>2 DEF PutWrite, SettleMutation, Settle, ResponseETag
    <3> QED  BY <1>1, <1>5, <1>7, <3>1, <3>2, <3>3 DEF CarriesOn
  <2>3. CASE ServeDelete(r)
    <3>1. /\ stage[r] = "serve" /\ stage'[r] = "delete" /\ arg[r].method = "DELETE"
          /\ Exists(TreeOf(r), arg[r].path)
      BY <1>6, <2>3 DEF ServeDelete, GoTo, Serving
    <3>2. reply'[r] = [status |-> "ok", etag |-> Absent, body |-> Absent]
      BY <1>6, <2>3, <3>1 DEF ServeDelete, SettleMutation, Settle, ResponseETag
    <3>3. Served(Key(r)) = Stored(Key(r))
      BY <3>1, TreeHasStored
    <3>4. arg[r].user \in Users /\ arg[r].path \in Paths
      BY <1>2, AcceptedFacts
    <3>5. TreeOf(r)[arg[r].path] \in Contents
      BY <3>1, <3>4 DEF Base, TypeOK, FileSystems, TreeOf, Exists, MapInv, NoCollections
    <3>6. Stored(Key(r)) # Absent
      BY <3>3, <3>5, ContentsAssumption DEF Served, Key, IsFile, TreeOf
    <3> QED  BY <1>1, <1>5, <1>7, <3>1, <3>2, <3>6 DEF CarriesOn
  <2> QED  BY <2>1, <2>2, <2>3
<1> QED  BY <1>1, <1>2, <1>8, MapFrame DEF RowsAt

(* The rows of other keys stay when a request persists. *)
LEMMA RowsElsewhere ==
    ASSUME Base, Lag, NEW r \in Reqs, PersistCreate(r) \/ PersistSave(r) \/ PersistDelete(r)
    PROVE  \A k \in Keys : k # Key(r) => RowsAt(k)' = RowsAt(k)
<1> SUFFICES ASSUME NEW k \in Keys, k # Key(r) PROVE RowsAt(k)' = RowsAt(k)
    OBVIOUS
<1>1. k[1] # arg[r].user \/ k[2] # arg[r].path
    BY DEF Key, Keys
<1>2. CASE PersistCreate(r)
    BY <1>1, <1>2 DEF PersistCreate, RowsAt
<1>3. CASE PersistSave(r)
  <2>1. stage[r] = "save"
    BY <1>3 DEF PersistSave
  <2>2. held[r] \in Row /\ held[r].user = arg[r].user /\ held[r].path = arg[r].path
    BY <2>1 DEF Base, RequestOK, Key
  <2>3. \A row \in rows : row.id = held[r].id =>
            row.user = arg[r].user /\ row.path = arg[r].path
    BY <2>1 DEF Lag, HoldingOK, RowsAt, Key
  <2>4. PICK new : new = [held[r] EXCEPT !.content = arg[r].body]
    OBVIOUS
  <2>5. new.user = arg[r].user /\ new.path = arg[r].path
    BY <2>2, <2>4 DEF Row
  <2>6. rows' = {row \in rows : row.id # held[r].id} \cup {new}
    BY <1>3, <2>4 DEF PersistSave
  <2> QED  BY <1>1, <2>3, <2>5, <2>6 DEF RowsAt
<1>4. CASE PersistDelete(r)
    BY <1>1, <1>4 DEF PersistDelete, RowsAt, Key
<1> QED  BY <1>2, <1>3, <1>4

LEMMA PersistMap ==
    ASSUME FilesOneByOne, Base, Lag, MapInv, NEW r \in Reqs,
           PersistCreate(r) \/ PersistSave(r) \/ PersistDelete(r)
    PROVE  MapInv'
<1>1. /\ InFlight(r) /\ stage' = [stage EXCEPT ![r] = "return"]
      /\ UNCHANGED <<fs, arg, seen, reply, disturbed>>
    BY DEF PersistCreate, PersistSave, PersistDelete, GoTo, InFlight
<1>2. stage'[r] = "return" /\ \A s \in Reqs \ {r} : stage'[s] = stage[s]
    BY <1>1 DEF Base, TypeOK
<1>3. CarriesOn(r)' /\ NoCollections'
    BY <1>1, <1>2 DEF CarriesOn, Busy, MapInv, NoCollections
<1> QED  BY <1>1, <1>2, <1>3, RowsElsewhere, MapFrame

LEMMA CrashMap ==
    ASSUME FilesOneByOne, Base, Lag, MapInv, Crash
    PROVE  MapInv'
<1>1. \A s \in Reqs : ~InFlight(s)'
    BY DEF Crash, InFlight, Base, TypeOK
<1>2. \A s \in Reqs : CarriesOn(s)'
    BY <1>1 DEF CarriesOn, Busy, InFlight
<1>3. NoCollections'
    BY ContentsAssumption DEF Crash, NoCollections, EmptyTree
<1>4. disturbed' = {}
  <2>1. \A k \in Keys : UniqueAt(k)
    BY DEF Lag, MapInv, KeyOK
  <2>2. ASSUME NEW s \in Reqs, stage[s] = "delete" PROVE Key(s) \in Keys
    BY <2>2, AcceptedFacts DEF InFlight
  <2>3. disturbed \cup {Key(r) : r \in {s \in Reqs : stage[s] = "delete"}} \subseteq Keys
    BY <2>2 DEF MapInv
  <2>4. PICK D : D = disturbed \cup {Key(r) : r \in {s \in Reqs : stage[s] = "delete"}}
    OBVIOUS
  <2>5. disturbed' = {k \in D : ~Hydratable(k[1]) \/ \E a, b \in RowsAt(k) : a # b}
    BY <2>4 DEF Crash
  <2>6. \A k \in D : UniqueAt(k) /\ Hydratable(k[1])
    BY <2>1, <2>3, <2>4, FlatFacts
  <2> QED  BY <2>5, <2>6 DEF UniqueAt
<1>5. IsFiniteSet({s \in Reqs : InFlight(s)'})
  <2>1. {s \in Reqs : InFlight(s)'} = {}
    BY <1>1
  <2> QED  BY <2>1, FS_EmptySet
<1> QED  BY <1>1, <1>2, <1>3, <1>4, <1>5 DEF MapInv, OnePerKey

LEMMA RestartMap ==
    ASSUME FilesOneByOne, Base, MapInv, Restart \/ UNCHANGED vars
    PROVE  MapInv'
<1>1. UNCHANGED <<rows, stage, arg, seen, reply, disturbed>>
    BY DEF Restart, vars
<1>2. NoCollections'
  <2>1. CASE Restart
    BY <2>1, HydratedFlat, HandlerAssumption DEF Restart
  <2>2. CASE UNCHANGED vars
    BY <2>2 DEF vars, MapInv, NoCollections
  <2> QED  BY <2>1, <2>2
<1>3. /\ \A s \in Reqs : Key(s)' = Key(s) /\ (InFlight(s)' <=> InFlight(s))
      /\ \A k : RowsAt(k)' = RowsAt(k)
    BY <1>1 DEF Key, InFlight, RowsAt
<1>4. ASSUME NEW s \in Reqs PROVE CarriesOn(s)'
  <2>1. RowsAt(Key(s))' = RowsAt(Key(s))
    BY <1>1, <1>3 DEF RowsAt
  <2>2. Stored(Key(s))' = Stored(Key(s))
    BY <2>1 DEF Stored
  <2>3. CarriesOn(s)
    BY DEF MapInv
  <2> QED  BY <1>1, <2>2, <2>3 DEF CarriesOn, Busy
<1> QED  BY <1>1, <1>2, <1>3, <1>4 DEF MapInv, OnePerKey

LEMMA InitMap == FilesOneByOne /\ Init => MapInv
<1> SUFFICES ASSUME Init PROVE MapInv
    OBVIOUS
<1>1. \A r \in Reqs : ~InFlight(r) /\ CarriesOn(r)
    BY DEF Init, InFlight, CarriesOn, Busy
<1>2. {r \in Reqs : InFlight(r)} = {}
    BY <1>1
<1>3. IsFiniteSet({r \in Reqs : InFlight(r)})
    BY <1>2, FS_EmptySet
<1>4. NoCollections
    BY ContentsAssumption DEF Init, NoCollections, EmptyTree
<1> QED  BY <1>1, <1>3, <1>4 DEF MapInv, OnePerKey, Init

(* The steps there are. *)
LEMMA SerialSteps ==
    ASSUME FilesOneByOne, Base, MapInv, [Next]_vars
    PROVE  \/ \E r \in Reqs :
                 \/ Accept(r)
                 \/ \/ Load(r) \/ PreconditionFailed(r) \/ ServeGet(r) \/ DeleteRefused(r)
                    \/ PersistFind(r) \/ Return(r)
                 \/ PutOpen(r) \/ PutWrite(r) \/ ServeDelete(r)
                 \/ PersistCreate(r) \/ PersistSave(r) \/ PersistDelete(r)
           \/ Crash \/ Restart \/ UNCHANGED vars
BY NeverServed DEF Next, ServeHTTP, Serve, Persist

LEMMA NextMap ==
    FilesOneByOne /\ Base /\ Lag /\ MapInv /\ [Next]_vars => MapInv'
BY SerialSteps, AcceptMap, ReadersMap, TreeStepsMap, PersistMap, CrashMap, RestartMap

-----------------------------------------------------------------------------
(* Steps of the handler as steps of ResourceMap.                           *)

RequestOf(r) == [method |-> arg[r].method, key |-> Key(r),
                 ifMatch |-> arg[r].ifMatch, body |-> arg[r].body]

AnswerOf(r) ==
    CASE stage[r] \in {"return", "done"} ->
            [request |-> RequestOf(r), status |-> reply[r].status,
             etag |-> reply[r].etag, body |-> reply[r].body]
      [] stage[r] = "lost" -> [status |-> "lost"]
      [] OTHER -> [status |-> "none"]

LEMMA SettledAnswers == settledAnswer = [r \in Reqs |-> AnswerOf(r)]
BY DEF settledAnswer, AnswerOf, RequestOf

(* r has its answer now. *)
LEMMA AnswerSettles ==
    ASSUME NEW r \in Reqs, InFlight(r), stage[r] # "return", stage'[r] \in {"return", "done"},
           arg' = arg,
           \A s \in Reqs \ {r} : stage'[s] = stage[s] /\ reply'[s] = reply[s],
           NEW status, NEW etag, NEW body,
           reply'[r] = [status |-> status, etag |-> etag, body |-> body]
    PROVE  /\ settledAnswer[r] = [status |-> "none"]
           /\ settledAnswer' = [settledAnswer EXCEPT ![r] =
                 [request |-> RequestOf(r), status |-> status, etag |-> etag, body |-> body]]
<1>1. AnswerOf(r) = [status |-> "none"]
    BY DEF AnswerOf, InFlight
<1>2. \A s \in Reqs : RequestOf(s)' = RequestOf(s)
    BY DEF RequestOf, Key
<1>3. \A s \in Reqs \ {r} : AnswerOf(s)' = AnswerOf(s)
    BY <1>2 DEF AnswerOf
<1>4. AnswerOf(r)' = [request |-> RequestOf(r), status |-> status, etag |-> etag,
                      body |-> body]
    BY <1>2 DEF AnswerOf
<1>5. settledAnswer' = [s \in Reqs |-> AnswerOf(s)']
    BY DEF settledAnswer, AnswerOf, RequestOf
<1> QED  BY <1>1, <1>3, <1>4, <1>5, SettledAnswers

LEMMA AnswersStay ==
    ASSUME \A s \in Reqs : AnswerOf(s)' = AnswerOf(s)
    PROVE  settledAnswer' = settledAnswer
<1>1. settledAnswer' = [s \in Reqs |-> AnswerOf(s)']
    BY DEF settledAnswer, AnswerOf, RequestOf
<1> QED  BY <1>1, SettledAnswers

LEMMA StoredStays ==
    ASSUME rows' = rows
    PROVE  storedMap' = storedMap
<1>1. \A k \in Keys : Stored(k)' = Stored(k)
    BY DEF Stored, RowsAt
<1> QED  BY <1>1 DEF storedMap

LEMMA StoredChanges ==
    ASSUME NEW k \in Keys, \A m \in Keys \ {k} : RowsAt(m)' = RowsAt(m), NEW c, Stored(k)' = c
    PROVE  storedMap' = [storedMap EXCEPT ![k] = c]
<1>1. \A m \in Keys \ {k} : Stored(m)' = Stored(m)
    BY DEF Stored
<1> QED  BY <1>1 DEF storedMap

LEMMA PerformedOn ==
    ASSUME FilesOneByOne, Base, NEW r \in Reqs, InFlight(r), NEW q, q = RequestOf(r)
    PROVE  /\ q \in Promise!Requests
           /\ q.method = arg[r].method /\ q.key = Key(r) /\ q.body = arg[r].body
           /\ storedMap[q.key] = Stored(Key(r))
           /\ q.method # "GET" =>
                 (Promise!Matches(q) <=> PassesIfMatch(arg[r], Stored(Key(r))))
<1>1. /\ arg[r].method \in {"GET", "PUT", "DELETE"} /\ Key(r) \in Keys
      /\ arg[r].body \in Contents /\ arg[r].ifMatch \in Headers
    BY AcceptedFacts
<1>2. /\ q.method = arg[r].method /\ q.key = Key(r) /\ q.body = arg[r].body
      /\ q.ifMatch = arg[r].ifMatch /\ q \in Promise!Requests
    BY <1>1 DEF RequestOf, Promise!Requests
<1>3. storedMap[q.key] = Stored(Key(r))
    BY <1>1, <1>2 DEF storedMap
<1>4. q.method # "GET" => (Promise!Matches(q) <=> PassesIfMatch(arg[r], Stored(Key(r))))
    BY <1>1, <1>2, <1>3 DEF Promise!Matches, PassesIfMatch
<1> QED  BY <1>2, <1>3, <1>4

(* Load finds the precondition failed, on the map as it is. *)
LEMMA ConflictStep ==
    ASSUME FilesOneByOne, Base, NEW r \in Reqs, PreconditionFailed(r)
    PROVE  Promise!MapNext
<1>1. /\ stage[r] = "load" /\ InFlight(r)
      /\ ~PassesIfMatch(arg[r], Stored(Key(r)))
      /\ stage' = [stage EXCEPT ![r] = "done"] /\ UNCHANGED <<rows, arg>>
    BY DEF PreconditionFailed, AnswerBare, Answer, GoTo, InFlight
<1>2. PICK status : status = "precondition failed"
    OBVIOUS
<1>3. reply' = [reply EXCEPT ![r] = [status |-> status, etag |-> Absent, body |-> Absent]]
    BY <1>2, Zenon DEF PreconditionFailed, AnswerBare, Answer, Settle
<1>4. /\ stage'[r] = "done"
      /\ \A s \in Reqs \ {r} : stage'[s] = stage[s] /\ reply'[s] = reply[s]
      /\ reply'[r] = [status |-> status, etag |-> Absent, body |-> Absent]
  <2>1. stage \in [Reqs -> Stages] /\ DOMAIN reply = Reqs
    BY DEF Base, TypeOK
  <2> QED  BY <1>1, <1>3, <2>1
<1>5. PICK q : q = RequestOf(r)
    OBVIOUS
<1>6. q \in Promise!Requests /\ q.method # "GET" /\ ~Promise!Matches(q)
    BY <1>1, <1>5, PerformedOn, AcceptedFacts DEF PassesIfMatch
<1>7. Promise!Answered(r, q, status, Absent, Absent)
    BY <1>1, <1>4, <1>5, AnswerSettles DEF Promise!Answered, Promise!Unanswered
<1>8. Promise!Conflict(r, q)
    BY <1>1, <1>2, <1>6, <1>7, StoredStays, Zenon DEF Promise!Conflict
<1> QED  BY <1>6, <1>8 DEF Promise!MapNext

(* The tag that was looked up is that of the body the tree serves. *)
LEMMA GetStep ==
    ASSUME FilesOneByOne, Base, Lag, MapInv, NEW r \in Reqs, ServeGet(r)
    PROVE  Promise!MapNext
<1>1. /\ stage[r] = "serve" /\ arg[r].method = "GET" /\ InFlight(r)
      /\ stage' = [stage EXCEPT ![r] = "done"] /\ UNCHANGED <<rows, arg>>
    BY DEF ServeGet, Serving, Respond, Answer, GoTo, InFlight
<1>2. /\ stage'[r] = "done" /\ \A s \in Reqs \ {r} : stage'[s] = stage[s]
      /\ reply \in [Reqs -> Reply]
    BY <1>1 DEF Base, TypeOK
<1>3. seen[r] = Stored(Key(r)) /\ Served(Key(r)) = Stored(Key(r))
    BY <1>1, TreeHasStored DEF MapInv, CarriesOn
<1>4. Key(r)[1] = arg[r].user /\ Key(r)[2] = arg[r].path
    BY DEF Key
<1>5. PICK q : q = RequestOf(r)
    OBVIOUS
<1>6. /\ q \in Promise!Requests /\ q.method = "GET"
      /\ storedMap[q.key] = Stored(Key(r))
    BY <1>1, <1>5, PerformedOn
<1>7. reply' = [reply EXCEPT ![r] = [status |-> Promise!IfThere(q), etag |-> Stored(Key(r)),
                                     body |-> Stored(Key(r))]]
  <2>1. CASE IsFile(TreeOf(r), arg[r].path)
    <3>1. Stored(Key(r)) = TreeOf(r)[arg[r].path] /\ Stored(Key(r)) # Absent
      BY <1>3, <1>4, <2>1, ContentsAssumption DEF Served, IsFile, TreeOf
    <3>2. reply' = [reply EXCEPT ![r] = [status |-> "ok", etag |-> Stored(Key(r)),
                                         body |-> Stored(Key(r))]]
      BY <1>1, <1>3, <2>1, <3>1 DEF ServeGet, Respond, Answer, Settle, ResponseETag
    <3> QED  BY <1>6, <3>1, <3>2 DEF Promise!IfThere
  <2>2. CASE ~IsFile(TreeOf(r), arg[r].path)
    <3>1. Stored(Key(r)) = Absent
      BY <1>3, <1>4, <2>2 DEF Served, TreeOf
    <3>2. reply' = [reply EXCEPT ![r] = [status |-> "refused", etag |-> Stored(Key(r)),
                                         body |-> Stored(Key(r))]]
      BY <1>1, <1>3, <2>2, <3>1 DEF ServeGet, Respond, Answer, Settle, ResponseETag
    <3> QED  BY <1>6, <3>1, <3>2 DEF Promise!IfThere
  <2> QED  BY <2>1, <2>2
<1>8. /\ reply'[r] = [status |-> Promise!IfThere(q), etag |-> Stored(Key(r)),
                      body |-> Stored(Key(r))]
      /\ \A s \in Reqs \ {r} : reply'[s] = reply[s]
    BY <1>2, <1>7
<1>9. Promise!Answered(r, q, Promise!IfThere(q), Stored(Key(r)), Stored(Key(r)))
    BY <1>1, <1>2, <1>5, <1>8, AnswerSettles DEF Promise!Answered, Promise!Unanswered
<1>10. Promise!Get(r, q)
    BY <1>1, <1>6, <1>9, StoredStays DEF Promise!Get
<1> QED  BY <1>6, <1>10 DEF Promise!MapNext

(* What the tree does not have is not stored either. *)
LEMMA DeleteRefusedStep ==
    ASSUME FilesOneByOne, Base, Lag, MapInv, NEW r \in Reqs, DeleteRefused(r)
    PROVE  Promise!MapNext
<1>1. /\ stage[r] = "serve" /\ arg[r].method = "DELETE" /\ InFlight(r)
      /\ stage' = [stage EXCEPT ![r] = "done"] /\ UNCHANGED <<rows, arg>>
      /\ reply' = [reply EXCEPT ![r] = [status |-> "refused", etag |-> Absent,
                                        body |-> Absent]]
    BY DEF DeleteRefused, Serving, Respond, Answer, Settle, ResponseETag, GoTo, InFlight
<1>2. /\ stage'[r] = "done"
      /\ \A s \in Reqs \ {r} : stage'[s] = stage[s] /\ reply'[s] = reply[s]
      /\ reply'[r] = [status |-> "refused", etag |-> Absent, body |-> Absent]
    BY <1>1 DEF Base, TypeOK
<1>3. Stored(Key(r)) = Absent
  <2>1. TreeOf(r)[arg[r].path] = Absent
    BY DEF DeleteRefused, Exists
  <2> QED  BY <1>1, <2>1, TreeHasStored, ContentsAssumption DEF Served, Key, IsFile, TreeOf
<1>4. PassesIfMatch(arg[r], Stored(Key(r)))
    BY <1>1 DEF MapInv, CarriesOn
<1>5. PICK q : q = RequestOf(r)
    OBVIOUS
<1>6. /\ q \in Promise!Requests /\ q.method = "DELETE" /\ q.key \in Keys
      /\ storedMap[q.key] = Absent /\ Promise!Matches(q)
    BY <1>1, <1>3, <1>4, <1>5, PerformedOn, AcceptedFacts
<1>7. Promise!Answered(r, q, Promise!IfThere(q), Absent, Absent)
    BY <1>1, <1>2, <1>5, <1>6, AnswerSettles
       DEF Promise!Answered, Promise!Unanswered, Promise!IfThere
<1>8. storedMap' = [storedMap EXCEPT ![q.key] = Absent]
  <2>1. storedMap' = storedMap /\ storedMap = [k \in Keys |-> Stored(k)]
    BY <1>1, StoredStays DEF storedMap
  <2> QED  BY <1>6, <2>1
<1>9. Promise!Delete(r, q)
    BY <1>6, <1>7, <1>8 DEF Promise!Delete
<1> QED  BY <1>6, <1>9 DEF Promise!MapNext

(* After its last step, a writer's key stores what its tree serves. *)
LEMMA PersistedIsServed ==
    ASSUME FilesOneByOne, Base, Lag, Lag', MapInv, MapInv', NEW r \in Reqs, Busy(r),
           Key(r)' = Key(r), fs' = fs, handlers' = handlers, stage'[r] = "return"
    PROVE  Stored(Key(r))' = Served(Key(r)) /\ LagOK(r)
<1>1. InFlight(r) /\ InFlight(r)'
    BY DEF Busy, InFlight
<1>2. Key(r) \in Keys /\ Key(r)[1] \in handlers
    BY <1>1, AcceptedFacts DEF Key
<1>3. PICK k \in Keys : k = Key(r)
    BY <1>2
<1>4. LagOK(r)
  <2>1. KeyOK(k) /\ WriterAt(r, k)
    BY <1>3 DEF Lag, MapInv, WriterAt
  <2> QED  BY <2>1 DEF KeyOK
<1>5. Quiet(k)'
  <2>1. \A s \in Reqs : Busy(s)' => InFlight(s)'
    BY DEF Busy, InFlight
  <2>2. ~Busy(r)'
    BY DEF Busy
  <2>3. Key(r)' = k
    BY <1>3
  <2> QED  BY <1>1, <2>1, <2>2, <2>3 DEF Quiet, MapInv, OnePerKey
<1>6. KeyOK(k)'
    BY DEF Lag, MapInv
<1>7. Served(k)' = Stored(k)' /\ Served(k)' = Served(k)
    BY <1>2, <1>3, <1>5, <1>6 DEF KeyOK, Served
<1>8. Stored(Key(r))' = Stored(k)'
    BY <1>3 DEF Stored, RowsAt
<1> QED  BY <1>3, <1>4, <1>7, <1>8

(* A PUT is performed when its row is written. *)
LEMMA PutStep ==
    ASSUME FilesOneByOne, Base, Lag, Lag', MapInv, MapInv', NEW r \in Reqs,
           PersistCreate(r) \/ PersistSave(r)
    PROVE  Promise!MapNext
<1>1. /\ stage[r] \in {"create", "save"} /\ InFlight(r) /\ Busy(r)
      /\ stage' = [stage EXCEPT ![r] = "return"] /\ UNCHANGED <<handlers, fs, arg, reply>>
    BY DEF PersistCreate, PersistSave, GoTo, InFlight, Busy
<1>2. stage'[r] = "return" /\ \A s \in Reqs \ {r} : stage'[s] = stage[s]
    BY <1>1 DEF Base, TypeOK
<1>3. /\ arg[r].method = "PUT" /\ PassesIfMatch(arg[r], Stored(Key(r)))
      /\ reply'[r] = [status |-> "ok", etag |-> arg[r].body, body |-> Absent]
    BY <1>1 DEF MapInv, CarriesOn
<1>4. Key(r)' = Key(r)
    BY <1>1 DEF Key
<1>5. Stored(Key(r))' = arg[r].body
    BY <1>1, <1>2, <1>4, PersistedIsServed DEF LagOK
<1>6. PICK q : q = RequestOf(r)
    OBVIOUS
<1>7. /\ q \in Promise!Requests /\ q.method = "PUT" /\ q.key = Key(r) /\ q.key \in Keys
      /\ q.body = arg[r].body /\ Promise!Matches(q)
    BY <1>1, <1>3, <1>6, PerformedOn, AcceptedFacts
<1>8. Promise!Answered(r, q, "ok", q.body, Absent)
    BY <1>1, <1>2, <1>3, <1>6, <1>7, AnswerSettles DEF Promise!Answered, Promise!Unanswered
<1>9. storedMap' = [storedMap EXCEPT ![q.key] = q.body]
  <2>1. \A k \in Keys \ {q.key} : RowsAt(k)' = RowsAt(k)
    BY <1>7, RowsElsewhere
  <2>2. PICK k \in Keys : k = Key(r)
    BY <1>7
  <2>3. Stored(k)' = q.body
    <3>1. Key(r)' = k
      BY <1>4, <2>2
    <3> QED  BY <1>5, <1>7, <3>1 DEF Stored, RowsAt
  <2> QED  BY <1>7, <2>1, <2>2, <2>3, StoredChanges
<1>10. Promise!Put(r, q)
    BY <1>7, <1>8, <1>9 DEF Promise!Put
<1> QED  BY <1>7, <1>10 DEF Promise!MapNext

(* A DELETE is performed when its rows go. *)
LEMMA DeleteStep ==
    ASSUME FilesOneByOne, Base, Lag, Lag', MapInv, MapInv', NEW r \in Reqs, PersistDelete(r)
    PROVE  Promise!MapNext
<1>1. /\ stage[r] = "delete" /\ InFlight(r) /\ Busy(r)
      /\ stage' = [stage EXCEPT ![r] = "return"] /\ UNCHANGED <<handlers, fs, arg, reply>>
    BY DEF PersistDelete, GoTo, InFlight, Busy
<1>2. stage'[r] = "return" /\ \A s \in Reqs \ {r} : stage'[s] = stage[s]
    BY <1>1 DEF Base, TypeOK
<1>3. /\ arg[r].method = "DELETE" /\ PassesIfMatch(arg[r], Stored(Key(r)))
      /\ reply'[r] = [status |-> "ok", etag |-> Absent, body |-> Absent]
      /\ Stored(Key(r)) # Absent
    BY <1>1 DEF MapInv, CarriesOn
<1>4. Key(r)' = Key(r)
    BY <1>1 DEF Key
<1>5. Stored(Key(r))' = Absent
    BY <1>1, <1>2, <1>4, PersistedIsServed DEF LagOK
<1>6. PICK q : q = RequestOf(r)
    OBVIOUS
<1>7. /\ q \in Promise!Requests /\ q.method = "DELETE" /\ q.key = Key(r) /\ q.key \in Keys
      /\ storedMap[q.key] # Absent /\ Promise!Matches(q)
    BY <1>1, <1>3, <1>6, PerformedOn, AcceptedFacts
<1>8. Promise!Answered(r, q, Promise!IfThere(q), Absent, Absent)
    BY <1>1, <1>2, <1>3, <1>6, <1>7, AnswerSettles
       DEF Promise!Answered, Promise!Unanswered, Promise!IfThere
<1>9. storedMap' = [storedMap EXCEPT ![q.key] = Absent]
  <2>1. \A k \in Keys \ {q.key} : RowsAt(k)' = RowsAt(k)
    BY <1>7, RowsElsewhere
  <2>2. PICK k \in Keys : k = Key(r)
    BY <1>7
  <2>3. Stored(k)' = Absent
    <3>1. Key(r)' = k
      BY <1>4, <2>2
    <3> QED  BY <1>5, <3>1 DEF Stored, RowsAt
  <2> QED  BY <1>7, <2>1, <2>2, <2>3, StoredChanges
<1>10. Promise!Delete(r, q)
    BY <1>7, <1>8, <1>9 DEF Promise!Delete
<1> QED  BY <1>7, <1>10 DEF Promise!MapNext

LEMMA LoseStep ==
    ASSUME Base, Crash
    PROVE  Promise!MapNext
<1>1. UNCHANGED <<rows, arg, reply>>
    BY DEF Crash
<1>2. PICK L \in SUBSET Reqs : L = {r \in Reqs : InFlight(r)}
    OBVIOUS
<1>3. \A r \in Reqs : stage'[r] = IF r \in L THEN "lost" ELSE stage[r]
    BY <1>2 DEF Crash
<1>4. ASSUME NEW r \in Reqs
      PROVE  AnswerOf(r)' = IF r \in L THEN [status |-> "lost"] ELSE AnswerOf(r)
  <2>1. RequestOf(r)' = RequestOf(r)
    BY <1>1 DEF RequestOf, Key
  <2> QED  BY <1>1, <1>3, <2>1 DEF AnswerOf
<1>5. settledAnswer' = [r \in Reqs |-> AnswerOf(r)']
    BY DEF settledAnswer, AnswerOf, RequestOf
<1>6. settledAnswer' = [r \in Reqs |-> IF r \in L THEN Promise!Lost ELSE settledAnswer[r]]
    BY <1>4, <1>5, SettledAnswers DEF Promise!Lost
<1>7. Promise!Lose(L)
    BY <1>1, <1>6, StoredStays DEF Promise!Lose
<1> QED  BY <1>7 DEF Promise!MapNext

(* The other steps do not show. *)
LEMMA SilentSteps ==
    ASSUME FilesOneByOne, Base, NEW r \in Reqs,
           \/ Accept(r) \/ Load(r) \/ PersistFind(r) \/ Return(r)
           \/ PutOpen(r) \/ PutWrite(r) \/ ServeDelete(r)
    PROVE  UNCHANGED <<storedMap, settledAnswer>>
<1>1. /\ rows' = rows
      /\ \E s \in Stages : stage' = [stage EXCEPT ![r] = s]
      /\ arg' = arg \/ \E q : arg' = [arg EXCEPT ![r] = q]
      /\ reply' = reply \/ \E a : reply' = [reply EXCEPT ![r] = a]
    BY DEF Accept, Load, PersistFind, Return, PutOpen, PutWrite, ServeDelete,
           SettleMutation, Settle, GoTo, Stages
<1>2. \A s \in Reqs \ {r} : stage'[s] = stage[s] /\ arg'[s] = arg[s] /\ reply'[s] = reply[s]
    BY <1>1 DEF Base, TypeOK
<1>3. \/ /\ stage[r] \notin {"return", "done", "lost"}
         /\ stage'[r] \notin {"return", "done", "lost"}
      \/ /\ stage[r] = "return" /\ stage'[r] = "done"
         /\ arg' = arg /\ reply' = reply
    BY DEF Accept, Load, PersistFind, Return, PutOpen, PutWrite, ServeDelete, Serving,
           GoTo, Base, TypeOK
<1>4. ASSUME NEW s \in Reqs PROVE AnswerOf(s)' = AnswerOf(s)
  <2>1. CASE s # r
    <3>1. RequestOf(s)' = RequestOf(s)
      BY <1>2, <2>1 DEF RequestOf, Key
    <3> QED  BY <1>2, <2>1, <3>1 DEF AnswerOf
  <2>2. CASE s = r /\ stage[r] = "return" /\ arg' = arg /\ reply' = reply /\ stage'[r] = "done"
    <3>1. RequestOf(s)' = RequestOf(s)
      BY <2>2 DEF RequestOf, Key
    <3> QED  BY <2>2, <3>1 DEF AnswerOf
  <2>3. CASE s = r /\ stage[r] # "return"
    BY <1>3, <2>3 DEF AnswerOf
  <2> QED  BY <1>3, <2>1, <2>2, <2>3
<1> QED  BY <1>1, <1>4, AnswersStay, StoredStays

LEMMA NextPromise ==
    ASSUME FilesOneByOne, Base, Lag, MapInv, Lag', MapInv', [Next]_vars
    PROVE  Promise!MapNext \/ UNCHANGED <<storedMap, settledAnswer>>
<1>1. CASE Restart \/ UNCHANGED vars
  <2>1. UNCHANGED <<rows, stage, arg, reply>>
    BY <1>1 DEF Restart, vars
  <2>2. \A r \in Reqs : AnswerOf(r)' = AnswerOf(r)
    BY <2>1 DEF AnswerOf, RequestOf, Key
  <2> QED  BY <2>1, <2>2, AnswersStay, StoredStays
<1>2. CASE Crash
    BY <1>2, LoseStep
<1>3. ASSUME NEW r \in Reqs,
             \/ Accept(r) \/ Load(r) \/ PersistFind(r) \/ Return(r)
             \/ PutOpen(r) \/ PutWrite(r) \/ ServeDelete(r)
      PROVE  UNCHANGED <<storedMap, settledAnswer>>
    BY <1>3, SilentSteps
<1>4. ASSUME NEW r \in Reqs,
             \/ PreconditionFailed(r) \/ ServeGet(r) \/ DeleteRefused(r)
             \/ PersistCreate(r) \/ PersistSave(r) \/ PersistDelete(r)
      PROVE  Promise!MapNext
    BY <1>4, ConflictStep, GetStep, DeleteRefusedStep, PutStep, DeleteStep
<1> QED  BY <1>1, <1>2, <1>3, <1>4, SerialSteps

(* With one request at a time for each key, and a store that does not      *)
(* fail, the handler does what ResourceMap promises: every request is      *)
(* performed at once, on a map that crashes take nothing from, and is      *)
(* answered from that moment; the moments are the lookup for a failed      *)
(* If-Match, the tree for a GET, and persistMutation for PUT and DELETE.   *)
THEOREM HandlerImplementsMap ==
    ASSUME FilesOneByOne
    PROVE  Spec => ImplementsMap
<1> DEFINE Safe == Base /\ Lag /\ MapInv
<1>1. Init => Safe
    BY InitBase, InitLag, InitMap
<1>2. Safe /\ [Next]_vars => Safe'
    BY NextBase, NextLag, NextMap
<1>3. Init => Promise!MapInit
  <2> SUFFICES ASSUME Init PROVE Promise!MapInit
      OBVIOUS
  <2>1. storedMap = [k \in Keys |-> Absent]
    BY DEF Init, storedMap, Stored, RowsAt
  <2>2. \A r \in Reqs : AnswerOf(r) = [status |-> "none"]
    BY DEF Init, AnswerOf
  <2> QED  BY <2>1, <2>2, SettledAnswers DEF Promise!MapInit, Promise!Unanswered
<1>4. Safe /\ Safe' /\ [Next]_vars => [Promise!MapNext]_<<storedMap, settledAnswer>>
    BY NextPromise
<1> QED  BY <1>1, <1>2, <1>3, <1>4, PTL DEF Spec, ImplementsMap, Promise!MapSpec

-----------------------------------------------------------------------------
(* What a write that is alone at its key leaves there.                     *)

(* The row of least id is the one that First returns. *)
LEMMA FirstUnique ==
    ASSUME NEW R, R \subseteq Row, NEW row \in R,
           \A other \in R : row.id <= other.id,
           \A a, b \in R : a.id = b.id => a = b
    PROVE  First(R) = row
<1>1. First(R) \in R /\ First(R).id <= row.id /\ row.id <= First(R).id
    BY FirstIsRow
<1>2. First(R).id \in Nat /\ row.id \in Nat
    BY <1>1 DEF Row
<1> QED  BY <1>1, <1>2

(* What a step of the WebDAV handler leaves alone, and which one begins a  *)
(* write.                                                                  *)
LEMMA ServeFrame ==
    ASSUME Base, NEW r \in Reqs, Serve(r)
    PROVE  /\ \A s \in Reqs \ {r} : stage'[s] = stage[s]
           /\ UNCHANGED <<handlers, rows, arg, held>>
           /\ stage[r] \in {"serve", "write"}
           /\ stage[r] = "write" => PutWrite(r)
           /\ stage'[r] = "write" => PutOpen(r)
           /\ stage'[r] = "delete" => ServeDelete(r)
<1>0. stage \in [Reqs -> Stages]
    BY DEF Base, TypeOK
<1>1. CASE \/ ServeLocked(r) \/ ServeGet(r) \/ PutRefused(r) \/ DeleteRefused(r)
           \/ ServeMkcol(r) \/ ServeMove(r) \/ ServeCopy(r)
  <2>1. /\ UNCHANGED <<handlers, rows, arg, held>> /\ stage[r] = "serve"
        /\ stage' = [stage EXCEPT ![r] = "done"]
    BY <1>1 DEF ServeLocked, ServeGet, PutRefused, DeleteRefused, ServeMkcol, ServeMove,
                ServeCopy, Serving, Respond, Answer, GoTo
  <2> QED  BY <1>0, <2>1
<1>2. CASE PutOnCollection(r)
  <2>1. /\ UNCHANGED <<handlers, rows, arg, held>> /\ stage[r] = "serve"
        /\ stage' = [stage EXCEPT ![r] = "find"]
    BY <1>2 DEF PutOnCollection, Serving, GoTo
  <2> QED  BY <1>0, <2>1
<1>3. CASE PutOpen(r)
  <2>1. /\ UNCHANGED <<handlers, rows, arg, held>> /\ stage[r] = "serve"
        /\ stage' = [stage EXCEPT ![r] = "write"]
    BY <1>3 DEF PutOpen, Serving, GoTo
  <2> QED  BY <1>0, <1>3, <2>1
<1>4. CASE PutWrite(r)
  <2>1. /\ UNCHANGED <<handlers, rows, arg, held>> /\ stage[r] = "write"
        /\ stage' = [stage EXCEPT ![r] = "find"]
    BY <1>4 DEF PutWrite, GoTo
  <2> QED  BY <1>0, <1>4, <2>1
<1>5. CASE ServeDelete(r)
  <2>1. /\ UNCHANGED <<handlers, rows, arg, held>> /\ stage[r] = "serve"
        /\ stage' = [stage EXCEPT ![r] = "delete"]
    BY <1>5 DEF ServeDelete, Serving, GoTo
  <2> QED  BY <1>0, <1>5, <2>1
<1> QED  BY <1>1, <1>2, <1>3, <1>4, <1>5 DEF Serve

(* A lone writer is left alone by a step elsewhere. *)
LEMMA LoneStays ==
    ASSUME NEW s \in Reqs, LoneOK(s),
           stage'[s] = stage[s], arg'[s] = arg[s], held'[s] = held[s], node'[s] = node[s],
           Served(Key(s))' = Served(Key(s)), RowsAt(Key(s))' = RowsAt(Key(s)),
           \A t \in Reqs \ {s} : Busy(t)' => Key(t)' # Key(s)
    PROVE  LoneOK(s)'
<1>1. Key(s)' = Key(s) /\ Busy(s)'
    BY DEF Key, Busy, LoneOK
<1> QED  BY <1>1 DEF LoneOK

(* A settled key is left alone, or is no longer settled. *)
LEMMA SettledStays ==
    ASSUME NEW k, SettledOK(k), settled'[k] = settled[k] \/ settled'[k] = Nothing,
           RowsAt(k)' = RowsAt(k), handlers' = handlers,
           settled'[k] # Nothing =>
               /\ Served(k)' = Served(k)
               /\ \A s \in Reqs : WriterAt(s, k)' => WriterAt(s, k)
    PROVE  SettledOK(k)'
<1> SUFFICES ASSUME settled'[k] # Nothing PROVE SettledOK(k)'
    BY DEF SettledOK
<1>1. Quiet(k)'
    BY DEF SettledOK, Quiet, WriterAt
<1>2. Stored(k)' = Stored(k) /\ (UniqueAt(k) => UniqueAt(k)')
    BY DEF Stored, UniqueAt
<1> QED  BY <1>1, <1>2 DEF SettledOK

(* The three steps on the tree of a writer that is alone at its key.       *)
LEMMA LoneTreeStep ==
    ASSUME Base, NEW r \in Reqs,
           \/ PutOpen(r)
           \/ PutWrite(r) /\ LoneOK(r)
           \/ ServeDelete(r),
           \A s \in Reqs \ {r} : Busy(s) => Key(s) # Key(r)
    PROVE  LoneOK(r)'
<1> DEFINE u == arg[r].user
           p == arg[r].path
<1>0. /\ \A s \in Reqs \ {r} : stage'[s] = stage[s]
      /\ UNCHANGED <<handlers, rows, arg, held>>
      /\ stage[r] \in {"serve", "write"}
    BY ServeFrame DEF Serve
<1>1. /\ stage \in [Reqs -> Stages] /\ DOMAIN fs = Users /\ u \in Users /\ p \in Paths
      /\ TreeOf(r) \in FileSystems /\ Key(r) = <<u, p>> /\ arg[r].body \in Contents
      /\ DOMAIN node = Reqs
    BY <1>0, ServingFacts DEF Base, TypeOK, Key
<1>2. Key(r)' = Key(r) /\ \A s \in Reqs \ {r} : Busy(s)' => Key(s)' # Key(r)'
    BY <1>0 DEF Key, Busy
<1>3. Served(Key(r))' = IF fs'[u][p] \in Contents THEN fs'[u][p] ELSE Absent
    BY <1>1, <1>2 DEF Served, IsFile
<1>4. CASE PutOpen(r)
  <2>1. /\ stage' = [stage EXCEPT ![r] = "write"] /\ arg[r].method = "PUT"
        /\ fs' = [fs EXCEPT ![u] = [TreeOf(r) EXCEPT ![p] = Empty]]
        /\ node' = [node EXCEPT ![r] = p]
    BY <1>4 DEF PutOpen, Serving, GoTo, SetTree
  <2>2. Served(Key(r))' = Empty
    BY <1>1, <1>3, <2>1, ContentsAssumption DEF FileSystems
  <2>3. stage'[r] = "write" /\ node'[r] = p
    BY <1>1, <2>1
  <2> QED  BY <1>0, <1>2, <2>1, <2>2, <2>3 DEF LoneOK, Busy
<1>5. CASE PutWrite(r) /\ LoneOK(r)
  <2>1. /\ stage[r] = "write" /\ stage' = [stage EXCEPT ![r] = "find"]
        /\ node[r] = p /\ Served(Key(r)) = Empty /\ arg[r].method = "PUT"
    BY <1>5 DEF PutWrite, GoTo, LoneOK
  <2>2. Served(Key(r))' = arg[r].body
    <3>1. CASE arg[r].body = Empty
      <4>1. fs' = fs
        BY <1>5, <3>1 DEF PutWrite
      <4> QED  BY <1>1, <1>3, <2>1, <3>1, <4>1 DEF Served, IsFile
    <3>2. CASE arg[r].body # Empty
      <4>1. node[r] # Nothing
        BY <1>1, <2>1, HandlerAssumption
      <4>2. fs' = [fs EXCEPT ![u] = [TreeOf(r) EXCEPT ![p] = arg[r].body]]
        BY <1>5, <2>1, <3>2, <4>1 DEF PutWrite, SetTree
      <4> QED  BY <1>1, <1>3, <4>2 DEF FileSystems
    <3> QED  BY <3>1, <3>2
  <2>3. stage'[r] = "find"
    BY <1>1, <2>1
  <2> QED  BY <1>0, <1>2, <2>1, <2>2, <2>3 DEF LoneOK, Busy
<1>6. CASE ServeDelete(r)
  <2>1. /\ stage' = [stage EXCEPT ![r] = "delete"] /\ arg[r].method = "DELETE"
        /\ fs' = [fs EXCEPT ![u] = Removed(TreeOf(r), p)]
    BY <1>6 DEF ServeDelete, Serving, GoTo, SetTree
  <2>2. Removed(TreeOf(r), p)[p] = Absent
    BY <1>1 DEF Removed, Tree
  <2>3. Served(Key(r))' = Absent
    BY <1>1, <1>3, <2>1, <2>2
  <2>4. stage'[r] = "delete"
    BY <1>1, <2>1
  <2> QED  BY <1>0, <1>2, <2>1, <2>3, <2>4 DEF LoneOK, Busy
<1> QED  BY <1>4, <1>5, <1>6

LEMMA ServeMend ==
    ASSUME Base, MendInv, NEW r \in Reqs, Serve(r), Observe(r)
    PROVE  MendInv'
<1> DEFINE begins == ~Busy(r) /\ Busy(r)'
           touched == {k \in Keys : fs'[k[1]][k[2]] # fs[k[1]][k[2]]}
                         \cup IF begins THEN {Key(r)} ELSE {}
           met == {s \in lone \ {r} : Key(s) \in touched \/ node'[s] # node[s]}
           alone == /\ begins
                    /\ stage'[r] \in {"write", "delete"}
                    /\ \A s \in Reqs \ {r} : Busy(s) => Key(s) # Key(r)
<1>0. /\ lone' = (lone \ met) \cup IF alone THEN {r} ELSE {}
      /\ settled' = [k \in Keys |-> IF k \in touched THEN Nothing ELSE settled[k]]
    BY DEF Observe
<1>1. /\ \A s \in Reqs \ {r} : stage'[s] = stage[s]
      /\ UNCHANGED <<handlers, rows, arg, held>>
      /\ stage[r] = "write" => PutWrite(r)
      /\ stage'[r] = "write" => PutOpen(r)
      /\ stage'[r] = "delete" => ServeDelete(r)
      /\ stage[r] \in {"serve", "write"}
    BY ServeFrame
<1>2. \A k \in Keys \ touched : Served(k)' = Served(k)
    BY DEF Served, IsFile
<1>3. \A s \in Reqs \ {r} : (Busy(s)' <=> Busy(s)) /\ Key(s)' = Key(s)
    BY <1>1 DEF Busy, Key
<1>4. Key(r)' = Key(r) /\ (Busy(r)' => Busy(r) \/ Key(r) \in touched)
    BY <1>1 DEF Key
<1>5. ASSUME NEW s \in lone', s # r PROVE LoneOK(s)'
  <2>1. s \in lone /\ s \in Reqs /\ LoneOK(s) /\ Key(s) \notin touched /\ node'[s] = node[s]
    BY <1>0, <1>5 DEF MendInv
  <2>2. Served(Key(s))' = Served(Key(s))
    <3>1. Key(s) \in Keys \ touched
      BY <2>1, WriterKey DEF LoneOK
    <3>2. PICK k \in Keys \ touched : k = Key(s)
      BY <3>1
    <3> QED  BY <1>2, <1>3, <1>5, <2>1, <3>2
  <2>3. RowsAt(Key(s))' = RowsAt(Key(s))
    BY <1>1, <1>3, <1>5, <2>1 DEF RowsAt
  <2>4. \A t \in Reqs \ {s} : Busy(t)' => Key(t)' # Key(s)
    BY <1>3, <1>4, <2>1 DEF LoneOK
  <2> QED  BY <1>1, <1>5, <2>1, <2>2, <2>3, <2>4, LoneStays
<1>6. ASSUME r \in lone' PROVE LoneOK(r)'
  <2>1. CASE alone
    BY <1>1, <2>1, LoneTreeStep
  <2>2. CASE ~alone
    <3>1. LoneOK(r)
      BY <1>0, <1>6, <2>2 DEF MendInv
    <3>2. PutWrite(r) /\ \A s \in Reqs \ {r} : Busy(s) => Key(s) # Key(r)
      BY <1>1, <3>1 DEF LoneOK, Busy
    <3> QED  BY <3>1, <3>2, LoneTreeStep
  <2> QED  BY <2>1, <2>2
<1>7. ASSUME NEW k \in Keys PROVE SettledOK(k)'
  <2>1. SettledOK(k) /\ RowsAt(k)' = RowsAt(k)
    BY <1>1 DEF MendInv, RowsAt
  <2>2. settled'[k] = IF k \in touched THEN Nothing ELSE settled[k]
    BY <1>0
  <2>3. ASSUME settled'[k] # Nothing, NEW s \in Reqs, WriterAt(s, k)'
        PROVE  WriterAt(s, k)
    BY <1>3, <1>4, <2>2, <2>3 DEF WriterAt
  <2> QED  BY <1>1, <1>2, <2>1, <2>2, <2>3, SettledStays
<1>8. lone' \subseteq Reqs /\ DOMAIN settled' = Keys
    BY <1>0 DEF MendInv
<1> HIDE DEF begins, touched, met, alone
<1> QED  BY <1>5, <1>6, <1>7, <1>8 DEF MendInv

(* What a lone writer leaves in the rows. *)
LEMMA LonePersists ==
    ASSUME Base, Base', MendInv, NEW r \in lone,
           PersistCreate(r) \/ PersistSave(r) \/ PersistDelete(r)
    PROVE  LET c == IF arg[r].method = "PUT" THEN arg[r].body ELSE Absent
           IN Stored(Key(r))' = c /\ Served(Key(r)) = c
<1>1. /\ LoneOK(r) /\ r \in Reqs /\ UNCHANGED arg /\ Key(r)' = Key(r)
      /\ Key(r) = <<arg[r].user, arg[r].path>>
    BY DEF MendInv, PersistCreate, PersistSave, PersistDelete, Key
<1>2. /\ RowsAt(Key(r))' \subseteq Row
      /\ \A a, b \in RowsAt(Key(r))' : a.id = b.id => a = b
      /\ \A a, b \in RowsAt(Key(r)) : a.id = b.id => a = b
      /\ RowsAt(Key(r)) \subseteq Row
    BY DEF Base, TypeOK, IdsOK, RowsAt
<1>3. CASE PersistCreate(r)
  <2>1. stage[r] = "create" /\ arg[r].method = "PUT" /\ Served(Key(r)) = arg[r].body
    BY <1>1, <1>3 DEF PersistCreate, LoneOK
  <2>2. PICK new : /\ new = [id |-> nextId, user |-> arg[r].user,
                             path |-> arg[r].path, content |-> arg[r].body]
                   /\ rows' = rows \cup {new}
    BY <1>3 DEF PersistCreate
  <2>3. RowsAt(Key(r))' = {new} /\ new.content = arg[r].body
    <3>1. new.user = arg[r].user /\ new.path = arg[r].path /\ RowsAt(Key(r)) = {}
      BY <1>1, <2>1, <2>2 DEF LoneOK
    <3> QED  BY <1>1, <2>2, <3>1 DEF RowsAt
  <2>4. First(RowsAt(Key(r)))' = new
    BY <1>2, <2>3, FirstIsRow DEF First
  <2> QED  BY <1>1, <2>1, <2>2, <2>3, <2>4 DEF Stored
<1>4. CASE PersistSave(r)
  <2>1. /\ stage[r] = "save" /\ arg[r].method = "PUT" /\ Served(Key(r)) = arg[r].body
        /\ held[r] \in RowsAt(Key(r)) /\ held[r] \in Row
        /\ \A row \in RowsAt(Key(r)) : held[r].id <= row.id
    BY <1>1, <1>2, <1>4 DEF PersistSave, LoneOK
  <2>2. PICK new : /\ new = [held[r] EXCEPT !.content = arg[r].body]
                   /\ rows' = {row \in rows : row.id # held[r].id} \cup {new}
    BY <1>4 DEF PersistSave
  <2>3. /\ new.id = held[r].id /\ new.user = arg[r].user /\ new.path = arg[r].path
        /\ new.content = arg[r].body
    BY <1>1, <2>1, <2>2 DEF Row, RowsAt
  <2>4. new \in RowsAt(Key(r))' /\ \A row \in RowsAt(Key(r))' : row = new \/ row \in RowsAt(Key(r))
    <3>1. /\ new \in rows' /\ \A row \in rows' : row = new \/ row \in rows
          /\ Key(r)'[1] = arg[r].user /\ Key(r)'[2] = arg[r].path
      BY <1>1, <2>2
    <3> QED  BY <1>1, <2>3, <3>1 DEF RowsAt
  <2>5. \A row \in RowsAt(Key(r))' : new.id <= row.id
    BY <1>2, <2>1, <2>3, <2>4 DEF Row
  <2>6. PICK R : R = RowsAt(Key(r))'
    OBVIOUS
  <2>7. First(R) = new
    BY <1>2, <2>4, <2>5, <2>6, FirstUnique
  <2>8. Stored(Key(r))' = IF R = {} THEN Absent ELSE First(R).content
    BY <2>6 DEF Stored, First
  <2> QED  BY <2>1, <2>3, <2>4, <2>6, <2>7, <2>8
<1>5. CASE PersistDelete(r)
  <2>1. stage[r] = "delete" /\ arg[r].method = "DELETE" /\ Served(Key(r)) = Absent
    BY <1>1, <1>5 DEF PersistDelete, LoneOK
  <2>2. RowsAt(Key(r))' = {}
    BY <1>1, <1>5 DEF PersistDelete, RowsAt
  <2> QED  BY <1>1, <2>1, <2>2 DEF Stored
<1> QED  BY <1>3, <1>4, <1>5

LEMMA PersistMend ==
    ASSUME Base, Base', Lag, MendInv, NEW r \in Reqs,
           PersistCreate(r) \/ PersistSave(r) \/ PersistDelete(r), Settles(r)
    PROVE  MendInv'
<1>0. stage \in [Reqs -> Stages] /\ held \in [Reqs -> Row \cup {Nothing}]
    BY DEF Base, TypeOK
<1>1. /\ UNCHANGED <<handlers, fs, arg, node>> /\ stage' = [stage EXCEPT ![r] = "return"]
      /\ Busy(r) /\ (held' = held \/ held' = [held EXCEPT ![r] = Nothing])
    BY DEF PersistCreate, PersistSave, PersistDelete, GoTo, Busy
<1>2. /\ \A s \in Reqs \ {r} : stage'[s] = stage[s] /\ held'[s] = held[s]
      /\ stage'[r] = "return"
    BY <1>0, <1>1
<1>3. /\ lone' = lone \ {r} /\ DOMAIN settled' = Keys
      /\ \A k \in Keys \ {Key(r)} : settled'[k] = settled[k]
      /\ r \notin lone => \A k \in Keys : settled'[k] = settled[k]
    BY DEF Settles, MendInv
<1>4. \A k \in Keys : /\ Served(k)' = Served(k)
                      /\ k # Key(r) => RowsAt(k)' = RowsAt(k)
    BY <1>1, RowsElsewhere DEF Served
<1>5. /\ Key(r) \in Keys /\ arg[r].user \in handlers /\ Key(r)' = Key(r)
      /\ Key(r)[1] = arg[r].user
    BY <1>1, WriterKey DEF Key
<1>6. \A s \in Reqs : /\ Key(s)' = Key(s)
                      /\ Busy(s)' <=> Busy(s) /\ s # r
    BY <1>1, <1>2 DEF Busy, Key
<1>7. ASSUME NEW s \in lone' PROVE LoneOK(s)'
  <2>1. s \in Reqs /\ s # r /\ LoneOK(s)
    BY <1>3, <1>7 DEF MendInv
  <2>2. Key(s) # Key(r) /\ Key(s) \in Keys
    BY <1>1, <2>1, WriterKey DEF LoneOK
  <2>3. PICK k \in Keys : k = Key(s) /\ k # Key(r)
    BY <2>2
  <2>4. Served(Key(s))' = Served(Key(s)) /\ RowsAt(Key(s))' = RowsAt(Key(s))
    BY <1>4, <1>6, <2>1, <2>3
  <2>5. \A t \in Reqs \ {s} : Busy(t)' => Key(t)' # Key(s)
    BY <1>6, <2>1 DEF LoneOK
  <2> QED  BY <1>1, <1>2, <2>1, <2>4, <2>5, LoneStays
<1>8. ASSUME NEW k \in Keys PROVE SettledOK(k)'
  <2>1. SettledOK(k)
    BY DEF MendInv
  <2>2. CASE k # Key(r)
    BY <1>1, <1>3, <1>4, <1>6, <2>1, <2>2, SettledStays DEF WriterAt
  <2>3. CASE k = Key(r) /\ r \notin lone
    BY <1>1, <1>3, <2>1, <2>3 DEF SettledOK, Quiet
  <2>4. CASE k = Key(r) /\ r \in lone
    <3>1. settled'[k] = IF arg[r].method = "PUT" THEN arg[r].body ELSE Absent
      BY <2>4 DEF Settles, MendInv
    <3>2. Stored(k)' = settled'[k] /\ Served(k)' = settled'[k]
      BY <1>4, <1>5, <2>4, <3>1, LonePersists
    <3>3. Quiet(k)'
      BY <1>6, <2>4 DEF Quiet, MendInv, LoneOK
    <3>4. k[1] \in handlers'
      BY <1>1, <1>5, <2>4
    <3> QED  BY <3>2, <3>3, <3>4 DEF SettledOK
  <2> QED  BY <2>2, <2>3, <2>4
<1>9. lone' \subseteq Reqs
    BY <1>3 DEF MendInv
<1> QED  BY <1>3, <1>7, <1>8, <1>9 DEF MendInv

(* Steps of r that leave rows, trees and the history, but that of r. *)
LEMMA QuietMend ==
    ASSUME MendInv, NEW r \in Reqs, UNCHANGED <<handlers, fs, rows, node, settled>>,
           \A s \in Reqs \ {r} : /\ stage'[s] = stage[s] /\ arg'[s] = arg[s]
                                 /\ held'[s] = held[s],
           Busy(r)' => Busy(r) /\ Key(r)' = Key(r),
           lone' \subseteq lone,
           r \in lone' => LoneOK(r)'
    PROVE  MendInv'
<1>1. \A k : Served(k)' = Served(k) /\ RowsAt(k)' = RowsAt(k)
    BY DEF Served, RowsAt
<1>2. \A s \in Reqs \ {r} : Key(s)' = Key(s) /\ (Busy(s)' <=> Busy(s))
    BY DEF Busy, Key
<1>3. ASSUME NEW s \in lone' PROVE LoneOK(s)'
  <2>1. s \in Reqs /\ LoneOK(s)
    BY DEF MendInv
  <2>2. CASE s # r
    <3>1. Served(Key(s))' = Served(Key(s)) /\ RowsAt(Key(s))' = RowsAt(Key(s))
      BY <1>2, <2>1, <2>2 DEF Served, RowsAt
    <3>2. \A t \in Reqs \ {s} : Busy(t)' => Key(t)' # Key(s)
      BY <1>2, <2>1 DEF LoneOK
    <3> QED  BY <2>1, <2>2, <3>1, <3>2, LoneStays
  <2> QED  BY <1>3, <2>2
<1>4. ASSUME NEW k \in Keys PROVE SettledOK(k)'
  <2>1. SettledOK(k) /\ \A s \in Reqs : WriterAt(s, k)' => WriterAt(s, k)
    BY <1>2 DEF MendInv, WriterAt
  <2> QED  BY <1>1, <2>1, SettledStays
<1> QED  BY <1>3, <1>4 DEF MendInv

LEMMA ReadersMend ==
    ASSUME Base, MendInv, NEW r \in Reqs, UNCHANGED repairVars,
           \/ AcceptFails(r) \/ Load(r) \/ PreconditionFailed(r) \/ LoadFails(r) \/ Return(r)
    PROVE  MendInv'
<1>1. /\ UNCHANGED <<handlers, fs, rows, node, held>>
      /\ stage[r] \in {"idle", "load", "return"}
      /\ \/ stage' = [stage EXCEPT ![r] = "serve"]
         \/ stage' = [stage EXCEPT ![r] = "done"]
    BY DEF AcceptFails, Load, PreconditionFailed, LoadFails, Return, AnswerBare, Answer, GoTo
<1>2. \A s \in Reqs \ {r} : arg'[s] = arg[s]
  <2>1. arg' = arg \/ \E q : arg' = [arg EXCEPT ![r] = q]
    BY DEF AcceptFails, Load, PreconditionFailed, LoadFails, Return
  <2> QED  BY <2>1 DEF Base, TypeOK
<1>3. ~Busy(r) /\ ~Busy(r)' /\ \A s \in Reqs \ {r} : stage'[s] = stage[s]
    BY <1>1 DEF Base, TypeOK, Busy
<1>4. r \notin lone' /\ lone' = lone /\ settled' = settled
    BY <1>3 DEF repairVars, MendInv, LoneOK
<1> QED  BY <1>1, <1>2, <1>3, <1>4, QuietMend

LEMMA PersistFailsMend ==
    ASSUME Base, MendInv, NEW r \in Reqs, PersistFails(r),
           lone' = lone \ {r}, settled' = settled
    PROVE  MendInv'
<1>1. /\ UNCHANGED <<handlers, fs, rows, arg, node>> /\ stage' = [stage EXCEPT ![r] = "return"]
      /\ held' = [held EXCEPT ![r] = Nothing]
    BY DEF PersistFails, GoTo
<1>2. /\ \A s \in Reqs \ {r} : stage'[s] = stage[s] /\ held'[s] = held[s]
      /\ ~Busy(r)'
    BY <1>1 DEF Base, TypeOK, Busy
<1> QED  BY <1>1, <1>2, QuietMend

(* A lone writer finds the row that GetResource finds. *)
LEMMA PersistFindMend ==
    ASSUME Base, MendInv, NEW r \in Reqs, PersistFind(r), UNCHANGED repairVars
    PROVE  MendInv'
<1> DEFINE R == RowsAt(Key(r))
<1>0. /\ stage \in [Reqs -> Stages] /\ held \in [Reqs -> Row \cup {Nothing}]
      /\ R \subseteq Row
    BY DEF Base, TypeOK, RowsAt
<1>1. /\ UNCHANGED <<handlers, fs, rows, arg, node, lone, settled>> /\ stage[r] = "find"
      /\ R = {} => held' = held /\ stage' = [stage EXCEPT ![r] = "create"]
      /\ R # {} => /\ held' = [held EXCEPT ![r] = First(R)]
                   /\ stage' = [stage EXCEPT ![r] = "save"]
    BY DEF PersistFind, GoTo, repairVars
<1>2. /\ \A s \in Reqs \ {r} : stage'[s] = stage[s] /\ held'[s] = held[s]
      /\ R = {} => stage'[r] = "create"
      /\ R # {} => stage'[r] = "save" /\ held'[r] = First(R)
    BY <1>0, <1>1
<1>3. Busy(r) /\ Busy(r)' /\ \A s \in Reqs : Key(s)' = Key(s)
    BY <1>1, <1>2 DEF Busy, Key
<1>4. ASSUME r \in lone PROVE LoneOK(r)'
  <2>1. /\ LoneOK(r) /\ arg[r].method = "PUT" /\ Served(Key(r)) = arg[r].body
        /\ \A s \in Reqs \ {r} : Busy(s) => Key(s) # Key(r)
    BY <1>1, <1>4 DEF MendInv, LoneOK
  <2>2. \A s \in Reqs \ {r} : Busy(s)' => Key(s)' # Key(r)'
    BY <1>2, <1>3, <2>1 DEF Busy
  <2>3. Served(Key(r))' = arg'[r].body /\ arg'[r].method = "PUT" /\ RowsAt(Key(r))' = R
    BY <1>1, <1>3, <2>1 DEF Served, IsFile, RowsAt
  <2>4. R # {} => First(R) \in R /\ \A row \in R : First(R).id <= row.id
    BY <1>0, FirstIsRow
  <2> HIDE DEF R
  <2> QED  BY <1>2, <1>3, <2>2, <2>3, <2>4 DEF LoneOK
<1> HIDE DEF R
<1> QED  BY <1>1, <1>2, <1>3, <1>4, QuietMend

(* A tree that is hydrated serves what settled keys have in their rows. *)
LEMMA HandlerMend ==
    ASSUME Base, MendInv, NEW u \in Users, GetUserHandler(u),
           \A s \in Reqs : Busy(s)' => Busy(s),
           \A s \in Reqs : Busy(s) => stage'[s] = stage[s] /\ arg'[s] = arg[s],
           UNCHANGED <<rows, node, held, repairVars>>
    PROVE  MendInv'
<1>1. /\ \A v \in handlers : fs'[v] = fs[v]
      /\ handlers \subseteq handlers' /\ handlers' \subseteq handlers \cup {u}
      /\ lone' = lone /\ settled' = settled
    BY HandlerBase DEF GetUserHandler, repairVars
<1>2. \A k : RowsAt(k)' = RowsAt(k) /\ (k[1] \in handlers => Served(k)' = Served(k))
    BY <1>1 DEF RowsAt, Served, IsFile
<1>3. \A s \in Reqs : Busy(s) => Key(s)' = Key(s)
    BY DEF Key
<1>4. ASSUME NEW s \in lone' PROVE LoneOK(s)'
  <2>1. s \in Reqs /\ LoneOK(s) /\ Busy(s)
    BY <1>1, <1>4 DEF MendInv, LoneOK
  <2>2. Key(s)[1] \in handlers
    BY <2>1, WriterKey DEF Key
  <2>3. Served(Key(s))' = Served(Key(s)) /\ RowsAt(Key(s))' = RowsAt(Key(s))
    BY <1>1, <1>3, <2>1, <2>2 DEF Served, RowsAt, IsFile
  <2>4. \A t \in Reqs \ {s} : Busy(t)' => Key(t)' # Key(s)
    BY <1>3, <2>1 DEF LoneOK
  <2> QED  BY <2>1, <2>3, <2>4, LoneStays
<1>5. ASSUME NEW k \in Keys PROVE SettledOK(k)'
  <2> SUFFICES ASSUME settled[k] # Nothing PROVE SettledOK(k)'
      BY <1>1 DEF SettledOK
  <2>1. SettledOK(k) /\ k[1] \in Users /\ k[2] \in Paths /\ k = <<k[1], k[2]>>
    BY DEF MendInv, Keys
  <2>2. Quiet(k)'
    BY <1>3, <2>1 DEF SettledOK, Quiet
  <2>3. Stored(k)' = Stored(k) /\ Stored(k)' = settled'[k] /\ (UniqueAt(k) => UniqueAt(k)')
    BY <1>1, <1>2, <2>1 DEF Stored, UniqueAt, SettledOK
  <2>4. CASE k[1] \in handlers
    BY <1>1, <1>2, <2>1, <2>2, <2>3, <2>4 DEF SettledOK
  <2>5. CASE k[1] \notin handlers'
    BY <1>1, <2>1, <2>2, <2>3, <2>5 DEF SettledOK
  <2>6. CASE k[1] \notin handlers /\ k[1] \in handlers'
    <3>1. k[1] = u /\ UniqueAt(k)
      BY <1>1, <2>1, <2>6 DEF SettledOK
    <3>2. PICK tree \in HydratedTrees(u) : fs' = [fs EXCEPT ![u] = tree]
      BY <2>6, <3>1 DEF GetUserHandler
    <3>3. (IF IsFile(tree, k[2]) THEN tree[k[2]] ELSE Absent) = Stored(k)
      BY <2>1, <3>1, <3>2, HydratedServes
    <3>4. fs'[k[1]] = tree
      BY <3>1, <3>2 DEF Base, TypeOK
    <3>5. Served(k)' = Stored(k)
      BY <3>3, <3>4 DEF Served
    <3> QED  BY <2>2, <2>3, <2>6, <3>5 DEF SettledOK
  <2> QED  BY <2>4, <2>5, <2>6
<1> QED  BY <1>1, <1>4, <1>5 DEF MendInv

LEMMA AcceptMend ==
    ASSUME Base, MendInv, NEW r \in Reqs, Accept(r), UNCHANGED repairVars
    PROVE  MendInv'
<1>1. PICK q \in Requests : GetUserHandler(q.user) /\ arg' = [arg EXCEPT ![r] = q]
    BY DEF Accept
<1>2. /\ stage[r] = "idle" /\ stage' = [stage EXCEPT ![r] = "load"]
      /\ UNCHANGED <<rows, node, held>>
    BY DEF Accept, GoTo
<1>3. stage \in [Reqs -> Stages] /\ DOMAIN arg = Reqs /\ q.user \in Users
    BY RequestType DEF Base, TypeOK
<1>4. /\ \A s \in Reqs : Busy(s)' => Busy(s)
      /\ \A s \in Reqs : Busy(s) => stage'[s] = stage[s] /\ arg'[s] = arg[s]
    BY <1>1, <1>2, <1>3 DEF Busy
<1> QED  BY <1>1, <1>2, <1>3, <1>4, HandlerMend

LEMMA RestartMend ==
    ASSUME Base, MendInv, Restart, UNCHANGED repairVars
    PROVE  MendInv'
<1>1. /\ GetUserHandler(DefaultUser) /\ DefaultUser \in Users
      /\ UNCHANGED <<rows, node, held, stage, arg>>
    BY HandlerAssumption DEF Restart
<1>2. /\ \A s \in Reqs : Busy(s)' => Busy(s)
      /\ \A s \in Reqs : Busy(s) => stage'[s] = stage[s] /\ arg'[s] = arg[s]
    BY <1>1 DEF Busy
<1> QED  BY <1>1, <1>2, HandlerMend

LEMMA CrashMend ==
    ASSUME Base, MendInv, Crash, ForgetAmbiguous
    PROVE  MendInv'
<1>1. \A s \in Reqs : ~Busy(s)'
    BY DEF Base, TypeOK, Crash, InFlight, Busy
<1>2. ASSUME NEW k \in Keys PROVE SettledOK(k)'
  <2>1. SettledOK(k) /\ rows' = rows /\ handlers' = {}
    BY DEF MendInv, Crash
  <2>2. settled'[k] = IF UniqueAt(k) THEN settled[k] ELSE Nothing
    BY DEF ForgetAmbiguous
  <2>3. Stored(k)' = Stored(k) /\ (UniqueAt(k)' <=> UniqueAt(k))
    BY <2>1 DEF Stored, RowsAt, UniqueAt
  <2> QED  BY <1>1, <2>1, <2>2, <2>3 DEF SettledOK, Quiet
<1> QED  BY <1>2 DEF MendInv, ForgetAmbiguous

LEMMA NextMend ==
    ASSUME Base, Base', Lag, MendInv, [RepairNext]_<<vars, repairVars>>
    PROVE  MendInv'
<1>1. CASE UNCHANGED <<vars, repairVars>>
    BY <1>1 DEF vars, repairVars, MendInv, LoneOK, SettledOK, Busy, Key, Served, RowsAt,
                Quiet, Stored, UniqueAt
<1>2. ASSUME NEW r \in Reqs, Serve(r), Observe(r) PROVE MendInv'
    BY <1>2, ServeMend
<1>3. ASSUME NEW r \in Reqs, PersistCreate(r) \/ PersistSave(r) \/ PersistDelete(r), Settles(r)
      PROVE  MendInv'
    BY <1>3, PersistMend
<1>4. ASSUME NEW r \in Reqs, PersistFails(r), lone' = lone \ {r}, settled' = settled
      PROVE  MendInv'
    BY <1>4, PersistFailsMend
<1>5. ASSUME NEW r \in Reqs, UNCHANGED repairVars,
             \/ Accept(r) \/ AcceptFails(r) \/ Load(r) \/ PreconditionFailed(r)
             \/ LoadFails(r) \/ PersistFind(r) \/ Return(r)
      PROVE  MendInv'
    BY <1>5, AcceptMend, ReadersMend, PersistFindMend
<1>6. CASE Crash /\ ForgetAmbiguous
    BY <1>6, CrashMend
<1>7. CASE Restart /\ UNCHANGED repairVars
    BY <1>7, RestartMend
<1> QED  BY <1>1, <1>2, <1>3, <1>4, <1>5, <1>6, <1>7 DEF RepairNext

(* A PUT of a file or a DELETE that has its key to itself mends what       *)
(* crossed writers, rows that came back and dropped errors left there, for *)
(* any users, paths and number of requests, whatever goes on at other keys *)
(* and whenever the process crashes (persistMutation after serveHTTP).     *)
THEOREM LoneWritesMend == RepairSpec => []LoneWriteMends
<1> DEFINE Safe == Base /\ Lag /\ MendInv
<1>1. RepairInit => Safe
  <2> SUFFICES ASSUME RepairInit PROVE Safe
      OBVIOUS
  <2>1. MendInv
    BY DEF RepairInit, MendInv, SettledOK
  <2> QED  BY <2>1, InitBase, InitLag DEF RepairInit
<1>2. Safe /\ [RepairNext]_<<vars, repairVars>> => Safe'
  <2> SUFFICES ASSUME Safe, [RepairNext]_<<vars, repairVars>> PROVE Safe'
      OBVIOUS
  <2>1. [Next]_vars
    BY DEF RepairNext, Next, ServeHTTP, Persist
  <2>2. Base' /\ Lag'
    BY <2>1, NextBase, NextLag
  <2> QED  BY <2>2, NextMend
<1>3. Safe => LoneWriteMends
    BY DEF MendInv, SettledOK, LoneWriteMends
<1> QED  BY <1>1, <1>2, <1>3, PTL DEF RepairSpec
=============================================================================
