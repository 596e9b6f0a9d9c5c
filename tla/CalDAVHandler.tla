--------------------------- MODULE CalDAVHandler ---------------------------
(***************************************************************************)
(* internal/caldav with the database store of internal/db behind it.       *)
(*                                                                         *)
(* The handler keeps one in-memory file tree per user (MemFS) and mirrors  *)
(* the successful PUTs and DELETEs into database rows.  A request passes   *)
(* through stages that other requests interleave with: build the request   *)
(* context (hydrating the user's tree on first use), look up the stored    *)
(* resource and test If-Match against it, let the WebDAV handler work on   *)
(* the tree, persist.  No lock is held from one stage to the next, the     *)
(* store offers no uniqueness for (user, path), errors of the last stage   *)
(* are dropped, and a crash keeps the rows and loses everything else.      *)
(***************************************************************************)
EXTENDS MemFS

CONSTANTS
    Users,          \* the user keys
    DefaultUser,    \* the user whose tree is loaded at start-up
    Reqs,           \* identities of requests; each is used for one request
    Methods,        \* the methods the clients of the instance use
    IfMatches,      \* the If-Match headers they send
    Nothing,        \* no row, no node, no request, no reply
    Faults,         \* whether store calls and body reads may fail
    MaxInFlight,    \* bound: requests in progress at a time
    MaxPerKey,      \* bound: requests in progress at a time with one path
    MaxCrashes      \* bound: crashes of the process

AllMethods == {"GET", "PUT", "DELETE", "MKCOL", "MOVE", "COPY"}

(* An If-Match header is absent, "*", or the set of the contents whose tags *)
(* it lists; the tag of a content (its SHA-256) is identified with the      *)
(* content, and a list without any has only tags of nothing ever stored.    *)
Headers == [kind : {"none", "star", "tags"}, tags : SUBSET Contents]

NoHeader == [kind |-> "none", tags |-> {}]

Star == [kind |-> "star", tags |-> {}]

Tags(C) == [kind |-> "tags", tags |-> C]

ASSUME HandlerAssumption ==
    /\ DefaultUser \in Users
    /\ Methods \subseteq AllMethods
    /\ NoHeader \in IfMatches
    /\ IfMatches \subseteq Headers
    /\ Nothing \notin Paths \cup Contents
    /\ Faults \in BOOLEAN
    /\ MaxInFlight \in Nat
    /\ MaxPerKey \in Nat
    /\ MaxCrashes \in Nat

VARIABLES
    up,         \* whether the process runs
    handlers,   \* the users whose handler is cached (keys of h.handlers)
    fs,         \* the file tree of every cached user
    rows,       \* the rows of the table cal_dav_resources
    nextId,     \* the next primary key
    stage,      \* per request: how far it got
    arg,        \* per request: what was asked
    seen,       \* per request: the content GetResource found, or Absent
    node,       \* per request: where the file it opened is now, or Nothing
    held,       \* per request: the row PutResource read, or Nothing
    reply,      \* per request: the answer
    crashes,    \* crashes so far
    disturbed   \* history: the keys on which tree and rows may disagree

vars == <<up, handlers, fs, rows, nextId, stage, arg, seen, node, held,
          reply, crashes, disturbed>>

Keys == Users \X Paths

(* What the code does between two stages is local to the request.  At      *)
(* "done" the handler has returned and the response goes out; "lost" is    *)
(* what a crash makes of the requests in progress.                         *)
Stages == {"idle", "load", "serve", "write", "find", "create", "save",
           "delete", "return", "done", "lost"}

InFlight(r) == stage[r] \notin {"idle", "done", "lost"}

(* r has changed the tree, or may have, and is not through with its rows. *)
Busy(r) == stage[r] \in {"write", "find", "create", "save", "delete"}

Key(r) == <<arg[r].user, arg[r].path>>

Row == [id : Nat, user : Users, path : Paths, content : Contents]

RowsAt(k) == {row \in rows : row.user = k[1] /\ row.path = k[2]}

(* gorm's First: the row with the least primary key. *)
First(R) == CHOOSE row \in R : \A other \in R : row.id <= other.id

(* GetResource, as the content of the row it returns. *)
Stored(k) == IF RowsAt(k) = {} THEN Absent ELSE First(RowsAt(k)).content

Statuses == {"ok", "refused", "locked", "precondition failed", "error"}

Reply == [status : Statuses, etag : Contents \cup {Absent},
          body : Contents \cup {Absent}]

(* The requests of the instance: an If-Match header is sent with PUT and   *)
(* DELETE only (the handler ignores it elsewhere), bodies with PUT only.   *)
(* COPY is sent with a destination neither above nor below its source.     *)
Requests ==
    {q \in [method : Methods, user : Users, path : Paths, body : Contents,
            ifMatch : IfMatches, dest : Paths, overwrite : BOOLEAN] :
        /\ q.method # "PUT" => q.body = Empty
        /\ q.method \notin {"PUT", "DELETE"} => q.ifMatch = NoHeader
        /\ q.method \notin {"MOVE", "COPY"} => q.dest = q.path
        /\ q.dest = q.path => ~q.overwrite
        /\ q.method = "COPY" => q.dest \notin Above(q.path) \cup Under(q.path)}

-----------------------------------------------------------------------------
(* Mutant: what is not found matches every header. *)
PassesIfMatchUnfound(q, c) ==
    \/ q.ifMatch.kind = "none"
    \/ q.method \notin {"PUT", "DELETE"}
    \/ c = Absent
    \/ q.ifMatch.kind = "star" \/ c \in q.ifMatch.tags

(* passesIfMatchPrecondition and ifMatchSatisfied, for the stored content  *)
(* c (Absent: not found).                                                  *)
PassesIfMatch(q, c) ==
    \/ q.ifMatch.kind = "none"
    \/ q.method \notin {"PUT", "DELETE"}
    \/ c # Absent /\ (q.ifMatch.kind = "star" \/ c \in q.ifMatch.tags)

(* The paths of a user that have rows. *)
StoredPaths(u) == {p \in Paths : RowsAt(<<u, p>>) # {}}

(* writeResourceToFS succeeds for every row, in whatever order the rows    *)
(* come: no stored path lies above another.                                *)
Hydratable(u) == \A p, q \in StoredPaths(u) : p \notin Above(q)

(* The trees writeResourceToFS can build: of several rows with one path    *)
(* the one that ListResources returns last wins, and it sets no order.     *)
HydratedTrees(u) ==
    LET at(p) == {row.content : row \in RowsAt(<<u, p>>)}
    IN {[p \in Paths |-> IF p \in StoredPaths(u) THEN pick[p]
                         ELSE IF \E q \in Under(p) : q \in StoredPaths(u) THEN Dir
                         ELSE Absent] :
           pick \in {g \in [StoredPaths(u) -> Contents] :
                        \A p \in StoredPaths(u) : g[p] \in at(p)}}

EmptyTree == [p \in Paths |-> Absent]

NoReply == [status |-> "error", etag |-> Absent, body |-> Absent]

GoTo(r, s) == stage' = [stage EXCEPT ![r] = s]

(* The answer of the request is settled; the client has it when the        *)
(* handler returns.                                                        *)
Settle(r, status, etag, body) ==
    /\ reply' = [reply EXCEPT ![r] =
                    [status |-> status, etag |-> etag, body |-> body]]
    /\ seen' = [seen EXCEPT ![r] = Absent]

(* The handler returns with this answer. *)
Answer(r, status, etag, body) ==
    GoTo(r, "done") /\ Settle(r, status, etag, body)

(* An answer that carries neither a tag nor a body. *)
AnswerBare(r, status) == Answer(r, status, Absent, Absent)

(* Mutant: the tags the client sent come back. *)
ResponseETagEchoed(r) ==
    IF arg[r].method = "PUT" THEN arg[r].ifMatch.tags ELSE seen[r]

(* prepareRequestBodyAndResponseETag: the statusRecorder sets it on every  *)
(* answer of the WebDAV handler, whatever the status.                      *)
ResponseETag(r) ==
    CASE arg[r].method = "PUT" -> arg[r].body
      [] arg[r].method = "GET" -> seen[r]
      [] OTHER -> Absent

(* The WebDAV handler's answer, as the statusRecorder passes it on. *)
Respond(r, status, body) == Answer(r, status, ResponseETag(r), body)

(* A mutation the WebDAV handler accepted. *)
SettleMutation(r) == Settle(r, "ok", ResponseETag(r), Absent)

-----------------------------------------------------------------------------
Init ==
    /\ up = TRUE
    /\ handlers = {DefaultUser}
    /\ fs = [u \in Users |-> EmptyTree]
    /\ rows = {}
    /\ nextId = 1
    /\ stage = [r \in Reqs |-> "idle"]
    /\ arg = [r \in Reqs |-> Nothing]
    /\ seen = [r \in Reqs |-> Absent]
    /\ node = [r \in Reqs |-> Nothing]
    /\ held = [r \in Reqs |-> Nothing]
    /\ reply = [r \in Reqs |-> NoReply]
    /\ crashes = 0
    /\ disturbed = {}

(* getUserHandler, under h.mu: the cached handler, or one hydrated from    *)
(* the rows.                                                               *)
GetUserHandler(u) ==
    \/ /\ u \in handlers
       /\ UNCHANGED <<handlers, fs>>
    \/ /\ u \notin handlers
       /\ Hydratable(u)
       /\ handlers' = handlers \cup {u}
       /\ \E tree \in HydratedTrees(u) : fs' = [fs EXCEPT ![u] = tree]

(* The bounds of the instance let request q in. *)
WithinBounds(q) ==
    LET busy == {s \in Reqs : InFlight(s)}
    IN /\ Cardinality(busy) < MaxInFlight
       /\ Cardinality({s \in busy : Key(s) = <<q.user, q.path>>}) < MaxPerKey

(* A request comes in and finds its handler (buildRequestContext). *)
Accept(r) ==
    /\ up
    /\ stage[r] = "idle"
    /\ \E q \in Requests :
          /\ WithinBounds(q)
          /\ GetUserHandler(q.user)
          /\ arg' = [arg EXCEPT ![r] = q]
    /\ GoTo(r, "load")
    /\ UNCHANGED <<up, rows, nextId, seen, node, held, reply, crashes, disturbed>>

(* No handler can be made: the store fails or its rows do not fit a tree.  *)
AcceptFails(r) ==
    /\ up
    /\ stage[r] = "idle"
    /\ \E q \in Requests :
          /\ WithinBounds(q)
          /\ q.user \notin handlers
          /\ Faults \/ ~Hydratable(q.user)
          /\ arg' = [arg EXCEPT ![r] = q]
    /\ AnswerBare(r, "error")
    /\ UNCHANGED <<up, handlers, fs, rows, nextId, node, held, crashes, disturbed>>

(* loadCurrentResource, and If-Match holds for what it found. *)
Load(r) ==
    /\ stage[r] = "load"
    /\ PassesIfMatch(arg[r], Stored(Key(r)))
    /\ seen' = [seen EXCEPT ![r] = Stored(Key(r))]
    /\ GoTo(r, "serve")
    /\ UNCHANGED <<up, handlers, fs, rows, nextId, arg, node, held, reply,
                   crashes, disturbed>>

PreconditionFailed(r) ==
    /\ stage[r] = "load"
    /\ ~PassesIfMatch(arg[r], Stored(Key(r)))
    /\ AnswerBare(r, "precondition failed")
    /\ UNCHANGED <<up, handlers, fs, rows, nextId, arg, node, held, crashes,
                   disturbed>>

(* The lookup fails (500), or a PUT's body cannot be read (400). *)
LoadFails(r) ==
    /\ Faults
    /\ stage[r] = "load"
    /\ AnswerBare(r, "error")
    /\ UNCHANGED <<up, handlers, fs, rows, nextId, arg, node, held, crashes,
                   disturbed>>

-----------------------------------------------------------------------------
(* The WebDAV handler works on the tree (serveWithStatusRecorder).         *)

Serving(r, method) == stage[r] = "serve" /\ arg[r].method = method

TreeOf(r) == fs[arg[r].user]

SetTree(r, tree) == fs' = [fs EXCEPT ![arg[r].user] = tree]

KeysOf(r, P) == {arg[r].user} \X P

(* The key of r if another request is between tree and rows there too. *)
Crossed(r) ==
    IF \E s \in Reqs \ {r} : Busy(s) /\ Key(s) = Key(r) THEN {Key(r)} ELSE {}

(* The paths confirmLocks takes a lock of zero depth on. *)
LockTargets(q) ==
    CASE q.method = "GET" -> {}
      [] q.method = "COPY" -> {q.dest} \ {q.path}
      [] q.method = "MOVE" -> IF q.dest = q.path THEN {} ELSE {q.path, q.dest}
      [] OTHER -> {q.path}

(* Only a PUT holds its lock across two steps. *)
Locked(r) ==
    \E s \in Reqs \ {r} :
        /\ stage[s] = "write"
        /\ arg[s].user = arg[r].user
        /\ arg[s].path \in LockTargets(arg[r])

(* Mutant: the status is not looked at before persistMutation. *)
ServeLockedPersists(r) ==
    /\ stage[r] = "serve"
    /\ Locked(r)
    /\ GoTo(r, IF arg[r].method = "PUT" THEN "find" ELSE "delete")
    /\ Settle(r, "locked", ResponseETag(r), Absent)
    /\ UNCHANGED <<up, handlers, fs, rows, nextId, arg, node, held, crashes,
                   disturbed>>

ServeLocked(r) ==
    /\ stage[r] = "serve"
    /\ Locked(r)
    /\ Respond(r, "locked", Absent)
    /\ UNCHANGED <<up, handlers, fs, rows, nextId, arg, node, held, crashes,
                   disturbed>>

(* The body comes from the tree, the tag from the lookup before it; with   *)
(* nothing found the library's own tag stays, which is no SHA-256.         *)
ServeGet(r) ==
    /\ Serving(r, "GET")
    /\ LET f == TreeOf(r)
           p == arg[r].path
       IN IF IsFile(f, p) THEN Respond(r, "ok", f[p])
                          ELSE Respond(r, "refused", Absent)
    /\ UNCHANGED <<up, handlers, fs, rows, nextId, arg, node, held, crashes,
                   disturbed>>

(* No collection to put into, or content for a collection. *)
PutRefused(r) ==
    /\ Serving(r, "PUT")
    /\ ~Locked(r)
    /\ \/ ~Reachable(TreeOf(r), arg[r].path)
       \/ TreeOf(r)[arg[r].path] = Dir /\ arg[r].body # Empty
    /\ Respond(r, "refused", Absent)
    /\ UNCHANGED <<up, handlers, fs, rows, nextId, arg, node, held, crashes,
                   disturbed>>

(* Opening a collection for writing succeeds, and so does writing nothing. *)
PutOnCollection(r) ==
    /\ Serving(r, "PUT")
    /\ ~Locked(r)
    /\ Reachable(TreeOf(r), arg[r].path)
    /\ TreeOf(r)[arg[r].path] = Dir
    /\ arg[r].body = Empty
    /\ GoTo(r, "find")
    /\ SettleMutation(r)
    /\ disturbed' = disturbed \cup {Key(r)}
    /\ UNCHANGED <<up, handlers, fs, rows, nextId, arg, node, held, crashes>>

(* The file is created, or truncated, ... *)
PutOpen(r) ==
    /\ Serving(r, "PUT")
    /\ ~Locked(r)
    /\ Reachable(TreeOf(r), arg[r].path)
    /\ TreeOf(r)[arg[r].path] # Dir
    /\ SetTree(r, [TreeOf(r) EXCEPT ![arg[r].path] = Empty])
    /\ node' = [node EXCEPT ![r] = arg[r].path]
    /\ GoTo(r, "write")
    /\ disturbed' = disturbed \cup Crossed(r)
    /\ UNCHANGED <<up, handlers, rows, nextId, arg, seen, held, reply, crashes>>

(* ... and written through the open handle, wherever the file is by now.   *)
(* Contents other than Empty are as long as each other.                    *)
PutWrite(r) ==
    /\ stage[r] = "write"
    /\ IF node[r] = Nothing \/ arg[r].body = Empty
       THEN fs' = fs
       ELSE SetTree(r, [TreeOf(r) EXCEPT ![node[r]] = arg[r].body])
    /\ node' = [node EXCEPT ![r] = Nothing]
    /\ GoTo(r, "find")
    /\ SettleMutation(r)
    /\ UNCHANGED <<up, handlers, rows, nextId, arg, held, crashes, disturbed>>

(* Where the open files of r's user are after Place moved or removed them. *)
Relocate(r, Place(_)) ==
    node' = [s \in Reqs |->
                IF node[s] # Nothing /\ arg[s].user = arg[r].user
                THEN Place(node[s]) ELSE node[s]]

ServeDelete(r) ==
    /\ Serving(r, "DELETE")
    /\ ~Locked(r)
    /\ LET f == TreeOf(r)
           p == arg[r].path
           Place(n) == IF n \in Tree(p) THEN Nothing ELSE n
       IN /\ Exists(f, p)
          /\ SetTree(r, Removed(f, p))
          /\ Relocate(r, Place)
          /\ disturbed' = disturbed \cup Crossed(r)
                \cup IF f[p] = Dir THEN KeysOf(r, Under(p)) ELSE {}
    /\ GoTo(r, "delete")
    /\ SettleMutation(r)
    /\ UNCHANGED <<up, handlers, rows, nextId, arg, held, crashes>>

DeleteRefused(r) ==
    /\ Serving(r, "DELETE")
    /\ ~Locked(r)
    /\ ~Exists(TreeOf(r), arg[r].path)
    /\ Respond(r, "refused", Absent)
    /\ UNCHANGED <<up, handlers, fs, rows, nextId, arg, node, held, crashes,
                   disturbed>>

(* Mutant: MKCOL of what exists. *)
ServeMkcolAnyway(r) ==
    /\ Serving(r, "MKCOL")
    /\ ~Locked(r)
    /\ Reachable(TreeOf(r), arg[r].path)
    /\ SetTree(r, [TreeOf(r) EXCEPT ![arg[r].path] = Dir])
    /\ Respond(r, "ok", Absent)
    /\ UNCHANGED <<up, handlers, rows, nextId, arg, node, held, crashes, disturbed>>

(* A collection is made in the tree only: no row ever stands for it. *)
ServeMkcol(r) ==
    /\ Serving(r, "MKCOL")
    /\ ~Locked(r)
    /\ LET f == TreeOf(r)
           p == arg[r].path
       IN IF Reachable(f, p) /\ ~Exists(f, p)
          THEN SetTree(r, [f EXCEPT ![p] = Dir]) /\ Respond(r, "ok", Absent)
          ELSE fs' = fs /\ Respond(r, "refused", Absent)
    /\ UNCHANGED <<up, handlers, rows, nextId, arg, node, held, crashes, disturbed>>

(* The destination is an absolute path of the tree, not rewritten like the *)
(* request's own.  What is there goes first, if it may be overwritten,     *)
(* even if the renaming then fails.  Nothing is persisted.                 *)
ServeMove(r) ==
    /\ Serving(r, "MOVE")
    /\ ~Locked(r)
    /\ LET f == TreeOf(r)
           src == arg[r].path
           dst == arg[r].dest
           allowed == dst # src /\ (Exists(f, dst) => arg[r].overwrite)
           g == IF allowed /\ Exists(f, dst) THEN Removed(f, dst) ELSE f
           moved == /\ allowed
                    /\ dst \notin Under(src)
                    /\ Exists(g, src)
                    /\ Reachable(g, dst)
           Place(n) == IF n \in Tree(dst) /\ g # f THEN Nothing
                       ELSE IF moved /\ n \in Tree(src) THEN Rebase(n, src, dst)
                       ELSE n
       IN /\ moved => Fits(g, src, dst)
          /\ SetTree(r, IF moved THEN Renamed(g, src, dst) ELSE g)
          /\ Relocate(r, Place)
          /\ disturbed' = disturbed \cup
                IF moved THEN KeysOf(r, Tree(src) \cup Tree(dst))
                ELSE IF g # f THEN KeysOf(r, Tree(dst)) ELSE {}
          /\ Respond(r, IF moved THEN "ok" ELSE "refused", Absent)
    /\ UNCHANGED <<up, handlers, rows, nextId, arg, held, crashes>>

(* Taken as one step; what it changes is disturbed from then on anyhow.    *)
ServeCopy(r) ==
    /\ Serving(r, "COPY")
    /\ ~Locked(r)
    /\ LET f == TreeOf(r)
           src == arg[r].path
           dst == arg[r].dest
           copied == /\ dst # src
                     /\ Exists(f, src)
                     /\ Exists(f, dst) => arg[r].overwrite
                     /\ Reachable(f, dst)
           Place(n) == IF copied /\ n \in Tree(dst) THEN Nothing ELSE n
       IN /\ copied => Fits(f, src, dst)
          /\ SetTree(r, IF copied THEN Grafted(f, f, src, dst) ELSE f)
          /\ Relocate(r, Place)
          /\ disturbed' = disturbed \cup
                IF copied THEN KeysOf(r, Tree(dst)) ELSE {}
          /\ Respond(r, IF copied THEN "ok" ELSE "refused", Absent)
    /\ UNCHANGED <<up, handlers, rows, nextId, arg, held, crashes>>

-----------------------------------------------------------------------------
(* persistMutation: PutResource and DeleteResource, without a transaction  *)
(* around the lookup and the write it leads to.                            *)

PersistFind(r) ==
    /\ stage[r] = "find"
    /\ LET R == RowsAt(Key(r))
       IN IF R = {} THEN held' = held /\ GoTo(r, "create")
                    ELSE held' = [held EXCEPT ![r] = First(R)] /\ GoTo(r, "save")
    /\ UNCHANGED <<up, handlers, fs, rows, nextId, arg, seen, node, reply,
                   crashes, disturbed>>

PersistCreate(r) ==
    /\ stage[r] = "create"
    /\ rows' = rows \cup {[id |-> nextId, user |-> arg[r].user,
                           path |-> arg[r].path, content |-> arg[r].body]}
    /\ nextId' = nextId + 1
    /\ GoTo(r, "return")
    /\ UNCHANGED <<up, handlers, fs, arg, seen, node, held, reply, crashes,
                   disturbed>>

(* Mutant: the row that was found is saved without the new content. *)
PersistSaveStale(r) ==
    /\ stage[r] = "save"
    /\ rows' = {row \in rows : row.id # held[r].id} \cup {held[r]}
    /\ held' = [held EXCEPT ![r] = Nothing]
    /\ GoTo(r, "return")
    /\ UNCHANGED <<up, handlers, fs, nextId, arg, seen, node, reply, crashes,
                   disturbed>>

(* gorm's Save updates by primary key, and inserts the row it was given if *)
(* that key is gone.                                                       *)
PersistSave(r) ==
    /\ stage[r] = "save"
    /\ rows' = {row \in rows : row.id # held[r].id}
                 \cup {[held[r] EXCEPT !.content = arg[r].body]}
    /\ held' = [held EXCEPT ![r] = Nothing]
    /\ GoTo(r, "return")
    /\ UNCHANGED <<up, handlers, fs, nextId, arg, seen, node, reply, crashes,
                   disturbed>>

PersistDelete(r) ==
    /\ stage[r] = "delete"
    /\ rows' = rows \ RowsAt(Key(r))
    /\ GoTo(r, "return")
    /\ UNCHANGED <<up, handlers, fs, nextId, arg, seen, node, held, reply,
                   crashes, disturbed>>

(* The store refuses, or the client's going away cancels the call: the     *)
(* error is dropped and the answer stays what it was.                      *)
PersistFails(r) ==
    /\ Faults
    /\ stage[r] \in {"find", "create", "save", "delete"}
    /\ held' = [held EXCEPT ![r] = Nothing]
    /\ disturbed' = disturbed \cup {Key(r)}
    /\ GoTo(r, "return")
    /\ UNCHANGED <<up, handlers, fs, rows, nextId, arg, seen, node, reply,
                   crashes>>

Return(r) ==
    /\ stage[r] = "return"
    /\ GoTo(r, "done")
    /\ UNCHANGED <<up, handlers, fs, rows, nextId, arg, seen, node, held, reply,
                   crashes, disturbed>>

-----------------------------------------------------------------------------
(* The process dies: the rows are all that is left.  For a user whose rows *)
(* can be loaded the trees start afresh from them, and only keys with      *)
(* several rows stay ambiguous.  A DELETE cut off before its row was gone  *)
(* may leave a row in the way of others that were put below its path.      *)
Crash ==
    /\ up
    /\ crashes < MaxCrashes
    /\ crashes' = crashes + 1
    /\ up' = FALSE
    /\ handlers' = {}
    /\ fs' = [u \in Users |-> EmptyTree]
    /\ stage' = [r \in Reqs |-> IF InFlight(r) THEN "lost" ELSE stage[r]]
    /\ seen' = [r \in Reqs |-> Absent]
    /\ node' = [r \in Reqs |-> Nothing]
    /\ held' = [r \in Reqs |-> Nothing]
    /\ disturbed' = {k \in disturbed \cup {Key(r) : r \in {s \in Reqs : stage[s] = "delete"}} :
                        \/ ~Hydratable(k[1])
                        \/ \E a, b \in RowsAt(k) : a # b}
    /\ UNCHANGED <<rows, nextId, arg, reply>>

(* NewHandler warms up the default user's handler; if that fails, main     *)
(* exits, and the process stays down.                                      *)
Restart ==
    /\ ~up
    /\ up' = TRUE
    /\ GetUserHandler(DefaultUser)
    /\ UNCHANGED <<rows, nextId, stage, arg, seen, node, held, reply, crashes,
                   disturbed>>

Serve(r) ==
    \/ ServeLocked(r)
    \/ ServeGet(r)
    \/ PutRefused(r) \/ PutOnCollection(r) \/ PutOpen(r) \/ PutWrite(r)
    \/ ServeDelete(r) \/ DeleteRefused(r)
    \/ ServeMkcol(r) \/ ServeMove(r) \/ ServeCopy(r)

Persist(r) ==
    PersistFind(r) \/ PersistCreate(r) \/ PersistSave(r) \/ PersistDelete(r)

(* ServeHTTP, from the request's arrival on. *)
ServeHTTP(r) ==
    Load(r) \/ PreconditionFailed(r) \/ Serve(r) \/ Persist(r) \/ Return(r)

Next ==
    \/ \E r \in Reqs : \/ Accept(r) \/ AcceptFails(r)
                       \/ ServeHTTP(r)
                       \/ LoadFails(r) \/ PersistFails(r)
    \/ Crash
    \/ Restart

Spec == Init /\ [][Next]_vars

-----------------------------------------------------------------------------
(* Types of the state: what requests, rows and replies hold at every stage *)
(* of ServeHTTP.                                                           *)
TypeOK ==
    /\ up \in BOOLEAN
    /\ handlers \subseteq Users
    /\ fs \in [Users -> FileSystems]
    /\ rows \subseteq Row
    /\ nextId \in Nat
    /\ stage \in [Reqs -> Stages]
    /\ arg \in [Reqs -> Requests \cup {Nothing}]
    /\ seen \in [Reqs -> Contents \cup {Absent}]
    /\ node \in [Reqs -> Paths \cup {Nothing}]
    /\ held \in [Reqs -> Row \cup {Nothing}]
    /\ reply \in [Reqs -> Reply]
    /\ crashes \in Nat
    /\ disturbed \subseteq Keys

(* What the tree serves at a key, as content. *)
Served(k) == IF IsFile(fs[k[1]], k[2]) THEN fs[k[1]][k[2]] ELSE Absent

Quiet(k) == \A r \in Reqs : Busy(r) => Key(r) # k

(* The tree and the rows agree: at a key where no writers ever crossed, no *)
(* tree operation bypassed the store and no store call failed, whenever no *)
(* request is between its tree and its store step, there is at most one    *)
(* row and the tree serves its content, or no file if there is none.       *)
(* Crashes at any point between the two steps included.                    *)
Mirror ==
    \A k \in Keys \ disturbed :
        k[1] \in handlers /\ Quiet(k) =>
            /\ \A a, b \in RowsAt(k) : a = b
            /\ Served(k) = Stored(k)

(* The store of a user none of whose keys is disturbed can be hydrated,    *)
(* unless a DELETE has still to remove its row, which may lie above rows    *)
(* that were put after the tree had lost it: no other overlap of PUT,      *)
(* DELETE, MKCOL and crashes leaves rows that getUserHandler cannot load.  *)
LoadableWhenUndisturbed ==
    \A u \in Users :
        /\ ({u} \X Paths) \cap disturbed = {}
        /\ \A r \in Reqs : stage[r] = "delete" => arg[r].user # u
        => Hydratable(u)

(* No row holds what a client was told is not stored: whatever the         *)
(* interleaving, also of a Save that brings a deleted row back, a row is   *)
(* the body of a PUT to that very key whose answer is success.  A request  *)
(* refused for its If-Match, by a lock or by the tree leaves no trace.     *)
StoredWasAccepted ==
    \A row \in rows : \E r \in Reqs :
        /\ stage[r] \in {"return", "done", "lost"}
        /\ reply[r].status = "ok"
        /\ arg[r].method = "PUT"
        /\ Key(r) = <<row.user, row.path>>
        /\ arg[r].body = row.content

-----------------------------------------------------------------------------
(* The inductive invariant behind TypeOK and Mirror.                       *)

(* Every entry of a tree hangs in a collection, also while files move      *)
(* under the hands of a PUT that has them open.                            *)
TreesWellFormed == \A u \in Users : WellFormedTree(fs[u])

(* What a request carries along at each stage. *)
RequestOK(r) ==
    /\ stage[r] # "idle" => arg[r] \in Requests
    /\ InFlight(r) => arg[r].user \in handlers
    /\ node[r] # Nothing =>
          /\ stage[r] = "write"
          /\ IsFile(fs[arg[r].user], node[r])
          /\ node[r] # arg[r].path =>
                {Key(r), <<arg[r].user, node[r]>>} \subseteq disturbed
    /\ stage[r] = "write" /\ node[r] = Nothing => Key(r) \in disturbed
    /\ stage[r] = "save" =>
          /\ held[r] \in Row
          /\ held[r].id < nextId
          /\ <<held[r].user, held[r].path>> = Key(r)

(* Primary keys are given once. *)
IdsOK ==
    /\ \A row \in rows : row.id < nextId
    /\ \A a, b \in rows : a.id = b.id => a = b

(* A primary key belongs to one key for good, also while a request holds   *)
(* the row and others delete it.                                           *)
HoldingOK ==
    \A r \in Reqs : stage[r] = "save" =>
        /\ \A row \in rows : row.id = held[r].id => row \in RowsAt(Key(r))
        /\ \A s \in Reqs :
              stage[s] = "save" /\ held[s].id = held[r].id => Key(s) = Key(r)

(* How far the store lags behind the tree at a key that only r is writing. *)
LagOK(r) ==
    /\ stage[r] = "write" => Served(Key(r)) = Empty
    /\ stage[r] \in {"find", "create", "save"} => Served(Key(r)) = arg[r].body
    /\ stage[r] = "create" => RowsAt(Key(r)) = {}
    /\ stage[r] = "save" => \A row \in RowsAt(Key(r)) : row.id = held[r].id
    /\ stage[r] = "delete" => Served(Key(r)) = Absent

UniqueAt(k) == \A a, b \in RowsAt(k) : a = b

WriterAt(r, k) == Busy(r) /\ Key(r) = k

(* What holds at a key that nothing disturbed.  Of writers it has at most  *)
(* one, which knows the row it will replace; without one, the key mirrors. *)
KeyOK(k) ==
    /\ UniqueAt(k)
    /\ \A r \in Reqs : WriterAt(r, k) =>
          LagOK(r) /\ \A s \in Reqs : WriterAt(s, k) => s = r
    /\ k[1] \in handlers /\ Quiet(k) => Served(k) = Stored(k)

Base ==
    /\ TypeOK
    /\ TreesWellFormed
    /\ IdsOK
    /\ \A r \in Reqs : RequestOK(r)

Inv == Base /\ HoldingOK /\ \A k \in Keys \ disturbed : KeyOK(k)
=============================================================================
