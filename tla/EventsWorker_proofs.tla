------------------------ MODULE EventsWorker_proofs ------------------------
(***************************************************************************)
(* Proofs about the event cache, by itself and under the worker.           *)
(*                                                                         *)
(* CacheInv is inductive.  What makes it so is that the row a lookup finds *)
(* for an event of a user is found ever after (FoundStays), and that the   *)
(* rows of a user are written by nobody but those who sync that user.      *)
(***************************************************************************)
EXTENDS EventsWorker, UserTokens_proofs, SequenceTheorems, WellFoundedInduction

-----------------------------------------------------------------------------
(* Looking up rows.                                                        *)

(* The least of some numbers. *)
LEMMA LeastExists ==
    ASSUME NEW ids, ids \subseteq Nat, ids # {}
    PROVE  \E n \in ids : \A m \in ids : n <= m
<1>1. PICK n \in ids : \A m \in ids : <<m, n>> \notin OpToRel(<, Nat)
    BY NatLessThanWellFounded, WFMin
<1>2. ASSUME NEW m \in ids PROVE n <= m
  <2>1. m \in Nat /\ n \in Nat
    OBVIOUS
  <2>2. m < n => <<m, n>> \in OpToRel(<, Nat)
    BY <2>1 DEF OpToRel
  <2>3. ~(m < n)
    BY <1>1, <2>2
  <2> QED  BY <2>1, <2>3
<1> QED  BY <1>2

LEMMA FirstOf ==
    ASSUME NEW ids, ids \subseteq Nat \ {0}
    PROVE  /\ ids = {} => First(ids) = 0
           /\ ids # {} => First(ids) \in ids /\ \A m \in ids : First(ids) <= m
<1>1. ASSUME ids # {} PROVE Min(ids) \in ids /\ \A m \in ids : Min(ids) <= m
  <2>1. \E n \in ids : \A m \in ids : n <= m
    BY <1>1, LeastExists
  <2> QED  BY <2>1 DEF Min
<1> QED  BY <1>1 DEF First

LEMMA MaxOf ==
    ASSUME NEW S, S \subseteq Int, NEW m \in S, \A n \in S : n <= m
    PROVE  Max(S) = m
<1>1. m \in S /\ \A n \in S : m >= n
    OBVIOUS
<1>2. \A x \in S : (\A n \in S : x >= n) => x = m
    OBVIOUS
<1> QED  BY <1>1, <1>2 DEF Max

(* The rows of an event of a user. *)
Ids(p, e) == {i \in DOMAIN cache : cache[i].user = p /\ cache[i].payload.event = e}

LEMMA FoundIs ==
    ASSUME cache \in Seq(Row), NEW p, NEW e
    PROVE  /\ Found(p, e) = First(Ids(p, e))
           /\ Found(p, e) = 0 <=> Ids(p, e) = {}
           /\ Found(p, e) # 0 => /\ Found(p, e) \in Ids(p, e)
                                 /\ \A i \in Ids(p, e) : Found(p, e) <= i
<1>1. Ids(p, e) \subseteq Nat \ {0}
    BY LenProperties DEF Ids
<1>2. Found(p, e) = First(Ids(p, e))
  <2>1. {i \in RowsOf(p) : cache[i].payload.event = e} = Ids(p, e)
    BY DEF RowsOf, Ids
  <2> QED  BY <2>1 DEF Found
<1> QED  BY <1>1, <1>2, FirstOf

-----------------------------------------------------------------------------
(* The invariant.                                                          *)

OneVersion(versions) == \A v, w \in versions : v.event = w.event => v = w

(* What is found for v of p is v, of that time. *)
Mirrored(p, v, at) ==
    LET i == Found(p, v.event)
    IN i # 0 /\ cache[i].payload = v /\ cache[i].synced = at

Writing == {"find", "create", "save"}

(* What s has not written yet of what it was answered. *)
Pending(s) ==
    IF job[s].stage \in {"create", "save"} THEN job[s].todo \cup {job[s].cur}
    ELSE job[s].todo

SyncOK(s) ==
    LET j == job[s] IN
    /\ j.stage = "idle" => j.user = Nothing
    /\ j.stage # "idle" => j.user \in Profiles
    /\ OneVersion(j.got)
    /\ j.stage \in Writing =>
          /\ [user |-> j.user, events |-> j.got, at |-> j.at] \in answers
          /\ j.todo \subseteq j.got
          /\ j.at <= now
    /\ j.stage \in {"create", "save"} => j.cur \in j.got \ j.todo
    /\ j.stage = "save" => j.row # 0 /\ j.row = Found(j.user, j.cur.event)

(* A sync that has its user for itself. *)
AloneOK(s) ==
    LET j == job[s] IN
    j.stage # "idle" /\ j.alone =>
        /\ Busy(j.user) = {s}
        /\ j.stage \in Writing =>
              /\ \A v \in j.got \ Pending(s) : Mirrored(j.user, v, j.at)
              /\ \A i \in RowsOf(j.user) : cache[i].synced <= j.at
        /\ j.stage = "create" => Found(j.user, j.cur.event) = 0

UserOK(p) ==
    /\ OneVersion(spond[p])
    /\ lastSync[p] # Nothing => Busy(p) = {}
    /\ p \notin overlapped => \A s \in Busy(p) : job[s].alone

LastSyncs == {Nothing} \cup [got : SUBSET Version, at : Times]

CacheInv ==
    /\ now \in Times
    /\ CacheTypeOK
    /\ lastSync \in [Profiles -> LastSyncs]
    /\ \A s \in Syncs : SyncOK(s) /\ AloneOK(s)
    /\ \A p \in Profiles : UserOK(p)
    /\ \A i \in DOMAIN cache : cache[i].synced <= now
    /\ RowFromOneAnswer
    /\ CacheMirrorsLastSync
    /\ OneRowPerEvent

LEMMA InitCache == CacheAlone => CacheInv
<1> SUFFICES ASSUME CacheAlone PROVE CacheInv
    OBVIOUS
<1>1. /\ now = 0 /\ edits = 0 /\ cache = <<>> /\ answers = {} /\ overlapped = {}
      /\ spond = [p \in Profiles |-> [event : Published, version : {0}]]
      /\ job = [s \in Syncs |-> Idle]
      /\ lastSync = [p \in Profiles |-> Nothing]
    BY DEF CacheAlone, CacheInit
<1>2. now \in Times /\ lastSync \in [Profiles -> LastSyncs]
    BY <1>1, TimeAssumption DEF Times, LastSyncs
<1>3. CacheTypeOK
  <2>1. [event : Published, version : {0}] \subseteq Version
    BY CacheAssumption DEF Version
  <2>2. Idle \in Jobs /\ Idle.stage = "idle"
    BY TimeAssumption DEF Idle, Jobs, Times
  <2>3. cache \in Seq(Row)
    BY <1>1, EmptySeq
  <2> QED  BY <1>1, <2>1, <2>2, <2>3, CacheAssumption DEF CacheTypeOK
<1>4. \A s \in Syncs : SyncOK(s) /\ AloneOK(s)
    BY <1>1 DEF SyncOK, AloneOK, Idle, OneVersion, Writing
<1>5. \A p \in Profiles : UserOK(p)
    BY <1>1, ProfilesAssumption DEF UserOK, OneVersion, Version, Busy, Idle
<1>6. DOMAIN cache = {}
    BY <1>1
<1>7. RowFromOneAnswer /\ CacheMirrorsLastSync /\ OneRowPerEvent
    BY <1>1, <1>6 DEF RowFromOneAnswer, CacheMirrorsLastSync, OneRowPerEvent, RowsOf
<1> QED  BY <1>2, <1>3, <1>4, <1>5, <1>6, <1>7 DEF CacheInv

-----------------------------------------------------------------------------
(* Steps that write no row.                                                *)

LEMMA SameCache ==
    ASSUME UNCHANGED cache
    PROVE  /\ \A p, e : Found(p, e)' = Found(p, e)
           /\ \A p : RowsOf(p)' = RowsOf(p)
           /\ \A p, v, at : Mirrored(p, v, at)' <=> Mirrored(p, v, at)
           /\ \A p : LastSynced(p)' = LastSynced(p)
<1>1. \A p : RowsOf(p)' = RowsOf(p)
    BY DEF RowsOf
<1>2. \A p, e : Found(p, e)' = Found(p, e)
    BY <1>1 DEF Found
<1>3. \A p, v, at : Mirrored(p, v, at)' <=> Mirrored(p, v, at)
    BY <1>2 DEF Mirrored
<1>4. ASSUME NEW p PROVE LastSynced(p)' = LastSynced(p)
  <2>1. {cache'[i].synced : i \in RowsOf(p)'} = {cache[i].synced : i \in RowsOf(p)}
    BY <1>1
  <2> QED  BY <2>1 DEF LastSynced
<1> QED  BY <1>1, <1>2, <1>3, <1>4

LEMMA SameUsers ==
    ASSUME \A s \in Syncs : job'[s].user = job[s].user
    PROVE  \A p : Busy(p)' = Busy(p)
BY DEF Busy

(* Nobody works for a user while nobody is said to. *)
LEMMA BusyOf ==
    ASSUME CacheInv, NEW s \in Syncs, job[s].stage # "idle"
    PROVE  job[s].user \in Profiles /\ s \in Busy(job[s].user)
BY DEF CacheInv, SyncOK, Busy

(* The rows and the user of every other sync stay. *)
LEMMA OthersOK ==
    ASSUME CacheInv, UNCHANGED cache, now <= now', now' \in Times, answers \subseteq answers',
           NEW s \in Syncs, job[s].stage # "idle",
           \A t \in Syncs \ {s} : job'[t] = job[t],
           job'[s].user \in {job[s].user, Nothing}
    PROVE  \A t \in Syncs \ {s} : SyncOK(t)' /\ AloneOK(t)'
<1> SUFFICES ASSUME NEW t \in Syncs \ {s} PROVE SyncOK(t)' /\ AloneOK(t)'
    OBVIOUS
<1>1. job'[t] = job[t] /\ SyncOK(t) /\ AloneOK(t) /\ job[t] \in Jobs
    BY DEF CacheInv, CacheTypeOK
<1>2. now \in Int /\ now' \in Int /\ job[t].at \in Int
    BY <1>1, TimeAssumption DEF CacheInv, Times, Jobs
<1>3. SyncOK(t)'
  <2> DEFINE j == job[t]
  <2>1. j.at <= now => j.at <= now'
    BY <1>2
  <2>2. job'[t] = j /\ \A p, e : Found(p, e)' = Found(p, e)
    BY <1>1, SameCache
  <2>3. OneVersion(j.got)
    BY <1>1 DEF SyncOK
  <2> QED  BY <1>1, <2>1, <2>2 DEF SyncOK, OneVersion
<1>4. AloneOK(t)'
  <2>1. SUFFICES ASSUME job[t].stage # "idle", job[t].alone PROVE AloneOK(t)'
    BY <1>1 DEF AloneOK
  <2>2. Busy(job[t].user) = {t} /\ job[t].user \in Profiles
    BY <1>1, <2>1 DEF AloneOK, SyncOK
  <2>3. \A b \in Syncs : job'[b].user = job[t].user => job[b].user = job[t].user
    BY <2>2, ProfilesAssumption
  <2>4. {b \in Syncs : job'[b].user = job[t].user} = {t}
    BY <1>1, <2>2, <2>3 DEF Busy
  <2>5. Busy(job[t].user)' = {t}
    BY <1>1, <2>4 DEF Busy
  <2>6. Pending(t)' = Pending(t)
    BY <1>1 DEF Pending
  <2> QED  BY <1>1, <2>1, <2>5, <2>6, SameCache DEF AloneOK
<1> QED  BY <1>3, <1>4

(* s goes on with its user. *)
LEMMA MoveStep ==
    ASSUME CacheInv, NEW s \in Syncs, NEW j \in Jobs, job' = [job EXCEPT ![s] = j],
           job[s].stage # "idle", j.stage # "idle",
           j.user = job[s].user, j.alone = job[s].alone,
           UNCHANGED <<now, spond, edits, cache, overlapped, lastSync>>,
           answers \subseteq answers', answers' \subseteq Answer,
           j.stage = "save" => j.row \in DOMAIN cache,
           SyncOK(s)',
           Busy(j.user) = {s} => AloneOK(s)'
    PROVE  CacheInv'
<1>1. now \in Times /\ now <= now' /\ now' \in Times
    BY TimeAssumption DEF CacheInv, Times
<1>2. job'[s] = j /\ \A t \in Syncs \ {s} : job'[t] = job[t]
    BY DEF CacheInv, CacheTypeOK
<1>3. CacheTypeOK'
    BY <1>2 DEF CacheInv, CacheTypeOK
<1>4. \A p : Busy(p)' = Busy(p)
    BY <1>2, SameUsers
<1>5. AloneOK(s)'
  <2>1. CASE j.alone
    BY <2>1 DEF CacheInv, AloneOK
  <2>2. CASE ~j.alone
    BY <1>2, <2>2 DEF AloneOK
  <2> QED  BY <2>1, <2>2
<1>6. \A t \in Syncs \ {s} : SyncOK(t)' /\ AloneOK(t)'
    BY <1>1, <1>2, OthersOK
<1>7. \A p \in Profiles : UserOK(p)'
    BY <1>2, <1>4 DEF CacheInv, UserOK, Busy, OneVersion
<1>8. RowFromOneAnswer'
    BY DEF CacheInv, RowFromOneAnswer
<1>9. CacheMirrorsLastSync' /\ OneRowPerEvent'
    BY SameCache DEF CacheInv, CacheMirrorsLastSync, OneRowPerEvent
<1> QED  BY <1>1, <1>3, <1>5, <1>6, <1>7, <1>8, <1>9 DEF CacheInv

(* What Spond answers is some of what it has (FetchEvents). *)
LEMMA AnswersAreSubsets ==
    ASSUME NEW wanted, NEW got \in Answers(wanted)
    PROVE  got \subseteq wanted
BY DEF Answers, kSubset

LEMMA SpondAnswersStep ==
    ASSUME CacheInv, now' = now, NEW s \in Syncs, SpondAnswers(s)
    PROVE  CacheInv'
<1>0. PICK got \in SUBSET spond[job[s].user] :
          job' = [job EXCEPT ![s].stage = "stamp", ![s].got = got]
    BY AnswersAreSubsets DEF SpondAnswers
<1> DEFINE j == [job[s] EXCEPT !.stage = "stamp", !.got = got]
<1>1. /\ job[s].stage = "fetch" /\ job' = [job EXCEPT ![s] = j]
      /\ UNCHANGED <<now, spond, edits, cache, answers, overlapped, lastSync>>
    BY <1>0 DEF SpondAnswers, CacheInv, CacheTypeOK
<1>2. job[s] \in Jobs /\ job[s].user \in Profiles /\ SyncOK(s) /\ AloneOK(s)
    BY <1>1, BusyOf DEF CacheInv, CacheTypeOK
<1>3. /\ j \in Jobs /\ j.stage = "stamp" /\ j.user = job[s].user
      /\ j.alone = job[s].alone /\ j.got \subseteq spond[job[s].user]
    BY <1>2 DEF Jobs, CacheInv, CacheTypeOK
<1> HIDE DEF j
<1>4. job'[s] = j
    BY <1>1 DEF CacheInv, CacheTypeOK
<1>5. OneVersion(j.got)
    BY <1>2, <1>3 DEF CacheInv, UserOK, OneVersion
<1>6. SyncOK(s)'
    BY <1>2, <1>3, <1>4, <1>5 DEF SyncOK, Writing, OneVersion
<1>7. Busy(j.user) = {s} => AloneOK(s)'
  <2>1. \A t \in Syncs : job'[t].user = job[t].user
    BY <1>1, <1>3, <1>4 DEF CacheInv, CacheTypeOK
  <2> QED  BY <1>3, <1>4, <2>1, SameUsers DEF AloneOK, Writing
<1>8. answers' \subseteq Answer
    BY <1>1 DEF CacheInv, CacheTypeOK
<1> QED  BY <1>1, <1>3, <1>6, <1>7, <1>8, MoveStep

(* The time is taken: later than that of every row. *)
LEMMA StampStep ==
    ASSUME CacheInv, now' = now, NEW s \in Syncs, Stamp(s)
    PROVE  CacheInv'
<1>0. PICK j, a : /\ j = [job[s] EXCEPT !.stage = "find", !.at = now, !.todo = job[s].got]
                  /\ a = [user |-> job[s].user, events |-> job[s].got, at |-> now]
    OBVIOUS
<1>1. /\ job[s].stage = "stamp" /\ job' = [job EXCEPT ![s] = j]
      /\ answers' = answers \cup {a}
      /\ UNCHANGED <<now, spond, edits, cache, overlapped, lastSync>>
    BY <1>0 DEF Stamp, CacheInv, CacheTypeOK
<1>2. job[s] \in Jobs /\ job[s].user \in Profiles /\ SyncOK(s) /\ AloneOK(s) /\ now \in Times
    BY <1>1, BusyOf DEF CacheInv, CacheTypeOK
<1>3. /\ j \in Jobs /\ j.stage = "find" /\ j.user = job[s].user
      /\ j.alone = job[s].alone /\ j.got = job[s].got /\ j.todo = job[s].got /\ j.at = now
    BY <1>0, <1>2 DEF Jobs
<1>4. answers' \subseteq Answer /\ a \in answers'
    BY <1>0, <1>1, <1>2 DEF CacheInv, CacheTypeOK, Jobs, Answer
<1>5. a = [user |-> j.user, events |-> j.got, at |-> j.at]
    BY <1>0, <1>3
<1>6. now <= now
    BY <1>2, TimeAssumption DEF Times
<1>7. \A i \in RowsOf(j.user) : cache[i].synced <= j.at
    BY <1>3 DEF CacheInv, RowsOf
<1>8. job'[s] = j
    BY <1>1 DEF CacheInv, CacheTypeOK
<1>9. SyncOK(s)'
    BY <1>1, <1>2, <1>3, <1>4, <1>5, <1>6, <1>8 DEF SyncOK, Writing, OneVersion
<1>10. Busy(j.user) = {s} => AloneOK(s)'
  <2>1. \A t \in Syncs : job'[t].user = job[t].user
    BY <1>1, <1>3, <1>8 DEF CacheInv, CacheTypeOK
  <2>2. Pending(s)' = j.got
    BY <1>3, <1>8 DEF Pending
  <2>3. \A i \in RowsOf(j.user)' : cache'[i].synced <= j.at
    BY <1>1, <1>7, SameCache
  <2> QED  BY <1>3, <1>8, <2>1, <2>2, <2>3, SameUsers DEF AloneOK
<1> QED  BY <1>1, <1>3, <1>4, <1>9, <1>10, MoveStep

(* The next event is looked up. *)
LEMMA FindStep ==
    ASSUME CacheInv, now' = now, NEW s \in Syncs, UpsertEventFind(s)
    PROVE  CacheInv'
<1>1. PICK v \in job[s].todo :
         job' = [job EXCEPT
            ![s].stage = IF Found(job[s].user, v.event) = 0 THEN "create" ELSE "save",
            ![s].todo = job[s].todo \ {v}, ![s].cur = v,
            ![s].row = Found(job[s].user, v.event)]
    BY DEF UpsertEventFind, CacheInv, CacheTypeOK
<1>2. /\ job[s].stage = "find"
      /\ UNCHANGED <<now, spond, edits, cache, answers, overlapped, lastSync>>
    BY DEF UpsertEventFind
<1>3. job[s] \in Jobs /\ job[s].user \in Profiles /\ SyncOK(s) /\ AloneOK(s)
    BY <1>2, BusyOf DEF CacheInv, CacheTypeOK
<1>4. PICK p, n : p = job[s].user /\ n = Found(p, v.event)
    OBVIOUS
<1> DEFINE j == [job[s] EXCEPT !.stage = IF n = 0 THEN "create" ELSE "save",
                               !.todo = job[s].todo \ {v}, !.cur = v, !.row = n]
<1>5. job' = [job EXCEPT ![s] = j]
    BY <1>1, <1>4 DEF CacheInv, CacheTypeOK
<1>6. n \in Nat /\ (n # 0 => n \in DOMAIN cache)
  <2>1. cache \in Seq(Row) /\ DOMAIN cache \subseteq Nat
    BY LenProperties DEF CacheInv, CacheTypeOK
  <2>2. n # 0 => n \in DOMAIN cache
    BY <1>4, <2>1, FoundIs DEF Ids
  <2> QED  BY <2>1, <2>2
<1>7. v \in job[s].got /\ v \in Version
    BY <1>2, <1>3 DEF SyncOK, Writing, Jobs
<1>8. /\ j \in Jobs /\ j.stage = (IF n = 0 THEN "create" ELSE "save")
      /\ j.user = p /\ j.alone = job[s].alone /\ j.got = job[s].got /\ j.at = job[s].at
      /\ j.todo = job[s].todo \ {v} /\ j.cur = v /\ j.row = n
    BY <1>3, <1>4, <1>6, <1>7 DEF Jobs
<1> HIDE DEF j
<1>9. job'[s] = j
    BY <1>5 DEF CacheInv, CacheTypeOK
<1>10. Found(p, v.event)' = n
    BY <1>2, <1>4, SameCache
<1>11. SyncOK(s)'
    BY <1>2, <1>3, <1>4, <1>7, <1>8, <1>9, <1>10 DEF SyncOK, Writing, OneVersion
<1>12. Busy(j.user) = {s} => AloneOK(s)'
  <2>1. \A t \in Syncs : job'[t].user = job[t].user
    BY <1>4, <1>5, <1>8, <1>9 DEF CacheInv, CacheTypeOK
  <2>2. Pending(s)' = job[s].todo /\ Pending(s) = job[s].todo
    BY <1>1, <1>2, <1>8, <1>9 DEF Pending
  <2> QED  BY <1>2, <1>3, <1>4, <1>8, <1>9, <1>10, <2>1, <2>2, SameUsers, SameCache
           DEF AloneOK, Writing
<1>13. answers' \subseteq Answer
    BY <1>2 DEF CacheInv, CacheTypeOK
<1> QED  BY <1>2, <1>4, <1>5, <1>6, <1>8, <1>11, <1>12, <1>13, MoveStep

(* A sync is over, with what it tells of itself. *)
LEMMA EndStep ==
    ASSUME CacheInv, now' = now, NEW s \in Syncs, job[s].stage # "idle",
           job' = [job EXCEPT ![s] = Idle], NEW l \in LastSyncs,
           lastSync' = [lastSync EXCEPT ![job[s].user] = l],
           UNCHANGED <<spond, edits, cache, answers, overlapped>>,
           l # Nothing =>
              /\ Busy(job[s].user) = {s}
              /\ \A v \in l.got : Mirrored(job[s].user, v, l.at)
              /\ l.got # {} => LastSynced(job[s].user) = l.at
    PROVE  CacheInv'
<1>1. PICK p : p = job[s].user
    OBVIOUS
<1>2. p \in Profiles /\ s \in Busy(p)
    BY <1>1, BusyOf
<1>3. Idle \in Jobs /\ Idle.stage = "idle" /\ Idle.user = Nothing /\ Idle.got = {}
    BY TimeAssumption DEF Idle, Jobs, Times
<1>4. job'[s] = Idle /\ \A t \in Syncs \ {s} : job'[t] = job[t]
    BY DEF CacheInv, CacheTypeOK
<1>5. /\ lastSync' \in [Profiles -> LastSyncs] /\ lastSync'[p] = l
      /\ \A q \in Profiles \ {p} : lastSync'[q] = lastSync[q]
    BY <1>1, <1>2 DEF CacheInv
<1>6. now \in Times /\ now <= now' /\ now' \in Times
    BY TimeAssumption DEF CacheInv, Times
<1>7. CacheTypeOK'
  <2>1. \A q \in Profiles : lastSync'[q] # Nothing =>
           lastSync'[q].got \subseteq Version /\ lastSync'[q].at \in Times
    BY <1>5 DEF LastSyncs
  <2>2. \A t \in Syncs : job'[t].stage = "save" => job'[t].row \in DOMAIN cache
    BY <1>3, <1>4 DEF CacheInv, CacheTypeOK
  <2> QED  BY <1>3, <2>1, <2>2 DEF CacheInv, CacheTypeOK
<1>8. SyncOK(s)' /\ AloneOK(s)'
    BY <1>3, <1>4 DEF SyncOK, AloneOK, OneVersion, Writing
<1>9. \A t \in Syncs \ {s} : SyncOK(t)' /\ AloneOK(t)'
    BY <1>3, <1>4, <1>6, OthersOK
<1>10. \A q \in Profiles : Busy(q)' = Busy(q) \ {s}
    BY <1>3, <1>4, ProfilesAssumption DEF Busy
<1>11. ASSUME NEW q \in Profiles PROVE UserOK(q)'
  <2>1. UserOK(q)
    BY DEF CacheInv
  <2>2. lastSync'[q] # Nothing => Busy(q)' = {}
    BY <1>1, <1>5, <1>10, <2>1 DEF UserOK
  <2>3. q \notin overlapped => \A t \in Busy(q)' : job'[t].alone
    BY <1>4, <1>10, <2>1 DEF UserOK, Busy
  <2> QED  BY <2>1, <2>2, <2>3 DEF UserOK, OneVersion
<1>12. CacheMirrorsLastSync'
  <2> SUFFICES ASSUME NEW q \in Profiles, lastSync'[q] # Nothing
               PROVE  /\ \A v \in lastSync'[q].got : Mirrored(q, v, lastSync'[q].at)
                      /\ lastSync'[q].got # {} => LastSynced(q) = lastSync'[q].at
    BY SameCache DEF CacheMirrorsLastSync, Mirrored
  <2>1. CASE q = p
    BY <1>1, <1>5, <2>1
  <2>2. CASE q # p
    BY <1>5, <2>2 DEF CacheInv, CacheMirrorsLastSync, Mirrored
  <2> QED  BY <2>1, <2>2
<1>13. RowFromOneAnswer' /\ OneRowPerEvent'
    BY SameCache DEF CacheInv, RowFromOneAnswer, OneRowPerEvent
<1> QED  BY <1>5, <1>6, <1>7, <1>8, <1>9, <1>11, <1>12, <1>13 DEF CacheInv

LEMMA AbandonStep ==
    ASSUME CacheInv, now' = now, NEW s \in Syncs, job[s].stage # "idle", Abandon(s)
    PROVE  CacheInv'
BY EndStep DEF Abandon, LastSyncs

(* What s was answered is in the cache, if s was alone. *)
LEMMA SyncDoneStep ==
    ASSUME CacheInv, now' = now, NEW s \in Syncs, SyncDone(s)
    PROVE  CacheInv'
<1>1. PICK p, l :
         /\ p = job[s].user
         /\ l = IF job[s].alone THEN [got |-> job[s].got, at |-> job[s].at] ELSE Nothing
    OBVIOUS
<1>2. /\ job[s].stage = "find" /\ job[s].todo = {}
      /\ job' = [job EXCEPT ![s] = Idle] /\ lastSync' = [lastSync EXCEPT ![p] = l]
      /\ UNCHANGED <<spond, edits, cache, answers, overlapped>>
    BY <1>1 DEF SyncDone
<1>3. l \in LastSyncs
    BY <1>1 DEF LastSyncs, CacheInv, CacheTypeOK, Jobs
<1>4. SUFFICES ASSUME l # Nothing
               PROVE  /\ Busy(p) = {s}
                      /\ \A v \in l.got : Mirrored(p, v, l.at)
                      /\ l.got # {} => LastSynced(p) = l.at
    BY <1>1, <1>2, <1>3, EndStep
<1>5. job[s].alone /\ l.got = job[s].got /\ l.at = job[s].at
    BY <1>1, <1>4
<1>6. /\ Busy(p) = {s} /\ \A i \in RowsOf(p) : cache[i].synced <= l.at
      /\ \A v \in l.got : Mirrored(p, v, l.at)
    BY <1>1, <1>2, <1>5 DEF CacheInv, AloneOK, Pending, Writing
<1>7. ASSUME l.got # {} PROVE LastSynced(p) = l.at
  <2> DEFINE times == {-1} \cup {cache[i].synced : i \in RowsOf(p)}
  <2>1. PICK v \in l.got : TRUE
    BY <1>7
  <2>2. cache \in Seq(Row)
    BY DEF CacheInv, CacheTypeOK
  <2>3. Found(p, v.event) \in RowsOf(p) /\ cache[Found(p, v.event)].synced = l.at
    <3>1. Found(p, v.event) # 0 /\ cache[Found(p, v.event)].synced = l.at
      BY <1>6, <2>1 DEF Mirrored
    <3> QED  BY <2>2, <3>1, FoundIs DEF Ids, RowsOf
  <2>4. l.at \in times
    BY <2>3
  <2>5. \A i \in RowsOf(p) : cache[i].synced \in Nat
    <3>1. \A i \in RowsOf(p) : cache[i] \in Row
      BY <2>2, ElementOfSeq, LenProperties DEF RowsOf
    <3> QED  BY <3>1, TimeAssumption DEF Row, Times
  <2>6. l.at \in Nat /\ times \subseteq Int
    BY <2>3, <2>5
  <2>7. \A n \in times : n <= l.at
    BY <1>6, <2>6
  <2> HIDE DEF times
  <2>8. Max(times) = l.at
    BY <2>4, <2>6, <2>7, MaxOf
  <2> QED  BY <2>8 DEF LastSynced, times
<1> QED  BY <1>6, <1>7

(* s begins: nobody else may think to have its user alone. *)
LEMMA FetchStep ==
    ASSUME CacheInv, now' = now, NEW s \in Syncs, NEW p \in Profiles, Fetch(s, p)
    PROVE  CacheInv'
<1>1. PICK j : j = [Idle EXCEPT !.stage = "fetch", !.user = p, !.alone = Busy(p) = {}]
    OBVIOUS
<1>2. /\ job[s].stage = "idle"
      /\ job' = [b \in Syncs |-> IF b = s THEN j
                                 ELSE IF b \in Busy(p) THEN [job[b] EXCEPT !.alone = FALSE]
                                 ELSE job[b]]
      /\ overlapped' = IF Busy(p) = {} THEN overlapped ELSE overlapped \cup {p}
      /\ lastSync' = [lastSync EXCEPT ![p] = Nothing]
      /\ UNCHANGED <<spond, edits, cache, answers>>
    BY <1>1 DEF Fetch
<1>3. /\ j \in Jobs /\ j.stage = "fetch" /\ j.user = p /\ j.got = {}
      /\ j.alone <=> Busy(p) = {}
  <2>0. Idle \in Jobs
    BY TimeAssumption DEF Idle, Jobs, Times
  <2>1. CASE Busy(p) = {}
    <3>1. j = [Idle EXCEPT !.stage = "fetch", !.user = p, !.alone = TRUE]
      BY <1>1, <2>1
    <3>2. j.alone = TRUE
      BY <3>1 DEF Idle
    <3>3. j.stage = "fetch" /\ j.user = p /\ j.got = {}
      BY <3>1 DEF Idle
    <3>4. j \in Jobs
      BY <2>0, <3>1 DEF Jobs
    <3> QED  BY <2>1, <3>2, <3>3, <3>4
  <2>2. CASE Busy(p) # {}
    <3>1. j = [Idle EXCEPT !.stage = "fetch", !.user = p, !.alone = FALSE]
      BY <1>1, <2>2
    <3>2. j.alone = FALSE
      BY <3>1 DEF Idle
    <3>3. j.stage = "fetch" /\ j.user = p /\ j.got = {}
      BY <3>1 DEF Idle
    <3>4. j \in Jobs
      BY <2>0, <3>1 DEF Jobs
    <3> QED  BY <2>2, <3>2, <3>3, <3>4
  <2> QED  BY <2>1, <2>2
<1>4. job'[s] = j
    BY <1>2
<1>5. ASSUME NEW t \in Syncs \ {s}
      PROVE  /\ job'[t] \in Jobs
             /\ job'[t].stage = job[t].stage /\ job'[t].user = job[t].user
             /\ job'[t].got = job[t].got /\ job'[t].at = job[t].at
             /\ job'[t].todo = job[t].todo /\ job'[t].cur = job[t].cur
             /\ job'[t].row = job[t].row
             /\ job'[t].alone => job[t].alone /\ job[t].user # p
             /\ job[t].user # p => job'[t] = job[t]
  <2>1. job[t] \in Jobs
    BY DEF CacheInv, CacheTypeOK
  <2>2. CASE t \in Busy(p)
    <3>1. job'[t] = [job[t] EXCEPT !.alone = FALSE]
      BY <1>2, <2>2
    <3> QED  BY <2>1, <2>2, <3>1 DEF Jobs, Busy
  <2>3. CASE t \notin Busy(p)
    BY <1>2, <2>1, <2>3 DEF Busy
  <2> QED  BY <2>2, <2>3
<1>6. now \in Times /\ cache \in Seq(Row)
    BY DEF CacheInv, CacheTypeOK
<1>7. CacheTypeOK'
  <2>1. job' \in [Syncs -> Jobs]
    BY <1>2, <1>3, <1>4, <1>5
  <2>2. \A t \in Syncs : job'[t].stage = "save" => job'[t].row \in DOMAIN cache
    BY <1>3, <1>4, <1>5 DEF CacheInv, CacheTypeOK
  <2>3. overlapped' \subseteq Profiles
    BY <1>2 DEF CacheInv, CacheTypeOK
  <2>4. \A q \in Profiles : lastSync'[q] # Nothing => lastSync'[q] = lastSync[q]
    BY <1>2 DEF CacheInv
  <2> QED  BY <1>2, <2>1, <2>2, <2>3, <2>4 DEF CacheInv, CacheTypeOK
<1>8. \A q \in Profiles \ {p} : Busy(q)' = Busy(q)
  <2>1. job[s].user = Nothing
    BY <1>2 DEF CacheInv, SyncOK
  <2> QED  BY <1>3, <1>4, <1>5, <2>1, ProfilesAssumption DEF Busy
<1>9. Busy(p)' = Busy(p) \cup {s}
    BY <1>3, <1>4, <1>5 DEF Busy
<1>10. SyncOK(s)' /\ AloneOK(s)'
    BY <1>3, <1>4, <1>9 DEF SyncOK, AloneOK, OneVersion, Writing
<1>11. ASSUME NEW t \in Syncs \ {s} PROVE SyncOK(t)' /\ AloneOK(t)'
  <2>1. SyncOK(t) /\ AloneOK(t)
    BY DEF CacheInv
  <2>2. SyncOK(t)'
    <3>1. \A q, e : Found(q, e)' = Found(q, e)
      BY <1>2, SameCache
    <3> QED  BY <1>2, <1>5, <2>1, <3>1 DEF SyncOK, OneVersion
  <2>3. AloneOK(t)'
    <3>1. SUFFICES ASSUME job'[t].stage # "idle", job'[t].alone PROVE AloneOK(t)'
      BY DEF AloneOK
    <3>2. job'[t] = job[t] /\ job[t].user \in Profiles \ {p}
      BY <1>5, <2>1, <3>1 DEF SyncOK
    <3>3. Busy(job[t].user)' = Busy(job[t].user) /\ Pending(t)' = Pending(t)
      BY <1>8, <3>2 DEF Pending
    <3> QED  BY <1>2, <2>1, <3>2, <3>3, SameCache DEF AloneOK
  <2> QED  BY <2>2, <2>3
<1>12. ASSUME NEW q \in Profiles PROVE UserOK(q)'
  <2>1. UserOK(q)
    BY DEF CacheInv
  <2>2. CASE q = p
    <3>1. lastSync'[q] = Nothing
      BY <1>2, <2>2 DEF CacheInv
    <3>2. p \notin overlapped' => Busy(p) = {}
      BY <1>2
    <3> QED  BY <1>2, <1>3, <1>4, <1>9, <2>1, <2>2, <3>1, <3>2 DEF UserOK, OneVersion
  <2>3. CASE q # p
    <3>1. lastSync'[q] = lastSync[q] /\ (q \in overlapped => q \in overlapped')
      BY <1>2, <2>3 DEF CacheInv
    <3>2. \A t \in Busy(q) : job'[t] = job[t]
      <4>1. job[s].user = Nothing /\ Nothing \notin Profiles
        BY <1>2, ProfilesAssumption DEF CacheInv, SyncOK
      <4>2. \A t \in Busy(q) : t \in Syncs \ {s} /\ job[t].user # p
        BY <2>3, <4>1 DEF Busy
      <4> QED  BY <1>5, <4>2
    <3> QED  BY <1>2, <1>8, <2>1, <2>3, <3>1, <3>2 DEF UserOK, OneVersion
  <2> QED  BY <2>2, <2>3
<1>13. CacheMirrorsLastSync'
    BY <1>2, SameCache DEF CacheInv, CacheMirrorsLastSync
<1>14. RowFromOneAnswer' /\ OneRowPerEvent'
  <2>1. overlapped \subseteq overlapped'
    BY <1>2
  <2> QED  BY <1>2, <2>1, SameCache DEF CacheInv, RowFromOneAnswer, OneRowPerEvent
<1>15. lastSync' \in [Profiles -> LastSyncs]
    BY <1>2 DEF CacheInv, LastSyncs
<1> QED  BY <1>2, <1>6, <1>7, <1>10, <1>11, <1>12, <1>13, <1>14, <1>15 DEF CacheInv

-----------------------------------------------------------------------------
(* Steps that write a row.                                                 *)

(* s writes its event into row k, which it found or which is new. *)
Writes(s, k) ==
    /\ job[s].stage \in {"create", "save"}
    /\ k \in Nat \ {0}
    /\ cache' \in Seq(Row)
    /\ DOMAIN cache' = DOMAIN cache \cup {k}
    /\ cache'[k] = NewRow(s)
    /\ \A i \in DOMAIN cache \ {k} : cache'[i] = cache[i]
    /\ IF k \in DOMAIN cache
       THEN k = Found(job[s].user, job[s].cur.event)
       ELSE job[s].stage = "create" /\ \A i \in DOMAIN cache : i < k

(* The row of an event is found ever after, whoever writes. *)
LEMMA FoundStays ==
    ASSUME cache \in Seq(Row), NEW s \in Syncs, NEW k, Writes(s, k),
           NEW p, p = job[s].user, NEW c, c = job[s].cur
    PROVE  /\ \A q, e : Ids(q, e)' = IF q = p /\ e = c.event THEN Ids(q, e) \cup {k}
                                     ELSE Ids(q, e)
           /\ \A q, e : Found(q, e) # 0 \/ q # p \/ e # c.event =>
                 Found(q, e)' = Found(q, e)
           /\ Found(p, c.event) = 0 => Found(p, c.event)' = k
           /\ k \in DOMAIN cache => Found(p, c.event) = k /\ k \in Ids(p, c.event)
<1>1. NewRow(s).user = p /\ NewRow(s).payload = c
    BY DEF NewRow
<1>2. k \in DOMAIN cache => Found(p, c.event) = k /\ k \in Ids(p, c.event)
  <2>1. SUFFICES ASSUME k \in DOMAIN cache
                 PROVE  Found(p, c.event) = k /\ k \in Ids(p, c.event)
    OBVIOUS
  <2>2. Found(p, c.event) = k /\ k # 0
    BY <2>1 DEF Writes
  <2> QED  BY <2>2, FoundIs
<1>3. ASSUME NEW q, NEW e
      PROVE  Ids(q, e)' = IF q = p /\ e = c.event THEN Ids(q, e) \cup {k} ELSE Ids(q, e)
  <2>1. \A i : i \in Ids(q, e)' <=> i \in DOMAIN cache' /\ cache'[i].user = q
                                    /\ cache'[i].payload.event = e
    BY DEF Ids
  <2>2. k \in Ids(q, e)' <=> q = p /\ e = c.event
    BY <1>1, <2>1 DEF Writes
  <2>3. \A i : i # k => (i \in Ids(q, e)' <=> i \in Ids(q, e))
    BY <2>1 DEF Ids, Writes
  <2>4. k \in Ids(q, e) => q = p /\ e = c.event
    BY <1>2 DEF Ids
  <2>5. CASE q = p /\ e = c.event
    BY <2>2, <2>3, <2>5
  <2>6. CASE ~(q = p /\ e = c.event)
    <3>1. k \notin Ids(q, e) /\ ~(k \in Ids(q, e)')
      BY <2>2, <2>4, <2>6
    <3>2. \A i : i \in Ids(q, e)' <=> i \in Ids(q, e)
      BY <2>3, <3>1
    <3>3. Ids(q, e)' = Ids(q, e)
      BY <3>2
    <3> QED  BY <2>6, <3>3
  <2> QED  BY <2>5, <2>6
<1>4. ASSUME NEW q, NEW e
      PROVE  /\ Found(q, e)' = First(Ids(q, e)') /\ Found(q, e) = First(Ids(q, e))
             /\ Ids(q, e)' \subseteq Nat \ {0}
  <2>1. cache' \in Seq(Row) /\ DOMAIN cache' \subseteq Nat \ {0}
    BY LenProperties DEF Writes
  <2>2. {i \in RowsOf(q)' : cache'[i].payload.event = e} = Ids(q, e)'
    BY DEF RowsOf, Ids
  <2>3. Found(q, e)' = First(Ids(q, e)')
    BY <2>2 DEF Found
  <2> QED  BY <2>1, <2>3, FoundIs DEF Ids
<1>5. ASSUME NEW q, NEW e, q # p \/ e # c.event
      PROVE  Found(q, e)' = Found(q, e)
    BY <1>3, <1>4, <1>5
<1>6. ASSUME Found(p, c.event) # 0
      PROVE  Found(p, c.event)' = Found(p, c.event)
  <2> DEFINE old == Ids(p, c.event)
             n == Found(p, c.event)
  <2>1. n \in old /\ \A i \in old : n <= i
    BY <1>6, FoundIs
  <2>2. Ids(p, c.event)' = old \cup {k}
    BY <1>3
  <2>3. n <= k /\ n \in Nat
    <3>1. DOMAIN cache \subseteq Nat
      BY LenProperties
    <3>2. CASE k \in DOMAIN cache
      BY <1>2, <2>1, <3>1, <3>2 DEF Ids
    <3>3. CASE k \notin DOMAIN cache
      BY <2>1, <3>1, <3>3 DEF Writes, Ids
    <3> QED  BY <3>2, <3>3
  <2> HIDE DEF n, old
  <2>4. PICK m : m = First(old \cup {k})
    OBVIOUS
  <2>5. m \in old \cup {k} /\ \A i \in old \cup {k} : m <= i
    BY <1>4, <2>2, <2>4, FirstOf
  <2>6. m \in Nat
    BY <1>4, <2>2, <2>5
  <2>7. m <= n /\ n <= m
    BY <2>1, <2>3, <2>5
  <2>8. m = n
    BY <2>3, <2>6, <2>7
  <2> QED  BY <1>4, <2>2, <2>4, <2>8 DEF n
<1>7. ASSUME Found(p, c.event) = 0
      PROVE  Found(p, c.event)' = k
  <2>1. Ids(p, c.event)' = {k}
    BY <1>3, <1>7, FoundIs
  <2> QED  BY <1>4, <2>1, FirstOf
<1> QED  BY <1>2, <1>3, <1>5, <1>6, <1>7

LEMMA WriteStep ==
    ASSUME CacheInv, now' = now, NEW s \in Syncs, NEW k, Writes(s, k), Written(s),
           UNCHANGED <<spond, edits, answers, overlapped, lastSync>>
    PROVE  CacheInv'
<1>1. PICK p, c, at, got, todo :
         /\ p = job[s].user /\ c = job[s].cur /\ at = job[s].at
         /\ got = job[s].got /\ todo = job[s].todo
    OBVIOUS
<1>2. PICK j : j = [job[s] EXCEPT !.stage = "find", !.cur = Nothing, !.row = 0]
    OBVIOUS
<1>3. job[s] \in Jobs /\ SyncOK(s) /\ AloneOK(s) /\ job[s].stage \in {"create", "save"}
    BY DEF CacheInv, CacheTypeOK, Writes
<1>4. /\ j \in Jobs /\ j.stage = "find" /\ j.user = p /\ j.at = at /\ j.got = got
      /\ j.todo = todo /\ j.alone = job[s].alone
    BY <1>1, <1>2, <1>3 DEF Jobs
<1>5. job'[s] = j /\ \A t \in Syncs \ {s} : job'[t] = job[t]
    BY <1>2 DEF Written, CacheInv, CacheTypeOK
<1>6. /\ p \in Profiles /\ c \in got \ todo /\ todo \subseteq got /\ OneVersion(got)
      /\ [user |-> p, events |-> got, at |-> at] \in answers /\ at <= now
    BY <1>1, <1>3 DEF SyncOK, Writing
<1>7. NewRow(s) = [user |-> p, payload |-> c, synced |-> at]
    BY <1>1 DEF NewRow
<1>8. /\ k \in DOMAIN cache' /\ cache'[k].user = p /\ cache'[k].payload = c
      /\ cache'[k].synced = at
      /\ \A i \in DOMAIN cache' : i # k => i \in DOMAIN cache /\ cache'[i] = cache[i]
    BY <1>7 DEF Writes
<1>9. cache \in Seq(Row) /\ cache' \in Seq(Row)
    BY DEF CacheInv, CacheTypeOK, Writes
<1>10. /\ \A q, e : Ids(q, e)' = IF q = p /\ e = c.event THEN Ids(q, e) \cup {k}
                                 ELSE Ids(q, e)
       /\ \A q, e : Found(q, e) # 0 \/ q # p \/ e # c.event =>
             Found(q, e)' = Found(q, e)
       /\ Found(p, c.event) = 0 => Found(p, c.event)' = k
       /\ k \in DOMAIN cache => Found(p, c.event) = k /\ k \in Ids(p, c.event)
    BY <1>1, <1>9, FoundStays
<1>11. \A q : q # p => RowsOf(q)' = RowsOf(q) /\ k \notin RowsOf(q)
  <2>1. k \in DOMAIN cache => cache[k].user = p
    BY <1>10 DEF Ids
  <2> QED  BY <1>8, <2>1 DEF RowsOf, Writes
<1>12. \A q, e : q # p => Found(q, e)' = Found(q, e)
    BY <1>10
<1>13. \A q, v, t : q # p /\ Mirrored(q, v, t) => Mirrored(q, v, t)'
  <2> SUFFICES ASSUME NEW q, NEW v, NEW t, q # p, Mirrored(q, v, t)
               PROVE  Mirrored(q, v, t)'
    OBVIOUS
  <2>1. PICK i : i = Found(q, v.event)
    OBVIOUS
  <2>2. i # 0 /\ i \in RowsOf(q) /\ cache[i].payload = v /\ cache[i].synced = t
    BY <1>9, <2>1, FoundIs DEF Mirrored, Ids, RowsOf
  <2>3. cache'[i] = cache[i] /\ Found(q, v.event)' = i
    BY <1>8, <1>11, <1>12, <2>1, <2>2 DEF RowsOf, Writes
  <2> QED  BY <2>2, <2>3 DEF Mirrored
<1>14. \A q : Busy(q)' = Busy(q)
  <2>1. \A t \in Syncs : job'[t].user = job[t].user
    BY <1>1, <1>4, <1>5
  <2> QED  BY <2>1, SameUsers
<1>15. CacheTypeOK'
  <2>1. \A t \in Syncs : job'[t].stage = "save" => job'[t].row \in DOMAIN cache'
    BY <1>4, <1>5 DEF CacheInv, CacheTypeOK, Writes
  <2>2. job' \in [Syncs -> Jobs]
    BY <1>4, <1>5 DEF Written, CacheInv, CacheTypeOK
  <2> QED  BY <1>9, <2>1, <2>2 DEF CacheInv, CacheTypeOK
<1>16. SyncOK(s)'
    BY <1>4, <1>5, <1>6 DEF SyncOK, OneVersion, Writing
<1>17. AloneOK(s)'
  <2> SUFFICES ASSUME j.alone PROVE AloneOK(s)'
    BY <1>5 DEF AloneOK
  <2>1. /\ Busy(p) = {s} /\ \A v \in got \ (todo \cup {c}) : Mirrored(p, v, at)
        /\ \A i \in RowsOf(p) : cache[i].synced <= at
        /\ job[s].stage = "create" => Found(p, c.event) = 0
    BY <1>1, <1>3, <1>4 DEF AloneOK, Pending, Writing
  <2>2. Found(p, c.event)' = k /\ k # 0
    BY <1>10, <2>1 DEF Writes
  <2>3. Mirrored(p, c, at)'
    BY <1>8, <2>2 DEF Mirrored
  <2>4. ASSUME NEW v \in got \ (todo \cup {c}) PROVE Mirrored(p, v, at)'
    <3>1. v.event # c.event
      BY <1>6 DEF OneVersion
    <3>2. PICK i : i = Found(p, v.event)
      OBVIOUS
    <3>3. /\ i # 0 /\ i \in Ids(p, v.event) /\ cache[i].payload = v /\ cache[i].synced = at
      BY <1>9, <2>1, <3>2, FoundIs DEF Mirrored
    <3>4. i # k
      BY <1>10, <3>1, <3>3 DEF Ids
    <3>5. cache'[i] = cache[i] /\ Found(p, v.event)' = i
      BY <1>10, <3>1, <3>2, <3>3, <3>4 DEF Writes, Ids
    <3> QED  BY <3>3, <3>5 DEF Mirrored
  <2>5. \A i \in RowsOf(p)' : cache'[i].synced <= at
    <3>1. at <= at
      BY <1>1, <1>3, TimeAssumption DEF Jobs, Times
    <3> QED  BY <1>8, <2>1, <3>1 DEF RowsOf
  <2>6. Pending(s)' = todo
    BY <1>4, <1>5 DEF Pending
  <2> QED  BY <1>4, <1>5, <1>14, <2>1, <2>3, <2>4, <2>5, <2>6 DEF AloneOK, Writing
<1>18. ASSUME NEW t \in Syncs \ {s} PROVE SyncOK(t)' /\ AloneOK(t)'
  <2>1. SyncOK(t) /\ AloneOK(t) /\ job'[t] = job[t]
    BY <1>5 DEF CacheInv
  <2>2. SyncOK(t)'
    BY <1>10, <2>1 DEF SyncOK, OneVersion
  <2>3. SUFFICES ASSUME job[t].stage # "idle", job[t].alone PROVE AloneOK(t)'
    BY <2>1, <2>2 DEF AloneOK
  <2>4. job[t].user # p /\ Busy(job[t].user)' = {t}
    BY <1>1, <1>3, <1>14, <2>1, <2>3, BusyOf DEF AloneOK
  <2>5. PICK q : q = job[t].user
    OBVIOUS
  <2>6. Pending(t)' = Pending(t)
    BY <2>1 DEF Pending
  <2>7. \A i \in RowsOf(q)' : i \in RowsOf(q) /\ cache'[i] = cache[i]
    BY <1>8, <1>11, <2>4, <2>5 DEF RowsOf
  <2> QED  BY <1>12, <1>13, <2>1, <2>2, <2>3, <2>4, <2>5, <2>6, <2>7 DEF AloneOK
<1>19. \A q \in Profiles : UserOK(q)'
    BY <1>1, <1>4, <1>5, <1>14 DEF CacheInv, UserOK, Busy, OneVersion
<1>20. \A i \in DOMAIN cache' : cache'[i].synced <= now'
    BY <1>6, <1>8 DEF CacheInv
<1>21. RowFromOneAnswer'
  <2>1. \A i \in DOMAIN cache' : i # k =>
           \E a \in answers : /\ a.user = cache'[i].user /\ cache'[i].payload \in a.events
                              /\ a.at = cache'[i].synced
    BY <1>8 DEF CacheInv, RowFromOneAnswer
  <2>2. \E a \in answers : /\ a.user = cache'[k].user /\ cache'[k].payload \in a.events
                           /\ a.at = cache'[k].synced
    BY <1>6, <1>8
  <2> QED  BY <2>1, <2>2 DEF RowFromOneAnswer
<1>22. CacheMirrorsLastSync'
  <2> SUFFICES ASSUME NEW q \in Profiles, lastSync[q] # Nothing
               PROVE  /\ \A v \in lastSync[q].got : Mirrored(q, v, lastSync[q].at)'
                      /\ lastSync[q].got # {} => LastSynced(q)' = lastSync[q].at
    BY DEF CacheMirrorsLastSync, Mirrored
  <2>1. q # p
    BY <1>1, <1>3, BusyOf DEF CacheInv, UserOK
  <2>2. \A v \in lastSync[q].got : Mirrored(q, v, lastSync[q].at)
    BY DEF CacheInv, CacheMirrorsLastSync, Mirrored
  <2>3. \A v \in lastSync[q].got : Mirrored(q, v, lastSync[q].at)'
    BY <1>13, <2>1, <2>2
  <2>4. LastSynced(q)' = LastSynced(q)
    <3>1. RowsOf(q)' = RowsOf(q) /\ \A i \in RowsOf(q) : cache'[i] = cache[i]
      BY <1>8, <1>11, <2>1 DEF RowsOf, Writes
    <3>2. {cache'[i].synced : i \in RowsOf(q)'} = {cache[i].synced : i \in RowsOf(q)}
      BY <3>1
    <3> QED  BY <3>2 DEF LastSynced
  <2> QED  BY <2>3, <2>4 DEF CacheInv, CacheMirrorsLastSync
<1>23. OneRowPerEvent'
  <2> SUFFICES ASSUME NEW q \in Profiles \ overlapped, NEW e, NEW m \in Ids(q, e)',
                      NEW n \in Ids(q, e)'
               PROVE  m = n
    BY DEF OneRowPerEvent, RowsOf, Ids
  <2>1. m \in Ids(q, e) /\ n \in Ids(q, e) => m = n
    BY DEF CacheInv, OneRowPerEvent, RowsOf, Ids
  <2>2. CASE q = p /\ e = c.event
    <3>1. job[s].alone
      BY <1>1, <1>3, <2>2, BusyOf DEF CacheInv, UserOK
    <3>2. job[s].stage = "create" => Ids(p, c.event) = {}
      BY <1>1, <1>3, <1>9, <3>1, FoundIs DEF AloneOK
    <3>3. Ids(p, c.event) = {} \/ k \in Ids(p, c.event)
      BY <1>10, <3>2 DEF Writes
    <3>4. Ids(q, e)' = Ids(p, c.event) \cup {k}
      BY <1>10, <2>2
    <3> QED  BY <2>1, <2>2, <3>3, <3>4
  <2>3. CASE ~(q = p /\ e = c.event)
    BY <1>10, <2>1, <2>3
  <2> QED  BY <2>2, <2>3
<1> QED  BY <1>15, <1>16, <1>17, <1>18, <1>19, <1>20, <1>21, <1>22, <1>23 DEF CacheInv

LEMMA CreateStep ==
    ASSUME CacheInv, now' = now, NEW s \in Syncs, UpsertEventCreate(s)
    PROVE  CacheInv'
<1>1. /\ job[s].stage = "create" /\ cache' = Append(cache, NewRow(s)) /\ Written(s)
      /\ UNCHANGED <<spond, edits, answers, overlapped, lastSync>>
    BY DEF UpsertEventCreate
<1>2. cache \in Seq(Row) /\ Len(cache) \in Nat /\ DOMAIN cache = 1..Len(cache)
    BY LenProperties DEF CacheInv, CacheTypeOK
<1>3. NewRow(s) \in Row
    BY <1>1 DEF NewRow, Row, CacheInv, CacheTypeOK, Jobs, SyncOK
<1>4. PICK k : k = Len(cache) + 1
    OBVIOUS
<1>5. /\ cache' \in Seq(Row) /\ Len(cache') = k /\ DOMAIN cache' = 1..k
      /\ cache'[k] = NewRow(s) /\ \A i \in 1..Len(cache) : cache'[i] = cache[i]
    BY <1>1, <1>2, <1>3, <1>4, LenProperties
<1>6. Writes(s, k)
    BY <1>1, <1>2, <1>4, <1>5 DEF Writes
<1> QED  BY <1>1, <1>6, WriteStep

LEMMA SaveStep ==
    ASSUME CacheInv, now' = now, NEW s \in Syncs, UpsertEventSave(s)
    PROVE  CacheInv'
<1>1. /\ job[s].stage = "save" /\ cache' = [cache EXCEPT ![job[s].row] = NewRow(s)]
      /\ Written(s) /\ UNCHANGED <<spond, edits, answers, overlapped, lastSync>>
    BY DEF UpsertEventSave
<1>2. cache \in Seq(Row) /\ Len(cache) \in Nat /\ DOMAIN cache = 1..Len(cache)
    BY LenProperties DEF CacheInv, CacheTypeOK
<1>3. NewRow(s) \in Row
    BY <1>1 DEF NewRow, Row, CacheInv, CacheTypeOK, Jobs, SyncOK
<1>4. PICK k : k = job[s].row
    OBVIOUS
<1>5. k \in 1..Len(cache) /\ k = Found(job[s].user, job[s].cur.event)
    BY <1>1, <1>2, <1>4 DEF CacheInv, CacheTypeOK, SyncOK
<1>6. /\ cache' \in Seq(Row) /\ Len(cache') = Len(cache)
      /\ \A i \in 1..Len(cache) : cache'[i] = IF i = k THEN NewRow(s) ELSE cache[i]
    BY <1>1, <1>2, <1>3, <1>4, <1>5, ExceptSeq
<1>7. DOMAIN cache' = DOMAIN cache
    BY <1>2, <1>6, LenProperties
<1>8. Writes(s, k)
    BY <1>1, <1>2, <1>5, <1>6, <1>7 DEF Writes
<1> QED  BY <1>1, <1>8, WriteStep

-----------------------------------------------------------------------------
(* The rest. *)

LEMMA SpondChangesStep ==
    ASSUME CacheInv, now' = now, SpondChanges
    PROVE  CacheInv'
<1>1. /\ edits < MaxEdits /\ edits' = edits + 1
      /\ UNCHANGED <<cache, job, answers, overlapped, lastSync>>
    BY DEF SpondChanges
<1>2. PICK p \in Profiles, e \in Events :
         LET others == {v \in spond[p] : v.event # e}
         IN \/ spond' = [spond EXCEPT ![p] = others \cup {[event |-> e, version |-> edits']}]
            \/ others # spond[p] /\ spond' = [spond EXCEPT ![p] = others]
    BY DEF SpondChanges
<1>3. edits' \in 0..MaxEdits
    BY <1>1, CacheAssumption DEF CacheInv, CacheTypeOK
<1>4. PICK versions :
         /\ spond' = [spond EXCEPT ![p] = versions]
         /\ \A v \in versions : (v \in spond[p] /\ v.event # e)
                                \/ v = [event |-> e, version |-> edits']
    BY <1>2
<1>5. spond \in [Profiles -> SUBSET Version] /\ OneVersion(spond[p])
    BY DEF CacheInv, CacheTypeOK, UserOK
<1>6. versions \subseteq Version /\ OneVersion(versions)
    BY <1>3, <1>4, <1>5 DEF Version, OneVersion
<1>7. CacheTypeOK'
    BY <1>1, <1>3, <1>4, <1>5, <1>6 DEF CacheInv, CacheTypeOK
<1>8. \A q \in Profiles : UserOK(q)'
    BY <1>1, <1>4, <1>5, <1>6 DEF CacheInv, UserOK, Busy, OneVersion
<1>9. \A s \in Syncs : SyncOK(s)' /\ AloneOK(s)'
  <2>1. \A s \in Syncs : SyncOK(s)'
    BY <1>1, SameCache DEF CacheInv, SyncOK, OneVersion
  <2>2. \A q : Busy(q)' = Busy(q)
    BY <1>1 DEF Busy
  <2>3. \A s \in Syncs : Pending(s)' = Pending(s)
    BY <1>1 DEF Pending
  <2> QED  BY <1>1, <2>1, <2>2, <2>3, SameCache DEF CacheInv, AloneOK
<1>10. RowFromOneAnswer' /\ CacheMirrorsLastSync' /\ OneRowPerEvent'
    BY <1>1, SameCache DEF CacheInv, RowFromOneAnswer, CacheMirrorsLastSync, OneRowPerEvent
<1> QED  BY <1>1, <1>7, <1>8, <1>9, <1>10 DEF CacheInv

(* Time passes, or nothing happens. *)
LEMMA CacheFrame ==
    ASSUME CacheInv, now' \in Times, now <= now', UNCHANGED cacheVars
    PROVE  CacheInv'
<1>1. UNCHANGED <<spond, edits, cache, job, answers, overlapped, lastSync>>
    BY DEF cacheVars
<1>2. now \in Int /\ now' \in Int /\ cache \in Seq(Row)
    BY TimeAssumption DEF CacheInv, CacheTypeOK, Times
<1>3. CacheTypeOK' /\ \A q \in Profiles : UserOK(q)'
    BY <1>1 DEF CacheInv, CacheTypeOK, UserOK, Busy, OneVersion
<1>4. ASSUME NEW s \in Syncs PROVE SyncOK(s)' /\ AloneOK(s)'
  <2>1. SyncOK(s) /\ AloneOK(s) /\ job[s].at \in Int
    BY TimeAssumption DEF CacheInv, CacheTypeOK, Jobs, Times
  <2>2. job[s].at <= now => job[s].at <= now'
    BY <1>2, <2>1
  <2>3. SyncOK(s)'
    BY <1>1, <2>1, <2>2, SameCache DEF SyncOK, OneVersion
  <2>4. (\A q : Busy(q)' = Busy(q)) /\ Pending(s)' = Pending(s)
    BY <1>1 DEF Busy, Pending
  <2> QED  BY <1>1, <2>1, <2>3, <2>4, SameCache DEF AloneOK
<1>5. ASSUME NEW i \in DOMAIN cache PROVE cache[i].synced <= now'
  <2>1. cache[i].synced \in Int
    <3>1. cache[i] \in Row
      BY <1>2, ElementOfSeq, LenProperties
    <3> QED  BY <3>1, TimeAssumption DEF Row, Times
  <2> QED  BY <1>2, <2>1 DEF CacheInv
<1>6. RowFromOneAnswer' /\ CacheMirrorsLastSync' /\ OneRowPerEvent'
    BY <1>1, SameCache DEF CacheInv, RowFromOneAnswer, CacheMirrorsLastSync, OneRowPerEvent
<1> QED  BY <1>1, <1>3, <1>4, <1>5, <1>6 DEF CacheInv

LEMMA UpsertStep ==
    ASSUME CacheInv, now' = now, NEW s \in Syncs, Upsert(s)
    PROVE  CacheInv'
BY FindStep, CreateStep, SaveStep DEF Upsert

LEMMA LaterTick ==
    ASSUME now \in Times, Tick
    PROVE  now' \in Times /\ now <= now'
BY TimeAssumption DEF Tick, Times

LEMMA CacheSafe == CacheSpec => []CacheInv
<1>1. CacheInv /\ [CacheStep]_<<now, cacheVars>> => CacheInv'
  <2> SUFFICES ASSUME CacheInv, [CacheStep]_<<now, cacheVars>> PROVE CacheInv'
    OBVIOUS
  <2>1. now \in Times /\ now <= now
    BY TimeAssumption DEF CacheInv, Times
  <2>2. CASE CacheNext /\ now' = now
    <3>1. CASE SpondChanges
      BY <2>2, <3>1, SpondChangesStep
    <3>2. ASSUME NEW s \in Syncs, NEW p \in Profiles, Fetch(s, p) PROVE CacheInv'
      BY <2>2, <3>2, FetchStep
    <3>3. ASSUME NEW s \in Syncs, SpondAnswers(s) \/ Stamp(s) \/ Upsert(s) PROVE CacheInv'
      BY <2>2, <3>3, SpondAnswersStep, StampStep, UpsertStep
    <3>4. ASSUME NEW s \in Syncs, SyncDone(s) PROVE CacheInv'
      BY <2>2, <3>4, SyncDoneStep
    <3>5. ASSUME NEW s \in Syncs, SyncFails(s) PROVE CacheInv'
      BY <2>2, <3>5, AbandonStep DEF SyncFails
    <3> QED  BY <2>2, <3>1, <3>2, <3>3, <3>4, <3>5 DEF CacheNext
  <2>3. CASE Tick /\ UNCHANGED cacheVars
    BY <2>1, <2>3, LaterTick, CacheFrame
  <2>4. CASE UNCHANGED <<now, cacheVars>>
    BY <2>1, <2>4, CacheFrame
  <2> QED  BY <2>2, <2>3, <2>4 DEF CacheStep
<1> QED  BY InitCache, <1>1, PTL DEF CacheSpec

(* Each row holds what one answer of Spond to that very user said, with the *)
(* time of that answer (UpsertUserEvents).                                  *)
THEOREM RowsFromOneAnswer == CacheSpec => []RowFromOneAnswer
<1>1. CacheInv => RowFromOneAnswer
    BY DEF CacheInv
<1> QED  BY CacheSafe, <1>1, PTL

(* After a sync that ended well and alone the cache has what it fetched,    *)
(* and the time shown is its time (UpsertUserEvents, LastSyncedAtByUserID). *)
THEOREM LastSyncIsMirrored == CacheSpec => []CacheMirrorsLastSync
<1>1. CacheInv => CacheMirrorsLastSync
    BY DEF CacheInv
<1> QED  BY CacheSafe, <1>1, PTL

(* A user no two syncs of whom overlapped has one row per event             *)
(* (UpsertUserEvents).                                                      *)
THEOREM RowsAreUnique == CacheSpec => []OneRowPerEvent
<1>1. CacheInv => OneRowPerEvent
    BY DEF CacheInv
<1> QED  BY CacheSafe, <1>1, PTL

-----------------------------------------------------------------------------
(* The worker.  The rows it has read are what sign-ins wrote, and the token *)
(* it calls with was sound when it was chosen.                              *)

QueueOK == \A u \in queue : \E s \in SignIns : WrittenBy(u.row, s, u.user)

CallOK ==
    LET limit == call[Worker].since + Skew
        token == call[Worker].token
    IN job[Worker].stage = "fetch" =>
          \E s \in SignIns :
             /\ stage[s] = "done"
             /\ \/ token = held[s].access /\ ~Before(held[s].accessExp, limit)
                \/ token = held[s].refresh /\ ~Before(held[s].refreshExp, limit)
                \/ held[s].refreshExp = limit

WorkerTypeOK ==
    /\ running \in BOOLEAN
    /\ queue \subseteq [user : Profiles, row : UserRow]
    /\ call \in [Syncs -> [token : Tokens, since : Times]]

WorkerInv == TokensInv /\ CacheInv /\ WorkerTypeOK /\ QueueOK /\ CallOK

LEMMA InvTypeOK == WorkerInv => TypeOK
BY DEF WorkerInv, TypeOK, TokensInv, CacheInv, WorkerTypeOK

LEMMA InvTokenOutlivesCall == WorkerInv => TokenOutlivesCall
<1> SUFFICES ASSUME WorkerInv, job[Worker].stage = "fetch", InTime(Worker)
             PROVE  \/ Accepted(call[Worker].token)
                    \/ \E s \in SignIns : held[s] # Nothing
                          /\ held[s].refreshExp = call[Worker].since + Skew
    BY DEF TokenOutlivesCall
<1>1. PICK since, token : since = call[Worker].since /\ token = call[Worker].token
    OBVIOUS
<1>2. PICK s \in SignIns :
         /\ stage[s] = "done"
         /\ \/ token = held[s].access /\ ~Before(held[s].accessExp, since + Skew)
            \/ token = held[s].refresh /\ ~Before(held[s].refreshExp, since + Skew)
            \/ held[s].refreshExp = since + Skew
    BY <1>1 DEF WorkerInv, CallOK
<1>3. held[s] \in UserRow /\ held[s] # Nothing
    BY <1>2, GrantedRow, RowAssumption DEF WorkerInv, TokensInv, SignInOK
<1>4. now \in Nat /\ since \in Nat /\ now <= since + Timeout
    BY <1>1, WorkerAssumption, TimeAssumption
    DEF InTime, WorkerInv, WorkerTypeOK, CacheInv, Times
<1>5. \A e \in Expiries : ~Before(e, since + Skew) => Outlives(e, now)
    BY <1>4, WorkerAssumption, TokensAssumption DEF Before, Outlives, Expiries
<1>6. held[s].accessExp \in Expiries /\ held[s].refreshExp \in Expiries
    BY <1>3 DEF UserRow
<1> QED  BY <1>1, <1>2, <1>3, <1>5, <1>6 DEF Accepted

LEMMA InitWorker == Init => WorkerInv
<1> SUFFICES ASSUME Init PROVE WorkerInv
    OBVIOUS
<1>1. TokensInv /\ CacheInv
    BY InitTokens, InitCache DEF Init, TokensAlone, CacheAlone
<1>2. running = FALSE /\ queue = {} /\ call = [s \in Syncs |-> NoCall]
    BY DEF Init
<1>3. NoCall \in [token : Tokens, since : Times]
    BY TimeAssumption DEF NoCall, Tokens, Times
<1>4. job[Worker].stage = "idle"
    BY WorkerAssumption DEF Init, CacheInit, Idle
<1> QED  BY <1>1, <1>2, <1>3, <1>4 DEF WorkerInv, WorkerTypeOK, QueueOK, CallOK

LEMMA ChosenToken ==
    ASSUME NEW row \in UserRow, NEW t
    PROVE  ChooseToken(row, t) \in Tokens
BY DEF ChooseToken, UserRow, Tokens

(* Nothing of the worker's changes but, perhaps, that its call is over. *)
LEMMA WorkerStays ==
    ASSUME WorkerInv, TokensInv', CacheInv', SignInsStay, UNCHANGED workerVars,
           job'[Worker].stage = "fetch" => job[Worker].stage = "fetch"
    PROVE  WorkerInv'
<1>1. WorkerTypeOK'
    BY DEF WorkerInv, WorkerTypeOK, workerVars
<1>2. QueueOK'
    BY DEF WorkerInv, QueueOK, workerVars, WrittenBy, SignInsStay
<1>3. CallOK'
    BY DEF WorkerInv, CallOK, workerVars, SignInsStay
<1> QED  BY <1>1, <1>2, <1>3 DEF WorkerInv

LEMMA SameTokens ==
    ASSUME WorkerInv, UNCHANGED <<now, tokenVars>>
    PROVE  TokensInv' /\ SignInsStay
BY TokensFrame DEF WorkerInv, TokensInv, TokensTypeOK, SignInsStay, tokenVars

LEMMA SameCacheVars ==
    ASSUME WorkerInv, UNCHANGED <<now, cacheVars>>
    PROVE  CacheInv' /\ job' = job
<1>1. now \in Times /\ now <= now
    BY TimeAssumption DEF WorkerInv, CacheInv, Times
<1> QED  BY <1>1, CacheFrame DEF WorkerInv, cacheVars

(* A sync goes on or ends. *)
LEMMA SyncStep ==
    ASSUME WorkerInv, NEW s \in Syncs, SyncNext(s)
    PROVE  WorkerInv'
<1>1. UNCHANGED <<now, tokenVars, workerVars>>
    BY DEF SyncNext, Answered, Stamped, Upserted, Done, Refused, TimesOut, TimesOutBetween,
           Failed, Unchanged
<1>2. TokensInv' /\ SignInsStay
    BY <1>1, SameTokens
<1>3. CacheInv /\ now' = now /\ job \in [Syncs -> Jobs] /\ Worker \in Syncs
    BY <1>1, WorkerAssumption DEF WorkerInv, CacheInv, CacheTypeOK
<1>4. \/ SpondAnswers(s) \/ Stamp(s) \/ Upsert(s) \/ SyncDone(s)
      \/ job[s].stage # "idle" /\ Abandon(s)
    BY DEF SyncNext, Answered, Stamped, Upserted, Done, Refused, TimesOut, TimesOutBetween,
           Failed, SyncFails
<1>5. CacheInv'
    BY <1>3, <1>4, SpondAnswersStep, StampStep, UpsertStep, SyncDoneStep, AbandonStep
<1>6. job'[s].stage # "fetch" /\ \A t \in Syncs \ {s} : job'[t] = job[t]
  <2>0. PICK j : j = job[s]
    OBVIOUS
  <2>6. j \in Jobs
    BY <1>3, <2>0
  <2>1. CASE SpondAnswers(s)
    <3>1. PICK got : job' = [job EXCEPT ![s] = [j EXCEPT !.stage = "stamp", !.got = got]]
      BY <1>3, <2>0, <2>1 DEF SpondAnswers
    <3>2. [j EXCEPT !.stage = "stamp", !.got = got].stage = "stamp"
      BY <2>6 DEF Jobs
    <3> QED  BY <1>3, <3>1, <3>2
  <2>5. CASE Stamp(s)
    <3>1. job' = [job EXCEPT ![s] = [j EXCEPT !.stage = "find", !.at = now, !.todo = j.got]]
      BY <1>3, <2>0, <2>5 DEF Stamp
    <3>2. [j EXCEPT !.stage = "find", !.at = now, !.todo = j.got].stage = "find"
      BY <2>6 DEF Jobs
    <3> QED  BY <1>3, <3>1, <3>2
  <2>2. CASE UpsertEventFind(s)
    BY <1>3, <2>2 DEF UpsertEventFind
  <2>3. CASE UpsertEventCreate(s) \/ UpsertEventSave(s)
    <3>1. job' = [job EXCEPT ![s] = [j EXCEPT !.stage = "find", !.cur = Nothing, !.row = 0]]
      BY <1>3, <2>0, <2>3 DEF UpsertEventCreate, UpsertEventSave, Written
    <3>2. [j EXCEPT !.stage = "find", !.cur = Nothing, !.row = 0].stage = "find"
      BY <2>6 DEF Jobs
    <3> QED  BY <1>3, <3>1, <3>2
  <2>4. CASE SyncDone(s) \/ Abandon(s)
    BY <1>3, <2>4 DEF SyncDone, Abandon, Idle
  <2> QED  BY <1>4, <2>1, <2>5, <2>2, <2>3, <2>4 DEF Upsert
<1>7. job'[Worker].stage = "fetch" => job[Worker].stage = "fetch"
    BY <1>3, <1>6
<1> QED  BY <1>1, <1>2, <1>5, <1>7, WorkerStays

(* A call with a token that was sound for a row, now. *)
LEMMA CallStep ==
    ASSUME WorkerInv, NEW s \in Syncs, NEW p \in Profiles, NEW row \in UserRow,
           UNCHANGED <<now, tokenVars, running>>, queue' \subseteq queue,
           ChooseToken(row, now) # NoToken, Call(s, p, ChooseToken(row, now)),
           s = Worker => \E g \in SignIns : WrittenBy(row, g, p)
    PROVE  WorkerInv'
<1>1. PICK token : token = ChooseToken(row, now)
    OBVIOUS
<1>2. /\ TokensInv' /\ SignInsStay /\ CacheInv /\ call \in [Syncs -> [token : Tokens, since : Times]]
      /\ now \in Times /\ now \in Nat /\ now' = now /\ token \in Tokens
    BY <1>1, SameTokens, ChosenToken, TimeAssumption
    DEF WorkerInv, WorkerTypeOK, CacheInv, Times
<1>3. Fetch(s, p) /\ call' = [call EXCEPT ![s] = [token |-> token, since |-> now]]
    BY <1>1 DEF Call
<1>4. CacheInv'
    BY <1>2, <1>3, FetchStep
<1>5. WorkerTypeOK'
    BY <1>2, <1>3 DEF WorkerInv, WorkerTypeOK
<1>6. QueueOK'
    BY <1>2 DEF WorkerInv, QueueOK, WrittenBy, SignInsStay
<1>7. CallOK'
  <2>1. CASE s = Worker
    <3>1. PICK g \in SignIns : WrittenBy(row, g, p)
      BY <2>1
    <3>2. held[g] \in UserRow /\ stage'[g] = "done" /\ held'[g] = held[g]
      BY <1>2, <3>1, GrantedRow DEF WrittenBy, SignInsStay, WorkerInv, TokensInv, SignInOK
    <3>3. /\ call'[Worker].token = token /\ call'[Worker].since = now
      BY <1>2, <1>3, <2>1
    <3>4. PICK limit : limit = now + Skew
      OBVIOUS
    <3>5. \/ token = row.access /\ ~Before(row.accessExp, limit)
          \/ token = row.refresh /\ ~Before(row.refreshExp, limit)
          \/ row.refreshExp = limit
      BY <1>1, <1>2, <3>4, SoundChoice
    <3>6. /\ row.refresh = held[g].refresh /\ row.refreshExp = held[g].refreshExp
          /\ \/ row.access = held[g].access /\ row.accessExp = held[g].accessExp
             \/ row.access = held[g].refresh /\ row.accessExp = held[g].refreshExp
      BY <3>1, <3>2, PromotedRow DEF WrittenBy
    <3>7. \/ token = held[g].access /\ ~Before(held[g].accessExp, limit)
          \/ token = held[g].refresh /\ ~Before(held[g].refreshExp, limit)
          \/ held[g].refreshExp = limit
      BY <3>5, <3>6
    <3> QED  BY <3>2, <3>3, <3>4, <3>7 DEF CallOK
  <2>2. CASE s # Worker
    <3>1. call'[Worker] = call[Worker]
      BY <1>2, <1>3, <2>2, WorkerAssumption
    <3>2. job'[Worker].stage = job[Worker].stage
      <4>1. job[Worker] \in Jobs /\ Worker \in Syncs
        BY <1>2, WorkerAssumption DEF CacheInv, CacheTypeOK
      <4>2. job'[Worker] = job[Worker] \/ job'[Worker] = [job[Worker] EXCEPT !.alone = FALSE]
        BY <1>3, <2>2, <4>1 DEF Fetch
      <4> QED  BY <4>1, <4>2 DEF Jobs
    <3> QED  BY <1>2, <3>1, <3>2 DEF WorkerInv, CallOK, SignInsStay
  <2> QED  BY <2>1, <2>2
<1> QED  BY <1>2, <1>4, <1>5, <1>6, <1>7 DEF WorkerInv

LEMMA TakeUserStep ==
    ASSUME WorkerInv, TakeUser
    PROVE  WorkerInv'
<1>1. PICK u \in queue :
         /\ queue' = queue \ {u}
         /\ IF ChooseToken(u.row, now) = NoToken
            THEN UNCHANGED <<call, cacheVars>>
            ELSE Call(Worker, u.user, ChooseToken(u.row, now))
    BY DEF TakeUser
<1>2. UNCHANGED <<now, tokenVars, running>>
    BY DEF TakeUser
<1>3. /\ u.user \in Profiles /\ u.row \in UserRow
      /\ \E g \in SignIns : WrittenBy(u.row, g, u.user)
    BY DEF WorkerInv, WorkerTypeOK, QueueOK
<1>4. CASE ChooseToken(u.row, now) # NoToken
    BY <1>1, <1>2, <1>3, <1>4, WorkerAssumption, CallStep
<1>5. CASE ChooseToken(u.row, now) = NoToken
  <2>1. TokensInv' /\ SignInsStay /\ CacheInv' /\ job' = job /\ call' = call
    BY <1>1, <1>2, <1>5, SameTokens, SameCacheVars
  <2>2. WorkerTypeOK'
    BY <1>1, <1>2, <2>1 DEF WorkerInv, WorkerTypeOK
  <2>3. QueueOK'
    BY <1>1, <2>1 DEF WorkerInv, QueueOK, WrittenBy, SignInsStay
  <2>4. CallOK'
    BY <2>1 DEF WorkerInv, CallOK, SignInsStay
  <2> QED  BY <2>1, <2>2, <2>3, <2>4 DEF WorkerInv
<1> QED  BY <1>4, <1>5

LEMMA LoadUsersStep ==
    ASSUME WorkerInv, LoadUsers
    PROVE  WorkerInv'
<1>1. /\ running' = TRUE /\ queue' = {[user |-> p, row |-> users[p]] : p \in Active}
      /\ UNCHANGED <<now, tokenVars, cacheVars, call>>
    BY DEF LoadUsers
<1>2. TokensInv' /\ SignInsStay /\ CacheInv' /\ job' = job
    BY <1>1, SameTokens, SameCacheVars
<1>3. ASSUME NEW p \in Active
      PROVE  users[p] \in UserRow /\ p \in Profiles /\ \E s \in SignIns : WrittenBy(users[p], s, p)
    BY DEF WorkerInv, TokensInv, TokensTypeOK, TokensOfOneSignIn, WrittenBy, Active
<1>4. WorkerTypeOK'
    BY <1>1, <1>3 DEF WorkerInv, WorkerTypeOK
<1>5. QueueOK'
    BY <1>1, <1>2, <1>3 DEF QueueOK, WrittenBy, SignInsStay
<1>6. CallOK'
    BY <1>1, <1>2 DEF WorkerInv, CallOK, SignInsStay
<1> QED  BY <1>2, <1>4, <1>5, <1>6 DEF WorkerInv

LEMMA RunEndsStep ==
    ASSUME WorkerInv, RunEnds
    PROVE  WorkerInv'
<1>1. running' = FALSE /\ UNCHANGED <<now, tokenVars, cacheVars, queue, call>>
    BY DEF RunEnds
<1>2. TokensInv' /\ SignInsStay /\ CacheInv' /\ job' = job
    BY <1>1, SameTokens, SameCacheVars
<1>3. WorkerTypeOK'
    BY <1>1 DEF WorkerInv, WorkerTypeOK
<1>4. QueueOK'
    BY <1>1, <1>2 DEF WorkerInv, QueueOK, WrittenBy, SignInsStay
<1>5. CallOK'
    BY <1>1, <1>2 DEF WorkerInv, CallOK, SignInsStay
<1> QED  BY <1>2, <1>3, <1>4, <1>5 DEF WorkerInv

LEMMA SyncNowStep ==
    ASSUME WorkerInv, NEW s \in Syncs \ {Worker}, SyncNow(s)
    PROVE  WorkerInv'
<1>1. PICK p \in Active :
         /\ ChooseToken(users[p], now) # NoToken
         /\ Call(s, p, ChooseToken(users[p], now))
    BY DEF SyncNow, ChooseTokenForImmediateSync
<1>2. UNCHANGED <<now, tokenVars, running, queue>>
    BY DEF SyncNow
<1>3. p \in Profiles /\ users[p] \in UserRow
    BY DEF WorkerInv, TokensInv, TokensTypeOK, Active
<1> QED  BY <1>1, <1>2, <1>3, CallStep

LEMMA EnvironmentStep ==
    ASSUME WorkerInv, Environment
    PROVE  WorkerInv'
<1>1. now \in Times /\ now <= now
    BY TimeAssumption DEF WorkerInv, CacheInv, Times
<1>2. CASE TokensNext /\ UNCHANGED <<now, cacheVars, workerVars>>
  <2>1. TokensInv'
    BY <1>1, <1>2, TokensNextInv DEF WorkerInv
  <2>2. SignInsStay
    BY <1>2, <2>1, TokensPersist DEF WorkerInv
  <2>3. CacheInv' /\ job' = job
    BY <1>2, SameCacheVars
  <2> QED  BY <1>2, <2>1, <2>2, <2>3, WorkerStays
<1>3. CASE SpondChanges /\ Unchanged
  <2>1. UNCHANGED <<now, tokenVars, workerVars>> /\ job' = job
    BY <1>3 DEF Unchanged, SpondChanges
  <2>2. CacheInv'
    BY <1>3, <2>1, SpondChangesStep DEF WorkerInv
  <2> QED  BY <2>1, <2>2, SameTokens, WorkerStays
<1>4. CASE Tick /\ UNCHANGED <<tokenVars, cacheVars, workerVars>>
  <2>1. now' \in Times /\ now <= now'
    BY <1>1, <1>4, LaterTick
  <2>2. TokensInv' /\ CacheInv' /\ job' = job
    BY <1>4, <2>1, TokensFrame, CacheFrame DEF WorkerInv, cacheVars
  <2>3. SignInsStay
    BY <1>4 DEF SignInsStay, tokenVars
  <2> QED  BY <1>4, <2>2, <2>3, WorkerStays
<1> QED  BY <1>2, <1>3, <1>4 DEF Environment

LEMMA WorkerSafe == Spec => []WorkerInv
<1>1. WorkerInv /\ [Next]_vars => WorkerInv'
  <2> SUFFICES ASSUME WorkerInv, [Next]_vars PROVE WorkerInv'
    OBVIOUS
  <2>1. CASE WorkerNext
    BY <2>1, LoadUsersStep, TakeUserStep, RunEndsStep, SyncStep, WorkerAssumption
    DEF WorkerNext
  <2>2. CASE \E s \in Syncs \ {Worker} : SyncNow(s) \/ SyncNext(s)
    BY <2>2, SyncNowStep, SyncStep
  <2>3. CASE Environment
    BY <2>3, EnvironmentStep
  <2>4. CASE UNCHANGED vars
    <3>1. UNCHANGED <<now, tokenVars, cacheVars, workerVars>>
      BY <2>4 DEF vars
    <3> QED  BY <3>1, SameTokens, SameCacheVars, WorkerStays
  <2> QED  BY <2>1, <2>2, <2>3, <2>4 DEF Next
<1> QED  BY InitWorker, <1>1, PTL DEF Spec

(* Types of the worker, the cache and the token store together. *)
THEOREM WorkerTypes == Spec => []TypeOK
BY WorkerSafe, InvTypeOK, PTL

(* The token that a run chose from a row read when the run began does not   *)
(* expire while Spond is asked with it, but for that at the very end of the *)
(* skew (chooseTokenForSync, syncUser).                                     *)
THEOREM TokensOutliveCalls == Spec => []TokenOutlivesCall
BY WorkerSafe, InvTokenOutlivesCall, PTL

(* The choice of a token for a sync is sound (chooseTokenForSync). *)
THEOREM WorkerChoosesSoundly == Spec => []ChoiceIsSound
<1>1. WorkerInv => ChoiceIsSound
    BY TypedChoiceIsSound DEF WorkerInv, TokensInv
<1> QED  BY WorkerSafe, <1>1, PTL

(* Under the worker, the "sync now" requests and the sign-ins the cache is  *)
(* as it is by itself: rows of one answer, ...                              *)
THEOREM WorkerKeepsRows == Spec => [](RowFromOneAnswer /\ OneRowPerEvent)
<1>1. WorkerInv => RowFromOneAnswer /\ OneRowPerEvent
    BY DEF WorkerInv, CacheInv
<1> QED  BY WorkerSafe, <1>1, PTL

(* ... and what the last sync that had its user alone fetched. *)
THEOREM WorkerMirrorsLastSync == Spec => []CacheMirrorsLastSync
<1>1. WorkerInv => CacheMirrorsLastSync
    BY DEF WorkerInv, CacheInv
<1> QED  BY WorkerSafe, <1>1, PTL
=============================================================================
