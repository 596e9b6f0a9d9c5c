----------------------------- MODULE EventCache -----------------------------
(***************************************************************************)
(* The cache of the users' Spond events (internal/db/spond_cache_store.go) *)
(* and what a sync does, the same in the worker (syncUser) and in the      *)
(* handler behind the "sync now" button (handleEventsSyncNowAPI): it       *)
(* fetches the events, takes the time, and writes one event after the      *)
(* other, looking for its row and then creating or saving it.  There is    *)
(* neither a transaction nor a unique index on user and event.             *)
(*                                                                         *)
(* Who starts a sync, and with which token, is left to EventsWorker.       *)
(***************************************************************************)
EXTENDS Clock, Sequences

CONSTANTS
    Events,         \* event ids
    Published,      \* the events there are at first
    Syncs,          \* those who sync, each one user at a time
    SyncMax,        \* how many events a sync asks Spond for: 200
    MaxEdits        \* bound: how often something changes at Spond

ASSUME CacheAssumption ==
    /\ Nothing \notin Events
    /\ Published \subseteq Events
    /\ SyncMax \in Nat
    /\ MaxEdits \in Nat

VARIABLES
    spond,      \* per user: the versions of events Spond would answer now
    edits,      \* how often something changed at Spond
    cache,      \* the rows of spond_caches by id; none is ever deleted
    job,        \* what each of Syncs is at
    answers,    \* history: what was fetched, for whom and when
    overlapped, \* history: users two of whose syncs ran at the same time
    lastSync    \* history: a user's last sync, if it is over, all went well
                \* and no other sync of that user ran while it did

cacheVars == <<spond, edits, cache, job, answers, overlapped, lastSync>>

(* The payload of an event at one time. *)
Version == [event : Events, version : 0..MaxEdits]

Row == [user : Profiles, payload : Version, synced : Times]

Answer == [user : Profiles, events : SUBSET Version, at : Times]

(* got is what Spond answered, todo what is still to be written, cur what  *)
(* is being written and row the id found for it; alone is history.         *)
Idle == [stage |-> "idle", user |-> Nothing, got |-> {}, at |-> 0,
         todo |-> {}, cur |-> Nothing, row |-> 0, alone |-> TRUE]

Jobs == [stage : {"idle", "fetch", "stamp", "find", "create", "save"},
         user : Profiles \cup {Nothing}, got : SUBSET Version, at : Times,
         todo : SUBSET Version, cur : Version \cup {Nothing}, row : Nat,
         alone : BOOLEAN]

Busy(p) == {s \in Syncs : job[s].user = p}

RowsOf(p) == {i \in DOMAIN cache : cache[i].user = p}

First(ids) == IF ids = {} THEN 0 ELSE Min(ids)

(* Where("user_id = ? AND event_id = ?").First: the least id, or 0. *)
Found(p, e) == First({i \in RowsOf(p) : cache[i].payload.event = e})

(* LastSyncedAtByUserID; -1 stands for "Not synced yet". *)
LastSynced(p) == Max({-1} \cup {cache[i].synced : i \in RowsOf(p)})

-----------------------------------------------------------------------------
CacheInit ==
    /\ spond = [p \in Profiles |-> [event : Published, version : {0}]]
    /\ edits = 0
    /\ cache = <<>>
    /\ job = [s \in Syncs |-> Idle]
    /\ answers = {}
    /\ overlapped = {}
    /\ lastSync = [p \in Profiles |-> Nothing]

(* Someone publishes, edits or withdraws an event. *)
SpondChanges ==
    /\ edits < MaxEdits
    /\ edits' = edits + 1
    /\ \E p \in Profiles, e \in Events :
          LET others == {v \in spond[p] : v.event # e}
          IN \/ spond' = [spond EXCEPT ![p] =
                            others \cup {[event |-> e, version |-> edits']}]
             \/ others # spond[p] /\ spond' = [spond EXCEPT ![p] = others]
    /\ UNCHANGED <<cache, job, answers, overlapped, lastSync>>

(* s asks Spond for the events of p. *)
Fetch(s, p) ==
    /\ job[s].stage = "idle"
    /\ job' = [b \in Syncs |->
                 IF b = s THEN [Idle EXCEPT !.stage = "fetch", !.user = p,
                                            !.alone = Busy(p) = {}]
                 ELSE IF b \in Busy(p) THEN [job[b] EXCEPT !.alone = FALSE]
                 ELSE job[b]]
    /\ overlapped' = IF Busy(p) = {} THEN overlapped ELSE overlapped \cup {p}
    /\ lastSync' = [lastSync EXCEPT ![p] = Nothing]
    /\ UNCHANGED <<spond, edits, cache, answers>>

(* FetchEvents: of more events than it is asked for Spond answers some, and *)
(* does not say so.                                                        *)
Answers(wanted) == kSubset(Min({SyncMax, Cardinality(wanted)}), wanted)

SpondAnswers(s) ==
    /\ job[s].stage = "fetch"
    /\ \E got \in Answers(spond[job[s].user]) :
          job' = [job EXCEPT ![s].stage = "stamp", ![s].got = got]
    /\ UNCHANGED <<spond, edits, cache, answers, overlapped, lastSync>>

(* time.Now, once the answer is there. *)
Stamp(s) ==
    /\ job[s].stage = "stamp"
    /\ job' = [job EXCEPT ![s].stage = "find", ![s].at = now,
                          ![s].todo = job[s].got]
    /\ answers' = answers \cup
          {[user |-> job[s].user, events |-> job[s].got, at |-> now]}
    /\ UNCHANGED <<spond, edits, cache, overlapped, lastSync>>

(* Mutant: that there is no row is not told from success. *)
UpsertEventFindUnchecked(s) ==
    /\ job[s].stage = "find"
    /\ \E v \in job[s].todo :
          job' = [job EXCEPT ![s].stage = "save", ![s].todo = @ \ {v}, ![s].cur = v,
                             ![s].row = Found(job[s].user, v.event)]
    /\ UNCHANGED <<spond, edits, cache, answers, overlapped, lastSync>>

(* UpsertUserEvents: the next event, in the order of the answer. *)
UpsertEventFind(s) ==
    /\ job[s].stage = "find"
    /\ \E v \in job[s].todo :
          LET i == Found(job[s].user, v.event)
          IN job' = [job EXCEPT ![s].stage = IF i = 0 THEN "create" ELSE "save",
                                ![s].todo = @ \ {v}, ![s].cur = v, ![s].row = i]
    /\ UNCHANGED <<spond, edits, cache, answers, overlapped, lastSync>>

NewRow(s) == [user |-> job[s].user, payload |-> job[s].cur, synced |-> job[s].at]

Written(s) == job' = [job EXCEPT ![s].stage = "find", ![s].cur = Nothing,
                                 ![s].row = 0]

(* Mutant: the function returns instead of going on with the next event. *)
UpsertEventCreateReturns(s) ==
    /\ job[s].stage = "create"
    /\ cache' = Append(cache, NewRow(s))
    /\ job' = [job EXCEPT ![s].stage = "find", ![s].cur = Nothing,
                          ![s].row = 0, ![s].todo = {}]
    /\ UNCHANGED <<spond, edits, answers, overlapped, lastSync>>

UpsertEventCreate(s) ==
    /\ job[s].stage = "create"
    /\ cache' = Append(cache, NewRow(s))
    /\ Written(s)
    /\ UNCHANGED <<spond, edits, answers, overlapped, lastSync>>

(* Mutant: the time stays as it was when the row was created. *)
UpsertEventSavePayload(s) ==
    /\ job[s].stage = "save"
    /\ cache' = [cache EXCEPT ![job[s].row].payload = job[s].cur]
    /\ Written(s)
    /\ UNCHANGED <<spond, edits, answers, overlapped, lastSync>>

(* Mutant: a row without the id that was found. *)
UpsertEventSaveAsNew(s) ==
    /\ job[s].stage = "save"
    /\ cache' = Append(cache, NewRow(s))
    /\ Written(s)
    /\ UNCHANGED <<spond, edits, answers, overlapped, lastSync>>

UpsertEventSave(s) ==
    /\ job[s].stage = "save"
    /\ cache' = [cache EXCEPT ![job[s].row] = NewRow(s)]
    /\ Written(s)
    /\ UNCHANGED <<spond, edits, answers, overlapped, lastSync>>

SyncDone(s) ==
    /\ job[s].stage = "find" /\ job[s].todo = {}
    /\ lastSync' = [lastSync EXCEPT ![job[s].user] =
                      IF job[s].alone THEN [got |-> job[s].got, at |-> job[s].at]
                      ELSE Nothing]
    /\ job' = [job EXCEPT ![s] = Idle]
    /\ UNCHANGED <<spond, edits, cache, answers, overlapped>>

(* A sync ends with an error: what was written stays. *)
Abandon(s) ==
    /\ lastSync' = [lastSync EXCEPT ![job[s].user] = Nothing]
    /\ job' = [job EXCEPT ![s] = Idle]
    /\ UNCHANGED <<spond, edits, cache, answers, overlapped>>

(* Spond or the store returns one, or the client goes away. *)
SyncFails(s) ==
    /\ job[s].stage \in {"fetch", "find", "create", "save"}
    /\ job[s].user \in Unreliable
    /\ Abandon(s)

Upsert(s) == UpsertEventFind(s) \/ UpsertEventCreate(s) \/ UpsertEventSave(s)

CacheNext ==
    \/ SpondChanges
    \/ \E s \in Syncs :
          \/ \E p \in Profiles : Fetch(s, p)
          \/ SpondAnswers(s) \/ Stamp(s) \/ Upsert(s)
          \/ SyncDone(s) \/ SyncFails(s)

CacheStep ==
    \/ CacheNext /\ now' = now
    \/ Tick /\ UNCHANGED cacheVars

CacheAlone == now = 0 /\ CacheInit

CacheSpec == CacheAlone /\ [][CacheStep]_<<now, cacheVars>>

-----------------------------------------------------------------------------
CacheTypeOK ==
    /\ spond \in [Profiles -> SUBSET Version]
    /\ edits \in 0..MaxEdits
    /\ cache \in Seq(Row)
    /\ job \in [Syncs -> Jobs]
    /\ \A s \in Syncs : job[s].stage = "save" => job[s].row \in DOMAIN cache
    /\ answers \subseteq Answer
    /\ overlapped \subseteq Profiles
    /\ \A p \in Profiles : lastSync[p] # Nothing =>
          /\ lastSync[p].got \subseteq Version
          /\ lastSync[p].at \in Times

(* However syncs interleave, each row holds what one answer of Spond to    *)
(* that very user said, with the time of that answer (UpsertUserEvents).   *)
RowFromOneAnswer ==
    \A i \in DOMAIN cache : \E a \in answers :
        /\ a.user = cache[i].user
        /\ cache[i].payload \in a.events
        /\ a.at = cache[i].synced

(* After a sync that ended well and alone, whatever earlier syncs that     *)
(* overlapped or failed half-way have left behind: the row a lookup finds  *)
(* for every event fetched is what was fetched, and the account page shows *)
(* the time of that sync (UpsertUserEvents, LastSyncedAtByUserID).         *)
CacheMirrorsLastSync ==
    \A p \in Profiles : lastSync[p] # Nothing =>
        /\ \A v \in lastSync[p].got :
              LET i == Found(p, v.event)
              IN /\ i # 0
                 /\ cache[i].payload = v
                 /\ cache[i].synced = lastSync[p].at
        /\ lastSync[p].got # {} => LastSynced(p) = lastSync[p].at

(* No index says so, but a user has one row per event as long as no two    *)
(* syncs of that user overlapped, those of the worker and those of the     *)
(* button taken together (UpsertUserEvents).                               *)
OneRowPerEvent ==
    \A p \in Profiles \ overlapped : \A i, k \in RowsOf(p) :
        cache[i].payload.event = cache[k].payload.event => i = k
=============================================================================
