---------------------------- MODULE EventsWorker ----------------------------
(***************************************************************************)
(* The worker that syncs all users over and over                           *)
(* (internal/syncworker/events_worker.go), the "sync now" requests that    *)
(* run beside it, and the sign-ins and promotions that change the tokens   *)
(* under both.                                                             *)
(*                                                                         *)
(* A run of the worker reads the rows of all users once and works through  *)
(* that list: the tokens it chooses from are as old as the run.            *)
(***************************************************************************)
EXTENDS UserTokens, EventCache

CONSTANTS
    Worker,         \* the goroutine, one of Syncs; the others are requests
    Timeout         \* the worker's timeout for one user: by default 20 seconds,
                    \* where Skew is 30

ASSUME WorkerAssumption ==
    /\ Worker \in Syncs
    /\ Timeout \in Nat /\ Timeout < Skew

VARIABLES
    running,    \* whether RunOnce is at work
    queue,      \* the profiles it has not come to yet, with the rows it read
    call        \* per sync: the token, and when the call was made

workerVars == <<running, queue, call>>

vars == <<now, tokenVars, cacheVars, workerVars>>

NoCall == [token |-> NoToken, since |-> 0]

Init ==
    /\ now = 0
    /\ TokensInit
    /\ CacheInit
    /\ running = FALSE
    /\ queue = {}
    /\ call = [s \in Syncs |-> NoCall]

(* ActiveUsersWithToken: "spond_token <> ''". *)
Active == {p \in Profiles : users[p] # Nothing /\ users[p].access # NoToken}

(* chooseTokenForImmediateSync goes through the same cases. *)
ChooseTokenForImmediateSync(row) == ChooseToken(row, now)

(* s asks for the events of p with token. *)
Call(s, p, token) ==
    /\ Fetch(s, p)
    /\ call' = [call EXCEPT ![s] = [token |-> token, since |-> now]]

-----------------------------------------------------------------------------
(* The ticker fires, or it is the first run. *)
LoadUsers ==
    /\ ~running
    /\ running' = TRUE
    /\ queue' = {[user |-> p, row |-> users[p]] : p \in Active}
    /\ UNCHANGED <<now, tokenVars, cacheVars, call>>

(* Mutant: an error ends the run. *)
TakeUserOrStop ==
    /\ running /\ job[Worker].stage = "idle"
    /\ \E u \in queue :
          IF ChooseToken(u.row, now) = NoToken
          THEN queue' = {} /\ UNCHANGED <<call, cacheVars>>
          ELSE queue' = queue \ {u} /\ Call(Worker, u.user, ChooseToken(u.row, now))
    /\ UNCHANGED <<now, tokenVars, running>>

(* syncUser begins; an error, here or later, is logged and the next user   *)
(* has its turn.                                                           *)
TakeUser ==
    /\ running /\ job[Worker].stage = "idle"
    /\ \E u \in queue :
          /\ queue' = queue \ {u}
          /\ IF ChooseToken(u.row, now) = NoToken
             THEN UNCHANGED <<call, cacheVars>>
             ELSE Call(Worker, u.user, ChooseToken(u.row, now))
    /\ UNCHANGED <<now, tokenVars, running>>

RunEnds ==
    /\ running /\ queue = {} /\ job[Worker].stage = "idle"
    /\ running' = FALSE
    /\ UNCHANGED <<now, tokenVars, cacheVars, queue, call>>

(* handleEventsSyncNowAPI for a user with a session; a request syncs once. *)
SyncNow(s) ==
    /\ call[s] = NoCall
    /\ \E p \in Active :
          /\ ChooseTokenForImmediateSync(users[p]) # NoToken
          /\ Call(s, p, ChooseTokenForImmediateSync(users[p]))
    /\ UNCHANGED <<now, tokenVars, running, queue>>

(* Spond refuses a token that has expired; the others are good.            *)
Accepted(token) ==
    \E s \in SignIns : held[s] # Nothing /\
        \/ token = held[s].access /\ Outlives(held[s].accessExp, now)
        \/ token = held[s].refresh /\ Outlives(held[s].refreshExp, now)

(* The worker's calls end with the timeout, those of requests with them. *)
InTime(s) == s = Worker => now <= call[s].since + Timeout

Unchanged == UNCHANGED <<now, tokenVars, workerVars>>

Answered(s) == InTime(s) /\ Accepted(call[s].token) /\ SpondAnswers(s) /\ Unchanged

(* The stamp is no call: no timeout ends it. *)
Stamped(s) == Stamp(s) /\ Unchanged

Upserted(s) == InTime(s) /\ Upsert(s) /\ Unchanged

Done(s) == SyncDone(s) /\ Unchanged

Refused(s) ==
    /\ job[s].stage = "fetch" /\ InTime(s) /\ ~Accepted(call[s].token)
    /\ Abandon(s) /\ Unchanged

TimesOut(s) ==
    /\ ~InTime(s) /\ job[s].stage \in {"fetch", "create", "save"}
    /\ Abandon(s) /\ Unchanged

(* ... or the timeout is up when the next row is looked for. *)
TimesOutBetween(s) ==
    /\ ~InTime(s) /\ job[s].stage = "find" /\ job[s].todo # {}
    /\ Abandon(s) /\ Unchanged

Failed(s) == SyncFails(s) /\ Unchanged

SyncNext(s) ==
    \/ Answered(s) \/ Stamped(s) \/ Upserted(s) \/ Done(s)
    \/ Refused(s) \/ TimesOut(s) \/ TimesOutBetween(s) \/ Failed(s)

WorkerNext == LoadUsers \/ TakeUser \/ RunEnds \/ SyncNext(Worker)

Environment ==
    \/ TokensNext /\ UNCHANGED <<now, cacheVars, workerVars>>
    \/ SpondChanges /\ Unchanged
    \/ Tick /\ UNCHANGED <<tokenVars, cacheVars, workerVars>>

Next ==
    \/ WorkerNext
    \/ \E s \in Syncs \ {Worker} : SyncNow(s) \/ SyncNext(s)
    \/ Environment

Spec == Init /\ [][Next]_vars

(* The worker is one goroutine, every call of which ends by the timeout;   *)
(* requests need not go on, nor need anybody sign in.                      *)
FairSpec == Spec /\ WF_vars(WorkerNext)

-----------------------------------------------------------------------------
TypeOK ==
    /\ TokensTypeOK
    /\ CacheTypeOK
    /\ running \in BOOLEAN
    /\ queue \subseteq [user : Profiles, row : UserRow]
    /\ call \in [Syncs -> [token : Tokens, since : Times]]

(* The token that a run of the worker chose from a row read when the run   *)
(* began does not expire while Spond is asked with it: the skew is longer *)
(* than the timeout.  The exception is that of ChoiceIsSound               *)
(* (chooseTokenForSync, syncUser).                                         *)
TokenOutlivesCall ==
    job[Worker].stage = "fetch" /\ InTime(Worker) =>
        \/ Accepted(call[Worker].token)
        \/ \E s \in SignIns : held[s] # Nothing
              /\ held[s].refreshExp = call[Worker].since + Skew

(* Whatever becomes of the other users' syncs and tokens, for a user whose *)
(* token does not expire and whose calls succeed the rows of as many       *)
(* events as a sync asks for, of all if they are no more, are in the end   *)
(* what Spond has (RunOnce).                                               *)
CacheCatchesUp ==
    \A p \in Profiles \ Unreliable :
        LET current == {v \in spond[p] : LET i == Found(p, v.event)
                                       IN i # 0 /\ cache[i].payload = v}
        IN <>[](p \in Active /\ users[p].accessExp = Never =>
                  Cardinality(current) >= Min({Cardinality(spond[p]), SyncMax}))
=============================================================================
