----------------------------- MODULE UserTokens -----------------------------
(***************************************************************************)
(* The Spond tokens of the users (internal/db/user_tokens.go) and the two  *)
(* handlers of internal/web/server.go that change them: signing in and     *)
(* promoting the refresh token.                                            *)
(*                                                                         *)
(* Both read a user row, change it in memory and save all of it, without a *)
(* transaction around the two, so that one can undo the other.  A profile  *)
(* has one row at most (the unique index on profile_id) and no row is ever *)
(* deleted: the row of a profile stands for its user id.                   *)
(***************************************************************************)
EXTENDS Clock

CONSTANTS
    SignIns,        \* sign-in requests
    Refreshes,      \* requests to promote the refresh token
    Lifetimes,      \* for how long Spond issues tokens
    Never,          \* no expiry is known (nil)
    NoToken,        \* the empty string
    Skew            \* expirySkew

ASSUME TokensAssumption ==
    /\ SignIns \cap Refreshes = {}
    /\ Nothing \notin SignIns
    /\ Lifetimes \subseteq Nat
    /\ Never \notin Int
    /\ Skew \in Nat

VARIABLES
    users,      \* the row of every profile, or Nothing
    stage,      \* per request: how far it got
    owner,      \* per request: whose tokens it changes
    held,       \* per request: the row it is about to save
    latest,     \* history: the row that the last successful sign-in wrote
    crossed     \* history: the profiles whose last sign-in was written while
                \* a promotion was between reading and saving their row

tokenVars == <<users, stage, owner, held, latest, crossed>>

Requests == SignIns \cup Refreshes

(* What a sign-in is given: an access token, perhaps a refresh token. *)
Access(s) == <<s, "access">>

Refresh(s) == <<s, "refresh">>

Tokens == (SignIns \X {"access", "refresh"}) \cup {NoToken}

Expiries == Nat \cup {Never}

UserRow == [access : Tokens, accessExp : Expiries,
            refresh : Tokens, refreshExp : Expiries]

(* No row is not a row, and no token is empty (Login refuses such a one). *)
ASSUME RowAssumption ==
    /\ Nothing \notin UserRow
    /\ NoToken \notin SignIns \X {"access", "refresh"}

(* The rows a sign-in may lead to.  An expiry may come without a token. *)
Grants(s) ==
    LET expiries == {Never} \cup {now + n : n \in Lifetimes}
    IN [access : {Access(s)}, accessExp : expiries,
        refresh : {Refresh(s), NoToken}, refreshExp : expiries]

(* PromoteRefreshTokenByUserID on the row it read. *)
Promoted(row) ==
    [row EXCEPT !.access = row.refresh, !.accessExp = row.refreshExp]

-----------------------------------------------------------------------------
(* The token to call Spond with.                                           *)

Outlives(expiry, t) == expiry # Never => expiry > t

Before(expiry, t) == expiry # Never /\ expiry < t

(* Mutant: any refresh token will do. *)
ChooseUnchecked(row, t) ==
    IF row.access # NoToken /\ Outlives(row.accessExp, t + Skew) THEN row.access
    ELSE row.refresh

(* Mutant: without the skew. *)
ChooseUnskewed(row, t) ==
    IF row.access # NoToken /\ Outlives(row.accessExp, t) THEN row.access
    ELSE IF row.refresh # NoToken /\ Outlives(row.refreshExp, t) THEN row.refresh
    ELSE NoToken

(* chooseTokenForSync, and chooseTokenForImmediateSync, which is the same: *)
(* NoToken stands for an error.  What is left for the last line is that a  *)
(* token expires at t + Skew exactly.                                      *)
ChooseToken(row, t) ==
    LET limit == t + Skew
        spent == /\ Before(row.accessExp, limit)
                 /\ (Before(row.refreshExp, limit) \/ row.refresh = NoToken)
    IN IF row.access # NoToken /\ Outlives(row.accessExp, limit) THEN row.access
       ELSE IF row.refresh # NoToken /\ Outlives(row.refreshExp, limit)
            THEN row.refresh
       ELSE IF row.access = NoToken \/ spent THEN NoToken
       ELSE row.access

-----------------------------------------------------------------------------
TokensInit ==
    /\ users = [p \in Profiles |-> Nothing]
    /\ stage = [c \in Requests |-> "idle"]
    /\ owner = [c \in Requests |-> Nothing]
    /\ held = [c \in Requests |-> Nothing]
    /\ latest = [p \in Profiles |-> Nothing]
    /\ crossed = {}

Advance(c, s) == stage' = [stage EXCEPT ![c] = s]

At(c, s) == stage[c] = s

WriteRow(c, row) == users' = [users EXCEPT ![owner[c]] = row]

(* Sign-in s writes its row, perhaps behind the back of a promotion that   *)
(* has read the old one and will write that one back.                      *)
WriteSignIn(s) ==
    LET p == owner[s]
    IN /\ WriteRow(s, held[s])
       /\ latest' = [latest EXCEPT ![p] = held[s]]
       /\ crossed' = IF \E f \in Refreshes : owner[f] = p /\ At(f, "save")
                     THEN crossed \cup {p} ELSE crossed \ {p}

(* Spond accepts the credentials and tells the profile (handleSigninPost). *)
Login(s) ==
    /\ At(s, "idle")
    /\ \E p \in Profiles : owner' = [owner EXCEPT ![s] = p]
    /\ \E row \in Grants(s) : held' = [held EXCEPT ![s] = row]
    /\ Advance(s, "find")
    /\ UNCHANGED <<users, latest, crossed>>

(* Two first sign-ins of one profile: the unique index refuses the second. *)
UpsertCreate(s) ==
    /\ At(s, "create")
    /\ IF users[owner[s]] = Nothing
       THEN WriteSignIn(s) /\ Advance(s, "done")
       ELSE Advance(s, "failed") /\ UNCHANGED <<users, latest, crossed>>
    /\ UNCHANGED <<owner, held>>

UpsertSave(s) ==
    /\ At(s, "save")
    /\ WriteSignIn(s)
    /\ Advance(s, "done")
    /\ UNCHANGED <<owner, held>>

(* Mutant: the tokens stay while they are good. *)
UpsertFindUnlessGood(s) ==
    /\ At(s, "find")
    /\ Advance(s, IF users[owner[s]] = Nothing THEN "create"
                  ELSE IF ChooseToken(users[owner[s]], now) = NoToken THEN "save"
                  ELSE "done")
    /\ latest' = [latest EXCEPT ![owner[s]] =
                    IF stage'[s] = "done" THEN held[s] ELSE @]
    /\ UNCHANGED <<users, owner, held, crossed>>

UpsertFind(s) ==
    /\ At(s, "find")
    /\ Advance(s, IF users[owner[s]] = Nothing THEN "create" ELSE "save")
    /\ UNCHANGED <<users, owner, held, latest, crossed>>

(* handleProfileTokensRefreshAPI for a user with a session: it looks for a *)
(* refresh token first ...                                                 *)
RefreshCheck(f) ==
    /\ At(f, "idle")
    /\ \E p \in Profiles :
          /\ users[p] # Nothing
          /\ owner' = [owner EXCEPT ![f] = p]
          /\ Advance(f, IF users[p].refresh = NoToken THEN "failed" ELSE "promote")
    /\ UNCHANGED <<users, held, latest, crossed>>

(* Mutant: that it was there before is enough. *)
PromoteFindUnchecked(f) ==
    /\ At(f, "promote")
    /\ held' = [held EXCEPT ![f] = Promoted(users[owner[f]])]
    /\ Advance(f, "save")
    /\ UNCHANGED <<users, owner, latest, crossed>>

(* ... reads the row again, which may have lost it by now, ... *)
PromoteFind(f) ==
    /\ At(f, "promote")
    /\ LET row == users[owner[f]]
       IN IF row.refresh = NoToken
          THEN Advance(f, "failed") /\ held' = held
          ELSE Advance(f, "save") /\ held' = [held EXCEPT ![f] = Promoted(row)]
    /\ UNCHANGED <<users, owner, latest, crossed>>

(* Mutant: the expiry is that of the old access token. *)
PromoteSaveTokenOnly(f) ==
    /\ At(f, "save")
    /\ WriteRow(f, [held[f] EXCEPT !.accessExp = users[owner[f]].accessExp])
    /\ Advance(f, "done")
    /\ UNCHANGED <<owner, held, latest, crossed>>

(* ... and saves all of it. *)
PromoteSave(f) ==
    /\ At(f, "save")
    /\ WriteRow(f, held[f])
    /\ Advance(f, "done")
    /\ UNCHANGED <<owner, held, latest, crossed>>

(* A call to the store fails, or the client goes away. *)
RequestFails(c) ==
    /\ stage[c] \in {"find", "create", "promote", "save"}
    /\ owner[c] \in Unreliable
    /\ Advance(c, "failed")
    /\ UNCHANGED <<users, owner, held, latest, crossed>>

TokensNext ==
    \/ \E s \in SignIns :
          Login(s) \/ UpsertFind(s) \/ UpsertCreate(s) \/ UpsertSave(s)
    \/ \E f \in Refreshes : RefreshCheck(f) \/ PromoteFind(f) \/ PromoteSave(f)
    \/ \E c \in Requests : RequestFails(c)

TokensStep ==
    \/ TokensNext /\ now' = now
    \/ Tick /\ UNCHANGED tokenVars

TokensAlone == now = 0 /\ TokensInit

TokensSpec == TokensAlone /\ [][TokensStep]_<<now, tokenVars>>

-----------------------------------------------------------------------------
TokensTypeOK ==
    /\ now \in Times
    /\ users \in [Profiles -> UserRow \cup {Nothing}]
    /\ stage \in [Requests -> {"idle", "find", "create", "promote", "save",
                               "done", "failed"}]
    /\ owner \in [Requests -> Profiles \cup {Nothing}]
    /\ held \in [Requests -> UserRow \cup {Nothing}]
    /\ latest \in [Profiles -> UserRow \cup {Nothing}]
    /\ crossed \subseteq Profiles

(* However sign-ins and promotions interleave, a row's four fields come    *)
(* from one sign-in, one of that very profile (UpsertUserToken and         *)
(* PromoteRefreshTokenByUserID): no token ever stands beside the expiry of *)
(* another, none is stored for another user.                               *)
TokensOfOneSignIn ==
    \A p \in Profiles : users[p] # Nothing =>
        \E s \in SignIns :
            /\ owner[s] = p /\ stage[s] = "done"
            /\ \/ users[p] = held[s]
               \/ held[s].refresh # NoToken /\ users[p] = Promoted(held[s])

(* Unless the last sign-in fell between a promotion's reading and saving   *)
(* (PromoteRefreshTokenByUserID), a user's tokens are those of the last    *)
(* sign-in that was answered with success (handleSigninPost).              *)
LatestSignInKept ==
    \A p \in Profiles \ crossed :
        \/ users[p] = latest[p]
        \/ users[p] # Nothing /\ users[p] = Promoted(latest[p])

(* What sign-in s may hand to the store. *)
Granted(s, row) ==
    row \in [access : {Access(s)}, accessExp : Expiries,
             refresh : {Refresh(s), NoToken}, refreshExp : Expiries]

(* The store in memory (internal/web/user_store.go) changes a row in one    *)
(* step, the database store in several that interleave with others'.       *)
Memory == INSTANCE MemoryUserTokens

(* A promotion that was under way when its user last signed in saves what  *)
(* it made of the tokens of any of that user's sign-ins: no operation of   *)
(* the store in memory takes a sign-in back like that.                     *)
PromotesOtherRow ==
    \E f \in Refreshes, s \in SignIns :
        /\ At(f, "save") /\ owner[f] \in crossed
        /\ At(s, "done") /\ owner[s] = owner[f]
        /\ held[s].refresh # NoToken
        /\ users' = [users EXCEPT ![owner[f]] = Promoted(held[s])]

(* Apart from such promotions every change of the rows is one that the     *)
(* store in memory makes in one step, whatever came between a lookup and   *)
(* the write after it (UpsertUserToken, PromoteRefreshTokenByUserID).      *)
MemoryStoreUnlessCrossed ==
    Memory!Init /\ [][Memory!Next \/ PromotesOtherRow]_users

(* At any time of a row's life the choice of chooseTokenForSync is sound:  *)
(* no token only if none outlives the skew; a token only if it does not    *)
(* expire within the skew, but for the instant at which the refresh token  *)
(* expires at the end of the skew exactly.                                 *)
ChoiceIsSound ==
    \A p \in Profiles : users[p] # Nothing =>
        LET row == users[p]
            limit == now + Skew
            token == ChooseToken(row, now)
        IN IF token = NoToken
           THEN /\ row.access = NoToken \/ ~Outlives(row.accessExp, limit)
                /\ row.refresh = NoToken \/ ~Outlives(row.refreshExp, limit)
           ELSE \/ token = row.access /\ ~Before(row.accessExp, limit)
                \/ token = row.refresh /\ ~Before(row.refreshExp, limit)
                \/ row.refreshExp = limit
=============================================================================
