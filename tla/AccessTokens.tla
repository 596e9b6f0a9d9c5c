---------------------------- MODULE AccessTokens ----------------------------
(***************************************************************************)
(* The access tokens with which calendar programs fetch a user's events    *)
(* without a session (internal/db/access_tokens.go), and the handlers of   *)
(* internal/web/server.go that create, list, revoke and honour them.       *)
(*                                                                         *)
(* The profile page lists the tokens with their ids, and a click revokes   *)
(* by id: later, when the list may be old, and for whoever is signed in    *)
(* by then.  An export looks the token up first and works with the copy.   *)
(* The scope of a token is left out, its category is always the same.      *)
(***************************************************************************)
EXTENDS Clock

CONSTANTS
    Creations,      \* requests for a token; each stands for the random token
                    \* that it makes
    Tabs,           \* browser tabs with a profile page
    Exports,        \* requests of calendar programs
    Expirations,    \* the expiration dates that users ask for
    NoDate          \* none

ASSUME AccessAssumption ==
    /\ Expirations \subseteq Nat
    /\ NoDate \notin Nat
    /\ Nothing \notin Creations

VARIABLES
    tokens,     \* the rows of access_tokens
    lastId,     \* the last primary key given
    created,    \* the requests that made a token
    tab,        \* per tab: how far its request got, the user signed in, the
                \* list it shows
    export,     \* per export: how far it got, its token, the row it found
    revoked,    \* history: tokens whose revocation was answered with success
    late        \* history: exports that began with a token revoked or expired

vars == <<now, tokens, lastId, created, tab, export, revoked, late>>

AccessToken == [id : Nat, user : Profiles, token : Creations,
                expires : Nat \cup {NoDate}]

NewTab == [stage |-> "new", user |-> Nothing, list |-> {}]

NewExport == [stage |-> "new", token |-> Nothing, row |-> Nothing]

Init ==
    /\ now = 0
    /\ tokens = {}
    /\ lastId = 0
    /\ created = {}
    /\ tab = [v \in Tabs |-> NewTab]
    /\ export = [x \in Exports |-> NewExport]
    /\ revoked = {}
    /\ late = {}

(* isAccessTokenExpiredAt. *)
Expired(row) == row.expires # NoDate /\ row.expires <= now

(* Mutant: ids without AUTOINCREMENT, one more than the greatest there is. *)
NewIdAnew == Max({0} \cup {row.id : row \in tokens}) + 1

(* AUTOINCREMENT, or a sequence: no id is given twice. *)
NewId == lastId + 1

(* handleAccessTokenCreatePost and handleCreateAccessTokenAPI.  The date   *)
(* may be one that is past.                                                *)
CreateAccessToken(c) ==
    /\ c \notin created
    /\ \E p \in Profiles, date \in Expirations \cup {NoDate} :
          tokens' = tokens \cup
              {[id |-> NewId, user |-> p, token |-> c, expires |-> date]}
    /\ lastId' = NewId
    /\ created' = created \cup {c}
    /\ UNCHANGED <<now, tab, export, revoked, late>>

-----------------------------------------------------------------------------
(* Mutant: whoever they belong to. *)
ExpiredTokensOfAll(p) ==
    {row \in tokens : row.expires # NoDate /\ row.expires <= now}

(* What DeleteExpiredAccessTokensByUserID deletes. *)
ExpiredTokensOf(p) ==
    {row \in tokens : row.user = p /\ row.expires # NoDate /\ row.expires <= now}

(* handleProfilePage cleans up first ... *)
DeleteExpired(v) ==
    /\ tab[v].stage = "new"
    /\ \E p \in Profiles :
          /\ tokens' = tokens \ ExpiredTokensOf(p)
          /\ tab' = [tab EXCEPT ![v].stage = "list", ![v].user = p]
    /\ UNCHANGED <<now, lastId, created, export, revoked, late>>

(* ... and lists what is left. *)
ListTokens(v) ==
    /\ tab[v].stage = "list"
    /\ tab' = [tab EXCEPT ![v].stage = "shown",
                 ![v].list = {row \in tokens : row.user = tab[v].user}]
    /\ UNCHANGED <<now, tokens, lastId, created, export, revoked, late>>

(* Another user signs in with the browser the page is still open in. *)
ChangeSession(v) ==
    /\ tab[v].stage = "shown"
    /\ \E p \in Profiles : tab' = [tab EXCEPT ![v].user = p]
    /\ UNCHANGED <<now, tokens, lastId, created, export, revoked, late>>

(* Mutant: RowsAffected is not looked at. *)
RevokeUnchecked(v) ==
    /\ tab[v].stage = "shown"
    /\ \E row \in tab[v].list :
          /\ tokens' = {t \in tokens : ~(t.id = row.id /\ t.user = tab[v].user)}
          /\ revoked' = revoked \cup {row.token}
    /\ UNCHANGED <<now, lastId, created, tab, export, late>>

(* A click on a row shown: DeleteAccessTokenByID for the user who is signed *)
(* in now, which fails if it finds nothing to delete.                       *)
Revoke(v) ==
    /\ tab[v].stage = "shown"
    /\ \E row \in tab[v].list :
          LET hit == {t \in tokens : t.id = row.id /\ t.user = tab[v].user}
          IN /\ hit # {}
             /\ tokens' = tokens \ hit
             /\ revoked' = revoked \cup {row.token}
    /\ UNCHANGED <<now, lastId, created, tab, export, late>>

-----------------------------------------------------------------------------
(* Mutant: that there is no such token is not looked at. *)
AccessTokenByTokenUnchecked(t, found) ==
    [stage |-> "check", token |-> t,
     row |-> IF found = {} THEN Nothing ELSE CHOOSE row \in found : TRUE]

AccessTokenByToken(t, found) ==
    IF found = {}
    THEN [stage |-> "refused", token |-> t, row |-> Nothing]
    ELSE [stage |-> "check", token |-> t, row |-> CHOOSE row \in found : TRUE]

(* handleEventsExportForAccessToken looks up the token, ... *)
ExportFind(x) ==
    /\ export[x].stage = "new"
    /\ \E t \in created :
          LET found == {row \in tokens : row.token = t}
              spoilt == \/ t \in revoked
                        \/ \A row \in found : row.expires # NoDate /\ row.expires <= now
          IN /\ export' = [export EXCEPT ![x] = AccessTokenByToken(t, found)]
             /\ late' = IF spoilt THEN late \cup {x} ELSE late
    /\ UNCHANGED <<now, tokens, lastId, created, tab, revoked>>

(* ... takes the time, ... *)
ExportCheck(x) ==
    /\ export[x].stage = "check"
    /\ export' = [export EXCEPT ![x].stage =
                    IF Expired(export[x].row) THEN "delete" ELSE "serve"]
    /\ UNCHANGED <<now, tokens, lastId, created, tab, revoked, late>>

(* ... deletes it if it has expired, ... *)
ExportDelete(x) ==
    /\ export[x].stage = "delete"
    /\ tokens' = {row \in tokens : row.token # export[x].token}
    /\ export' = [export EXCEPT ![x].stage = "refused"]
    /\ UNCHANGED <<now, lastId, created, tab, revoked, late>>

(* ... with whatever success, ... *)
ExportDeleteFails(x) ==
    /\ export[x].stage = "delete"
    /\ export[x].row.user \in Unreliable
    /\ export' = [export EXCEPT ![x].stage = "refused"]
    /\ UNCHANGED <<now, tokens, lastId, created, tab, revoked, late>>

(* ... or asks Spond for the events and returns them. *)
ExportServe(x) ==
    /\ export[x].stage = "serve"
    /\ export' = [export EXCEPT ![x].stage = "served"]
    /\ UNCHANGED <<now, tokens, lastId, created, tab, revoked, late>>

ExportFails(x) ==
    /\ export[x].stage \in {"check", "serve"}
    /\ export[x].row.user \in Unreliable
    /\ export' = [export EXCEPT ![x].stage = "failed"]
    /\ UNCHANGED <<now, tokens, lastId, created, tab, revoked, late>>

Next ==
    \/ \E c \in Creations : CreateAccessToken(c)
    \/ \E v \in Tabs :
          DeleteExpired(v) \/ ListTokens(v) \/ ChangeSession(v) \/ Revoke(v)
    \/ \E x \in Exports :
          \/ ExportFind(x) \/ ExportCheck(x) \/ ExportServe(x)
          \/ ExportDelete(x) \/ ExportDeleteFails(x) \/ ExportFails(x)
    \/ Tick /\ UNCHANGED <<tokens, lastId, created, tab, export, revoked, late>>

Spec == Init /\ [][Next]_vars

-----------------------------------------------------------------------------
(* Once a revocation was answered with success, or the expiration is there, *)
(* no export that begins is served: whoever clicked, on however old a list  *)
(* (handleAccessTokenDeletePost, handleEventsExportForAccessToken).         *)
LateIsNotServed == \A x \in late : export[x].stage # "served"

(* A row leaves the table only if it has expired, or if its owner, signed   *)
(* in, clicks on that very token: no clean-up, no export and no click on a  *)
(* list from before other deletions and creations takes another's or        *)
(* another token (DeleteAccessTokenByID, DeleteExpiredAccessTokensByUserID, *)
(* DeleteAccessTokenByToken).                                               *)
OnlyMeantRowsGo ==
    [][\A row \in tokens \ tokens' :
          \/ row.expires # NoDate /\ row.expires <= now
          \/ \E v \in Tabs : tab[v].user = row.user /\ row \in tab[v].list
                             /\ row.token \in revoked']_vars

(* The rows, changed by several statements of several requests, are at any *)
(* time what the store in memory would have after one operation for every  *)
(* change: no id is given again, no deletion takes more than its operation *)
(* deletes (internal/db/access_tokens.go, internal/web/access_token_store.go). *)
Memory == INSTANCE MemoryAccessTokens WITH
    Users <- Profiles,
    Tokens <- Creations,
    nextID <- lastId + 1,
    byToken <- [t \in {row.token : row \in tokens} |->
                   LET row == CHOOSE row \in tokens : row.token = t
                   IN [id |-> row.id, user |-> row.user, expires |-> row.expires]]

ImplementsMemoryStore == Memory!Spec

(* Types, and what the unique index and the primary key promise. *)
TypeOK ==
    /\ now \in Times
    /\ tokens \subseteq AccessToken
    /\ lastId \in Nat
    /\ created \subseteq Creations
    /\ revoked \subseteq created
    /\ late \subseteq Exports
    /\ \A a, b \in tokens : a.id = b.id \/ a.token = b.token => a = b
    /\ \A v \in Tabs : tab[v].list \subseteq AccessToken
    /\ \A x \in Exports : export[x].stage \in {"check", "delete", "serve"} =>
          export[x].row \in AccessToken
=============================================================================
