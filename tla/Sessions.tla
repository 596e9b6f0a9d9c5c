------------------------------ MODULE Sessions ------------------------------
(***************************************************************************)
(* One browser with several tabs: it signs in, opens pages, promotes a     *)
(* refresh token, signs out.  A session is a signed cookie with the user's *)
(* id (internal/web/auth_session.go); the server keeps none.  A request    *)
(* carries the cookie of when it is sent, a response sets or clears the    *)
(* cookie of when it arrives, and responses arrive in any order.           *)
(*                                                                         *)
(* Composes the token store of UserTokens with the handlers of             *)
(* internal/web/server.go that call Spond for a session.                   *)
(***************************************************************************)
EXTENDS UserTokens

CONSTANT Pages      \* requests for pages, each asked for once

ASSUME PagesAssumption == Pages \cap (SignIns \cup Refreshes) = {}

VARIABLES
    cookie,     \* the user of the session in the browser, or Nothing
    page,       \* per page: how far it got, the session it was asked with,
                \* the access token and expiry it read
    reply       \* the responses on their way that change the cookie: what it
                \* is to be

vars == <<now, tokenVars, cookie, page, reply>>

sessionVars == <<cookie, page, reply>>

NewPage == [stage |-> "new", user |-> Nothing, token |-> NoToken, expiry |-> 0]

Init ==
    /\ now = 0
    /\ TokensInit
    /\ cookie = Nothing
    /\ page = [v \in Pages |-> NewPage]
    /\ reply = {}

(* writeSession and clearSession put the cookie into the response. *)
WriteSession(c, p) == reply' = reply \cup {[of |-> c, user |-> p]}

ClearSession(c) == WriteSession(c, Nothing)

(* A response arrives. *)
Receive ==
    /\ \E r \in reply : cookie' = r.user /\ reply' = reply \ {r}
    /\ UNCHANGED <<now, tokenVars, page>>

-----------------------------------------------------------------------------
(* handleSigninPost, to the end. *)
SignIn(s) ==
    /\ \/ Login(s) \/ UpsertFind(s) \/ RequestFails(s)
       \/ UpsertCreate(s) \/ UpsertSave(s)
    /\ IF stage'[s] = "done" THEN WriteSession(s, owner[s]) ELSE reply' = reply
    /\ UNCHANGED <<now, cookie, page>>

(* The tokens cannot be read, for the check before the promotion or for the *)
(* answer after it: unlike the promotion's own errors this ends the session. *)
MetadataFails(f) ==
    /\ \/ At(f, "idle") /\ owner' = [owner EXCEPT ![f] = cookie]
       \/ At(f, "done") /\ owner' = owner
    /\ owner'[f] \in Unreliable
    /\ Advance(f, "failed")
    /\ ClearSession(f)
    /\ UNCHANGED <<now, users, held, latest, crossed, cookie, page>>

(* handleProfileTokensRefreshAPI for the user of the session. *)
Promote(f) ==
    \/ MetadataFails(f)
    \/ /\ \/ RefreshCheck(f) /\ owner'[f] = cookie
          \/ PromoteFind(f) \/ PromoteSave(f) \/ RequestFails(f)
       /\ UNCHANGED <<now, sessionVars>>

-----------------------------------------------------------------------------
(* readSession finds the cookie in the request. *)
OpenPage(v) ==
    /\ page[v].stage = "new" /\ cookie # Nothing
    /\ page' = [page EXCEPT ![v].stage = "token", ![v].user = cookie]
    /\ UNCHANGED <<now, tokenVars, cookie, reply>>

(* Mutant: the session is read anew. *)
SpondClientForCookie(v) ==
    /\ page[v].stage = "token" /\ cookie # Nothing
    /\ page' = [page EXCEPT ![v].stage = "spond",
                            ![v].token = users[cookie].access,
                            ![v].expiry = users[cookie].accessExp]
    /\ UNCHANGED <<now, tokenVars, cookie, reply>>

(* spondClientForSession: TokenByUserID, whose every error ends the         *)
(* session.  The expiry is history: this code does not look at it.          *)
SpondClientForSession(v) ==
    /\ page[v].stage = "token"
    /\ LET row == users[page[v].user]
       IN IF row = Nothing \/ row.access = NoToken
          THEN /\ page' = [page EXCEPT ![v].stage = "failed"]
               /\ ClearSession(v)
          ELSE /\ page' = [page EXCEPT ![v].stage = "spond",
                              ![v].token = row.access, ![v].expiry = row.accessExp]
               /\ reply' = reply
    /\ UNCHANGED <<now, tokenVars, cookie>>

(* Spond refuses a token that has expired (of another sign-in's there is   *)
(* none: see PageTokenIsOwn).                                              *)
Good(token) ==
    \E s \in SignIns : held[s] # Nothing /\
        \/ token = Access(s) /\ Outlives(held[s].accessExp, now)
        \/ token = Refresh(s) /\ Outlives(held[s].refreshExp, now)

(* The page's FetchGroups, and FetchEvents where it has one. *)
ShowPage(v) ==
    /\ page[v].stage = "spond" /\ Good(page[v].token)
    /\ page' = [page EXCEPT ![v].stage = "shown"]
    /\ UNCHANGED <<now, tokenVars, cookie, reply>>

(* "shouldClearSession": whatever the error of Spond or of the store. *)
PageFails(v) ==
    /\ \/ page[v].stage = "spond" /\ ~Good(page[v].token)
       \/ page[v].stage \in {"token", "spond"} /\ page[v].user \in Unreliable
    /\ page' = [page EXCEPT ![v].stage = "failed"]
    /\ ClearSession(v)
    /\ UNCHANGED <<now, tokenVars, cookie>>

(* handleProfileTokensAPI: what the store has, without a call to Spond. *)
Reveal(v) ==
    /\ page[v].stage = "token"
    /\ page' = [page EXCEPT ![v].stage = "shown",
                            ![v].token = users[page[v].user].access,
                            ![v].expiry = users[page[v].user].accessExp]
    /\ UNCHANGED <<now, tokenVars, cookie, reply>>

(* handleLogoutPost asks for no session. *)
Logout(v) ==
    /\ page[v].stage = "new"
    /\ page' = [page EXCEPT ![v].stage = "shown"]
    /\ ClearSession(v)
    /\ UNCHANGED <<now, tokenVars, cookie>>

PageNext(v) ==
    \/ OpenPage(v) \/ SpondClientForSession(v) \/ ShowPage(v) \/ PageFails(v)
    \/ Reveal(v) \/ Logout(v)

Next ==
    \/ \E s \in SignIns : SignIn(s)
    \/ \E f \in Refreshes : Promote(f)
    \/ \E v \in Pages : PageNext(v)
    \/ Receive
    \/ Tick /\ UNCHANGED <<tokenVars, sessionVars>>

Spec == Init /\ [][Next]_vars

-----------------------------------------------------------------------------
(* Whoever is signed in, or will be when a response arrives, or was when a *)
(* page was asked for, has an access token in the store, whatever          *)
(* promotions and other sign-ins do to the row meanwhile: no session is    *)
(* ended because its token is missing (TokenByUserID).                     *)
SessionHasToken ==
    \A p \in {cookie} \cup {r.user : r \in reply} \cup {page[v].user : v \in Pages} :
        p # Nothing => users[p] # Nothing /\ users[p].access # NoToken

(* A page calls Spond with a token given to the very user whose session    *)
(* asked for the page, also if another user signs in with the same browser *)
(* before the page is answered (spondClientForSession).                    *)
PageTokenIsOwn ==
    \A v \in Pages : page[v].token # NoToken =>
        \E s \in SignIns : /\ owner[s] = page[v].user /\ stage[s] = "done"
                           /\ page[v].token \in {Access(s), Refresh(s)}

(* A page, like an export, does without the refresh token and does not     *)
(* look at the expiry.  Yet Spond refuses it, and the session ends, only   *)
(* when the expiry that stands beside the token in the store is past, also *)
(* after promotions (spondClientForSession, spondClientForUserID).         *)
RefusedOnlyIfExpired ==
    \A v \in Pages : page[v].stage = "spond" /\ ~Good(page[v].token) =>
        ~Outlives(page[v].expiry, now)
=============================================================================
