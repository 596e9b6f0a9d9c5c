--------------------------- MODULE Sessions_proofs ---------------------------
(***************************************************************************)
(* Proofs about the browser's sessions: what tabs, sign-ins and promotions *)
(* in any order may do to the session, to the tokens pages call Spond      *)
(* with, and to the token store below.                                     *)
(*                                                                         *)
(* Inv is inductive.  It adds to TokensInv that the user a page was asked  *)
(* for, or a response will sign in, has a row, and that the token of a     *)
(* page and the expiry read with it come from one sign-in of that user.    *)
(***************************************************************************)
EXTENDS Sessions, UserTokens_proofs

HasRow(p) == p \in Profiles /\ users[p] # Nothing

PageOK(v) ==
    /\ page[v].user # Nothing => HasRow(page[v].user)
    /\ page[v].stage \in {"token", "spond"} => page[v].user # Nothing
    /\ page[v].stage = "new" => page[v].token = NoToken
    /\ page[v].stage = "spond" => page[v].token # NoToken
    /\ page[v].token # NoToken =>
          /\ page[v].user # Nothing
          /\ \E s \in SignIns :
                /\ owner[s] = page[v].user /\ stage[s] = "done"
                /\ TokenOf(s, page[v].token, page[v].expiry)

Page == [stage : {"new", "token", "spond", "shown", "failed"},
         user : Profiles \cup {Nothing}, token : Tokens, expiry : Expiries]

Inv ==
    /\ TokensInv
    /\ page \in [Pages -> Page]
    /\ cookie # Nothing => HasRow(cookie)
    /\ \A r \in reply : r.user # Nothing => HasRow(r.user)
    /\ \A v \in Pages : PageOK(v)

-----------------------------------------------------------------------------
(* Inv implies the properties. *)

LEMMA InvSessionHasToken == Inv => SessionHasToken
<1> SUFFICES ASSUME Inv,
                    NEW p \in {cookie} \cup {r.user : r \in reply}
                                \cup {page[v].user : v \in Pages},
                    p # Nothing
             PROVE  users[p] # Nothing /\ users[p].access # NoToken
    BY DEF SessionHasToken
<1>1. HasRow(p)
    BY DEF Inv, PageOK
<1> QED  BY <1>1, RowTokens DEF Inv, HasRow

LEMMA InvPageTokenIsOwn == Inv => PageTokenIsOwn
BY DEF Inv, PageOK, PageTokenIsOwn, TokenOf

LEMMA InvRefusedOnlyIfExpired == Inv => RefusedOnlyIfExpired
<1> SUFFICES ASSUME Inv, NEW v \in Pages,
                    page[v].stage = "spond", Outlives(page[v].expiry, now)
             PROVE  Good(page[v].token)
    BY DEF RefusedOnlyIfExpired
<1>1. PICK s \in SignIns : /\ stage[s] = "done"
                           /\ TokenOf(s, page[v].token, page[v].expiry)
    BY DEF Inv, PageOK
<1>2. held[s] # Nothing
    BY <1>1, GrantedRow, RowAssumption DEF Inv, TokensInv, SignInOK
<1> QED  BY <1>1, <1>2 DEF TokenOf, Good

-----------------------------------------------------------------------------
(* Steps. *)

LEMMA InitInv == Init => Inv
<1> SUFFICES ASSUME Init PROVE Inv
    OBVIOUS
<1>1. TokensInv
    BY InitTokens DEF Init, TokensAlone
<1>2. cookie = Nothing /\ reply = {} /\ page = [v \in Pages |-> NewPage]
    BY DEF Init
<1>3. NewPage \in Page
    BY DEF NewPage, Page, Tokens, Expiries
<1>4. \A v \in Pages : PageOK(v)
    BY <1>2 DEF PageOK, NewPage
<1> QED  BY <1>1, <1>2, <1>3, <1>4 DEF Inv

(* Whatever happens in the token store, pages and responses stay sound. *)
LEMMA PagesStay ==
    ASSUME Inv, SignInsStay, UNCHANGED page
    PROVE  \A v \in Pages : PageOK(v)'
<1>1. \A p : HasRow(p) => HasRow(p)'
    BY DEF HasRow, SignInsStay
<1> SUFFICES ASSUME NEW v \in Pages PROVE PageOK(v)'
    OBVIOUS
<1>2. PageOK(v) /\ page'[v] = page[v]
    BY DEF Inv
<1>3. page[v].user # Nothing => HasRow(page[v].user)'
    BY <1>1, <1>2 DEF PageOK
<1>4. ASSUME page[v].token # NoToken
      PROVE  \E s \in SignIns : /\ owner'[s] = page[v].user /\ stage'[s] = "done"
                                /\ TokenOf(s, page[v].token, page[v].expiry)'
  <2>1. PICK s \in SignIns : /\ owner[s] = page[v].user /\ stage[s] = "done"
                             /\ TokenOf(s, page[v].token, page[v].expiry)
    BY <1>2, <1>4 DEF PageOK
  <2> QED  BY <1>2, <2>1 DEF SignInsStay, TokenOf
<1> QED  BY <1>2, <1>3, <1>4 DEF PageOK, TokenOf

LEMMA SignInStep ==
    ASSUME Inv, NEW s \in SignIns, SignIn(s)
    PROVE  Inv'
<1>1. /\ now' = now /\ cookie' = cookie /\ page' = page
      /\ reply' = IF stage'[s] = "done" THEN reply \cup {[of |-> s, user |-> owner[s]]}
                  ELSE reply
    BY DEF SignIn, WriteSession
<1>2. TokensNext
    BY DEF SignIn, TokensNext, Requests
<1>3. now' \in Times
    BY <1>1 DEF Inv, TokensInv, TokensTypeOK
<1>4. TokensInv'
    BY <1>2, <1>3, TokensNextInv DEF Inv
<1>5. SignInsStay
    BY <1>2, <1>4, TokensPersist DEF Inv
<1>6. \A p : HasRow(p) => HasRow(p)'
    BY <1>5 DEF HasRow, SignInsStay
<1>7. stage'[s] = "done" => owner[s] \in Profiles /\ users'[owner[s]] # Nothing
  <2>1. ASSUME stage'[s] = "done" PROVE owner'[s] = owner[s]
    <3>1. CASE Login(s)
      BY <2>1, <3>1 DEF Login, Advance, Inv, TokensInv, TokensTypeOK, Requests
    <3>2. CASE ~Login(s)
      BY <3>2 DEF SignIn, UpsertFind, UpsertCreate, UpsertSave, RequestFails
    <3> QED  BY <3>1, <3>2
  <2> QED  BY <1>4, <2>1 DEF TokensInv, SignInOK
<1>8. \A v \in Pages : PageOK(v)'
    BY <1>1, <1>5, PagesStay
<1>9. \A r \in reply' : r.user # Nothing => HasRow(r.user)'
    BY <1>1, <1>6, <1>7 DEF Inv, HasRow
<1> QED  BY <1>1, <1>4, <1>6, <1>8, <1>9 DEF Inv

(* The tokens cannot be read: no row changes, but the promotion is over. *)
LEMMA MetadataFailsTokens ==
    ASSUME Inv, NEW f \in Refreshes, MetadataFails(f)
    PROVE  TokensInv' /\ SignInsStay
<1>1. f \in Requests /\ f \notin SignIns /\ PromotionOK(f)
    BY TokensAssumption DEF Requests, Inv, TokensInv
<1>2. /\ stage' = [stage EXCEPT ![f] = "failed"]
      /\ UNCHANGED <<now, users, held, latest, crossed>>
      /\ owner' = [owner EXCEPT ![f] = cookie] \/ owner' = owner
      /\ owner'[f] \in Profiles
    BY ProfilesAssumption DEF MetadataFails, Advance
<1>3. TokensTypeOK
    BY DEF Inv, TokensInv
<1>4. owner'[f] \in Profiles /\ stage'[f] = "failed"
    BY <1>1, <1>2, <1>3 DEF TokensTypeOK
<1>5. \A b \in Requests \ {f} :
         stage'[b] = stage[b] /\ owner'[b] = owner[b] /\ held'[b] = held[b]
    BY <1>2, <1>3 DEF TokensTypeOK
<1>6. owner' \in [Requests -> Profiles \cup {Nothing}]
    BY <1>1, <1>2, <1>3 DEF TokensTypeOK, Inv, HasRow
<1>7. TokensTypeOK'
    BY <1>2, <1>3, <1>6 DEF TokensTypeOK
<1>8. PromotionOK(f)'
    BY <1>4 DEF PromotionOK
<1>9. SignInsStay
    BY <1>1, <1>2, <1>5 DEF SignInsStay, Requests
<1> QED  BY <1>1, <1>2, <1>5, <1>7, <1>8, <1>9, QuietStep DEF Inv

LEMMA PromoteStep ==
    ASSUME Inv, NEW f \in Refreshes, Promote(f)
    PROVE  Inv'
<1>1. CASE MetadataFails(f)
  <2>1. TokensInv' /\ SignInsStay
    BY <1>1, MetadataFailsTokens
  <2>2. /\ reply' = reply \cup {[of |-> f, user |-> Nothing]}
        /\ cookie' = cookie /\ page' = page
    BY <1>1 DEF MetadataFails, ClearSession, WriteSession
  <2>3. \A p : HasRow(p) => HasRow(p)'
    BY <2>1 DEF HasRow, SignInsStay
  <2>4. \A v \in Pages : PageOK(v)'
    BY <2>1, <2>2, PagesStay
  <2> QED  BY <2>1, <2>2, <2>3, <2>4 DEF Inv
<1>2. CASE ~MetadataFails(f)
  <2>1. TokensNext /\ UNCHANGED <<now, sessionVars>>
    BY <1>2 DEF Promote, TokensNext, Requests
  <2>2. TokensInv'
    BY <2>1, TokensNextInv DEF Inv, TokensInv, TokensTypeOK
  <2>3. SignInsStay
    BY <2>1, <2>2, TokensPersist DEF Inv
  <2>4. \A p : HasRow(p) => HasRow(p)'
    BY <2>3 DEF HasRow, SignInsStay
  <2>5. \A v \in Pages : PageOK(v)'
    BY <2>1, <2>3, PagesStay DEF sessionVars
  <2> QED  BY <2>1, <2>2, <2>4, <2>5 DEF Inv, sessionVars
<1> QED  BY <1>1, <1>2

(* A step of page v, which leaves the store as it is and may end a session. *)
LEMMA OnePageStep ==
    ASSUME Inv, NEW v \in Pages, UNCHANGED <<now, tokenVars, cookie>>,
           NEW q \in Page, page' = [page EXCEPT ![v] = q],
           \/ reply' = reply
           \/ reply' = reply \cup {[of |-> v, user |-> Nothing]},
           PageOK(v)'
    PROVE  Inv'
<1>1. TokensInv' /\ page' \in [Pages -> Page]
    BY TokensFrame DEF Inv, TokensInv, TokensTypeOK
<1>2. \A p : HasRow(p) => HasRow(p)'
    BY DEF HasRow, tokenVars
<1>3. ASSUME NEW u \in Pages \ {v} PROVE PageOK(u)'
  <2>1. PageOK(u) /\ page'[u] = page[u]
    BY DEF Inv
  <2> QED  BY <2>1 DEF PageOK, tokenVars, HasRow, TokenOf
<1>4. \A r \in reply' : r.user # Nothing => HasRow(r.user)'
    BY <1>2 DEF Inv
<1> QED  BY <1>1, <1>2, <1>3, <1>4 DEF Inv

LEMMA OpenPageStep ==
    ASSUME Inv, NEW v \in Pages, OpenPage(v)
    PROVE  Inv'
<1> DEFINE q == [page[v] EXCEPT !.stage = "token", !.user = cookie]
<1>1. /\ page[v].stage = "new" /\ cookie # Nothing
      /\ page' = [page EXCEPT ![v] = q] /\ UNCHANGED <<now, tokenVars, cookie, reply>>
    BY DEF OpenPage, Inv
<1>2. page[v] \in Page /\ PageOK(v) /\ HasRow(cookie) /\ page \in [Pages -> Page]
    BY <1>1 DEF Inv
<1>3. /\ q \in Page /\ q.user = cookie /\ q.token = NoToken /\ q.stage = "token"
    BY <1>1, <1>2 DEF Page, PageOK, HasRow
<1> HIDE DEF q
<1>4. page'[v] = q
    BY <1>1, <1>2
<1>5. PageOK(v)'
    BY <1>1, <1>2, <1>3, <1>4 DEF PageOK, HasRow, tokenVars
<1> QED  BY <1>1, <1>3, <1>5, OnePageStep

(* What the store has for the user of a page, if that is a token. *)
LEMMA PageReadsToken ==
    ASSUME Inv, NEW v \in Pages, page[v].stage = "token",
           UNCHANGED <<now, tokenVars, cookie, reply>>,
           NEW st \in {"spond", "shown"},
           page' = [page EXCEPT ![v].stage = st,
                                ![v].token = users[page[v].user].access,
                                ![v].expiry = users[page[v].user].accessExp]
    PROVE  Inv'
<1>1. PICK p \in Profiles :
         /\ page[v].user = p /\ p # Nothing /\ users[p] # Nothing
         /\ page[v] \in Page /\ PageOK(v) /\ page \in [Pages -> Page]
    BY DEF Inv, PageOK, HasRow
<1>2. /\ users[p] \in UserRow /\ users[p].access # NoToken
      /\ \E s \in SignIns :
           /\ owner[s] = p /\ stage[s] = "done"
           /\ TokenOf(s, users[p].access, users[p].accessExp)
    BY <1>1, RowTokens DEF Inv
<1>3. PICK q \in Page : /\ page' = [page EXCEPT ![v] = q]
                        /\ q.user = p /\ q.stage = st
                        /\ q.token = users[p].access /\ q.expiry = users[p].accessExp
  <2> DEFINE r == [page[v] EXCEPT !.stage = st, !.token = users[p].access,
                                  !.expiry = users[p].accessExp]
  <2>1. r \in Page /\ r.user = p /\ r.stage = st
        /\ r.token = users[p].access /\ r.expiry = users[p].accessExp
    BY <1>1, <1>2 DEF Page, UserRow
  <2>2. page' = [page EXCEPT ![v] = r]
    BY <1>1
  <2> HIDE DEF r
  <2> QED  BY <2>1, <2>2
<1>4. UNCHANGED <<users, stage, owner, held>>
    BY DEF tokenVars
<1>5. \E s \in SignIns : owner'[s] = p /\ stage'[s] = "done" /\ TokenOf(s, q.token, q.expiry)'
    BY <1>2, <1>3, <1>4 DEF TokenOf
<1>6. page'[v] = q
    BY <1>1, <1>3
<1>7. PageOK(v)'
    BY <1>1, <1>2, <1>3, <1>4, <1>5, <1>6 DEF PageOK, HasRow, TokenOf
<1> QED  BY <1>3, <1>7, OnePageStep

(* A page is over, as it is. *)
LEMMA PageEnds ==
    ASSUME Inv, NEW v \in Pages, UNCHANGED <<now, tokenVars, cookie>>,
           \/ reply' = reply
           \/ reply' = reply \cup {[of |-> v, user |-> Nothing]},
           NEW st \in {"shown", "failed"}, page' = [page EXCEPT ![v].stage = st]
    PROVE  Inv'
<1> DEFINE q == [page[v] EXCEPT !.stage = st]
<1>1. page[v] \in Page /\ PageOK(v) /\ page \in [Pages -> Page]
    BY DEF Inv
<1>2. page' = [page EXCEPT ![v] = q]
    BY <1>1
<1>3. /\ q \in Page /\ q.user = page[v].user /\ q.stage = st
      /\ q.token = page[v].token /\ q.expiry = page[v].expiry
    BY <1>1 DEF Page
<1>4. page'[v] = q
    BY <1>1, <1>2
<1> HIDE DEF q
<1>5. PageOK(v)'
    BY <1>1, <1>3, <1>4 DEF PageOK, HasRow, tokenVars, TokenOf
<1> QED  BY <1>2, <1>3, <1>5, OnePageStep

LEMMA PageStep ==
    ASSUME Inv, NEW v \in Pages, PageNext(v)
    PROVE  Inv'
<1>1. CASE OpenPage(v)
    BY <1>1, OpenPageStep
<1>2. CASE SpondClientForSession(v)
  <2> DEFINE row == users[page[v].user]
  <2>1. CASE row = Nothing \/ row.access = NoToken
    BY <1>2, <2>1, PageEnds DEF SpondClientForSession, ClearSession, WriteSession
  <2>2. CASE ~(row = Nothing \/ row.access = NoToken)
    BY <1>2, <2>2, PageReadsToken DEF SpondClientForSession
  <2> QED  BY <2>1, <2>2
<1>3. CASE ShowPage(v)
    BY <1>3, PageEnds DEF ShowPage
<1>4. CASE PageFails(v)
    BY <1>4, PageEnds DEF PageFails, ClearSession, WriteSession
<1>5. CASE Reveal(v)
    BY <1>5, PageReadsToken DEF Reveal
<1>6. CASE Logout(v)
    BY <1>6, PageEnds DEF Logout, ClearSession, WriteSession
<1> QED  BY <1>1, <1>2, <1>3, <1>4, <1>5, <1>6 DEF PageNext

(* Time, a response, or nothing. *)
LEMMA QuietSession ==
    ASSUME Inv, now' \in Times, UNCHANGED <<tokenVars, page>>,
           cookie' # Nothing => HasRow(cookie'), reply' \subseteq reply
    PROVE  Inv'
<1>1. TokensInv'
    BY TokensFrame DEF Inv
<1>2. \A p : HasRow(p) => p \in Profiles /\ users'[p] # Nothing
    BY DEF HasRow, tokenVars
<1>3. (cookie # Nothing => HasRow(cookie))'
    BY <1>2 DEF HasRow
<1>4. (\A r \in reply : r.user # Nothing => HasRow(r.user))'
    BY <1>2 DEF Inv, HasRow
<1>5. SignInsStay
    BY DEF SignInsStay, tokenVars
<1>6. \A v \in Pages : PageOK(v)'
    BY <1>5, PagesStay
<1> QED  BY <1>1, <1>3, <1>4, <1>6 DEF Inv

LEMMA NextInv == Inv /\ [Next]_vars => Inv'
<1> SUFFICES ASSUME Inv, [Next]_vars PROVE Inv'
    OBVIOUS
<1>1. now \in Times
    BY DEF Inv, TokensInv, TokensTypeOK
<1>2. CASE \E s \in SignIns : SignIn(s)
    BY <1>2, SignInStep
<1>3. CASE \E f \in Refreshes : Promote(f)
    BY <1>3, PromoteStep
<1>4. CASE \E v \in Pages : PageNext(v)
    BY <1>4, PageStep
<1>5. CASE Receive
    BY <1>1, <1>5, QuietSession DEF Receive, Inv
<1>6. CASE Tick /\ UNCHANGED <<tokenVars, sessionVars>>
    BY <1>1, <1>6, TickTimes, QuietSession DEF sessionVars, Inv
<1>7. CASE UNCHANGED vars
    BY <1>1, <1>7, QuietSession DEF vars, Inv
<1> QED  BY <1>2, <1>3, <1>4, <1>5, <1>6, <1>7 DEF Next

LEMMA Safe == Spec => []Inv
BY InitInv, NextInv, PTL DEF Spec

-----------------------------------------------------------------------------
(* Whoever is signed in, or will be when a response arrives, or was when a  *)
(* page was asked for, has an access token in the store (TokenByUserID).    *)
THEOREM SessionsHaveTokens == Spec => []SessionHasToken
BY Safe, InvSessionHasToken, PTL

(* A page calls Spond with a token given to the user of its own session     *)
(* (spondClientForSession).                                                 *)
THEOREM PageTokensAreOwn == Spec => []PageTokenIsOwn
BY Safe, InvPageTokenIsOwn, PTL

(* Spond refuses a page, and the session ends, only when the expiry that    *)
(* stands beside the token in the store is past (spondClientForSession).    *)
THEOREM OnlyExpiredAreRefused == Spec => []RefusedOnlyIfExpired
BY Safe, InvRefusedOnlyIfExpired, PTL

(* With a browser above it, too, a row's fields come from one sign-in of    *)
(* that very profile (UpsertUserToken, PromoteRefreshTokenByUserID).        *)
THEOREM SessionsKeepOneSignIn == Spec => []TokensOfOneSignIn
<1>1. Inv => TokensOfOneSignIn
    BY DEF Inv, TokensInv
<1> QED  BY Safe, <1>1, PTL

(* ... a user whose last sign-in no promotion overtook has its tokens ...   *)
THEOREM SessionsKeepLatestSignIn == Spec => []LatestSignInKept
<1>1. Inv => LatestSignInKept
    BY DEF Inv, TokensInv
<1> QED  BY Safe, <1>1, PTL

(* ... and the rows change as those of the store in memory do, except where *)
(* a promotion that was under way at its user's last sign-in is saved       *)
(* (internal/web/user_store.go, PromoteRefreshTokenByUserID).               *)
THEOREM SessionsStepsOfTheMemoryStore == Spec => MemoryStoreUnlessCrossed
<1>1. Init => Memory!Init
    BY InitMemory DEF Init
<1>2. Inv /\ [Next]_vars => [Memory!Next \/ PromotesOtherRow]_users
  <2> SUFFICES ASSUME Inv, [Next]_vars
               PROVE  Memory!Next \/ PromotesOtherRow \/ users' = users
    OBVIOUS
  <2>1. CASE TokensNext
    BY <2>1, TokensNextMemory DEF Inv
  <2>2. CASE \E f \in Refreshes : MetadataFails(f)
    BY <2>2 DEF MetadataFails
  <2>3. CASE UNCHANGED tokenVars
    BY <2>3 DEF tokenVars
  <2>4. TokensNext \/ (\E f \in Refreshes : MetadataFails(f)) \/ UNCHANGED tokenVars
    <3>1. ASSUME NEW s \in SignIns, SignIn(s) PROVE TokensNext
      BY <3>1 DEF SignIn, TokensNext, Requests
    <3>2. ASSUME NEW f \in Refreshes, Promote(f) PROVE TokensNext \/ MetadataFails(f)
      BY <3>2 DEF Promote, TokensNext, Requests
    <3>3. ASSUME NEW v \in Pages, PageNext(v) PROVE UNCHANGED tokenVars
      BY <3>3 DEF PageNext, OpenPage, SpondClientForSession, ShowPage, PageFails,
                  Reveal, Logout
    <3>4. Receive \/ UNCHANGED vars => UNCHANGED tokenVars
      BY DEF Receive, vars
    <3> QED  BY <3>1, <3>2, <3>3, <3>4 DEF Next
  <2> QED  BY <2>1, <2>2, <2>3, <2>4
<1> QED  BY Safe, <1>1, <1>2, PTL DEF Spec, MemoryStoreUnlessCrossed

(* As long as no sign-in falls between the lookup and the save of a        *)
(* promotion of the same user, a browser sees rows that the store in       *)
(* memory could have as well (internal/web/user_store.go).                 *)
THEOREM UncrossedSessionsOnMemoryStore == Spec /\ [](crossed = {}) => Memory!Spec
<1>1. crossed = {} /\ [Memory!Next \/ PromotesOtherRow]_users => [Memory!Next]_users
    BY UncrossedMemory
<1> QED  BY SessionsStepsOfTheMemoryStore, <1>1, PTL DEF MemoryStoreUnlessCrossed, Memory!Spec
=============================================================================
