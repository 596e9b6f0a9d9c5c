------------------------- MODULE MemoryAccessTokens -------------------------
(***************************************************************************)
(* The access token store of internal/web/access_token_store.go, for a     *)
(* server without a database: a map from tokens behind one mutex, every    *)
(* operation one step.  It is also what the database store promises        *)
(* (AccessTokens).                                                         *)
(***************************************************************************)
EXTENDS Integers

CONSTANTS
    Users,
    Tokens,         \* the random strings
    Expirations,    \* the expiration dates that users ask for
    NoDate          \* none

VARIABLES
    now,
    nextID,
    byToken         \* a partial function from tokens

vars == <<now, nextID, byToken>>

Entry(id, user, date) == [id |-> id, user |-> user, expires |-> date]

Without(gone) == [t \in DOMAIN byToken \ gone |-> byToken[t]]

Init ==
    /\ now = 0
    /\ nextID = 1
    /\ byToken = [t \in {} |-> Entry(0, 0, NoDate)]

CreateAccessToken(user, token, date) ==
    /\ byToken' = [t \in DOMAIN byToken \cup {token} |->
                      IF t = token THEN Entry(nextID, user, date) ELSE byToken[t]]
    /\ nextID' = nextID + 1
    /\ now' = now

DeleteAccessTokenByID(user, id) ==
    /\ \E t \in DOMAIN byToken :
          /\ byToken[t].id = id /\ byToken[t].user = user
          /\ byToken' = Without({t})
    /\ UNCHANGED <<now, nextID>>

DeleteAccessTokenByToken(token) ==
    /\ token \in DOMAIN byToken
    /\ byToken' = Without({token})
    /\ UNCHANGED <<now, nextID>>

DeleteExpiredAccessTokensByUserID(user) ==
    /\ byToken' = Without({t \in DOMAIN byToken :
                              /\ byToken[t].user = user
                              /\ byToken[t].expires # NoDate
                              /\ byToken[t].expires <= now})
    /\ UNCHANGED <<now, nextID>>

TimePasses == now' > now /\ UNCHANGED <<nextID, byToken>>

(* The server calls for a token's deletion only when it has expired, and   *)
(* makes no token twice.                                                   *)
Next ==
    \/ \E user \in Users :
          \/ \E token \in Tokens \ DOMAIN byToken,
                date \in Expirations \cup {NoDate} :
                CreateAccessToken(user, token, date)
          \/ \E id \in 1..nextID : DeleteAccessTokenByID(user, id)
          \/ DeleteExpiredAccessTokensByUserID(user)
    \/ \E token \in DOMAIN byToken :
          /\ byToken[token].expires # NoDate /\ byToken[token].expires <= now
          /\ DeleteAccessTokenByToken(token)
    \/ TimePasses

Spec == Init /\ [][Next]_vars
=============================================================================
