-------------------------- MODULE MemoryUserTokens --------------------------
(***************************************************************************)
(* The token store of internal/web/user_store.go, for a server without a   *)
(* database: maps behind one mutex, every operation one step.  It is also  *)
(* what the database store promises (UserTokens).  As in the database a    *)
(* profile has one user id, and stands for it.                             *)
(***************************************************************************)
CONSTANTS
    Profiles,
    SignIns,
    Granted(_, _),  \* whether a sign-in was given these tokens and expiries
    NoToken,        \* the empty string
    Nothing

VARIABLE users

Init == users = [p \in Profiles |-> Nothing]

UpsertUserToken(s, p) ==
    /\ Granted(s, users'[p])
    /\ users' = [users EXCEPT ![p] = users'[p]]

PromoteRefreshTokenByUserID(p) ==
    /\ users[p] # Nothing
    /\ users[p].refresh # NoToken
    /\ users' = [users EXCEPT ![p].access = users[p].refresh,
                              ![p].accessExp = users[p].refreshExp]

Next ==
    \E p \in Profiles :
        \/ \E s \in SignIns : UpsertUserToken(s, p)
        \/ PromoteRefreshTokenByUserID(p)

Spec == Init /\ [][Next]_users
=============================================================================
