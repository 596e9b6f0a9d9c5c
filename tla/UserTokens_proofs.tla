------------------------- MODULE UserTokens_proofs -------------------------
(***************************************************************************)
(* Proofs about the token store: what a user's row may hold while          *)
(* sign-ins and promotions undo each other, and how far the database store *)
(* implements the one in memory.                                           *)
(*                                                                         *)
(* TokensInv is inductive.  Every action has a lemma, so that modules that *)
(* compose the store with others (Sessions, EventsWorker) cite it.         *)
(***************************************************************************)
EXTENDS UserTokens, TLAPS

(* What sign-in s holds once Spond has granted it, and once it is stored.  *)
SignInOK(s) ==
    /\ stage[s] \in {"idle", "find", "create", "save", "done", "failed"}
    /\ stage[s] # "idle" => owner[s] \in Profiles
    /\ stage[s] \in {"find", "create", "save", "done"} => Granted(s, held[s])
    /\ stage[s] \in {"save", "done"} => users[owner[s]] # Nothing

(* row is what sign-in s of p wrote, with or without a promotion. *)
WrittenBy(row, s, p) ==
    /\ owner[s] = p /\ stage[s] = "done"
    /\ \/ row = held[s]
       \/ held[s].refresh # NoToken /\ row = Promoted(held[s])

(* A promotion is about to write back what some sign-in of that user wrote, *)
(* the last one unless the user is crossed.                                 *)
PromotionOK(f) ==
    /\ stage[f] \in {"idle", "promote", "save", "done", "failed"}
    /\ stage[f] # "idle" => owner[f] \in Profiles
    /\ stage[f] \in {"promote", "save"} => users[owner[f]] # Nothing
    /\ stage[f] = "save" =>
          /\ \E s \in SignIns : /\ owner[s] = owner[f] /\ stage[s] = "done"
                                /\ held[s].refresh # NoToken
                                /\ held[f] = Promoted(held[s])
          /\ owner[f] \notin crossed => held[f] = Promoted(latest[owner[f]])

LatestOK(p) ==
    /\ users[p] = Nothing <=> latest[p] = Nothing
    /\ latest[p] # Nothing => \E s \in SignIns :
          owner[s] = p /\ stage[s] = "done" /\ latest[p] = held[s]
    /\ p \in crossed => users[p] # Nothing

TokensInv ==
    /\ TokensTypeOK
    /\ \A s \in SignIns : SignInOK(s)
    /\ \A f \in Refreshes : PromotionOK(f)
    /\ \A p \in Profiles : LatestOK(p)
    /\ TokensOfOneSignIn
    /\ LatestSignInKept

-----------------------------------------------------------------------------
(* Rows.                                                                   *)

LEMMA PromotedRow ==
    ASSUME NEW row \in UserRow
    PROVE  /\ Promoted(row) \in UserRow
           /\ Promoted(row).access = row.refresh
           /\ Promoted(row).accessExp = row.refreshExp
           /\ Promoted(row).refresh = row.refresh
           /\ Promoted(row).refreshExp = row.refreshExp
           /\ Promoted(Promoted(row)) = Promoted(row)
BY DEF Promoted, UserRow

LEMMA GrantedRow ==
    ASSUME NEW s \in SignIns, NEW row, Granted(s, row)
    PROVE  row \in UserRow
BY DEF Granted, UserRow, Tokens, Access, Refresh

LEMMA GrantsAreGranted ==
    ASSUME now \in Times, NEW s \in SignIns, NEW row \in Grants(s)
    PROVE  Granted(s, row)
<1>1. now \in Nat
    BY TimeAssumption DEF Times
<1>2. ({Never} \cup {now + n : n \in Lifetimes}) \subseteq Expiries
    BY <1>1, TokensAssumption DEF Expiries
<1> QED  BY <1>2 DEF Granted, Grants

LEMMA InitTokens == TokensAlone => TokensInv
<1> SUFFICES ASSUME TokensAlone PROVE TokensInv
    OBVIOUS
<1>1. /\ now = 0 /\ crossed = {}
      /\ users = [p \in Profiles |-> Nothing] /\ latest = [p \in Profiles |-> Nothing]
      /\ stage = [c \in Requests |-> "idle"]
      /\ owner = [c \in Requests |-> Nothing] /\ held = [c \in Requests |-> Nothing]
    BY DEF TokensAlone, TokensInit
<1>2. TokensTypeOK
    BY <1>1, TimeAssumption DEF TokensTypeOK, Times
<1>3. \A s \in SignIns : SignInOK(s)
    BY <1>1 DEF SignInOK, Requests
<1>4. \A f \in Refreshes : PromotionOK(f)
    BY <1>1 DEF PromotionOK, Requests
<1>5. (\A p \in Profiles : LatestOK(p)) /\ TokensOfOneSignIn /\ LatestSignInKept
    BY <1>1 DEF LatestOK, TokensOfOneSignIn, LatestSignInKept
<1> QED  BY <1>2, <1>3, <1>4, <1>5 DEF TokensInv

-----------------------------------------------------------------------------
(* Steps.  Those that write no row leave every row what it was.            *)

(* A request c moves on, or starts for an owner; it is no sign-in that is   *)
(* done.                                                                    *)
LEMMA QuietStep ==
    ASSUME TokensInv, TokensTypeOK', NEW c \in Requests,
           c \in SignIns => stage[c] # "done",
           \A b \in Requests \ {c} :
              stage'[b] = stage[b] /\ owner'[b] = owner[b] /\ held'[b] = held[b],
           UNCHANGED <<users, latest, crossed>>,
           c \in SignIns => SignInOK(c)', c \in Refreshes => PromotionOK(c)'
    PROVE  TokensInv'
<1>1. \A s \in SignIns \ {c} : SignInOK(s)'
    BY DEF TokensInv, SignInOK, Requests, Granted
<1>2. \A s \in SignIns : stage[s] = "done" =>
          stage'[s] = "done" /\ owner'[s] = owner[s] /\ held'[s] = held[s]
    BY DEF Requests
<1>3. ASSUME NEW f \in Refreshes \ {c} PROVE PromotionOK(f)'
  <2>1. PromotionOK(f) /\ stage'[f] = stage[f] /\ owner'[f] = owner[f] /\ held'[f] = held[f]
    BY <1>3 DEF TokensInv, Requests
  <2> QED  BY <1>2, <2>1 DEF PromotionOK
<1>4. \A p \in Profiles : LatestOK(p)'
    BY <1>2 DEF TokensInv, LatestOK
<1>5. TokensOfOneSignIn' /\ LatestSignInKept'
    BY <1>2 DEF TokensInv, TokensOfOneSignIn, LatestSignInKept
<1> QED  BY <1>1, <1>3, <1>4, <1>5 DEF TokensInv

LEMMA LoginStep ==
    ASSUME TokensInv, now' \in Times, NEW s \in SignIns, Login(s)
    PROVE  TokensInv'
<1>1. PICK p \in Profiles, row \in Grants(s) :
          /\ owner' = [owner EXCEPT ![s] = p] /\ held' = [held EXCEPT ![s] = row]
          /\ stage[s] = "idle" /\ stage' = [stage EXCEPT ![s] = "find"]
          /\ UNCHANGED <<users, latest, crossed>>
    BY DEF Login, At, Advance
<1>2. Granted(s, row) /\ row \in UserRow /\ s \in Requests
    BY GrantsAreGranted, GrantedRow DEF TokensInv, TokensTypeOK, Requests
<1>3. TokensTypeOK'
    BY <1>1, <1>2 DEF TokensInv, TokensTypeOK
<1>4. SignInOK(s)'
    BY <1>1, <1>2 DEF SignInOK, TokensInv, TokensTypeOK, Granted
<1> QED  BY <1>1, <1>2, <1>3, <1>4, QuietStep, TokensAssumption
         DEF TokensInv, TokensTypeOK

LEMMA UpsertFindStep ==
    ASSUME TokensInv, now' \in Times, NEW s \in SignIns, UpsertFind(s)
    PROVE  TokensInv'
<1>1. /\ stage[s] = "find"
      /\ stage' = [stage EXCEPT ![s] =
                      IF users[owner[s]] = Nothing THEN "create" ELSE "save"]
      /\ UNCHANGED <<users, owner, held, latest, crossed>>
    BY DEF UpsertFind, At, Advance
<1>2. s \in Requests /\ SignInOK(s) /\ s \notin Refreshes
    BY TokensAssumption DEF Requests, TokensInv
<1>3. TokensTypeOK'
    BY <1>1 DEF TokensInv, TokensTypeOK
<1>4. SignInOK(s)'
    BY <1>1, <1>2 DEF SignInOK, TokensInv, TokensTypeOK, Granted
<1> QED  BY <1>1, <1>2, <1>3, <1>4, QuietStep DEF TokensInv, TokensTypeOK

(* A sign-in stores its tokens. *)
LEMMA WriteSignInStep ==
    ASSUME TokensInv, now' \in Times, NEW s \in SignIns,
           stage[s] \in {"create", "save"}, WriteSignIn(s), Advance(s, "done"),
           UNCHANGED <<owner, held>>
    PROVE  TokensInv'
<1> DEFINE p == owner[s]
<1>1. SignInOK(s) /\ s \in Requests /\ s \notin Refreshes
    BY TokensAssumption DEF Requests, TokensInv
<1>2. p \in Profiles /\ Granted(s, held[s]) /\ held[s] \in UserRow /\ held[s] # Nothing
    BY <1>1, GrantedRow, RowAssumption DEF SignInOK
<1>3. /\ users' = [users EXCEPT ![p] = held[s]]
      /\ latest' = [latest EXCEPT ![p] = held[s]]
      /\ stage' = [stage EXCEPT ![s] = "done"]
    BY DEF WriteSignIn, WriteRow, Advance
<1>4. crossed' = IF \E f \in Refreshes : owner[f] = p /\ stage[f] = "save"
                 THEN crossed \cup {p} ELSE crossed \ {p}
    BY DEF WriteSignIn, At
<1> HIDE DEF p
<1>5. TokensTypeOK'
    BY <1>2, <1>3, <1>4 DEF TokensInv, TokensTypeOK
<1>6. \A q \in Profiles : users[q] # Nothing => users'[q] # Nothing
    BY <1>2, <1>3 DEF TokensInv, TokensTypeOK
<1>7. \A t \in SignIns : stage[t] = "done" => stage'[t] = "done"
    BY <1>3 DEF TokensInv, TokensTypeOK, Requests
<1>8. stage'[s] = "done" /\ owner[s] = p
    BY <1>1, <1>3 DEF TokensInv, TokensTypeOK, p
<1>9. ASSUME NEW t \in SignIns PROVE SignInOK(t)'
  <2>1. CASE t = s
    BY <1>2, <1>3, <1>8, <2>1 DEF SignInOK, Granted, TokensInv, TokensTypeOK
  <2>2. CASE t # s
    <3>1. SignInOK(t) /\ stage'[t] = stage[t]
      BY <1>3, <2>2 DEF TokensInv, TokensTypeOK, Requests
    <3> QED  BY <3>1, <1>6 DEF SignInOK, Granted
  <2> QED  BY <2>1, <2>2
<1>10. ASSUME NEW f \in Refreshes PROVE PromotionOK(f)'
  <2>1. PromotionOK(f) /\ stage'[f] = stage[f]
    BY <1>1, <1>3 DEF TokensInv, TokensTypeOK, Requests
  <2>2. stage[f] = "save" /\ owner[f] \notin crossed' =>
           owner[f] \notin crossed /\ latest'[owner[f]] = latest[owner[f]]
    BY <1>3, <1>4, <2>1 DEF PromotionOK, TokensInv, TokensTypeOK
  <2> QED  BY <1>6, <1>7, <2>1, <2>2 DEF PromotionOK
<1>11. ASSUME NEW q \in Profiles PROVE LatestOK(q)'
  <2>1. CASE q = p
    BY <1>2, <1>3, <1>8, <2>1 DEF LatestOK, TokensInv, TokensTypeOK
  <2>2. CASE q # p
    <3>1. /\ users'[q] = users[q] /\ latest'[q] = latest[q]
          /\ q \in crossed' => q \in crossed
      BY <1>3, <1>4, <2>2 DEF TokensInv, TokensTypeOK
    <3> QED  BY <1>7, <3>1 DEF LatestOK, TokensInv
  <2> QED  BY <2>1, <2>2
<1>12. TokensOfOneSignIn'
  <2> SUFFICES ASSUME NEW q \in Profiles, users'[q] # Nothing
               PROVE  \E t \in SignIns : WrittenBy(users[q], t, q)'
    BY DEF TokensOfOneSignIn, WrittenBy
  <2>1. CASE q = p
    BY <1>2, <1>3, <1>8, <2>1 DEF WrittenBy, TokensInv, TokensTypeOK
  <2>2. CASE q # p
    BY <1>3, <1>7, <2>2 DEF WrittenBy, TokensOfOneSignIn, TokensInv, TokensTypeOK
  <2> QED  BY <2>1, <2>2
<1>13. LatestSignInKept'
    BY <1>2, <1>3, <1>4 DEF LatestSignInKept, TokensInv, TokensTypeOK
<1> QED  BY <1>5, <1>9, <1>10, <1>11, <1>12, <1>13 DEF TokensInv

LEMMA UpsertCreateStep ==
    ASSUME TokensInv, now' \in Times, NEW s \in SignIns, UpsertCreate(s)
    PROVE  TokensInv'
<1>1. CASE users[owner[s]] = Nothing
    BY <1>1, WriteSignInStep DEF UpsertCreate, At
<1>2. CASE users[owner[s]] # Nothing
  <2>1. /\ stage[s] = "create" /\ stage' = [stage EXCEPT ![s] = "failed"]
        /\ UNCHANGED <<users, owner, held, latest, crossed>>
    BY <1>2 DEF UpsertCreate, At, Advance
  <2>2. s \in Requests /\ SignInOK(s) /\ s \notin Refreshes
    BY TokensAssumption DEF Requests, TokensInv
  <2>3. TokensTypeOK'
    BY <2>1 DEF TokensInv, TokensTypeOK
  <2>4. SignInOK(s)'
    BY <2>1, <2>2 DEF SignInOK, TokensInv, TokensTypeOK
  <2> QED  BY <2>1, <2>2, <2>3, <2>4, QuietStep DEF TokensInv, TokensTypeOK
<1> QED  BY <1>1, <1>2

LEMMA UpsertSaveStep ==
    ASSUME TokensInv, now' \in Times, NEW s \in SignIns, UpsertSave(s)
    PROVE  TokensInv'
BY WriteSignInStep DEF UpsertSave, At

LEMMA RefreshCheckStep ==
    ASSUME TokensInv, now' \in Times, NEW f \in Refreshes, RefreshCheck(f)
    PROVE  TokensInv'
<1>1. PICK p \in Profiles :
          /\ users[p] # Nothing /\ owner' = [owner EXCEPT ![f] = p]
          /\ stage' = [stage EXCEPT ![f] =
                IF users[p].refresh = NoToken THEN "failed" ELSE "promote"]
    BY DEF RefreshCheck, Advance
<1>2. stage[f] = "idle" /\ UNCHANGED <<users, held, latest, crossed>>
    BY DEF RefreshCheck, At
<1>3. f \in Requests /\ PromotionOK(f) /\ f \notin SignIns
    BY TokensAssumption DEF Requests, TokensInv
<1>4. TokensTypeOK'
    BY <1>1, <1>2 DEF TokensInv, TokensTypeOK
<1>5. PromotionOK(f)'
    BY <1>1, <1>2, <1>3 DEF PromotionOK, TokensInv, TokensTypeOK
<1> QED  BY <1>1, <1>2, <1>3, <1>4, <1>5, QuietStep DEF TokensInv, TokensTypeOK

LEMMA PromoteFindStep ==
    ASSUME TokensInv, now' \in Times, NEW f \in Refreshes, PromoteFind(f)
    PROVE  TokensInv'
<1> DEFINE p == owner[f]
           row == users[p]
<1>1. f \in Requests /\ PromotionOK(f) /\ f \notin SignIns
    BY TokensAssumption DEF Requests, TokensInv
<1>2. /\ stage[f] = "promote" /\ UNCHANGED <<users, owner, latest, crossed>>
      /\ IF row.refresh = NoToken
         THEN stage' = [stage EXCEPT ![f] = "failed"] /\ held' = held
         ELSE /\ stage' = [stage EXCEPT ![f] = "save"]
              /\ held' = [held EXCEPT ![f] = Promoted(row)]
    BY DEF PromoteFind, At, Advance
<1>3. p \in Profiles /\ row \in UserRow
    BY <1>1, <1>2 DEF PromotionOK, TokensInv, TokensTypeOK
<1>4. PICK s \in SignIns : WrittenBy(row, s, p)
    BY <1>1, <1>2, <1>3 DEF TokensInv, PromotionOK, TokensOfOneSignIn, WrittenBy
<1>5. held[s] \in UserRow /\ owner[s] = p /\ stage[s] = "done" /\ s # f
    BY <1>1, <1>4, GrantedRow DEF WrittenBy, TokensInv, SignInOK
<1>6. row.refresh = held[s].refresh /\ Promoted(row) = Promoted(held[s])
    BY <1>4, <1>5, PromotedRow DEF WrittenBy
<1>7. p \notin crossed => Promoted(row) = Promoted(latest[p])
  <2>1. p \notin crossed => row = latest[p] \/ row = Promoted(latest[p])
    BY <1>3 DEF TokensInv, LatestSignInKept
  <2>2. latest[p] \in UserRow
    BY <1>1, <1>2, <1>3 DEF TokensInv, TokensTypeOK, PromotionOK, LatestOK
  <2> QED  BY <2>1, <2>2, PromotedRow
<1>8. Promoted(row) \in UserRow
    BY <1>3, PromotedRow
<1> HIDE DEF row
<1>9. TokensTypeOK'
    BY <1>2, <1>8 DEF TokensInv, TokensTypeOK
<1>10. PromotionOK(f)'
  <2>1. CASE row.refresh = NoToken
    BY <1>1, <1>2, <2>1 DEF PromotionOK, TokensInv, TokensTypeOK
  <2>2. CASE row.refresh # NoToken
    <3>1. stage'[f] = "save" /\ held'[f] = Promoted(row) /\ users'[owner'[f]] # Nothing
      BY <1>1, <1>2, <2>2 DEF PromotionOK, TokensInv, TokensTypeOK
    <3>2. /\ stage'[s] = "done" /\ held'[s] = held[s] /\ owner'[s] = owner'[f]
          /\ held[s].refresh # NoToken
      BY <1>2, <1>5, <1>6, <2>2 DEF TokensInv, TokensTypeOK, Requests
    <3> QED  BY <1>2, <1>3, <1>6, <1>7, <3>1, <3>2 DEF PromotionOK
  <2> QED  BY <2>1, <2>2
<1> QED  BY <1>1, <1>2, <1>9, <1>10, QuietStep DEF TokensInv, TokensTypeOK

(* A promotion writes back the row it read, promoted: nothing is lost but   *)
(* what a sign-in wrote meanwhile.                                          *)
LEMMA PromoteSaveStep ==
    ASSUME TokensInv, now' \in Times, NEW f \in Refreshes, PromoteSave(f)
    PROVE  TokensInv'
<1> DEFINE p == owner[f]
           row == held[f]
<1>1. f \in Requests /\ PromotionOK(f) /\ f \notin SignIns
    BY TokensAssumption DEF Requests, TokensInv
<1>2. /\ stage[f] = "save" /\ stage' = [stage EXCEPT ![f] = "done"]
      /\ users' = [users EXCEPT ![p] = row]
      /\ UNCHANGED <<owner, held, latest, crossed>>
    BY DEF PromoteSave, At, Advance, WriteRow
<1>3. PICK s \in SignIns : /\ owner[s] = p /\ stage[s] = "done"
                           /\ held[s].refresh # NoToken /\ row = Promoted(held[s])
    BY <1>1, <1>2 DEF PromotionOK
<1>4. /\ p \in Profiles /\ users[p] # Nothing
      /\ p \notin crossed => row = Promoted(latest[p])
    BY <1>1, <1>2 DEF PromotionOK
<1>5. row \in UserRow /\ row # Nothing
  <2>1. held[s] \in UserRow
    BY <1>3, GrantedRow DEF TokensInv, SignInOK
  <2> QED  BY <1>3, <2>1, PromotedRow, RowAssumption
<1> HIDE DEF p, row
<1>6. TokensTypeOK'
    BY <1>2, <1>5 DEF TokensInv, TokensTypeOK
<1>7. \A q \in Profiles : users'[q] = IF q = p THEN row ELSE users[q]
    BY <1>2, <1>4 DEF TokensInv, TokensTypeOK
<1>8. \A c \in Requests \ {f} : stage'[c] = stage[c]
    BY <1>2 DEF TokensInv, TokensTypeOK
<1>9. stage'[f] = "done"
    BY <1>1, <1>2 DEF TokensInv, TokensTypeOK
<1>10. \A t \in SignIns : stage'[t] = stage[t]
    BY <1>1, <1>8 DEF Requests
<1>11. ASSUME NEW t \in SignIns PROVE SignInOK(t)'
  <2>1. SignInOK(t)
    BY DEF TokensInv
  <2> QED  BY <1>2, <1>5, <1>7, <1>10, <2>1 DEF SignInOK, Granted
<1>12. ASSUME NEW g \in Refreshes PROVE PromotionOK(g)'
  <2>1. PromotionOK(g) /\ g \in Requests
    BY DEF TokensInv, Requests
  <2>2. CASE g = f
    BY <1>1, <1>2, <1>9, <2>2 DEF PromotionOK
  <2>3. CASE g # f
    <3>1. stage'[g] = stage[g]
      BY <1>8, <2>1, <2>3
    <3> QED  BY <1>2, <1>5, <1>7, <1>10, <2>1, <3>1 DEF PromotionOK
  <2> QED  BY <2>2, <2>3
<1>13. ASSUME NEW q \in Profiles PROVE LatestOK(q)'
    BY <1>2, <1>4, <1>5, <1>7, <1>10 DEF LatestOK, TokensInv
<1>14. TokensOfOneSignIn'
    BY <1>2, <1>3, <1>7, <1>10 DEF TokensOfOneSignIn, TokensInv
<1>15. LatestSignInKept'
    BY <1>2, <1>4, <1>5, <1>7 DEF LatestSignInKept, TokensInv
<1> QED  BY <1>6, <1>11, <1>12, <1>13, <1>14, <1>15 DEF TokensInv

LEMMA RequestFailsStep ==
    ASSUME TokensInv, now' \in Times, NEW c \in Requests, RequestFails(c)
    PROVE  TokensInv'
<1>1. /\ stage[c] \in {"find", "create", "promote", "save"}
      /\ stage' = [stage EXCEPT ![c] = "failed"]
      /\ UNCHANGED <<users, owner, held, latest, crossed>>
    BY DEF RequestFails, Advance
<1>2. TokensTypeOK'
    BY <1>1 DEF TokensInv, TokensTypeOK
<1>3. c \in SignIns => SignInOK(c)'
    BY <1>1 DEF SignInOK, TokensInv, TokensTypeOK
<1>4. c \in Refreshes => PromotionOK(c)'
    BY <1>1 DEF PromotionOK, TokensInv, TokensTypeOK
<1> QED  BY <1>1, <1>2, <1>3, <1>4, QuietStep DEF TokensInv, TokensTypeOK

LEMMA TokensFrame ==
    ASSUME TokensInv, now' \in Times, UNCHANGED tokenVars
    PROVE  TokensInv'
BY DEF TokensInv, tokenVars, TokensTypeOK, SignInOK, Granted, PromotionOK, LatestOK,
       TokensOfOneSignIn, LatestSignInKept

LEMMA TokensNextInv ==
    ASSUME TokensInv, TokensNext, now' \in Times
    PROVE  TokensInv'
<1>1. CASE \E s \in SignIns : Login(s)
    BY <1>1, LoginStep
<1>2. CASE \E s \in SignIns : UpsertFind(s)
    BY <1>2, UpsertFindStep
<1>3. CASE \E s \in SignIns : UpsertCreate(s)
    BY <1>3, UpsertCreateStep
<1>4. CASE \E s \in SignIns : UpsertSave(s)
    BY <1>4, UpsertSaveStep
<1>5. CASE \E f \in Refreshes : RefreshCheck(f)
    BY <1>5, RefreshCheckStep
<1>6. CASE \E f \in Refreshes : PromoteFind(f)
    BY <1>6, PromoteFindStep
<1>7. CASE \E f \in Refreshes : PromoteSave(f)
    BY <1>7, PromoteSaveStep
<1>8. CASE \E c \in Requests : RequestFails(c)
    BY <1>8, RequestFailsStep
<1> QED  BY <1>1, <1>2, <1>3, <1>4, <1>5, <1>6, <1>7, <1>8 DEF TokensNext

LEMMA TickTimes ==
    ASSUME now \in Times, Tick
    PROVE  now' \in Times
BY TimeAssumption DEF Tick, Times

(* What later steps can rely on: what a sign-in stored stays its own, and   *)
(* no row goes away.                                                        *)
SignInsStay ==
    /\ \A s \in SignIns : stage[s] = "done" =>
          stage'[s] = "done" /\ owner'[s] = owner[s] /\ held'[s] = held[s]
    /\ \A p \in Profiles : users[p] # Nothing => users'[p] # Nothing

LEMMA TokensPersist ==
    ASSUME TokensInv, TokensInv', TokensNext
    PROVE  SignInsStay
<1>1. ASSUME NEW c \in Requests, stage[c] # "done",
             \A b \in Requests \ {c} :
                stage'[b] = stage[b] /\ owner'[b] = owner[b] /\ held'[b] = held[b]
      PROVE  \A s \in SignIns : stage[s] = "done" =>
                stage'[s] = "done" /\ owner'[s] = owner[s] /\ held'[s] = held[s]
    BY <1>1 DEF Requests
<1>2. (\A p \in Profiles : users[p] # Nothing => users'[p] # Nothing)
      <=> \A p \in Profiles : latest[p] # Nothing => latest'[p] # Nothing
    BY DEF TokensInv, LatestOK
<1>3. ASSUME NEW s \in SignIns, Login(s) \/ UpsertFind(s) PROVE SignInsStay
  <2>1. stage[s] # "done" /\ s \in Requests /\ UNCHANGED users
    BY <1>3 DEF Login, UpsertFind, At, Requests
  <2>2. \A b \in Requests \ {s} :
           stage'[b] = stage[b] /\ owner'[b] = owner[b] /\ held'[b] = held[b]
    BY <1>3 DEF Login, UpsertFind, Advance, TokensInv, TokensTypeOK
  <2> QED  BY <1>1, <2>1, <2>2 DEF SignInsStay
<1>4. ASSUME NEW s \in SignIns, UpsertCreate(s) \/ UpsertSave(s) PROVE SignInsStay
  <2>1. stage[s] \in {"create", "save"} /\ s \in Requests
    BY <1>4 DEF UpsertCreate, UpsertSave, At, Requests
  <2>2. \A b \in Requests \ {s} :
           stage'[b] = stage[b] /\ owner'[b] = owner[b] /\ held'[b] = held[b]
    BY <1>4 DEF UpsertCreate, UpsertSave, Advance, TokensInv, TokensTypeOK
  <2>3. held[s] # Nothing /\ owner[s] \in Profiles
    BY <2>1, GrantedRow, RowAssumption DEF TokensInv, SignInOK
  <2>4. latest' = latest \/ latest' = [latest EXCEPT ![owner[s]] = held[s]]
    BY <1>4 DEF UpsertCreate, UpsertSave, WriteSignIn
  <2>5. \A p \in Profiles : latest[p] # Nothing => latest'[p] # Nothing
    BY <2>3, <2>4 DEF TokensInv, TokensTypeOK
  <2> QED  BY <1>1, <1>2, <2>1, <2>2, <2>5 DEF SignInsStay
<1>5. ASSUME NEW f \in Refreshes, RefreshCheck(f) \/ PromoteFind(f) \/ PromoteSave(f)
      PROVE  SignInsStay
  <2>1. stage[f] # "done" /\ f \in Requests /\ UNCHANGED latest
    BY <1>5 DEF RefreshCheck, PromoteFind, PromoteSave, At, Requests
  <2>2. \A b \in Requests \ {f} :
           stage'[b] = stage[b] /\ owner'[b] = owner[b] /\ held'[b] = held[b]
    BY <1>5 DEF RefreshCheck, PromoteFind, PromoteSave, Advance, TokensInv, TokensTypeOK
  <2> QED  BY <1>1, <1>2, <2>1, <2>2 DEF SignInsStay
<1>6. ASSUME NEW c \in Requests, RequestFails(c) PROVE SignInsStay
  <2>1. stage[c] # "done" /\ UNCHANGED users
    BY <1>6 DEF RequestFails
  <2>2. \A b \in Requests \ {c} :
           stage'[b] = stage[b] /\ owner'[b] = owner[b] /\ held'[b] = held[b]
    BY <1>6 DEF RequestFails, Advance, TokensInv, TokensTypeOK
  <2> QED  BY <1>1, <2>1, <2>2 DEF SignInsStay
<1> QED  BY <1>3, <1>4, <1>5, <1>6 DEF TokensNext

(* A token and the expiry that sign-in s was given with it. *)
TokenOf(s, token, expiry) ==
    \/ token = Access(s) /\ expiry = held[s].accessExp
    \/ token = Refresh(s) /\ expiry = held[s].refreshExp /\ held[s].refresh # NoToken

(* The tokens in a row, each beside its own expiry; that to call with is    *)
(* always there.                                                            *)
LEMMA RowTokens ==
    ASSUME TokensInv, NEW p \in Profiles, users[p] # Nothing
    PROVE  /\ users[p] \in UserRow /\ users[p].access # NoToken
           /\ \E s \in SignIns :
                 /\ owner[s] = p /\ stage[s] = "done"
                 /\ TokenOf(s, users[p].access, users[p].accessExp)
                 /\ users[p].refresh # NoToken =>
                       TokenOf(s, users[p].refresh, users[p].refreshExp)
<1>1. users[p] \in UserRow
    BY DEF TokensInv, TokensTypeOK
<1>2. PICK s \in SignIns : WrittenBy(users[p], s, p)
    BY DEF TokensInv, TokensOfOneSignIn, WrittenBy
<1>3. /\ Granted(s, held[s]) /\ held[s] \in UserRow
      /\ owner[s] = p /\ stage[s] = "done"
    BY <1>2, GrantedRow DEF WrittenBy, TokensInv, SignInOK
<1>4. /\ held[s].access = Access(s) /\ held[s].refresh \in {Refresh(s), NoToken}
      /\ Access(s) # NoToken /\ Refresh(s) # NoToken
    BY <1>3, RowAssumption DEF Granted, Access, Refresh
<1>5. CASE users[p] = held[s]
    BY <1>1, <1>3, <1>4, <1>5 DEF TokenOf
<1>6. CASE held[s].refresh # NoToken /\ users[p] = Promoted(held[s])
    BY <1>1, <1>3, <1>4, <1>6, PromotedRow DEF TokenOf
<1> QED  BY <1>2, <1>3, <1>5, <1>6 DEF WrittenBy

-----------------------------------------------------------------------------
(* The choice of a token, for any row at any time. *)

LEMMA SoundChoice ==
    ASSUME NEW row \in UserRow, NEW t \in Nat, NEW limit, limit = t + Skew
    PROVE  IF ChooseToken(row, t) = NoToken
           THEN /\ row.access = NoToken \/ ~Outlives(row.accessExp, limit)
                /\ row.refresh = NoToken \/ ~Outlives(row.refreshExp, limit)
           ELSE \/ ChooseToken(row, t) = row.access /\ ~Before(row.accessExp, limit)
                \/ ChooseToken(row, t) = row.refresh /\ ~Before(row.refreshExp, limit)
                \/ row.refreshExp = limit
<1>1. limit \in Nat
    BY TokensAssumption
<1>2. /\ row.accessExp = Never \/ row.accessExp \in Nat
      /\ row.refreshExp = Never \/ row.refreshExp \in Nat
    BY DEF UserRow, Expiries
<1>3. \A e : e = Never \/ e \in Nat =>
          /\ Outlives(e, limit) => ~Before(e, limit)
          /\ ~Outlives(e, limit) /\ ~Before(e, limit) => e = limit
    BY <1>1, TokensAssumption DEF Outlives, Before
<1> DEFINE out(e) == Outlives(e, limit)
           bef(e) == Before(e, limit)
<1>4. ChooseToken(row, t) =
         IF row.access # NoToken /\ out(row.accessExp) THEN row.access
         ELSE IF row.refresh # NoToken /\ out(row.refreshExp) THEN row.refresh
         ELSE IF \/ row.access = NoToken
                 \/ bef(row.accessExp) /\ (bef(row.refreshExp) \/ row.refresh = NoToken)
              THEN NoToken
         ELSE row.access
    BY DEF ChooseToken
<1>5. /\ out(row.accessExp) => ~bef(row.accessExp)
      /\ out(row.refreshExp) => ~bef(row.refreshExp)
      /\ ~out(row.refreshExp) /\ ~bef(row.refreshExp) => row.refreshExp = limit
      /\ ~out(row.accessExp) /\ ~bef(row.accessExp) => row.accessExp = limit
    BY <1>2, <1>3
<1> HIDE DEF out, bef
<1>6. IF ChooseToken(row, t) = NoToken
      THEN /\ row.access = NoToken \/ ~out(row.accessExp)
           /\ row.refresh = NoToken \/ ~out(row.refreshExp)
      ELSE \/ ChooseToken(row, t) = row.access /\ ~bef(row.accessExp)
           \/ ChooseToken(row, t) = row.refresh /\ ~bef(row.refreshExp)
           \/ row.refreshExp = limit
    BY <1>4, <1>5
<1> QED  BY <1>6 DEF out, bef

LEMMA TypedChoiceIsSound == TokensTypeOK => ChoiceIsSound
<1> SUFFICES ASSUME TokensTypeOK, NEW p \in Profiles, users[p] # Nothing
             PROVE  LET row == users[p]
                        limit == now + Skew
                        token == ChooseToken(row, now)
                    IN IF token = NoToken
                       THEN /\ row.access = NoToken \/ ~Outlives(row.accessExp, limit)
                            /\ row.refresh = NoToken \/ ~Outlives(row.refreshExp, limit)
                       ELSE \/ token = row.access /\ ~Before(row.accessExp, limit)
                            \/ token = row.refresh /\ ~Before(row.refreshExp, limit)
                            \/ row.refreshExp = limit
    BY DEF ChoiceIsSound
<1>1. users[p] \in UserRow /\ now \in Nat
    BY TimeAssumption DEF TokensTypeOK, Times
<1> QED  BY <1>1, SoundChoice

-----------------------------------------------------------------------------
(* The store in memory. *)

LEMMA InitMemory == TokensInit => Memory!Init
BY DEF TokensInit, Memory!Init

(* A sign-in stores its row: as the memory store does it, at once. *)
LEMMA WriteSignInMemory ==
    ASSUME TokensInv, NEW s \in SignIns, stage[s] \in {"create", "save"},
           WriteSignIn(s)
    PROVE  Memory!Next
<1> DEFINE p == owner[s]
<1>1. p \in Profiles /\ Granted(s, held[s])
    BY DEF TokensInv, SignInOK
<1>2. users' = [users EXCEPT ![p] = held[s]]
    BY DEF WriteSignIn, WriteRow
<1>3. users'[p] = held[s]
    BY <1>1, <1>2 DEF TokensInv, TokensTypeOK
<1>4. Memory!UpsertUserToken(s, p)
    BY <1>1, <1>2, <1>3 DEF Memory!UpsertUserToken
<1> QED  BY <1>1, <1>4 DEF Memory!Next, Memory!UpsertUserToken

(* A promotion is saved: as the memory store does it, unless a sign-in came *)
(* in between.                                                              *)
LEMMA PromoteSaveMemory ==
    ASSUME TokensInv, NEW f \in Refreshes, PromoteSave(f)
    PROVE  Memory!Next \/ PromotesOtherRow
<1> DEFINE p == owner[f]
<1>1. PromotionOK(f) /\ stage[f] = "save" /\ p \in Profiles
    BY DEF TokensInv, PromoteSave, At, PromotionOK
<1>2. users' = [users EXCEPT ![p] = held[f]]
    BY DEF PromoteSave, WriteRow
<1>3. PICK s \in SignIns : /\ owner[s] = p /\ stage[s] = "done"
                           /\ held[s].refresh # NoToken /\ held[f] = Promoted(held[s])
    BY <1>1 DEF PromotionOK
<1>4. CASE p \in crossed
    BY <1>1, <1>2, <1>3, <1>4 DEF PromotesOtherRow, At
<1>5. CASE p \notin crossed
  <2> DEFINE row == users[p]
  <2>1. held[f] = Promoted(latest[p]) /\ row # Nothing
    BY <1>1, <1>5 DEF PromotionOK
  <2>2. latest[p] \in UserRow /\ held[s] \in UserRow /\ row \in UserRow
    BY <1>1, <1>3, <2>1, GrantedRow DEF TokensInv, TokensTypeOK, LatestOK, SignInOK
  <2>3. row = latest[p] \/ row = Promoted(latest[p])
    BY <1>1, <1>5 DEF TokensInv, LatestSignInKept
  <2>4. Promoted(row) = held[f] /\ row.refresh # NoToken
    <3>1. /\ held[f].refresh = held[s].refresh /\ held[f].refresh = latest[p].refresh
          /\ Promoted(latest[p]).refresh = latest[p].refresh
          /\ Promoted(Promoted(latest[p])) = Promoted(latest[p])
      BY <1>3, <2>1, <2>2, PromotedRow
    <3> HIDE DEF p, row
    <3> QED  BY <1>3, <2>1, <2>3, <3>1
  <2>5. [row EXCEPT !.access = row.refresh, !.accessExp = row.refreshExp] = held[f]
    BY <2>4 DEF Promoted
  <2>6. Memory!PromoteRefreshTokenByUserID(p)
    BY <1>2, <2>1, <2>4, <2>5 DEF Memory!PromoteRefreshTokenByUserID
  <2> QED  BY <1>1, <2>6 DEF Memory!Next, Memory!PromoteRefreshTokenByUserID
<1> QED  BY <1>4, <1>5

(* Whatever else a request does leaves the rows as they are. *)
LEMMA TokensNextMemory ==
    ASSUME TokensInv, TokensNext
    PROVE  Memory!Next \/ PromotesOtherRow \/ users' = users
<1>1. ASSUME NEW s \in SignIns, UpsertCreate(s) \/ UpsertSave(s)
      PROVE  Memory!Next \/ users' = users
  <2>1. stage[s] \in {"create", "save"}
    BY <1>1 DEF UpsertCreate, UpsertSave, At
  <2>2. WriteSignIn(s) \/ users' = users
    BY <1>1 DEF UpsertCreate, UpsertSave
  <2> QED  BY <2>1, <2>2, WriteSignInMemory
<1>2. ASSUME NEW f \in Refreshes, PromoteSave(f)
      PROVE  Memory!Next \/ PromotesOtherRow
    BY <1>2, PromoteSaveMemory
<1>3. CASE \E s \in SignIns : Login(s) \/ UpsertFind(s)
    BY <1>3 DEF Login, UpsertFind
<1>4. CASE \E f \in Refreshes : RefreshCheck(f) \/ PromoteFind(f)
    BY <1>4 DEF RefreshCheck, PromoteFind
<1>5. CASE \E c \in Requests : RequestFails(c)
    BY <1>5 DEF RequestFails
<1> QED  BY <1>1, <1>2, <1>3, <1>4, <1>5 DEF TokensNext

(* No promotion is of the other kind where no user is crossed. *)
LEMMA UncrossedMemory ==
    ASSUME crossed = {}
    PROVE  ~PromotesOtherRow
BY DEF PromotesOtherRow

-----------------------------------------------------------------------------
(* The token store by itself. *)

LEMMA TokensSafe == TokensSpec => []TokensInv
<1>1. TokensInv /\ [TokensStep]_<<now, tokenVars>> => TokensInv'
  <2> SUFFICES ASSUME TokensInv, [TokensStep]_<<now, tokenVars>> PROVE TokensInv'
    OBVIOUS
  <2>1. now \in Times
    BY DEF TokensInv, TokensTypeOK
  <2>2. CASE TokensNext /\ now' = now
    BY <2>1, <2>2, TokensNextInv
  <2>3. CASE Tick /\ UNCHANGED tokenVars
    BY <2>1, <2>3, TickTimes, TokensFrame
  <2>4. CASE UNCHANGED <<now, tokenVars>>
    BY <2>1, <2>4, TokensFrame
  <2> QED  BY <2>2, <2>3, <2>4 DEF TokensStep
<1> QED  BY InitTokens, <1>1, PTL DEF TokensSpec

(* However sign-ins and promotions interleave, a row's fields come from one *)
(* sign-in of that very profile (UpsertUserToken and                        *)
(* PromoteRefreshTokenByUserID).                                            *)
THEOREM OneSignInPerRow == TokensSpec => []TokensOfOneSignIn
<1>1. TokensInv => TokensOfOneSignIn
    BY DEF TokensInv
<1> QED  BY TokensSafe, <1>1, PTL

(* The tokens are those of the last successful sign-in, but for the users  *)
(* whose last sign-in a promotion overtook (PromoteRefreshTokenByUserID).  *)
THEOREM LatestSignInIsKept == TokensSpec => []LatestSignInKept
<1>1. TokensInv => LatestSignInKept
    BY DEF TokensInv
<1> QED  BY TokensSafe, <1>1, PTL

(* The token chosen for a sync is sound, for every row the store may hold   *)
(* and any clock (chooseTokenForSync).                                      *)
THEOREM ChoiceIsAlwaysSound == TokensSpec => []ChoiceIsSound
<1>1. TokensInv => ChoiceIsSound
    BY TypedChoiceIsSound DEF TokensInv
<1> QED  BY TokensSafe, <1>1, PTL

(* The rows of the database change as those of the store of                 *)
(* internal/web/user_store.go do, except where a promotion that was under   *)
(* way at its user's last sign-in is saved (PromoteRefreshTokenByUserID).   *)
THEOREM StepsOfTheMemoryStore == TokensSpec => MemoryStoreUnlessCrossed
<1>1. TokensAlone => Memory!Init
    BY InitMemory DEF TokensAlone
<1>2. TokensInv /\ [TokensStep]_<<now, tokenVars>>
          => [Memory!Next \/ PromotesOtherRow]_users
    BY TokensNextMemory DEF TokensStep, tokenVars
<1> QED  BY TokensSafe, <1>1, <1>2, PTL DEF TokensSpec, MemoryStoreUnlessCrossed

(* As long as no sign-in falls between the lookup and the save of a        *)
(* promotion of the same user, the rows in the database cannot be told     *)
(* from those of the store in memory (internal/web/user_store.go).         *)
THEOREM UncrossedIsMemoryStore == TokensSpec /\ [](crossed = {}) => Memory!Spec
<1>1. crossed = {} /\ [Memory!Next \/ PromotesOtherRow]_users => [Memory!Next]_users
    BY UncrossedMemory
<1> QED  BY StepsOfTheMemoryStore, <1>1, PTL DEF MemoryStoreUnlessCrossed, Memory!Spec
=============================================================================
