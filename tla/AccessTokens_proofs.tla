------------------------- MODULE AccessTokens_proofs -------------------------
(***************************************************************************)
(* Proofs about the access tokens: what tabs with old lists, exports and   *)
(* clean-ups in any order may do to the rows, and to each other.           *)
(*                                                                         *)
(* Inv is inductive.  Everything rests on this: an id and a token are      *)
(* given once, so that a row somebody remembers, in a list or an export,   *)
(* is the row that is there under that id or token, if one is (Known).     *)
(***************************************************************************)
EXTENDS AccessTokens, TLAPS

TabState == [stage : {"new", "list", "shown"}, user : Profiles \cup {Nothing},
             list : SUBSET AccessToken]

ExportState == [stage : {"new", "check", "delete", "refused", "serve", "served", "failed"},
                token : Creations \cup {Nothing}, row : AccessToken \cup {Nothing}]

StateOK ==
    /\ now \in Times
    /\ tokens \subseteq AccessToken
    /\ lastId \in Nat
    /\ created \subseteq Creations
    /\ revoked \subseteq created
    /\ late \subseteq Exports
    /\ tab \in [Tabs -> TabState]
    /\ \A v \in Tabs : tab[v].stage # "new" => tab[v].user \in Profiles
    /\ export \in [Exports -> ExportState]

(* A row that somebody remembers, with the row there is. *)
Known(row) ==
    /\ row \in AccessToken
    /\ row.id \in 1..lastId
    /\ row.token \in created
    /\ \A t \in tokens : t.id = row.id \/ t.token = row.token => t = row

Past(row) == row.expires # NoDate /\ row.expires <= now

(* What an export that began late has found has expired. *)
ExportOK(x) ==
    /\ export[x].stage \in {"check", "delete", "serve"} =>
          Known(export[x].row) /\ export[x].row.token = export[x].token
    /\ export[x].stage = "delete" => Past(export[x].row)
    /\ x \in late =>
          /\ export[x].stage \in {"check", "delete", "refused", "failed"}
          /\ export[x].stage = "check" => Past(export[x].row)

Inv ==
    /\ StateOK
    /\ \A row \in tokens : Known(row) /\ row.token \notin revoked
    /\ \A v \in Tabs : \A row \in tab[v].list : Known(row)
    /\ \A x \in Exports : ExportOK(x)

-----------------------------------------------------------------------------
(* Inv implies the invariants of the runs. *)

LEMMA InvTypeOK == Inv => TypeOK
<1> SUFFICES ASSUME Inv PROVE TypeOK
    OBVIOUS
<1>1. \A a, b \in tokens : a.id = b.id \/ a.token = b.token => a = b
    BY DEF Inv, Known
<1>2. \A v \in Tabs : tab[v].list \subseteq AccessToken
    BY DEF Inv, Known
<1>3. \A x \in Exports : export[x].stage \in {"check", "delete", "serve"} =>
          export[x].row \in AccessToken
    BY DEF Inv, ExportOK, Known
<1> QED  BY <1>1, <1>2, <1>3 DEF Inv, StateOK, TypeOK

LEMMA InvLateIsNotServed == Inv => LateIsNotServed
BY DEF Inv, StateOK, ExportOK, LateIsNotServed

-----------------------------------------------------------------------------
(* Steps. *)

LEMMA InitInv == Init => Inv
<1> SUFFICES ASSUME Init PROVE Inv
    OBVIOUS
<1>1. NewTab \in TabState /\ NewTab.stage = "new" /\ NewTab.list = {}
    BY DEF NewTab, TabState
<1>2. NewExport \in ExportState /\ NewExport.stage = "new"
    BY DEF NewExport, ExportState
<1>3. StateOK
    BY <1>1, <1>2, TimeAssumption DEF Init, StateOK, Times
<1>4. \A x \in Exports : ExportOK(x)
    BY <1>2 DEF Init, ExportOK
<1> QED  BY <1>1, <1>3, <1>4 DEF Init, Inv

(* What is remembered stays known while no row is new. *)
LEMMA StaysKnown ==
    ASSUME NEW row, Known(row), tokens' \subseteq tokens,
           lastId' = lastId, created' = created
    PROVE  Known(row)'
BY DEF Known

(* ... and while the only new row has a new id and a new token. *)
LEMMA StaysKnownOnCreate ==
    ASSUME Inv, NEW c \in Creations \ created, NEW p \in Profiles,
           NEW date \in Nat \cup {NoDate},
           tokens' = tokens \cup {[id |-> NewId, user |-> p, token |-> c, expires |-> date]},
           lastId' = NewId, created' = created \cup {c},
           NEW row, Known(row)
    PROVE  Known(row)'
<1>1. lastId \in Nat /\ NewId = lastId + 1 /\ row.id \in 1..lastId
    BY DEF Inv, StateOK, NewId, Known
<1>2. row.id \in 1..lastId' /\ row.id # NewId /\ row.token # c
    BY <1>1 DEF Known
<1> QED  BY <1>2 DEF Known

LEMMA CreateInv ==
    ASSUME Inv, NEW c \in Creations, CreateAccessToken(c)
    PROVE  Inv'
<1>1. PICK p \in Profiles, date \in Expirations \cup {NoDate} :
         tokens' = tokens \cup {[id |-> NewId, user |-> p, token |-> c, expires |-> date]}
    BY DEF CreateAccessToken
<1>2. /\ c \notin created /\ lastId' = NewId /\ created' = created \cup {c}
      /\ UNCHANGED <<now, tab, export, revoked, late>>
    BY DEF CreateAccessToken
<1>3. date \in Nat \cup {NoDate}
    BY AccessAssumption
<1> DEFINE new == [id |-> NewId, user |-> p, token |-> c, expires |-> date]
<1>4. lastId \in Nat /\ NewId = lastId + 1
    BY DEF Inv, StateOK, NewId
<1>5. new \in AccessToken
    BY <1>3, <1>4 DEF AccessToken
<1>6. ASSUME NEW row, Known(row) PROVE Known(row)'
    BY <1>1, <1>2, <1>3, <1>6, StaysKnownOnCreate
<1>7. StateOK'
    BY <1>1, <1>2, <1>4, <1>5 DEF Inv, StateOK
<1>8. PICK row : row = new
    OBVIOUS
<1>9. Known(row)' /\ row.token \notin revoked'
  <2>1. row.id = lastId + 1 /\ row.token = c
    BY <1>4, <1>8
  <2>2. \A t \in tokens : t.id \in 1..lastId /\ t.token # c
    BY <1>2 DEF Inv, Known
  <2>3. \A t \in tokens : t.id # row.id /\ t.token # row.token
    BY <1>4, <2>1, <2>2
  <2>4. row \in AccessToken /\ tokens' = tokens \cup {row}
    BY <1>1, <1>5, <1>8
  <2>5. row.id \in 1..lastId' /\ row.token \in created'
    BY <1>2, <1>4, <2>1
  <2>6. row.token \notin revoked'
    BY <1>2, <2>1 DEF Inv, StateOK
  <2> QED  BY <2>3, <2>4, <2>5, <2>6 DEF Known
<1>10. \A t \in tokens' : Known(t)' /\ t.token \notin revoked'
    BY <1>1, <1>2, <1>6, <1>8, <1>9 DEF Inv
<1>11. \A v \in Tabs : \A t \in tab'[v].list : Known(t)'
    BY <1>2, <1>6 DEF Inv
<1>12. \A x \in Exports : ExportOK(x)'
    BY <1>2, <1>6 DEF Inv, ExportOK, Past
<1> QED  BY <1>7, <1>10, <1>11, <1>12 DEF Inv

(* A step that adds no row and leaves the exports alone. *)
LEMMA TabInv ==
    ASSUME Inv, tokens' \subseteq tokens, UNCHANGED <<now, lastId, created, export, late>>,
           tab' \in [Tabs -> TabState],
           \A v \in Tabs : tab'[v].stage # "new" => tab'[v].user \in Profiles,
           \A v \in Tabs : \A row \in tab'[v].list : Known(row),
           revoked' \subseteq created, \A row \in tokens' : row.token \notin revoked'
    PROVE  Inv'
<1>1. ASSUME NEW row, Known(row) PROVE Known(row)'
    BY <1>1, StaysKnown
<1>2. StateOK'
    BY DEF Inv, StateOK
<1>3. \A x \in Exports : ExportOK(x)'
    BY <1>1 DEF Inv, ExportOK, Past
<1> QED  BY <1>1, <1>2, <1>3 DEF Inv

LEMMA DeleteExpiredInv ==
    ASSUME Inv, NEW v \in Tabs, DeleteExpired(v)
    PROVE  Inv'
<1>1. PICK p \in Profiles :
         /\ tokens' = tokens \ ExpiredTokensOf(p)
         /\ tab' = [tab EXCEPT ![v].stage = "list", ![v].user = p]
    BY DEF DeleteExpired
<1>2. UNCHANGED <<now, lastId, created, export, revoked, late>>
    BY DEF DeleteExpired
<1>3. PICK b : b = tab[v]
    OBVIOUS
<1>4. b \in TabState /\ tab \in [Tabs -> TabState]
    BY <1>3 DEF Inv, StateOK
<1>5. tab' = [tab EXCEPT ![v] = [b EXCEPT !.stage = "list", !.user = p]]
    BY <1>1, <1>3, <1>4
<1>6. PICK n : n = [b EXCEPT !.stage = "list", !.user = p]
    OBVIOUS
<1>7. n \in TabState /\ n.user = p /\ n.list = b.list
    BY <1>4, <1>6 DEF TabState
<1>8. tab'[v] = n /\ \A w \in Tabs \ {v} : tab'[w] = tab[w]
    BY <1>4, <1>5, <1>6
<1>9. tab' \in [Tabs -> TabState]
    BY <1>4, <1>5, <1>6, <1>7
<1>10. \A w \in Tabs : tab'[w].stage # "new" => tab'[w].user \in Profiles
    BY <1>7, <1>8 DEF Inv, StateOK
<1>11. \A w \in Tabs : \A row \in tab'[w].list : Known(row)
    BY <1>3, <1>7, <1>8 DEF Inv
<1>12. revoked' \subseteq created /\ \A row \in tokens' : row.token \notin revoked'
    BY <1>1, <1>2 DEF Inv, StateOK
<1> QED  BY <1>1, <1>2, <1>9, <1>10, <1>11, <1>12, TabInv

LEMMA ListTokensInv ==
    ASSUME Inv, NEW v \in Tabs, ListTokens(v)
    PROVE  Inv'
<1>1. UNCHANGED <<now, tokens, lastId, created, export, revoked, late>>
    BY DEF ListTokens
<1>2. PICK b : b = tab[v]
    OBVIOUS
<1>3. PICK l : l = {row \in tokens : row.user = b.user}
    OBVIOUS
<1>4. b \in TabState /\ tab \in [Tabs -> TabState] /\ b.stage = "list"
    BY <1>2 DEF Inv, StateOK, ListTokens
<1>5. tab' = [tab EXCEPT ![v] = [b EXCEPT !.stage = "shown", !.list = l]]
    BY <1>2, <1>3, <1>4 DEF ListTokens
<1>6. PICK n : n = [b EXCEPT !.stage = "shown", !.list = l]
    OBVIOUS
<1>7. l \subseteq AccessToken /\ \A row \in l : Known(row)
    BY <1>3 DEF Inv, StateOK
<1>8. n \in TabState /\ n.user = b.user /\ n.list = l
    BY <1>4, <1>6, <1>7 DEF TabState
<1>9. tab'[v] = n /\ \A w \in Tabs \ {v} : tab'[w] = tab[w]
    BY <1>4, <1>5, <1>6
<1>10. tab' \in [Tabs -> TabState]
    BY <1>4, <1>5, <1>6, <1>8
<1>11. \A w \in Tabs : tab'[w].stage # "new" => tab'[w].user \in Profiles
    BY <1>2, <1>4, <1>8, <1>9 DEF Inv, StateOK
<1>12. \A w \in Tabs : \A row \in tab'[w].list : Known(row)
    BY <1>7, <1>8, <1>9 DEF Inv
<1>13. revoked' \subseteq created /\ \A row \in tokens' : row.token \notin revoked'
    BY <1>1 DEF Inv, StateOK
<1> QED  BY <1>1, <1>10, <1>11, <1>12, <1>13, TabInv

LEMMA ChangeSessionInv ==
    ASSUME Inv, NEW v \in Tabs, ChangeSession(v)
    PROVE  Inv'
<1>1. UNCHANGED <<now, tokens, lastId, created, export, revoked, late>>
    BY DEF ChangeSession
<1>2. PICK b : b = tab[v]
    OBVIOUS
<1>3. PICK p \in Profiles : tab' = [tab EXCEPT ![v].user = p]
    BY DEF ChangeSession
<1>4. b \in TabState /\ tab \in [Tabs -> TabState]
    BY <1>2 DEF Inv, StateOK
<1>5. PICK n : n = [b EXCEPT !.user = p]
    OBVIOUS
<1>6. n \in TabState /\ n.user = p /\ n.list = b.list
    BY <1>4, <1>5 DEF TabState
<1>7. tab' = [tab EXCEPT ![v] = n]
    BY <1>2, <1>3, <1>4, <1>5
<1>8. tab'[v] = n /\ \A w \in Tabs \ {v} : tab'[w] = tab[w]
    BY <1>4, <1>7
<1>9. tab' \in [Tabs -> TabState]
    BY <1>4, <1>6, <1>7
<1>10. \A w \in Tabs : tab'[w].stage # "new" => tab'[w].user \in Profiles
    BY <1>6, <1>8 DEF Inv, StateOK
<1>11. \A w \in Tabs : \A row \in tab'[w].list : Known(row)
    BY <1>2, <1>6, <1>8 DEF Inv
<1>12. revoked' \subseteq created /\ \A row \in tokens' : row.token \notin revoked'
    BY <1>1 DEF Inv, StateOK
<1> QED  BY <1>1, <1>9, <1>10, <1>11, <1>12, TabInv

(* A click hits the row it was meant for, or fails. *)
LEMMA RevokeHits ==
    ASSUME Inv, NEW v \in Tabs, Revoke(v)
    PROVE  \E row \in tab[v].list :
              /\ row \in tokens /\ row.user = tab[v].user
              /\ tokens' = tokens \ {row}
              /\ revoked' = revoked \cup {row.token}
<1> DEFINE hit(row) == {t \in tokens : t.id = row.id /\ t.user = tab[v].user}
<1>1. PICK row \in tab[v].list : /\ hit(row) # {}
                                 /\ tokens' = tokens \ hit(row)
                                 /\ revoked' = revoked \cup {row.token}
    BY DEF Revoke
<1>2. \A t \in tokens : t.id = row.id => t = row
    BY DEF Inv, Known
<1>3. hit(row) = {row} /\ row \in tokens /\ row.user = tab[v].user
    BY <1>1, <1>2
<1> QED  BY <1>1, <1>3

LEMMA RevokeInv ==
    ASSUME Inv, NEW v \in Tabs, Revoke(v)
    PROVE  Inv'
<1>1. PICK row \in tab[v].list : /\ row \in tokens
                                 /\ tokens' = tokens \ {row}
                                 /\ revoked' = revoked \cup {row.token}
    BY RevokeHits
<1>2. UNCHANGED <<now, lastId, created, tab, export, late>>
    BY DEF Revoke
<1>3. revoked' \subseteq created
    BY <1>1 DEF Inv, StateOK, Known
<1>4. \A t \in tokens' : t.token \notin revoked'
    BY <1>1 DEF Inv, Known
<1> QED  BY <1>1, <1>2, <1>3, <1>4, TabInv DEF Inv, StateOK

(* A step of an export that puts it in a state that is in order. *)
LEMMA ExportInv ==
    ASSUME Inv, NEW x \in Exports, NEW e \in ExportState,
           export' = [export EXCEPT ![x] = e],
           tokens' \subseteq tokens, UNCHANGED <<now, lastId, created, tab, revoked>>,
           late' = late \/ late' = late \cup {x},
           ExportOK(x)'
    PROVE  Inv'
<1>1. ASSUME NEW row, Known(row) PROVE Known(row)'
    BY <1>1, StaysKnown
<1>2. export \in [Exports -> ExportState]
    BY DEF Inv, StateOK
<1>3. \A y \in Exports \ {x} : export'[y] = export[y] /\ (y \in late' => y \in late)
    BY <1>2
<1>4. \A y \in Exports \ {x} : ExportOK(y)'
    BY <1>1, <1>3 DEF Inv, ExportOK, Past
<1>5. StateOK'
    BY <1>2 DEF Inv, StateOK
<1> QED  BY <1>1, <1>4, <1>5 DEF Inv

LEMMA ExportFindInv ==
    ASSUME Inv, NEW x \in Exports, ExportFind(x)
    PROVE  Inv'
<1>1. PICK t \in created :
         LET found == {row \in tokens : row.token = t}
             spoilt == \/ t \in revoked
                       \/ \A row \in found : row.expires # NoDate /\ row.expires <= now
         IN /\ export' = [export EXCEPT ![x] = AccessTokenByToken(t, found)]
            /\ late' = IF spoilt THEN late \cup {x} ELSE late
    BY DEF ExportFind
<1>2. PICK found : found = {row \in tokens : row.token = t}
    OBVIOUS
<1>3. PICK e : e = AccessTokenByToken(t, found)
    OBVIOUS
<1>4. export' = [export EXCEPT ![x] = e]
    BY <1>1, <1>2, <1>3
<1>5. UNCHANGED <<now, tokens, lastId, created, tab, revoked>>
    BY DEF ExportFind
<1>6. export \in [Exports -> ExportState] /\ export[x].stage = "new" /\ t \in Creations
    BY DEF Inv, StateOK, ExportFind
<1>7. export'[x] = e
    BY <1>4, <1>6
<1>8. late' = late \/ late' = late \cup {x}
    BY <1>1
<1>9. x \notin late
    BY <1>6 DEF Inv, ExportOK
<1>10. CASE found = {}
  <2>1. e = [stage |-> "refused", token |-> t, row |-> Nothing]
    BY <1>3, <1>10 DEF AccessTokenByToken
  <2>2. e \in ExportState /\ e.stage = "refused"
    BY <1>6, <2>1 DEF ExportState
  <2>3. ExportOK(x)'
    BY <1>7, <2>2 DEF ExportOK
  <2> QED  BY <1>4, <1>5, <1>8, <2>2, <2>3, ExportInv
<1>11. CASE found # {}
  <2>1. PICK row \in found : e = [stage |-> "check", token |-> t, row |-> row]
    BY <1>3, <1>11 DEF AccessTokenByToken
  <2>2. row \in tokens /\ row.token = t /\ Known(row) /\ t \notin revoked
    BY <1>2, <2>1 DEF Inv
  <2>3. e \in ExportState /\ e.stage = "check" /\ e.row = row /\ e.token = t
    BY <1>6, <2>1, <2>2 DEF ExportState, Known
  <2>4. Known(row)'
    BY <1>5, <2>2, StaysKnown
  <2>5. x \in late' => Past(row)
    BY <1>1, <1>2, <1>9, <2>1, <2>2 DEF Past
  <2>6. ExportOK(x)'
    BY <1>5, <1>7, <2>2, <2>3, <2>4, <2>5 DEF ExportOK, Past
  <2> QED  BY <1>4, <1>5, <1>8, <2>3, <2>6, ExportInv
<1> QED  BY <1>10, <1>11

(* The other steps of an export change how far it got and delete its row. *)
LEMMA ExportMoves ==
    ASSUME Inv, NEW x \in Exports, NEW s \in {"delete", "serve", "refused", "served", "failed"},
           export' = [export EXCEPT ![x].stage = s],
           tokens' \subseteq tokens, UNCHANGED <<now, lastId, created, tab, revoked, late>>,
           export[x].stage \in {"check", "delete", "serve"},
           s \in {"delete", "serve"} => export[x].stage = "check",
           s = "delete" <=> export[x].stage = "check" /\ Past(export[x].row) /\ s # "failed",
           s \in {"serve", "served"} => x \notin late
    PROVE  Inv'
<1>1. PICK b : b = export[x]
    OBVIOUS
<1>2. b \in ExportState /\ export \in [Exports -> ExportState]
    BY <1>1 DEF Inv, StateOK
<1>3. PICK e : e = [b EXCEPT !.stage = s]
    OBVIOUS
<1>4. e \in ExportState /\ e.stage = s /\ e.row = b.row /\ e.token = b.token
    BY <1>2, <1>3 DEF ExportState
<1>5. export' = [export EXCEPT ![x] = e]
    BY <1>1, <1>2, <1>3
<1>6. export'[x] = e
    BY <1>2, <1>5
<1>7. Known(b.row) /\ b.row.token = b.token
    BY <1>1 DEF Inv, ExportOK
<1>8. Known(b.row)'
    BY <1>7, StaysKnown
<1>9. ExportOK(x)'
    BY <1>1, <1>4, <1>6, <1>7, <1>8 DEF Inv, ExportOK, Past
<1> QED  BY <1>4, <1>5, <1>9, ExportInv

(* An export deletes the very row it has found, which has expired. *)
LEMMA ExportDeletes ==
    ASSUME Inv, NEW x \in Exports, ExportDelete(x)
    PROVE  /\ \A t \in tokens \ tokens' : t = export[x].row
           /\ Past(export[x].row) /\ Known(export[x].row)
           /\ export[x].row.token = export[x].token
BY DEF Inv, ExportOK, ExportDelete, Known

LEMMA ExportNextInv ==
    ASSUME Inv, NEW x \in Exports,
           \/ ExportCheck(x) \/ ExportServe(x)
           \/ ExportDelete(x) \/ ExportDeleteFails(x) \/ ExportFails(x)
    PROVE  Inv'
<1>1. CASE ExportCheck(x)
  <2>1. PICK s \in {"delete", "serve"} :
           /\ export' = [export EXCEPT ![x].stage = s]
           /\ s = "delete" <=> Past(export[x].row)
    BY <1>1 DEF ExportCheck, Expired, Past
  <2>2. s = "serve" => x \notin late
    BY <1>1, <2>1 DEF Inv, ExportOK, ExportCheck
  <2> QED  BY <1>1, <2>1, <2>2, ExportMoves DEF ExportCheck
<1>2. CASE ExportServe(x)
  <2>1. x \notin late
    BY <1>2 DEF Inv, ExportOK, ExportServe
  <2> QED  BY <1>2, <2>1, ExportMoves DEF ExportServe
<1>3. CASE ExportDelete(x) \/ ExportDeleteFails(x)
    BY <1>3, ExportMoves DEF ExportDelete, ExportDeleteFails
<1>4. CASE ExportFails(x)
    BY <1>4, ExportMoves DEF ExportFails
<1> QED  BY <1>1, <1>2, <1>3, <1>4

LEMMA TickInv ==
    ASSUME Inv, Tick, UNCHANGED <<tokens, lastId, created, tab, export, revoked, late>>
    PROVE  Inv'
<1>1. now \in Times /\ now' \in Times /\ now <= now' /\ now' > now
    BY TimeAssumption DEF Inv, StateOK, Times, Tick
<1>2. StateOK'
    BY <1>1 DEF Inv, StateOK
<1>3. ASSUME NEW row, Known(row) PROVE Known(row)'
    BY <1>3, StaysKnown
<1>4. ASSUME NEW row \in AccessToken, Past(row) PROVE Past(row)'
  <2>1. row.expires \in Nat /\ row.expires <= now
    BY <1>4 DEF AccessToken, Past
  <2>2. now \in Int /\ now' \in Int
    BY <1>1, TimeAssumption DEF Times
  <2>3. row.expires <= now'
    BY <1>1, <2>1, <2>2
  <2> QED  BY <1>4, <2>3 DEF Past
<1>5. \A x \in Exports : ExportOK(x)'
  <2> SUFFICES ASSUME NEW x \in Exports PROVE ExportOK(x)'
    OBVIOUS
  <2>1. ExportOK(x)
    BY DEF Inv
  <2>2. export[x].stage \in {"check", "delete", "serve"} => export[x].row \in AccessToken
    BY <2>1 DEF ExportOK, Known
  <2> QED  BY <1>3, <1>4, <2>1, <2>2 DEF ExportOK
<1> QED  BY <1>2, <1>3, <1>5 DEF Inv

LEMMA NextInv ==
    ASSUME Inv, [Next]_vars
    PROVE  Inv'
<1>1. ASSUME NEW c \in Creations, CreateAccessToken(c) PROVE Inv'
    BY <1>1, CreateInv
<1>2. ASSUME NEW v \in Tabs,
             DeleteExpired(v) \/ ListTokens(v) \/ ChangeSession(v) \/ Revoke(v)
      PROVE  Inv'
    BY <1>2, DeleteExpiredInv, ListTokensInv, ChangeSessionInv, RevokeInv
<1>3. ASSUME NEW x \in Exports, ExportFind(x) PROVE Inv'
    BY <1>3, ExportFindInv
<1>4. ASSUME NEW x \in Exports,
             \/ ExportCheck(x) \/ ExportServe(x)
             \/ ExportDelete(x) \/ ExportDeleteFails(x) \/ ExportFails(x)
      PROVE  Inv'
    BY <1>4, ExportNextInv
<1>5. CASE Tick /\ UNCHANGED <<tokens, lastId, created, tab, export, revoked, late>>
    BY <1>5, TickInv
<1>6. CASE UNCHANGED vars
  <2>1. ASSUME NEW row, Known(row) PROVE Known(row)'
    BY <1>6, <2>1, StaysKnown DEF vars
  <2>2. StateOK'
    BY <1>6 DEF Inv, StateOK, vars
  <2>3. \A x \in Exports : ExportOK(x)'
    BY <1>6, <2>1 DEF Inv, ExportOK, Past, vars
  <2> QED  BY <1>6, <2>1, <2>2, <2>3 DEF Inv, vars
<1> QED  BY <1>1, <1>2, <1>3, <1>4, <1>5, <1>6 DEF Next

LEMMA Safe == Spec => []Inv
<1>1. Inv /\ [Next]_vars => Inv'
    BY NextInv
<1> QED  BY InitInv, <1>1, PTL DEF Spec

(* Primary keys and tokens are unique, also for what tabs and exports      *)
(* remember of rows that are gone (access_tokens.go).                      *)
THEOREM TypesAreOK == Spec => []TypeOK
<1> QED  BY Safe, InvTypeOK, PTL

(* No export that begins after a revocation that succeeded, or after the   *)
(* token expired, is served (handleEventsExportForAccessToken).            *)
THEOREM LateIsNeverServed == Spec => []LateIsNotServed
<1> QED  BY Safe, InvLateIsNotServed, PTL

-----------------------------------------------------------------------------
(* What a step takes from the table.                                       *)

LEMMA MeantRowsGo ==
    ASSUME Inv, Next, NEW row \in tokens \ tokens'
    PROVE  \/ row.expires # NoDate /\ row.expires <= now
           \/ \E v \in Tabs : tab[v].user = row.user /\ row \in tab[v].list
                              /\ row.token \in revoked'
<1>1. CASE \E v \in Tabs : DeleteExpired(v)
    BY <1>1 DEF DeleteExpired, ExpiredTokensOf
<1>2. CASE \E v \in Tabs : Revoke(v)
  <2>1. PICK v \in Tabs : Revoke(v)
    BY <1>2
  <2>2. PICK r \in tab[v].list : /\ r.user = tab[v].user
                                 /\ tokens' = tokens \ {r}
                                 /\ revoked' = revoked \cup {r.token}
    BY <2>1, RevokeHits
  <2>3. row = r
    BY <2>2
  <2> QED  BY <2>2, <2>3
<1>3. CASE \E x \in Exports : ExportDelete(x)
    BY <1>3, ExportDeletes DEF Past
<1>4. CASE \E c \in Creations : CreateAccessToken(c)
    BY <1>4 DEF CreateAccessToken
<1>5. \A v \in Tabs : ~(ListTokens(v) \/ ChangeSession(v))
    BY DEF ListTokens, ChangeSession
<1>6. \A x \in Exports : ~(\/ ExportFind(x) \/ ExportCheck(x) \/ ExportServe(x)
                          \/ ExportDeleteFails(x) \/ ExportFails(x))
    BY DEF ExportFind, ExportCheck, ExportServe, ExportDeleteFails, ExportFails
<1>7. ~UNCHANGED <<tokens, lastId, created, tab, export, revoked, late>>
    OBVIOUS
<1> QED  BY <1>1, <1>2, <1>3, <1>4, <1>5, <1>6, <1>7 DEF Next

(* A row goes only when it has expired or its owner clicks on that very    *)
(* token, whatever deletions and creations came between the list and the   *)
(* click (DeleteAccessTokenByID and the other deletions).                  *)
THEOREM OnlyMeantRowsEverGo == Spec => OnlyMeantRowsGo
<1>1. Inv /\ [Next]_vars =>
         [\A row \in tokens \ tokens' :
            \/ row.expires # NoDate /\ row.expires <= now
            \/ \E v \in Tabs : tab[v].user = row.user /\ row \in tab[v].list
                               /\ row.token \in revoked']_vars
    BY MeantRowsGo
<1> QED  BY Safe, <1>1, PTL DEF Spec, OnlyMeantRowsGo

-----------------------------------------------------------------------------
(* The rows implement the store in memory.                                 *)

EntryOf(row) == [id |-> row.id, user |-> row.user, expires |-> row.expires]

TokensOf(rows) == {row.token : row \in rows}

(* The map that a set of rows stands for. *)
Store(rows) ==
    [t \in TokensOf(rows) |-> LET row == CHOOSE row \in rows : row.token = t
                              IN [id |-> row.id, user |-> row.user, expires |-> row.expires]]

LEMMA StoreAt ==
    ASSUME NEW rows, \A a, b \in rows : a.token = b.token => a = b
    PROVE  /\ DOMAIN Store(rows) = TokensOf(rows)
           /\ Store(rows) = [t \in TokensOf(rows) |-> Store(rows)[t]]
           /\ \A row \in rows : Store(rows)[row.token] = EntryOf(row)
<1>1. ASSUME NEW row \in rows PROVE Store(rows)[row.token] = EntryOf(row)
  <2>1. (CHOOSE r \in rows : r.token = row.token) = row
    OBVIOUS
  <2>2. row.token \in TokensOf(rows)
    BY DEF TokensOf
  <2> QED  BY <2>1, <2>2 DEF Store, EntryOf
<1> QED  BY <1>1 DEF Store

(* Rows without those of some tokens, and with one more. *)
LEMMA StoreWithout ==
    ASSUME NEW rows, \A a, b \in rows : a.token = b.token => a = b,
           NEW gone \in SUBSET rows
    PROVE  Store(rows \ gone) =
               [t \in DOMAIN Store(rows) \ TokensOf(gone) |-> Store(rows)[t]]
<1> DEFINE left == rows \ gone
<1>1. DOMAIN Store(rows) = TokensOf(rows) /\ DOMAIN Store(left) = TokensOf(left)
    BY DEF Store
<1>2. TokensOf(left) = TokensOf(rows) \ TokensOf(gone)
  <2>1. ASSUME NEW t \in TokensOf(left) PROVE t \in TokensOf(rows) \ TokensOf(gone)
    BY <2>1 DEF TokensOf
  <2>2. ASSUME NEW t \in TokensOf(rows) \ TokensOf(gone) PROVE t \in TokensOf(left)
    BY <2>2 DEF TokensOf
  <2> QED  BY <2>1, <2>2
<1>3. ASSUME NEW t \in TokensOf(left) PROVE Store(left)[t] = Store(rows)[t]
  <2>1. PICK row \in left : row.token = t
    BY <1>3 DEF TokensOf
  <2>2. \A a, b \in left : a.token = b.token => a = b
    OBVIOUS
  <2>3. Store(left)[row.token] = EntryOf(row) /\ Store(rows)[row.token] = EntryOf(row)
    BY <2>2, StoreAt
  <2> QED  BY <2>1, <2>3
<1>4. Store(left) = [t \in TokensOf(left) |-> Store(left)[t]]
    BY DEF Store
<1> HIDE DEF left
<1>5. Store(left) = [t \in TokensOf(left) |-> Store(rows)[t]]
    BY <1>3, <1>4
<1> QED  BY <1>1, <1>2, <1>5 DEF left

With(store, token, entry) ==
    [t \in DOMAIN store \cup {token} |-> IF t = token THEN entry ELSE store[t]]

LEMMA StoreWith ==
    ASSUME NEW rows, NEW new,
           \A a, b \in rows \cup {new} : a.token = b.token => a = b
    PROVE  Store(rows \cup {new}) = With(Store(rows), new.token, EntryOf(new))
<1> DEFINE all == rows \cup {new}
<1>1. DOMAIN Store(rows) = TokensOf(rows)
    BY DEF Store
<1>2. TokensOf(all) = TokensOf(rows) \cup {new.token}
    BY DEF TokensOf
<1>3. ASSUME NEW t \in TokensOf(all)
      PROVE  Store(all)[t] = IF t = new.token THEN EntryOf(new) ELSE Store(rows)[t]
  <2>1. PICK row \in all : row.token = t
    BY <1>3 DEF TokensOf
  <2>2. Store(all)[row.token] = EntryOf(row)
    BY StoreAt
  <2>3. CASE t = new.token
    BY <2>1, <2>2, <2>3
  <2>4. CASE t # new.token
    <3>1. row \in rows
      BY <2>1, <2>4
    <3>2. Store(rows)[row.token] = EntryOf(row)
      BY <3>1, StoreAt
    <3> QED  BY <2>1, <2>2, <2>4, <3>2
  <2> QED  BY <2>3, <2>4
<1>4. Store(all) = [t \in TokensOf(all) |-> Store(all)[t]]
    BY DEF Store
<1> HIDE DEF all
<1>5. Store(all) = [t \in TokensOf(all) |->
                       IF t = new.token THEN EntryOf(new) ELSE Store(rows)[t]]
    BY <1>3, <1>4
<1> QED  BY <1>1, <1>2, <1>5 DEF all, With

(* The rows of a state, as that map. *)
LEMMA Rows ==
    ASSUME Inv
    PROVE  /\ \A a, b \in tokens : a.token = b.token => a = b
           /\ \A row \in tokens : /\ row.token \in DOMAIN Store(tokens)
                                  /\ Store(tokens)[row.token] = EntryOf(row)
           /\ DOMAIN Store(tokens) = TokensOf(tokens)
<1>1. \A a, b \in tokens : a.token = b.token => a = b
    BY DEF Inv, Known
<1> QED  BY <1>1, StoreAt DEF TokensOf

LEMMA InitMemory == Init => Memory!Init
<1> SUFFICES ASSUME Init PROVE Memory!Init
    OBVIOUS
<1>1. now = 0 /\ tokens = {} /\ lastId + 1 = 1
    BY DEF Init
<1> QED  BY <1>1 DEF Memory!Init

LEMMA CreateMemory ==
    ASSUME Inv, Inv', NEW c \in Creations, CreateAccessToken(c)
    PROVE  Memory!Next
<1>1. PICK p \in Profiles, date \in Expirations \cup {NoDate} :
         tokens' = tokens \cup {[id |-> NewId, user |-> p, token |-> c, expires |-> date]}
    BY DEF CreateAccessToken
<1>2. PICK new : new = [id |-> NewId, user |-> p, token |-> c, expires |-> date]
    OBVIOUS
<1>3. lastId' = lastId + 1 /\ now' = now /\ c \notin created /\ lastId \in Nat
    BY DEF CreateAccessToken, NewId, Inv, StateOK
<1>4. tokens' = tokens \cup {new} /\ new.token = c
    BY <1>1, <1>2
<1>5. \A a, b \in tokens \cup {new} : a.token = b.token => a = b
  <2>1. \A a, b \in tokens' : a.token = b.token => a = b
    BY DEF Inv, Known
  <2> QED  BY <1>4, <2>1
<1>6. EntryOf(new) = Memory!Entry(lastId + 1, p, date)
    BY <1>2 DEF EntryOf, Memory!Entry, NewId
<1>7. Store(tokens \cup {new}) =
         [t \in DOMAIN Store(tokens) \cup {c} |->
             IF t = c THEN Memory!Entry(lastId + 1, p, date) ELSE Store(tokens)[t]]
  <2>1. Store(tokens \cup {new}) = With(Store(tokens), new.token, EntryOf(new))
    BY <1>5, StoreWith
  <2> QED  BY <1>4, <1>6, <2>1 DEF With
<1>8. c \notin DOMAIN Store(tokens)
    BY <1>3, Rows DEF TokensOf, Inv, Known
<1>9. lastId' + 1 = (lastId + 1) + 1
    BY <1>3
<1>10. Store(tokens') =
         [t \in DOMAIN Store(tokens) \cup {c} |->
             IF t = c THEN Memory!Entry(lastId + 1, p, date) ELSE Store(tokens)[t]]
    BY <1>4, <1>7
<1>11. Memory!CreateAccessToken(p, c, date)
    BY <1>3, <1>9, <1>10 DEF Store, TokensOf, Memory!CreateAccessToken, Memory!Entry
<1> QED  BY <1>8, <1>11 DEF Memory!Next, Memory!CreateAccessToken, Store, TokensOf, Memory!Entry

(* Rows that go are entries that go. *)
LEMMA RowsGo ==
    ASSUME Inv, NEW gone \in SUBSET tokens, tokens' = tokens \ gone
    PROVE  Store(tokens') = [t \in DOMAIN Store(tokens) \ TokensOf(gone) |-> Store(tokens)[t]]
<1>1. Store(tokens \ gone) = [t \in DOMAIN Store(tokens) \ TokensOf(gone) |-> Store(tokens)[t]]
    BY Rows, StoreWithout
<1> QED  BY <1>1

LEMMA DeleteExpiredMemory ==
    ASSUME Inv, NEW v \in Tabs, DeleteExpired(v)
    PROVE  Memory!Next
<1>1. PICK p \in Profiles : tokens' = tokens \ ExpiredTokensOf(p)
    BY DEF DeleteExpired
<1>2. now' = now /\ lastId' = lastId
    BY DEF DeleteExpired
<1>3. PICK gone : gone = ExpiredTokensOf(p)
    OBVIOUS
<1>4. gone \subseteq tokens /\ tokens' = tokens \ gone
    BY <1>1, <1>3 DEF ExpiredTokensOf
<1> DEFINE old == {t \in DOMAIN Store(tokens) :
                      /\ Store(tokens)[t].user = p
                      /\ Store(tokens)[t].expires # NoDate
                      /\ Store(tokens)[t].expires <= now}
<1>5. ASSUME NEW t \in old PROVE t \in TokensOf(gone)
  <2>1. PICK row \in tokens : row.token = t
    BY Rows DEF TokensOf
  <2>2. Store(tokens)[t] = EntryOf(row)
    BY <2>1, Rows
  <2>3. row \in gone
    BY <1>3, <1>5, <2>1, <2>2 DEF EntryOf, ExpiredTokensOf
  <2> QED  BY <2>1, <2>3 DEF TokensOf
<1>6. ASSUME NEW t \in TokensOf(gone) PROVE t \in old
  <2>1. PICK row \in gone : row.token = t
    BY <1>6 DEF TokensOf
  <2>2. t \in DOMAIN Store(tokens) /\ Store(tokens)[t] = EntryOf(row)
    BY <1>4, <2>1, Rows
  <2>3. row.user = p /\ row.expires # NoDate /\ row.expires <= now
    BY <1>3, <2>1 DEF ExpiredTokensOf
  <2> QED  BY <2>2, <2>3 DEF EntryOf
<1>7. TokensOf(gone) = old
    BY <1>5, <1>6
<1>8. Store(tokens') = [t \in DOMAIN Store(tokens) \ old |-> Store(tokens)[t]]
    BY <1>4, <1>7, RowsGo
<1>9. Memory!DeleteExpiredAccessTokensByUserID(p)
    BY <1>2, <1>8 DEF Store, TokensOf, Memory!DeleteExpiredAccessTokensByUserID, Memory!Without
<1> QED  BY <1>9 DEF Memory!Next, Memory!DeleteExpiredAccessTokensByUserID, Memory!Without,
                     Store, TokensOf

(* A row that goes alone is an entry that goes alone. *)
LEMMA RowGoes ==
    ASSUME Inv, NEW row \in tokens, tokens' = tokens \ {row}
    PROVE  Store(tokens') = [t \in DOMAIN Store(tokens) \ {row.token} |-> Store(tokens)[t]]
<1>1. TokensOf({row}) = {row.token}
    BY DEF TokensOf
<1>2. {row} \in SUBSET tokens
    OBVIOUS
<1> QED  BY <1>1, <1>2, RowsGo

LEMMA RevokeMemory ==
    ASSUME Inv, NEW v \in Tabs, Revoke(v)
    PROVE  Memory!Next
<1>1. PICK row \in tokens : row.user = tab[v].user /\ tokens' = tokens \ {row}
    BY RevokeHits
<1>2. now' = now /\ lastId' = lastId
    BY DEF Revoke
<1>3. row.id \in 1..(lastId + 1) /\ row.user \in Profiles
    BY DEF Inv, StateOK, Known, AccessToken
<1>4. row.token \in DOMAIN Store(tokens) /\ Store(tokens)[row.token] = EntryOf(row)
    BY Rows
<1>5. Store(tokens') = [t \in DOMAIN Store(tokens) \ {row.token} |-> Store(tokens)[t]]
    BY <1>1, RowGoes
<1>6. Store(tokens)[row.token].id = row.id /\ Store(tokens)[row.token].user = row.user
    BY <1>4 DEF EntryOf
<1>7. \E t \in DOMAIN Store(tokens) :
         /\ Store(tokens)[t].id = row.id /\ Store(tokens)[t].user = row.user
         /\ Store(tokens') = [s \in DOMAIN Store(tokens) \ {t} |-> Store(tokens)[s]]
    BY <1>4, <1>5, <1>6
<1>8. Memory!DeleteAccessTokenByID(row.user, row.id)
    BY <1>2, <1>7 DEF Store, TokensOf, Memory!DeleteAccessTokenByID, Memory!Without
<1> QED  BY <1>3, <1>8 DEF Memory!Next, Memory!DeleteAccessTokenByID, Memory!Without,
                           Store, TokensOf

LEMMA ExportDeleteMemory ==
    ASSUME Inv, NEW x \in Exports, ExportDelete(x)
    PROVE  Memory!Next \/ Store(tokens') = Store(tokens)
<1>1. PICK row : row = export[x].row
    OBVIOUS
<1>2. /\ tokens' = {t \in tokens : t.token # row.token}
      /\ now' = now /\ lastId' = lastId
    BY <1>1, ExportDeletes DEF ExportDelete
<1>3. row \notin tokens => tokens' = tokens
    BY <1>1, <1>2, ExportDeletes DEF Known
<1>4. CASE row \in tokens
  <2>1. tokens' = tokens \ {row}
    BY <1>2, <1>4, Rows
  <2>2. row.token \in DOMAIN Store(tokens) /\ Store(tokens)[row.token] = EntryOf(row)
    BY <1>4, Rows
  <2>3. row.expires # NoDate /\ row.expires <= now
    BY <1>1, ExportDeletes DEF Past
  <2>4. /\ Store(tokens)[row.token].expires # NoDate
        /\ Store(tokens)[row.token].expires <= now
    BY <2>2, <2>3 DEF EntryOf
  <2>5. Store(tokens') = [t \in DOMAIN Store(tokens) \ {row.token} |-> Store(tokens)[t]]
    BY <1>4, <2>1, RowGoes
  <2>6. Memory!DeleteAccessTokenByToken(row.token)
    BY <1>2, <2>2, <2>5 DEF Store, TokensOf, Memory!DeleteAccessTokenByToken, Memory!Without
  <2> QED  BY <2>2, <2>4, <2>6 DEF Memory!Next, Memory!DeleteAccessTokenByToken,
                                   Memory!Without, Store, TokensOf
<1> QED  BY <1>3, <1>4

LEMMA TickMemory ==
    ASSUME Inv, Tick, UNCHANGED <<tokens, lastId, created, tab, export, revoked, late>>
    PROVE  Memory!Next
<1>1. now' > now
    BY TimeAssumption DEF Inv, StateOK, Times, Tick
<1>2. Store(tokens') = Store(tokens) /\ lastId' + 1 = lastId + 1
    OBVIOUS
<1>3. Memory!TimePasses
    BY <1>1, <1>2 DEF Store, TokensOf, Memory!TimePasses
<1> QED  BY <1>3 DEF Memory!Next, Memory!TimePasses, Store, TokensOf

memoryVars == <<now, lastId + 1, Store(tokens)>>

LEMMA NextMemory ==
    ASSUME Inv, Inv', [Next]_vars
    PROVE  Memory!Next \/ UNCHANGED memoryVars
<1>1. ASSUME NEW c \in Creations, CreateAccessToken(c) PROVE Memory!Next
    BY <1>1, CreateMemory
<1>2. ASSUME NEW v \in Tabs, DeleteExpired(v) \/ Revoke(v) PROVE Memory!Next
    BY <1>2, DeleteExpiredMemory, RevokeMemory
<1>3. ASSUME NEW x \in Exports, ExportDelete(x)
      PROVE  Memory!Next \/ UNCHANGED memoryVars
  <2>1. now' = now /\ lastId' = lastId
    BY <1>3 DEF ExportDelete
  <2> QED  BY <1>3, <2>1, ExportDeleteMemory DEF memoryVars
<1>4. CASE Tick /\ UNCHANGED <<tokens, lastId, created, tab, export, revoked, late>>
    BY <1>4, TickMemory
<1>5. ASSUME UNCHANGED <<now, tokens, lastId>> PROVE UNCHANGED memoryVars
    BY <1>5 DEF memoryVars
<1>6. ASSUME NEW v \in Tabs, ListTokens(v) \/ ChangeSession(v)
      PROVE  UNCHANGED memoryVars
    BY <1>5, <1>6 DEF ListTokens, ChangeSession
<1>7. ASSUME NEW x \in Exports, \/ ExportFind(x) \/ ExportCheck(x) \/ ExportServe(x)
                                \/ ExportDeleteFails(x) \/ ExportFails(x)
      PROVE  UNCHANGED memoryVars
    BY <1>5, <1>7 DEF ExportFind, ExportCheck, ExportServe, ExportDeleteFails, ExportFails
<1>8. CASE UNCHANGED vars
    BY <1>5, <1>8 DEF vars
<1> QED  BY <1>1, <1>2, <1>3, <1>4, <1>6, <1>7, <1>8 DEF Next

(* The table, changed by the statements of several requests, implements    *)
(* the store of internal/web/access_token_store.go, a map whose every      *)
(* operation is one step under a mutex.                                    *)
THEOREM TableImplementsMemory == Spec => ImplementsMemoryStore
<1>1. Inv /\ Inv' /\ [Next]_vars
         => [Memory!Next]_<<now, lastId + 1,
               [t \in {row.token : row \in tokens} |->
                   LET row == CHOOSE row \in tokens : row.token = t
                   IN [id |-> row.id, user |-> row.user, expires |-> row.expires]]>>
  <2>1. Inv /\ Inv' /\ [Next]_vars => Memory!Next \/ UNCHANGED memoryVars
    BY NextMemory
  <2> QED  BY <2>1 DEF memoryVars, Store, TokensOf
<1> QED  BY Safe, InitMemory, <1>1, PTL DEF Spec, ImplementsMemoryStore, Memory!Spec, Memory!vars
=============================================================================
