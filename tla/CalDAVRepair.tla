---------------------------- MODULE CalDAVRepair ----------------------------
(***************************************************************************)
(* CalDAVHandler with history variables: which writes have their key to    *)
(* themselves, and what such a write has left.  Crossed writers, rows that *)
(* come back and dropped errors leave tree and rows in disagreement; this  *)
(* module says what mends it.                                              *)
(***************************************************************************)
EXTENDS CalDAVHandler

VARIABLES
    lone,       \* the requests between tree and rows that no other write of
                \* their key and no change of their file has met so far
    settled     \* per key: what the last write left, if it was such a one
                \* and nothing was written there since, or Nothing

repairVars == <<lone, settled>>

RepairInit == Init /\ lone = {} /\ settled = [k \in Keys |-> Nothing]

(* r changes the tree: at the keys where its content changes, and at its   *)
(* own if rows will follow.                                                *)
Observe(r) ==
    LET begins == ~Busy(r) /\ Busy(r)'
        touched == {k \in Keys : fs'[k[1]][k[2]] # fs[k[1]][k[2]]}
                      \cup IF begins THEN {Key(r)} ELSE {}
        met == {s \in lone \ {r} : Key(s) \in touched \/ node'[s] # node[s]}
        alone == /\ begins
                 /\ stage'[r] \in {"write", "delete"}
                 /\ \A s \in Reqs \ {r} : Busy(s) => Key(s) # Key(r)
    IN /\ lone' = (lone \ met) \cup IF alone THEN {r} ELSE {}
       /\ settled' = [k \in Keys |-> IF k \in touched THEN Nothing ELSE settled[k]]

(* r has written its row, or deleted those there were. *)
Settles(r) ==
    /\ lone' = lone \ {r}
    /\ settled' = [settled EXCEPT ![Key(r)] =
                     IF r \notin lone THEN @
                     ELSE IF arg[r].method = "PUT" THEN arg[r].body ELSE Absent]

(* Of several rows of a key a restart may take any. *)
ForgetAmbiguous ==
    /\ lone' = {}
    /\ settled' = [k \in Keys |-> IF UniqueAt(k) THEN settled[k] ELSE Nothing]

RepairNext ==
    \/ \E r \in Reqs :
          \/ Serve(r) /\ Observe(r)
          \/ (PersistCreate(r) \/ PersistSave(r) \/ PersistDelete(r)) /\ Settles(r)
          \/ PersistFails(r) /\ lone' = lone \ {r} /\ settled' = settled
          \/ /\ \/ Accept(r) \/ AcceptFails(r) \/ Load(r) \/ PreconditionFailed(r)
                \/ LoadFails(r) \/ PersistFind(r) \/ Return(r)
             /\ UNCHANGED repairVars
    \/ Crash /\ ForgetAmbiguous
    \/ Restart /\ UNCHANGED repairVars

RepairSpec == RepairInit /\ [][RepairNext]_<<vars, repairVars>>

-----------------------------------------------------------------------------
(* A PUT of a file or a DELETE that has its key to itself mends what        *)
(* crossed writers, rows that came back and dropped errors left there: from *)
(* then on the tree serves what it wrote, GetResource finds it, and so it   *)
(* is after a crash, unless an overlap has left several rows                *)
(* (PutResource, DeleteResource, persistMutation).                          *)
LoneWriteMends ==
    \A k \in Keys : settled[k] # Nothing =>
        /\ Stored(k) = settled[k]
        /\ k[1] \in handlers => Served(k) = settled[k]

-----------------------------------------------------------------------------
(* The inductive invariant behind LoneWriteMends, on top of Inv. *)

(* A lone writer has in the tree what it will leave in the rows, and knows *)
(* the row that GetResource would find.                                    *)
LoneOK(r) ==
    /\ Busy(r)
    /\ \A s \in Reqs \ {r} : Busy(s) => Key(s) # Key(r)
    /\ arg[r].method = IF stage[r] = "delete" THEN "DELETE" ELSE "PUT"
    /\ stage[r] = "write" => node[r] = arg[r].path /\ Served(Key(r)) = Empty
    /\ stage[r] \in {"find", "create", "save"} => Served(Key(r)) = arg[r].body
    /\ stage[r] = "create" => RowsAt(Key(r)) = {}
    /\ stage[r] = "save" =>
          /\ held[r] \in RowsAt(Key(r))
          /\ \A row \in RowsAt(Key(r)) : held[r].id <= row.id
    /\ stage[r] = "delete" => Served(Key(r)) = Absent

(* Nobody writes where a lone write has settled the key. *)
SettledOK(k) ==
    settled[k] # Nothing =>
        /\ Quiet(k)
        /\ Stored(k) = settled[k]
        /\ IF k[1] \in handlers THEN Served(k) = settled[k] ELSE UniqueAt(k)

MendInv ==
    /\ lone \subseteq Reqs
    /\ DOMAIN settled = Keys
    /\ \A r \in lone : LoneOK(r)
    /\ \A k \in Keys : SettledOK(k)
=============================================================================
