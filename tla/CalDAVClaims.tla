---------------------------- MODULE CalDAVClaims ----------------------------
(***************************************************************************)
(* What README.md and the tests say of the CalDAV handler, stated without  *)
(* the exceptions the invariants of CalDAVHandler make.                    *)
(***************************************************************************)
EXTENDS CalDAVHandler

Succeeded(r, method, k) ==
    /\ stage[r] = "done"
    /\ reply[r].status = "ok"
    /\ arg[r].method = method
    /\ Key(r) = k

(* README.md:29, "ETag + If-Match conflict semantics": one version of a    *)
(* resource is replaced by one conditional PUT at most; a second one with  *)
(* the same tag fails (TestPutWithIfMatchRejectsStaleTag).                 *)
NoLostUpdate ==
    \A k \in Keys, c \in Contents :
        Cardinality({r \in Reqs : /\ Succeeded(r, "PUT", k)
                                  /\ arg[r].ifMatch = Tags({c})
                                  /\ arg[r].body # c})
            <= Cardinality({r \in Reqs : /\ Succeeded(r, "PUT", k)
                                         /\ arg[r].body = c})

(* README.md:28, "Persistence-backed resource store": when all is quiet,   *)
(* what the tree serves is what the rows store, whatever the method that   *)
(* put it there (persistMutation).                                         *)
ServedIsStored ==
    (\A r \in Reqs : ~InFlight(r)) =>
        \A k \in Keys : k[1] \in handlers => Served(k) = Stored(k)

(* TestNewHandlerPreloadsPersistedResources: the persisted resources can   *)
(* be loaded into a new handler, so the server can be started again        *)
(* (getUserHandler, writeResourceToFS).                                    *)
StoreLoadable == \A u \in Users : Hydratable(u)
=============================================================================
