-------------------------- MODULE CalDAVRefinement --------------------------
(***************************************************************************)
(* CalDAVHandler, with at most one request at a time for each key, files    *)
(* only and a store that does not fail, implements ResourceMap: the map is  *)
(* what the rows store, and it changes when they do, after the tree.        *)
(***************************************************************************)
EXTENDS CalDAVHandler

storedMap == [k \in Keys |-> Stored(k)]

settledAnswer ==
    [r \in Reqs |->
        CASE stage[r] \in {"return", "done"} ->
                [request |-> [method |-> arg[r].method, key |-> Key(r),
                              ifMatch |-> arg[r].ifMatch, body |-> arg[r].body],
                 status |-> reply[r].status, etag |-> reply[r].etag,
                 body |-> reply[r].body]
          [] stage[r] = "lost" -> [status |-> "lost"]
          [] OTHER -> [status |-> "none"]]

Promise == INSTANCE ResourceMap WITH map <- storedMap, answer <- settledAnswer

(* Requests that overlap only on different keys, with crashes between and  *)
(* in the midst of them, look as if performed at once on the durable map:  *)
(* conditional requests see the current content, a tag belongs to the body *)
(* it comes with, an acknowledged write is there after the restart.        *)
ImplementsMap == Promise!MapSpec
=============================================================================
