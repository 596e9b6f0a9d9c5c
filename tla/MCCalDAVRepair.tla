--------------------------- MODULE MCCalDAVRepair ---------------------------
(* The instances of MCCalDAVHandler with the history of CalDAVRepair. *)
EXTENDS MCCalDAVHandler, CalDAVRepair
=============================================================================
