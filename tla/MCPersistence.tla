--------------------------- MODULE MCPersistence ---------------------------
(***************************************************************************)
(* Instances of Persistence: the UI thread, with or without the poll       *)
(* thread of a host, and a file with one operation in it.                  *)
(***************************************************************************)
EXTENDS Persistence

CONSTANTS ui, poll

OneSaved == <<[id |-> 1, seq |-> 1]>>
=============================================================================
