---------------------------- MODULE MCConnection ----------------------------
(***************************************************************************)
(* Instances of Connection.                                                *)
(***************************************************************************)
EXTENDS Connection
=============================================================================
