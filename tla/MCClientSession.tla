-------------------------- MODULE MCClientSession --------------------------
(***************************************************************************)
(* Instances of ClientSession.                                             *)
(***************************************************************************)
EXTENDS ClientSession
=============================================================================
