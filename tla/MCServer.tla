------------------------------ MODULE MCServer ------------------------------
(***************************************************************************)
(* Instances of Server.  Connections are interchangeable in the runs that  *)
(* check safety only.                                                      *)
(***************************************************************************)
EXTENDS Server, TLC

ConnSymmetry == Permutations(Conns)
=============================================================================
