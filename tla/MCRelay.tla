------------------------------ MODULE MCRelay ------------------------------
(***************************************************************************)
(* An instance of Relay: a host, a member that draws, clears and once      *)
(* misses a stroke, and one that is just coming in.  With one frame each   *)
(* way this is enough for a circle of waiting threads.                     *)
(***************************************************************************)
EXTENDS Relay

CONSTANTS h, m1, m2

Draws == [a \in Apps |-> IF a = m2 THEN 0 ELSE 1]
Clears == [a \in Apps |-> IF a = m1 THEN 1 ELSE 0]
Gaps == Clears
=============================================================================
