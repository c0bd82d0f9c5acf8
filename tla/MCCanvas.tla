------------------------------ MODULE MCCanvas ------------------------------
(***************************************************************************)
(* Instances of Canvas: the UI thread and the poll thread.                 *)
(***************************************************************************)
EXTENDS Canvas

CONSTANTS ui, poll, a, b, c

Plain(id) == [id |-> id, seq |-> 0]
Stamped(id, s) == [id |-> id, seq |-> s]

\* A canvas whose threads stamp (host), apply stamped operations (member),
\* share an id, clear, and load a saved or received history.
MixedCalls == [t \in Threads |->
    IF t = ui THEN {Plain(a), Plain(NoId)}
    ELSE {Plain(b), Stamped(a, 2), Stamped(b, 1)}]
MixedLoads == [t \in Threads |->
    IF t = ui THEN {<<Stamped(c, 2), Stamped(a, 1)>>} ELSE {<<Stamped(b, 3)>>}]
=============================================================================
