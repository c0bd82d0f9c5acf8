--------------------------- MODULE MCReplication ---------------------------
(***************************************************************************)
(* Instances of Replication: a host h and one or two members.              *)
(***************************************************************************)
EXTENDS Replication

CONSTANTS h, m1, m2, a, b, c, old, own

\* Members draw, the host only serves them: its UI thread is idle.  The host
\* has opened a file before, and m2 has drawn on its own.
MemberStrokes == [n \in Nodes |-> IF n = m1 THEN {a} ELSE IF n = m2 THEN {c} ELSE {}]
Opened == [n \in Nodes |-> IF n = h THEN <<Stamped(old, 1)>>
                           ELSE IF n = m2 THEN <<Stamped(own, 1)>> ELSE <<>>]

\* The host draws too.
HostStrokes == [n \in Nodes |-> IF n = h THEN {a, b} ELSE IF n = m1 THEN {c} ELSE {}]

Course(strokes, leavers) == [strokes |-> strokes, leavers |-> leavers]

\* Nobody leaves, or m1, who draws alone then.
Courses1 == {Course({a, c}, {}), Course({a}, {m1})}
Courses2 == {Course({a, b, c}, {})}
=============================================================================
