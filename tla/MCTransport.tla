---------------------------- MODULE MCTransport ----------------------------
(***************************************************************************)
(* An instance of Transport: two servers, one port for the client, two     *)
(* searches; and two threads that send messages of every kind over one     *)
(* connection.                                                             *)
(***************************************************************************)
EXTENDS Transport

CONSTANTS t1, t2, A, B, p1

MCSenders == {t1, t2}
MCServers == {A, B}
MCPorts == {p1}

MCTools == {tool_type.freehand, tool_type.rect, tool_type.bucket_fill}
MCPoints == {<<0, 0>>, <<0, 20>>, <<100, 0>>}
MCEdge == <<0, 0>>
MCName == <<1, 10>>

\* Frames that make a stroke, and the strokes with at most one missed release.
MaxFrames == 5
MouseStrokes == { c.op : c \in { d \in Committed(MaxFrames) : d.missed < 2 } }

Says(opcode, says) == [opcode |-> opcode, says |-> says]
Only(opcode) == Says(opcode, <<>>)
Member(code) == Says(Opcode.NOTIFICATION, [code |-> code, member_id |-> 2, name |-> MCName])
Operation(seq, tool, points) ==
    [operation_id |-> Long + seq, seq |-> seq, member_id |-> 1, tool |-> tool,
     color |-> Base + 1, thickness |-> 4, points |-> points]
State == Says(Opcode.CANVAS_STATE,
              <<Operation(1, tool_type.line, <<<<0, 20>>, <<120, 0>>>>),
                Operation(2, tool_type.clear, <<>>)>>)

\* What two threads send: a stroke and a request of the state; what else a
\* client sends; the answers and the notifications of the server.
Sent2(first, second) == [t \in MCSenders |-> IF t = t1 THEN first ELSE second]
Strokes2 == { Sent2(<<Says(Opcode.DRAW, op)>>, <<Only(Opcode.CANVAS_STATE_REQUEST)>>) :
                op \in MouseStrokes }
Others2 == {
    Sent2(<<Says(Opcode.CREATE, MCName), Only(Opcode.CANVAS_CLEAR)>>,
          <<Says(Opcode.JOIN, [session_id |-> Base + 1, name |-> MCName]),
            Only(Opcode.LEAVE), Only(Opcode.CLOSE_SESSION)>>),
    Sent2(<<Says(Opcode.ACK, [code |-> ackcode.CREATE_OK, session_id |-> 1, member_id |-> 2]),
            Says(Opcode.ACK, [code |-> ackcode.LEFT, text |-> <<3>>])>>,
          <<Member(notifcode.MEMBER_JOINED), Member(notifcode.MEMBER_LEFT)>>),
    Sent2(<<Says(Opcode.ACK, [code |-> ackcode.JOIN_OK, member_id |-> Base]),
            Says(Opcode.ERROR_MSG, [code |-> 1, text |-> <<>>])>>,
          <<State, Says(Opcode.NOTIFICATION, [code |-> notifcode.SESSION_CLOSED])>>) }

MCTraffic == [protocol : {"websocket"}, todo : Strokes2 \cup Others2]
                \cup [protocol : {"tcp"}, todo : {CHOOSE s \in Strokes2 : TRUE} \cup Others2]

MCMessages ==
    UNION { UNION { ToSet(a.todo[t]) : t \in MCSenders } : a \in MCTraffic }
       \cup { Join(id) : id \in Ids }

\* As StrokesValid needs them.
ASSUME MCDrawn == DrawnWithTheMouse
=============================================================================
