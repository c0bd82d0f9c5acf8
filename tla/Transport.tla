----------------------------- MODULE Transport -----------------------------
(***************************************************************************)
(* From a session id to messages that come out as they went in: the client *)
(* finds a server (Discovery), connects and sends JOIN; or it is already   *)
(* connected, and one direction of the connection (Stream) carries what    *)
(* the threads of one end send at the same time.  The strokes among it are *)
(* those the mouse can make (CanvasInput).                                 *)
(***************************************************************************)
EXTENDS Stream, Discovery, CanvasInput

CONSTANTS
    Messages,       \* all there are
    Traffic,        \* todo and protocol of a connection that is there already
    connect_thread, \* one of the Senders
    user_name

VARIABLES connected

vars == <<stream, discovery, connected>>

Join(id) == [opcode |-> Opcode.JOIN, says |-> [session_id |-> id, name |-> user_name]]

ASSUME TransportAssumption ==
    /\ Messages \subseteq Message /\ \A id \in Ids : Join(id) \in Messages
    /\ \A a \in Traffic : /\ a.protocol \in {"tcp", "websocket"}
                         /\ a.todo \in [Senders -> Seq(Messages)]
    /\ connect_thread \in Senders

TypeOK ==
    /\ DiscoveryTypeOK
    /\ protocol \in {"tcp", "websocket"} /\ {open, connected, reading} \subseteq BOOLEAN
    /\ write_mutex \in Senders \cup {"nobody"} /\ sending \in Seq(Byte)
    /\ (write_mutex = "nobody") = (sending = <<>>)
    /\ protocol = "tcp" => wire \in Seq(Byte) /\ size(wire) <= Room
    /\ protocol = "websocket" => wire \in Seq(Seq(Byte) \ {<<>>})
    /\ have \in Seq(Byte) /\ size(have) <= Needed(have)

Init ==
    /\ DiscoveryInit /\ StreamInit
    /\ \/ /\ connected = FALSE /\ protocol = "tcp"
          /\ todo = [t \in Senders |-> <<>>]
       \/ /\ connected = TRUE
          /\ \E a \in Traffic : protocol = a.protocol /\ todo = a.todo

\* connect_to_server, then send_join_request; what else is on its way to a
\* socket that is closed has no effect.
Connect ==
    /\ ~connected /\ host # "none" /\ connected' = TRUE
    /\ todo' = [todo EXCEPT ![connect_thread] = <<Join(wanted)>>]
    /\ requests' = {} /\ offers' = {}
    /\ UNCHANGED <<protocol, open, write_mutex, sending, wire, receiver,
                   lan, port, wanted, host, attempts>>

ConnectFails ==
    /\ ~connected /\ host # "none" /\ host' = "none"
    /\ UNCHANGED <<stream, connected, lan, requests, offers, port, wanted, attempts>>

Next ==
    \/ ~connected /\ DiscoveryNext /\ UNCHANGED <<stream, connected>>
    \/ Connect \/ ConnectFails
    \/ connected /\ StreamNext /\ UNCHANGED <<discovery, connected>>

\* The threads of both ends run.  An attempt ends by its timer at the latest.
Fairness ==
    /\ \A t \in Senders : WF_vars(connected /\ SenderThread(t) /\ UNCHANGED <<discovery, connected>>)
    /\ WF_vars(connected /\ ReceiverThread /\ UNCHANGED <<discovery, connected>>)

Spec == Init /\ [][Next]_vars /\ Fairness

-----------------------------------------------------------------------------
(* Properties.                                                             *)

channel == INSTANCE Channel WITH queue <- OnTheWay, got <- received,
                            Frames <- { SerializeMessage(m) : m \in Messages }

\* What several threads send at once over a byte stream (or as WebSocket
\* messages) comes out as the same frames, whole, in the order in which the
\* threads got write_mutex; a lost connection only cuts off the end
\* (clientConnection::send, the receiver's reads).
ImplementsChannel == channel!Spec

\* What the handlers are given is what was sent: serialize and parse of every
\* kind of message agree, and no frame stands for two messages.
ReadBack ==
    \A i \in 1..Len(received) :
       Dispatched(i) \in Messages /\ SerializeMessage(Dispatched(i)) = received[i]

\* A JOIN comes to a server that has had the session it is for, also when an
\* earlier search's offers come in late at the port of this one.  (Not to one
\* that has it still, and not to the only one.)
JoinGoesWhereOffered ==
    \A i \in 1..Len(received) :
       Dispatched(i).opcode = Opcode.JOIN /\ host # "none"
          => Dispatched(i).says.session_id < next_session_id[host]

\* What a DRAW says is a stroke the mouse made within as many frames as leave
\* its points countable, and of a canvas state every operation is valid.
DrawnWithTheMouse ==
    /\ \E n \in 0..(Word - 2) :
          LET strokes == { c.op : c \in { d \in Committed(n) : d.missed < 2 } }
          IN \A m \in Messages : m.opcode = Opcode.DRAW => m.says \in strokes
    /\ \A m \in Messages : m.opcode = Opcode.CANVAS_STATE =>
          \A j \in 1..Len(m.says) : ValidateDrawOperation(m.says[j], TRUE)

\* Every stroke the mouse can make passes validateDrawOperation where it
\* arrives, and so does all of a canvas state, as long as a minimised window
\* missed at most one release; with two it may be a shape of three points.
StrokesArriveValid ==
    \A i \in 1..Len(received) :
       /\ Dispatched(i).opcode = Opcode.DRAW =>
             ValidateDrawOperation(Dispatched(i).says, FALSE)
       /\ Dispatched(i).opcode = Opcode.CANVAS_STATE =>
             \A j \in 1..Len(Dispatched(i).says) :
                ValidateDrawOperation(Dispatched(i).says[j], TRUE)

\* While the connection stays, everything sent is received: nobody keeps
\* write_mutex, and no receiver waits for bytes that are not part of a message.
EverythingArrives ==
    connected ~> \/ ~open
                 \/ /\ sending = <<>> /\ wire = <<>> /\ have = <<>>
                    /\ \A t \in Senders : todo[t] = <<>>
=============================================================================
