------------------------------- MODULE Stream -------------------------------
(***************************************************************************)
(* One direction of a connection, byte by byte: clientConnection::send of  *)
(* several threads, tcpSocket and webSocket, and the receiver's loop       *)
(* (handle_tcp_client, handle_ws_client; sessionClient::receive_msg).      *)
(*                                                                         *)
(* net::write passes a message on in pieces, as the connection has room,   *)
(* and net::read collects what it was asked for; write_mutex is held for a *)
(* whole message.  A WebSocket carries messages as such.  The connection   *)
(* may be lost at any time, with the end of what is on its way.            *)
(***************************************************************************)
EXTENDS Wire, FiniteSetsExt

CONSTANTS
    Senders,    \* the threads that send
    Room        \* bytes a TCP connection holds

ASSUME StreamAssumption == Room \in Nat \ {0} /\ "nobody" \notin Senders

VARIABLES
    protocol,       \* "tcp" or "websocket"
    open,           \* the connection is there
    todo,           \* todo[t]: messages thread t is going to send
    write_mutex,    \* the thread that holds it, or "nobody"
    sending,        \* what it has not written yet
    wire,           \* bytes on their way; with a WebSocket: messages
    reading,        \* the receiver has not left its loop
    have,           \* what it has of the next message
    received        \* the frames it has dispatched

sender == <<todo, write_mutex, sending>>
receiver == <<reading, have, received>>
stream == <<protocol, open, sender, wire, receiver>>

StreamInit ==
    /\ open = TRUE
    /\ write_mutex = "nobody" /\ sending = <<>> /\ wire = <<>>
    /\ reading = TRUE /\ have = <<>> /\ received = <<>>

Take(seq, k) == SubSeq(seq, 1, k)
Drop(seq, k) == SubSeq(seq, k + 1, Len(seq))

-----------------------------------------------------------------------------
(* clientConnection::send.                                                 *)

\* Mutant of Send: write_mutex is not waited for, and a frame gets into another.
SendBetween(t) ==
    /\ todo[t] # <<>>
    /\ write_mutex' = t /\ sending' = SerializeMessage(Head(todo[t])) \o sending
    /\ todo' = [todo EXCEPT ![t] = Tail(@)]
    /\ UNCHANGED <<protocol, open, wire, receiver>>

Send(t) ==
    /\ todo[t] # <<>> /\ write_mutex = "nobody"
    /\ write_mutex' = t /\ sending' = SerializeMessage(Head(todo[t]))
    /\ todo' = [todo EXCEPT ![t] = Tail(@)]
    /\ UNCHANGED <<protocol, open, wire, receiver>>

\* Mutant of Sent: write_mutex is never given back.
SentLocked(rest) == sending' = rest /\ UNCHANGED write_mutex

Sent(rest) ==
    /\ sending' = rest
    /\ write_mutex' = IF rest = <<>> THEN "nobody" ELSE write_mutex

Write_TCP ==
    /\ protocol = "tcp" /\ open /\ sending # <<>>
    /\ \E k \in 1..Min({size(sending), Room - size(wire)}) :
          wire' = wire \o Take(sending, k) /\ Sent(Drop(sending, k))
    /\ UNCHANGED <<protocol, open, todo, receiver>>

Write_WS ==
    /\ protocol = "websocket" /\ open /\ sending # <<>>
    /\ wire' = Append(wire, sending) /\ Sent(<<>>)
    /\ UNCHANGED <<protocol, open, todo, receiver>>

\* send returns an error; nobody looks at it but to log it.
WriteFails ==
    /\ ~open /\ sending # <<>> /\ Sent(<<>>)
    /\ UNCHANGED <<protocol, open, todo, wire, receiver>>

-----------------------------------------------------------------------------
(* The receiver.                                                           *)

\* A header first, then as many bytes as it says.
Needed(bytes) ==
    IF size(bytes) < HeaderSize THEN HeaderSize
    ELSE HeaderSize + ParseHeader(bytes).value.length

\* Mutant of Read_TCP: what is there is read, not what is needed.
ReadWhatIsThere ==
    /\ protocol = "tcp" /\ reading /\ size(have) < Needed(have) /\ wire # <<>>
    /\ have' = have \o wire /\ wire' = <<>>
    /\ UNCHANGED <<protocol, open, sender, reading, received>>

\* What net::read has got so far.
Read_TCP ==
    /\ protocol = "tcp" /\ reading /\ size(have) < Needed(have) /\ wire # <<>>
    /\ LET k == Min({Needed(have) - size(have), size(wire)})
       IN have' = have \o Take(wire, k) /\ wire' = Drop(wire, k)
    /\ UNCHANGED <<protocol, open, sender, reading, received>>

Read_WS ==
    /\ protocol = "websocket" /\ reading /\ have = <<>> /\ wire # <<>>
    /\ have' = Head(wire) /\ wire' = Tail(wire)
    /\ UNCHANGED <<protocol, open, sender, reading, received>>

Dispatch ==
    /\ reading /\ size(have) >= HeaderSize /\ size(have) = Needed(have)
    /\ received' = Append(received, have) /\ have' = <<>>
    /\ UNCHANGED <<protocol, open, sender, wire, reading>>

\* Nothing more comes.
ReadFails ==
    /\ reading /\ ~open /\ wire = <<>> /\ size(have) # Needed(have)
    /\ reading' = FALSE
    /\ UNCHANGED <<protocol, open, sender, wire, have, received>>

\* Either end closes, or the network is gone.
Break ==
    /\ open /\ open' = FALSE
    /\ \E k \in 0..size(wire) : wire' = Take(wire, k)
    /\ UNCHANGED <<protocol, sender, receiver>>

SenderThread(t) == Send(t) \/ (write_mutex = t /\ (Write_TCP \/ Write_WS \/ WriteFails))
ReceiverThread == Read_TCP \/ Read_WS \/ Dispatch \/ ReadFails

StreamNext == (\E t \in Senders : SenderThread(t)) \/ ReceiverThread \/ Break

-----------------------------------------------------------------------------
(* It implements Channel.                                                  *)

\* The whole frames that bytes begin with.
FramesIn[bytes \in Seq(Byte)] ==
    IF size(bytes) < HeaderSize \/ size(bytes) < Needed(bytes) THEN <<>>
    ELSE <<Take(bytes, Needed(bytes))>> \o FramesIn[Drop(bytes, Needed(bytes))]

\* With a WebSocket, frames as they are.
OnTheWay ==
    LET left == IF open THEN sending ELSE <<>>
        Whole(message) == IF message = <<>> THEN <<>> ELSE <<message>>
    IN IF protocol = "tcp" THEN FramesIn[have \o wire \o left]
       ELSE Whole(have) \o wire \o Whole(left)

\* What the handlers are given.
Dispatched(i) == ParseMessage(received[i])
=============================================================================
