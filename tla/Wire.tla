-------------------------------- MODULE Wire --------------------------------
(***************************************************************************)
(* The frames on a connection and the operations in them, byte by byte:    *)
(* common/bytes.h, protocol/message.cpp, canvas/draw_operation.cpp.        *)
(*                                                                         *)
(* A byte has Base values (256 in the code), widths are those of the code. *)
(* A string is the sequence of its bytes.                                  *)
(***************************************************************************)
EXTENDS Integers, Sequences, SequencesExt

CONSTANTS
    Base,           \* values of a byte
    MaxThickness    \* of a stroke; 64 in the code

ASSUME WireAssumption == Base \in Nat /\ Base > 10 /\ MaxThickness \in 1..(Base - 1)

Byte == 0..(Base - 1)

\* Of a std::string or std::vector.
size(seq) == Len(seq)

\* Values of 16 and of 32 bits.
Word == Base * Base
Long == Word * Word

\* Big-endian, cut to the width.
write8(v) == <<v % Base>>
write16(v) == write8(v \div Base) \o write8(v)
write32(v) == write16(v \div Word) \o write16(v)
write64(v) == write32(v \div Long) \o write32(v)

read8(data, off) == data[off + 1]
read16(data, off) == read8(data, off) * Base + read8(data, off + 1)
read32(data, off) == read16(data, off) * Word + read16(data, off + 2)
read64(data, off) == read32(data, off) * Long + read32(data, off + 4)

\* What a loop has after each of its n passes.
Passes(first, step, n) ==
    LET after[i \in 0..n] == IF i = 0 THEN first ELSE step[i][after[i - 1]]
    IN after

\* A result that is not error::none.
Refused == [ok |-> FALSE]
Ok(value) == [ok |-> TRUE, value |-> value]
If(condition, value) == IF condition THEN Ok(value) ELSE Refused

-----------------------------------------------------------------------------
(* Frames.                                                                 *)

Opcode == [CREATE |-> 0, JOIN |-> 1, LEAVE |-> 2, ACK |-> 3, ERROR_MSG |-> 4,
           NOTIFICATION |-> 5, DRAW |-> 6, CANVAS_STATE |-> 7,
           CANVAS_STATE_REQUEST |-> 8, CLOSE_SESSION |-> 9, CANVAS_CLEAR |-> 10]
ackcode == [OK |-> 0, LEFT |-> 1, CREATE_OK |-> 2, JOIN_OK |-> 3]
notifcode == [MEMBER_JOINED |-> 0, MEMBER_LEFT |-> 1, SESSION_CLOSED |-> 2]

HeaderSize == 6

ParseHeader(data) ==
    IF size(data) < HeaderSize THEN Refused
    ELSE Ok([opcode |-> read8(data, 0), length |-> read32(data, 2)])

-----------------------------------------------------------------------------
(* Payloads.  A text follows its length in one byte; where it comes last it *)
(* fills the payload.                                                      *)

Text(name) == write8(size(name)) \o name
ParseText(data, off) ==
    IF size(data) < off + 1 \/ size(data) < off + 1 + read8(data, off) THEN Refused
    ELSE Ok(SubSeq(data, off + 2, off + 1 + read8(data, off)))

SerializeCreate(name) == Text(name)
ParseCreate(data) == ParseText(data, 0)

SerializeJoin(session_id, name) == write32(session_id) \o Text(name)
ParseJoin(data) ==
    LET name == ParseText(data, 4)
    IN IF ~name.ok THEN Refused
       ELSE Ok([session_id |-> read32(data, 0), name |-> name.value])

\* Acks and errors: a code and a text.
SerializeAck(code, text) == write8(code) \o text
ParseAck(data) ==
    IF data = <<>> THEN Refused ELSE Ok([code |-> read8(data, 0), text |-> Tail(data)])

SerializeSessionClosed == write8(notifcode.SESSION_CLOSED)

SerializeCreateAck(session_id, member_id) ==
    write8(ackcode.CREATE_OK) \o write32(session_id) \o write32(member_id)
ParseCreateAck(data) ==
    IF size(data) < 9 THEN Refused
    ELSE Ok([code |-> read8(data, 0), session_id |-> read32(data, 1),
             member_id |-> read32(data, 5)])

SerializeJoinAck(member_id) == write8(ackcode.JOIN_OK) \o write32(member_id)
ParseJoinAck(data) ==
    IF size(data) < 5 THEN Refused
    ELSE Ok([code |-> read8(data, 0), member_id |-> read32(data, 1)])

SerializeMemberNotification(code, member_id, name) ==
    write8(code) \o write32(member_id) \o Text(name)
ParseMemberNotification(data) ==
    LET name == ParseText(data, 5)
    IN IF ~name.ok THEN Refused
       ELSE Ok([code |-> read8(data, 0), member_id |-> read32(data, 1),
                name |-> name.value])

-----------------------------------------------------------------------------
(* Operations.                                                             *)

tool_type == [freehand |-> 0, line |-> 1, rect |-> 2, ellipse |-> 3, eraser |-> 4,
              clear |-> 5, filled_rect |-> 6, filled_ellipse |-> 7,
              bucket_fill |-> 8, brush |-> 9]
Strokes == {tool_type.freehand, tool_type.eraser, tool_type.brush}
Shapes == {tool_type.line, tool_type.rect, tool_type.ellipse,
           tool_type.filled_rect, tool_type.filled_ellipse}

DRAW_OP_FIXED_SIZE == 24

\* One point behind the other, four bytes each.
SerializePoints(points) ==
    [i \in 1..4 * size(points) |->
        LET p == points[((i - 1) \div 4) + 1]
        IN (write16(p[1]) \o write16(p[2]))[((i - 1) % 4) + 1]]

\* Mutant of ReadPoint: y comes first.
ReadPointSwapped(data, i) ==
    LET off == DRAW_OP_FIXED_SIZE + 4 * (i - 1)
    IN <<read16(data, off + 2), read16(data, off)>>

ReadPoint(data, i) ==
    LET off == DRAW_OP_FIXED_SIZE + 4 * (i - 1)
    IN <<read16(data, off), read16(data, off + 2)>>

\* The count has 16 bits; for operations with fewer points than a Word.
SerializeDrawOperation(op) ==
    write64(op.operation_id) \o write32(op.seq) \o write32(op.member_id)
        \o write8(op.tool) \o write32(op.color) \o write8(op.thickness)
        \o write16(size(op.points)) \o SerializePoints(op.points)

ParseDrawOperation(data) ==
    IF \/ size(data) < DRAW_OP_FIXED_SIZE
       \/ size(data) < DRAW_OP_FIXED_SIZE + 4 * read16(data, 22)
    THEN Refused
    ELSE Ok([operation_id |-> read64(data, 0), seq |-> read32(data, 8),
             member_id |-> read32(data, 12), tool |-> read8(data, 16),
             color |-> read32(data, 17), thickness |-> read8(data, 21),
             points |-> [i \in 1..read16(data, 22) |-> ReadPoint(data, i)]])

\* clear is refused with points, a shape unless it has two, the rest without.
ValidateDrawOperation(op, require_sequence) ==
    /\ op.operation_id # 0 /\ op.member_id # 0
    /\ require_sequence = (op.seq # 0)
    /\ op.tool <= tool_type.brush
    /\ op.thickness \in 1..MaxThickness
    /\ size(op.points) < Word
    /\ op.tool = tool_type.clear => op.points = <<>>
    /\ op.tool \in Shapes => size(op.points) = 2
    /\ op.tool \in Strokes \cup {tool_type.bucket_fill} => op.points # <<>>

\* Each operation behind its length.
AppendOperations(ops) ==
    Passes(write32(size(ops)),
           [i \in 1..size(ops) |-> [buf \in Seq(Byte) |->
               buf \o write32(size(SerializeDrawOperation(ops[i])))
                   \o SerializeDrawOperation(ops[i])]],
           size(ops))
SerializeCanvasState(ops) == AppendOperations(ops)[size(ops)]

\* Where each operation ends; behind the data if it is cut short.
OperationEnds(data) ==
    Passes(4,
           [i \in 1..read32(data, 0) |-> [off \in Nat |->
               IF off + 4 > size(data) THEN off + 4 ELSE off + 4 + read32(data, off)]],
           read32(data, 0))

\* One operation after the other, each cut out by its length.
ParseCanvasState(data) ==
    LET count == read32(data, 0)
        end == OperationEnds(data)
        op(i) == ParseDrawOperation(SubSeq(data, end[i - 1] + 5, end[i]))
    IN IF \/ size(data) < 4 \/ end[count] > size(data)
          \/ \E i \in 1..count : ~op(i).ok
       THEN Refused
       ELSE Ok([i \in 1..count |-> op(i).value])
-----------------------------------------------------------------------------
(* A message is an opcode and what its payload says; <<>> where it has none. *)

Payload(m) ==
    CASE m.opcode = Opcode.CREATE       -> SerializeCreate(m.says)
      [] m.opcode = Opcode.JOIN         -> SerializeJoin(m.says.session_id, m.says.name)
      [] m.opcode = Opcode.DRAW         -> SerializeDrawOperation(m.says)
      [] m.opcode = Opcode.CANVAS_STATE -> SerializeCanvasState(m.says)
      [] m.opcode = Opcode.ERROR_MSG    -> SerializeAck(m.says.code, m.says.text)
      [] m.opcode = Opcode.ACK ->
           (CASE m.says.code = ackcode.CREATE_OK ->
                   SerializeCreateAck(m.says.session_id, m.says.member_id)
              [] m.says.code = ackcode.JOIN_OK -> SerializeJoinAck(m.says.member_id)
              [] OTHER -> SerializeAck(m.says.code, m.says.text))
      [] m.opcode = Opcode.NOTIFICATION ->
           IF m.says.code = notifcode.SESSION_CLOSED THEN SerializeSessionClosed
           ELSE SerializeMemberNotification(m.says.code, m.says.member_id, m.says.name)
      [] OTHER -> <<>>

\* What the handler of the opcode takes from the payload.
ParsePayload(opcode, data) ==
    CASE opcode = Opcode.CREATE       -> ParseCreate(data)
      [] opcode = Opcode.JOIN         -> ParseJoin(data)
      [] opcode = Opcode.DRAW         -> ParseDrawOperation(data)
      [] opcode = Opcode.CANVAS_STATE -> ParseCanvasState(data)
      [] opcode = Opcode.ERROR_MSG    -> ParseAck(data)
      [] opcode = Opcode.ACK ->
           IF data # <<>> /\ Head(data) = ackcode.CREATE_OK THEN ParseCreateAck(data)
           ELSE IF data # <<>> /\ Head(data) = ackcode.JOIN_OK THEN ParseJoinAck(data)
           ELSE ParseAck(data)
      [] opcode = Opcode.NOTIFICATION ->
           IF data = <<>> THEN Refused
           ELSE IF Head(data) = notifcode.SESSION_CLOSED THEN Ok([code |-> Head(data)])
           ELSE ParseMemberNotification(data)
      [] OTHER -> Ok(<<>>)

\* A frame: every sender gives the size of the payload as its length, no flags.
SerializeMessage(m) ==
    write8(m.opcode) \o write8(0) \o write32(size(Payload(m))) \o Payload(m)

ParseMessage(frame) ==
    LET opcode == read8(frame, 0)
        parsed == ParsePayload(opcode, SubSeq(frame, HeaderSize + 1, size(frame)))
    IN [opcode |-> opcode, says |-> IF parsed.ok THEN parsed.value ELSE "refused"]
-----------------------------------------------------------------------------
(* What the structs of message.h and draw_operation.h can hold.  A name's  *)
(* length has one byte, a payload's 32 bits.                               *)

uint16 == 0..(Word - 1)
uint32 == 0..(Long - 1)
uint64 == 0..(Long * Long - 1)
Name == { s \in Seq(Byte) : size(s) < Base }
String == { s \in Seq(Byte) : size(s) + 1 < Long }

draw_operation ==
    [operation_id : uint64, seq : uint32, member_id : uint32, tool : Byte,
     color : uint32, thickness : Byte,
     points : { p \in Seq(uint16 \X uint16) : size(p) < Word }]

EmptyMessage ==
    [opcode : {Opcode.LEAVE, Opcode.CANVAS_STATE_REQUEST, Opcode.CLOSE_SESSION,
               Opcode.CANVAS_CLEAR},
     says : {<<>>}]
CreateMessage == [opcode : {Opcode.CREATE}, says : Name]
JoinMessage == [opcode : {Opcode.JOIN}, says : [session_id : uint32, name : Name]]
CreateAckMessage ==
    [opcode : {Opcode.ACK},
     says : [code : {ackcode.CREATE_OK}, session_id : uint32, member_id : uint32]]
JoinAckMessage ==
    [opcode : {Opcode.ACK}, says : [code : {ackcode.JOIN_OK}, member_id : uint32]]
AckMessage ==
    [opcode : {Opcode.ACK},
     says : [code : Byte \ {ackcode.CREATE_OK, ackcode.JOIN_OK}, text : String]]
ErrorMessage == [opcode : {Opcode.ERROR_MSG}, says : [code : Byte, text : String]]
MemberNotification ==
    [opcode : {Opcode.NOTIFICATION},
     says : [code : {notifcode.MEMBER_JOINED, notifcode.MEMBER_LEFT},
             member_id : uint32, name : Name]]
SessionClosedNotification ==
    [opcode : {Opcode.NOTIFICATION}, says : [code : {notifcode.SESSION_CLOSED}]]
DrawMessage == [opcode : {Opcode.DRAW}, says : draw_operation]
CanvasStateMessage ==
    { m \in [opcode : {Opcode.CANVAS_STATE}, says : Seq(draw_operation)] :
        size(SerializeCanvasState(m.says)) < Long }

Message ==
    EmptyMessage \cup CreateMessage \cup JoinMessage \cup CreateAckMessage
        \cup JoinAckMessage \cup AckMessage \cup ErrorMessage
        \cup MemberNotification \cup SessionClosedNotification
        \cup DrawMessage \cup CanvasStateMessage
=============================================================================
