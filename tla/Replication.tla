---------------------------- MODULE Replication ----------------------------
(***************************************************************************)
(* How the drawing of a session is replicated (engine.cpp,                 *)
(* session_manager.cpp, sessionClient.cpp, and the relaying of server.cpp).*)
(*                                                                         *)
(* The host's canvas gives every operation its seq; members send what they *)
(* draw and show only what comes back.  A node runs two threads: the UI    *)
(* thread draws and clears, the poll thread handles what arrives.  Each    *)
(* stamps, logs and sends in separate steps, so what the two send need not *)
(* leave in the order in which they changed the canvas.                    *)
(*                                                                         *)
(* A connection is a FIFO queue each way.  The server relays one frame     *)
(* after the other, since it holds sessions_mutex for each (Server); the   *)
(* canvas is the log of CanvasLog, with the stamp taken before the lock.   *)
(*                                                                         *)
(* The session exists from the start; its host's connection is registered, *)
(* and its CREATE_OK read, some time later.  Members enter and leave.      *)
(* Whoever is connected and in no session draws nothing: a stroke is        *)
(* neither applied nor sent.  Operation ids are distinct.                  *)
(***************************************************************************)
EXTENDS Integers, Sequences, FiniteSets, SequencesExt, FiniteSetsExt

CONSTANTS
    Host, Members,
    Strokes,    \* Strokes[n]: ids of the operations node n may draw
    Start,      \* Start[n]: the history of n before the session
    Clearers,   \* nodes whose user may clear the canvas
    MaxClears,  \* bound on the clears of all users together
    Settled,    \* TRUE: the host has its CREATE_OK before anybody joins
    Courses     \* [strokes, leavers]: bounds on what is drawn and who leaves;
                \* who has left may come back once

Nodes == Members \cup {Host}
Ids == UNION {Strokes[n] : n \in Nodes}
          \cup UNION {{Start[n][i].id : i \in 1..Len(Start[n])} : n \in Nodes}
Op == [id : Ids, seq : Nat]
StampedOp == [id : Ids, seq : Nat \ {0}]

ASSUME ReplicationAssumption ==
    /\ Host \notin Members /\ IsFiniteSet(Members)
    /\ Strokes \in [Nodes -> SUBSET Ids] /\ Start \in [Nodes -> Seq(StampedOp)]
    /\ \A n, k \in Nodes : n # k => Strokes[n] \cap Strokes[k] = {}
    /\ Clearers \subseteq Nodes /\ MaxClears \in Nat
    /\ Settled \in BOOLEAN
    /\ Courses \subseteq [strokes : SUBSET Ids, leavers : SUBSET Members]

VARIABLES
    history,    \* history[n]: the operations of n's canvas
    next_seq,   \* next_seq[n]: of n's canvas
    ui, poll,   \* ui[n], poll[n]: what the thread is about to do
    session,    \* session[n]: how far a node has come, see Stages
    pending,    \* pending[m]: pending_operations_
    up, down,   \* frames from a node to the server and back
    room,       \* room[n]: what the server has of n, see Places
    unheard,    \* members and strokes whose REQUEST or DRAW found no host
    drawn,      \* ids that have been drawn, or will not be
    clears,     \* clears by users so far
    leaving     \* leaving[m]: "may", "has" or will "never" leave

canvases == <<history, next_seq>>
bounded == <<drawn, clears, leaving>>
server == <<room, unheard>>
vars == <<history, next_seq, ui, poll, session, pending, up, down, room, unheard,
          drawn, clears, leaving>>

\* "joining": has sent JOIN, or CREATE.  "in": has the JOIN_OK, or CREATE_OK.
\* "synchronized": has loaded a CANVAS_STATE since.  "cancelled": an ERROR has
\* come in for the JOIN_OK under way (what may follow is in ClientSession).
Stages == {"out", "joining", "in", "synchronized", "cancelled"}

\* "registered": its handler has registered the connection and has not sent
\* JOIN_OK, or CREATE_OK, yet.
Places == {"out", "registered", "member"}

Stamped(id, seq) == [id |-> id, seq |-> seq]
Draw(op) == [kind |-> "DRAW", ops |-> <<op>>]
State(ops) == [kind |-> "STATE", ops |-> ops]
Plain(kind) == [kind |-> kind, ops |-> <<>>]  \* the other kinds
Op1(frame) == frame.ops[1]

Task(step, frame) == [step |-> step, frame |-> frame]
Idle == Task("idle", Plain("none"))

IdsOf(ops) == {ops[i].id : i \in 1..Len(ops)}
SeqsOf(ops) == {ops[i].seq : i \in 1..Len(ops)}
\* Mutant of NextAfter: next_seq is the last seq in use, not the one after.
LastOf(ops) == Max(SeqsOf(ops) \cup {0})

NextAfter(ops) == Max(SeqsOf(ops) \cup {0}) + 1

Init ==
    /\ history = Start
    /\ next_seq = [n \in Nodes |-> NextAfter(Start[n])]
    /\ ui = [n \in Nodes |-> Idle] /\ poll = [n \in Nodes |-> Idle]
    /\ session = [n \in Nodes |-> IF n # Host THEN "out"
                                  ELSE IF Settled THEN "in" ELSE "joining"]
    /\ room = [n \in Nodes |-> IF n = Host /\ Settled THEN "member" ELSE "out"]
    /\ pending = [m \in Members |-> {}]
    /\ up = [n \in Nodes |-> <<>>] /\ down = [n \in Nodes |-> <<>>]
    /\ unheard = {} /\ clears = 0
    /\ \E course \in Courses :
          /\ drawn = Ids \ course.strokes
          /\ leaving = [m \in Members |-> IF m \in course.leavers THEN "may" ELSE "never"]

InSession(n) == session[n] \in {"in", "synchronized"}

Push(queue, to, frame) ==
    [n \in Nodes |-> IF n \in to THEN Append(queue[n], frame) ELSE queue[n]]

-----------------------------------------------------------------------------
(* The two parts of canvas::apply: an unstamped operation takes the next   *)
(* seq; then it enters the history unless its id is there.                 *)

TakeSeq(n) == next_seq' = [next_seq EXCEPT ![n] = @ + 1]

\* Mutant of LogOp: what arrives stamped is stamped once more.
LogRestamped(n, op) ==
    IF op.id \in IdsOf(history[n]) THEN UNCHANGED canvases
    ELSE /\ history' = [history EXCEPT ![n] = Append(@, Stamped(op.id, next_seq[n]))]
         /\ TakeSeq(n)

LogOp(n, op) ==
    IF op.id \in IdsOf(history[n]) THEN UNCHANGED canvases
    ELSE /\ history' = [history EXCEPT ![n] = Append(@, op)]
         /\ next_seq' = [next_seq EXCEPT ![n] = IF op.seq >= @ THEN op.seq + 1
                                                ELSE @]

\* A host's operation is sent once it is logged; a member's came from there.
AfterLog(n, frame) == IF n = Host THEN Task("send", frame) ELSE Idle

LogUi(n) ==
    /\ ui[n].step = "log"
    /\ LogOp(n, Op1(ui[n].frame))
    /\ ui' = [ui EXCEPT ![n] = AfterLog(n, ui[n].frame)]
    /\ UNCHANGED <<poll, session, pending, up, down, server, bounded>>

LogPoll(n) ==
    /\ poll[n].step = "log"
    /\ LogOp(n, Op1(poll[n].frame))
    /\ poll' = [poll EXCEPT ![n] = AfterLog(n, poll[n].frame)]
    /\ UNCHANGED <<ui, session, pending, up, down, server, bounded>>

\* broadcast_draw and broadcast_clear send nothing outside a session.
SendUi(n) ==
    /\ ui[n].step = "send"
    /\ up' = IF InSession(n) THEN Push(up, {n}, ui[n].frame) ELSE up
    /\ ui' = [ui EXCEPT ![n] = Idle]
    /\ UNCHANGED <<canvases, poll, session, pending, down, server, bounded>>

SendPoll(n) ==
    /\ poll[n].step = "send"
    /\ up' = Push(up, {n}, poll[n].frame)
    /\ poll' = [poll EXCEPT ![n] = Idle]
    /\ UNCHANGED <<canvases, ui, session, pending, down, server, bounded>>

-----------------------------------------------------------------------------
(* The UI thread.                                                          *)

\* Mutant of DrawHost: broadcast without apply.
DrawHostUnapplied(id) ==
    /\ ui[Host] = Idle /\ id \in Strokes[Host] \ drawn /\ InSession(Host)
    /\ drawn' = drawn \cup {id}
    /\ ui' = [ui EXCEPT ![Host] = Task("send", Draw(Stamped(id, next_seq[Host])))]
    /\ TakeSeq(Host)
    /\ UNCHANGED <<history, poll, session, pending, up, down, server, clears, leaving>>

\* process_canvas_input on the host: apply, then broadcast_draw.
DrawHost(id) ==
    /\ ui[Host] = Idle /\ id \in Strokes[Host] \ drawn /\ InSession(Host)
    /\ drawn' = drawn \cup {id}
    /\ ui' = [ui EXCEPT ![Host] = Task("log", Draw(Stamped(id, next_seq[Host])))]
    /\ TakeSeq(Host)
    /\ UNCHANGED <<history, poll, session, pending, up, down, server, clears, leaving>>

\* On a member nothing is drawn until the host has stamped it.
DrawMember(m, id) ==
    /\ ui[m] = Idle /\ id \in Strokes[m] \ drawn /\ InSession(m)
    /\ drawn' = drawn \cup {id}
    /\ pending' = [pending EXCEPT ![m] = @ \cup {id}]
    /\ up' = Push(up, {m}, Draw(Stamped(id, 0)))
    /\ UNCHANGED <<canvases, ui, poll, session, down, server, clears, leaving>>

Cleared(n) == /\ history' = [history EXCEPT ![n] = <<>>]
              /\ next_seq' = [next_seq EXCEPT ![n] = 1]

\* clear_canvas: here first, in a session or not, then everywhere, here once
\* more.
ClearCanvas(n) ==
    /\ n \in Clearers /\ clears < MaxClears
    /\ ui[n] = Idle
    /\ Cleared(n) /\ clears' = clears + 1
    /\ ui' = [ui EXCEPT ![n] = Task("send", Plain("CLEAR"))]
    /\ UNCHANGED <<poll, session, pending, up, down, server, drawn, leaving>>

\* send_join_request.
Join(m) ==
    /\ ui[m] = Idle /\ session[m] = "out"
    /\ session' = [session EXCEPT ![m] = "joining"]
    /\ up' = Push(up, {m}, Plain("JOIN"))
    /\ UNCHANGED <<canvases, ui, poll, pending, down, server, bounded>>

\* leave_session: send_leave_or_close...
Leave(m) ==
    /\ ui[m] = Idle /\ InSession(m) /\ leaving[m] = "may"
    /\ leaving' = [leaving EXCEPT ![m] = "has"]
    /\ up' = Push(up, {m}, Plain("LEAVE"))
    /\ ui' = [ui EXCEPT ![m] = Task("leave", Plain("none"))]
    /\ UNCHANGED <<canvases, poll, session, pending, down, server, drawn, clears>>

\* ...and reset_session.
FinishLeave(n) ==
    /\ ui[n].step = "leave"
    /\ session' = [session EXCEPT ![n] = "out"]
    /\ ui' = [ui EXCEPT ![n] = Idle]
    /\ UNCHANGED <<canvases, poll, pending, up, down, server, bounded>>

-----------------------------------------------------------------------------
(* The server.  Its LEFT changes nothing at a member (ClientSession).      *)

InRoom == {n \in Nodes : room[n] # "out"}

\* handle_create is done; the host can be found from here on.
RegisterHost ==
    /\ room[Host] = "out"
    /\ room' = [room EXCEPT ![Host] = "registered"]
    /\ UNCHANGED <<canvases, ui, poll, session, pending, up, down, unheard, bounded>>

Ack(n) ==
    /\ room[n] = "registered"
    /\ room' = [room EXCEPT ![n] = "member"]
    /\ down' = Push(down, {n}, Plain("ACK"))
    /\ UNCHANGED <<canvases, ui, poll, session, pending, up, unheard, bounded>>

\* The handler of n takes the next frame.
Serving(n, kinds) ==
    /\ up[n] # <<>> /\ room[n] # "registered" /\ Head(up[n]).kind \in kinds
    /\ up' = [up EXCEPT ![n] = Tail(@)]

\* From here on the member is sent what the session is sent, and some time
\* later its JOIN_OK.
ServeJoin(n) ==
    /\ Serving(n, {"JOIN"})
    /\ room' = [room EXCEPT ![n] = "registered"]
    /\ UNCHANGED <<canvases, ui, poll, session, pending, down, unheard, bounded>>

ServeLeave(n) ==
    /\ Serving(n, {"LEAVE"})
    /\ room' = [room EXCEPT ![n] = "out"]
    /\ UNCHANGED <<canvases, ui, poll, session, pending, down, unheard, bounded>>

Recipients(n, frame) ==
    CASE frame.kind = "CLEAR" -> InRoom
      [] frame.kind # "CLEAR" /\ n = Host -> InRoom \ {Host}
      [] OTHER -> {Host} \cap InRoom

\* Who waits in vain when the host is not there.
Waiting(n, frame) == IF frame.kind = "DRAW" THEN {Op1(frame).id} ELSE {n}

Refused(n) == down' = Push(down, {n}, Plain("ERROR"))

\* "not in a session", "host is not connected", or the frame is relayed.
Relay(n) ==
    /\ Serving(n, {"DRAW", "STATE", "REQUEST", "CLEAR"})
    /\ LET frame == Head(up[n])
           reached == Recipients(n, frame)
       IN IF room[n] = "out" THEN Refused(n) /\ UNCHANGED unheard
          ELSE IF frame.kind \in {"DRAW", "REQUEST"} /\ n # Host /\ reached = {}
          THEN Refused(n) /\ unheard' = unheard \cup Waiting(n, frame)
          ELSE down' = Push(down, reached, frame) /\ UNCHANGED unheard
    /\ UNCHANGED <<canvases, ui, poll, session, pending, room, bounded>>

-----------------------------------------------------------------------------
(* The poll thread.                                                        *)

Receiving(n, kind) ==
    /\ poll[n] = Idle /\ down[n] # <<>> /\ Head(down[n]).kind = kind
    /\ down' = [down EXCEPT ![n] = Tail(@)]

\* Who is not known to be the host yet drops both: the CREATE_OK may come after
\* them.  (A REQUEST does not say whose it is.)
HostNotYet ==
    /\ ~InSession(Host)
    /\ \/ /\ Receiving(Host, "DRAW")
          /\ unheard' = unheard \cup {Op1(Head(down[Host])).id}
       \/ /\ Receiving(Host, "REQUEST")
          /\ unheard' = unheard \cup {m \in Members : room[m] = "member"}
    /\ UNCHANGED <<canvases, ui, poll, session, pending, up, room, bounded>>

HostReceivesDraw ==
    LET id == Op1(Head(down[Host])).id
    IN  /\ Receiving(Host, "DRAW") /\ InSession(Host)
        /\ IF id \in IdsOf(history[Host]) THEN UNCHANGED <<next_seq, poll>>
           ELSE /\ TakeSeq(Host)
                /\ poll' = [poll EXCEPT ![Host] =
                        Task("log", Draw(Stamped(id, next_seq[Host])))]
        /\ UNCHANGED <<history, ui, session, pending, up, server, bounded>>

\* The snapshot is taken here and sent later.
HostReceivesRequest ==
    /\ Receiving(Host, "REQUEST") /\ InSession(Host)
    /\ poll' = [poll EXCEPT ![Host] = Task("send", State(history[Host]))]
    /\ UNCHANGED <<canvases, ui, session, pending, up, server, bounded>>

\* Mutant of MemberReceivesDraw: only what is applied is no longer pending.
MemberErasesApplied(m) ==
    LET op == Op1(Head(down[m]))
    IN  /\ Receiving(m, "DRAW")
        /\ pending' = [pending EXCEPT ![m] =
              IF op.seq = next_seq[m] THEN @ \ {op.id} ELSE @]
        /\ poll' = [poll EXCEPT ![m] =
              IF op.seq > next_seq[m] /\ InSession(m)
                  THEN Task("send", Plain("REQUEST"))
              ELSE IF op.seq = next_seq[m] THEN Task("log", Draw(op))
              ELSE Idle]
        /\ UNCHANGED <<canvases, ui, session, up, server, bounded>>

\* A gap makes the member ask for the whole canvas, if it is in the session;
\* what is old is dropped; what is next is applied, after next_seq was read.
MemberReceivesDraw(m) ==
    LET op == Op1(Head(down[m]))
    IN  /\ Receiving(m, "DRAW")
        /\ pending' = [pending EXCEPT ![m] = @ \ {op.id}]
        /\ poll' = [poll EXCEPT ![m] =
              IF op.seq > next_seq[m] /\ InSession(m)
                  THEN Task("send", Plain("REQUEST"))
              ELSE IF op.seq = next_seq[m] THEN Task("log", Draw(op))
              ELSE Idle]
        /\ UNCHANGED <<canvases, ui, session, up, server, bounded>>

\* Mutant of MemberReceivesState: what the member had drawn before stays.
MemberAppendsState(m) ==
    LET ops == Head(down[m]).ops
    IN  /\ Receiving(m, "STATE")
        /\ history' = [history EXCEPT ![m] = @ \o ops]
        /\ next_seq' = [next_seq EXCEPT ![m] = NextAfter(ops)]
        /\ session' = [session EXCEPT ![m] =
                          IF @ = "in" THEN "synchronized" ELSE @]
        /\ unheard' = unheard \ {m}
        /\ UNCHANGED <<ui, poll, pending, up, room, bounded>>

MemberReceivesState(m) ==
    LET ops == Head(down[m]).ops
    IN  /\ Receiving(m, "STATE")
        /\ history' = [history EXCEPT ![m] = ops]
        /\ next_seq' = [next_seq EXCEPT ![m] = NextAfter(ops)]
        /\ session' = [session EXCEPT ![m] =
                          IF @ = "in" THEN "synchronized" ELSE @]
        /\ unheard' = unheard \ {m}
        /\ UNCHANGED <<ui, poll, pending, up, room, bounded>>

\* Mutant of ReceiveAck: the member waits to be sent the canvas.
AskNothing(n) ==
    /\ Receiving(n, "ACK")
    /\ session' = [session EXCEPT ![n] = IF @ = "joining" THEN "in" ELSE @]
    /\ UNCHANGED <<canvases, ui, poll, pending, up, server, bounded>>

\* CREATE_OK, or JOIN_OK, unless the JOIN has been cancelled.
ReceiveAck(n) ==
    /\ Receiving(n, "ACK")
    /\ session' = [session EXCEPT ![n] = IF @ = "joining" THEN "in" ELSE @]
    /\ poll' = [poll EXCEPT ![n] = IF n # Host /\ session[n] = "joining"
                                   THEN Task("send", Plain("REQUEST")) ELSE @]
    /\ UNCHANGED <<canvases, ui, pending, up, server, bounded>>

\* handle_error: for a JOIN under way, whatever it was about.
ReceiveError(n) ==
    /\ Receiving(n, "ERROR")
    /\ session' = [session EXCEPT ![n] = IF @ = "joining" THEN "cancelled" ELSE @]
    /\ UNCHANGED <<canvases, ui, poll, pending, up, server, bounded>>

ReceiveClear(n) ==
    /\ Receiving(n, "CLEAR")
    /\ Cleared(n)
    /\ UNCHANGED <<ui, poll, session, pending, up, server, bounded>>

Receive(n) ==
    \/ n = Host /\ (HostNotYet \/ HostReceivesDraw \/ HostReceivesRequest)
    \/ n \in Members /\ (MemberReceivesDraw(n) \/ MemberReceivesState(n))
    \/ ReceiveAck(n) \/ ReceiveError(n) \/ ReceiveClear(n)

Use == \/ \E id \in Ids : DrawHost(id)
       \/ \E m \in Members, id \in Ids : DrawMember(m, id)
       \/ \E n \in Nodes : ClearCanvas(n)
       \/ \E m \in Members : Join(m) \/ Leave(m)

Thread(n) == LogUi(n) \/ SendUi(n) \/ FinishLeave(n)
PollThread(n) == Receive(n) \/ LogPoll(n) \/ SendPoll(n)

Handler(n) == Ack(n) \/ ServeJoin(n) \/ ServeLeave(n) \/ Relay(n)

Next == \/ Use
        \/ \E n \in Nodes : Thread(n) \/ PollThread(n) \/ Handler(n)
        \/ RegisterHost

Spec == Init /\ [][Next]_vars

\* Threads and the server go on with what they have to do; users need not.
Fairness == /\ \A n \in Nodes : /\ WF_vars(Thread(n)) /\ WF_vars(PollThread(n))
                                /\ WF_vars(Handler(n))
            /\ WF_vars(RegisterHost)

FairSpec == Spec /\ Fairness

-----------------------------------------------------------------------------
(* Properties.                                                             *)

Kinds == {"none", "DRAW", "STATE", "ACK", "CLEAR", "REQUEST", "JOIN", "LEAVE",
          "ERROR"}
FrameRec == [kind : Kinds, ops : Seq(Op)]
TaskRec == [step : {"idle", "log", "send", "leave"}, frame : FrameRec]

\* Every canvas, thread and queue has its type; seq 0 is only ever in flight.
TypeOK ==
    /\ history \in [Nodes -> Seq(StampedOp)]
    /\ next_seq \in [Nodes -> Nat \ {0}]
    /\ ui \in [Nodes -> TaskRec] /\ poll \in [Nodes -> TaskRec]
    /\ session \in [Nodes -> Stages] /\ pending \in [Members -> SUBSET Ids]
    /\ room \in [Nodes -> Places] /\ unheard \subseteq Members \cup Ids
    /\ up \in [Nodes -> Seq(FrameRec)] /\ down \in [Nodes -> Seq(FrameRec)]
    /\ drawn \subseteq Ids /\ clears \in 0..MaxClears
    /\ leaving \in [Members -> {"may", "has", "never"}]

Ops(n) == {history[n][i] : i \in 1..Len(history[n])}

\* Whoever holds an operation holds it under the same seq, though members
\* apply what reaches them with a clear of their own in between.
OneSeqPerStroke ==
    \A n, k \in Nodes : \A x \in Ops(n), y \in Ops(k) :
        x.id = y.id => x.seq = y.seq

\* Until somebody clears, a member that has loaded the host's canvas shows
\* nothing the host does not have: apply comes before broadcast_draw.
MembersShowTheHost ==
    clears = 0 => \A m \in Members :
        session[m] = "synchronized" => Ops(m) \subseteq Ops(Host)

\* While only the host's poll thread uses its canvas and nobody clears, a
\* member's canvas is at every moment a prefix of the host's: gaps, stale
\* frames and snapshots never reorder it.
MembersFollowInOrder ==
    \A m \in Members :
        session[m] = "synchronized" => IsPrefix(history[m], history[Host])

\* What a member draws gets to the host and comes back: it leaves
\* pending_operations_, unless the member leaves the session first (then it may
\* stay there) or the host was not there yet when it was drawn.
StrokesComeBack ==
    \A m \in Members : \A id \in Strokes[m] :
        id \in pending[m]
            ~> \/ id \in unheard
               \/ /\ id \in IdsOf(history[Host])
                  /\ id \notin pending[m] \/ leaving[m] = "has"

\* In the end every member shows the host's canvas, and keeps showing it: no
\* gap is left when nothing is in flight any more, also not of what was drawn
\* while a member was out.  (Only who asked before the host had its CREATE_OK
\* may wait for good, until a gap makes it ask again.)
CanvasesConverge ==
    <>[](\A m \in Members : InSession(m) /\ m \notin unheard
                               => history[m] = history[Host])
=============================================================================
