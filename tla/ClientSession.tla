--------------------------- MODULE ClientSession ---------------------------
(***************************************************************************)
(* Entering and leaving sessions over one connection: the buttons of the   *)
(* UI thread and the poll thread of session_manager.cpp at one end, the    *)
(* connection's handler in server.cpp at the other, and two FIFO queues of *)
(* frames between them.  An answer does not say what it answers: the       *)
(* client goes by joining_state_ when it arrives.                          *)
(*                                                                         *)
(* Of the other connections only their hosts matter, which may close their *)
(* sessions (Server has the whole server).  A handler here is one step.    *)
(* Frames about members, and what is drawn, are left out (Replication).    *)
(***************************************************************************)
EXTENDS SessionState, Sequences, SequencesExt

CONSTANTS
    Foreign,     \* sessions 1..Foreign are hosted by others
    Closing,     \* TRUE: the other hosts may close their sessions
    Patient,     \* TRUE: the user does not press Join or Create again while
                 \* the application waits for the answer, and joins only
                 \* sessions of others that have existed
    MaxClicks    \* bound on what the user does; a session id for each is enough

ASSUME ClientSessionAssumption ==
    /\ Foreign \in Nat
    /\ Closing \in BOOLEAN /\ Patient \in BOOLEAN /\ MaxClicks \in Nat

VARIABLES
    session,   \* what the application knows, see SessionState
    ui,        \* what the UI thread is about to do
    up, down,  \* frames to the server and back
    open,      \* the server's sessions
    next_id,   \* its next_session_id
    ctx,       \* its clientContext for this connection
    ghosts,    \* memberships that the context has forgotten
    clicks

vars == <<session, ui, up, down, open, next_id, ctx, ghosts, clicks>>
server == <<open, next_id, ctx, ghosts>>

Ids == 1..Foreign + MaxClicks
Nowhere == [id |-> 0, host |-> FALSE]
Idle == [step |-> "idle", id |-> 0]
Frame(kind, id) == [kind |-> kind, id |-> id]

Init ==
    /\ session = NoSession /\ ui = Idle /\ up = <<>> /\ down = <<>>
    /\ open = 1..Foreign /\ next_id = Foreign + 1
    /\ ctx = Nowhere /\ ghosts = {} /\ clicks = 0

-----------------------------------------------------------------------------
(* The UI thread.                                                          *)

Click == ui.step = "idle" /\ clicks < MaxClicks /\ clicks' = clicks + 1

\* Join and Create are shown and accepted outside of a session.
MayEnter == ~session.in_session /\ (Patient => session.joining = "none")

ClickJoin ==
    /\ Click /\ MayEnter
    /\ \E id \in IF Patient THEN 1..Foreign ELSE Ids :
          ui' = [step |-> "join", id |-> id]
    /\ UNCHANGED <<session, up, down, server>>

\* send_join_request: what was checked before is not checked again.
SendJoin ==
    /\ ui.step = "join"
    /\ up' = Append(up, Frame("JOIN", ui.id))
    /\ session' = Joining(session, ui.id) /\ ui' = Idle
    /\ UNCHANGED <<down, server, clicks>>

ClickCreate ==
    /\ Click /\ MayEnter
    /\ ui' = [Idle EXCEPT !.step = "create"]
    /\ UNCHANGED <<session, up, down, server>>

SendCreate ==
    /\ ui.step = "create"
    /\ up' = Append(up, Frame("CREATE", 0))
    /\ session' = Creating(session) /\ ui' = Idle
    /\ UNCHANGED <<down, server, clicks>>

\* send_leave_or_close...
ClickLeave ==
    /\ Click /\ session.in_session
    /\ up' = Append(up, Frame(IF session.is_host THEN "CLOSE" ELSE "LEAVE", 0))
    /\ ui' = [Idle EXCEPT !.step = "leave"]
    /\ UNCHANGED <<session, down, server>>

\* ...and reset_session, without waiting for the answer.
FinishLeave ==
    /\ ui.step = "leave"
    /\ session' = Reset(session) /\ ui' = Idle
    /\ UNCHANGED <<up, down, server, clicks>>

\* broadcast_draw and broadcast_clear.
ClickDraw ==
    /\ Click /\ (session.in_session \/ session.client_id # 0)
    /\ up' = Append(up, Frame("DRAW", 0))
    /\ UNCHANGED <<session, ui, down, server>>

User == \/ ClickJoin \/ SendJoin \/ ClickCreate \/ SendCreate
        \/ ClickLeave \/ FinishLeave \/ ClickDraw

-----------------------------------------------------------------------------
(* The poll thread.                                                        *)

Receive(kind) == down # <<>> /\ Head(down).kind = kind /\ down' = Tail(down)

\* Mutant of HandleAck: a LEFT ends the session, whatever was asked for since.
HandleAckLeft ==
    /\ \E code \in {"CREATE_OK", "JOIN_OK", "LEFT"} :
          /\ Receive(code)
          /\ session' = IF code = "LEFT" THEN Reset(session)
                        ELSE Acked(session, code, Head(down).id)
          /\ up' = IF session.joining = "joining" /\ code = "JOIN_OK"
                   THEN Append(up, Frame("REQUEST", 0)) ELSE up
    /\ UNCHANGED <<ui, server, clicks>>

HandleAck ==
    /\ \E code \in {"CREATE_OK", "JOIN_OK", "LEFT"} :
          /\ Receive(code)
          /\ session' = Acked(session, code, Head(down).id)
          /\ up' = IF session.joining = "joining" /\ code = "JOIN_OK"
                   THEN Append(up, Frame("REQUEST", 0)) ELSE up
    /\ UNCHANGED <<ui, server, clicks>>

HandleError ==
    /\ Receive("ERROR")
    /\ session' = ClearJoining(session)
    /\ UNCHANGED <<ui, up, server, clicks>>

HandleClosed ==
    /\ Receive("CLOSED")
    /\ session' = Reset(session)
    /\ UNCHANGED <<ui, up, server, clicks>>

Poll == HandleAck \/ HandleError \/ HandleClosed

-----------------------------------------------------------------------------
(* The server.                                                             *)

Take(kinds) == up # <<>> /\ Head(up).kind \in kinds /\ up' = Tail(up)
Answer(kind, id) == down' = Append(down, Frame(kind, id))

\* The membership the context is about to forget, unless its session is gone.
Forgotten == IF ctx.id \in open THEN {ctx} ELSE {}

ServeCreate ==
    /\ Take({"CREATE"})
    /\ open' = open \cup {next_id} /\ next_id' = next_id + 1
    /\ ctx' = [id |-> next_id, host |-> TRUE]
    /\ ghosts' = ghosts \cup Forgotten
    /\ Answer("CREATE_OK", next_id)
    /\ UNCHANGED <<session, ui, clicks>>

\* A session that is not there is answered with JOIN_OK as well: the result's
\* err is none.
ServeJoin ==
    /\ Take({"JOIN"})
    /\ IF Head(up).id \in open
       THEN ctx' = [id |-> Head(up).id, host |-> FALSE]
            /\ ghosts' = ghosts \cup Forgotten
       ELSE UNCHANGED <<ctx, ghosts>>
    /\ Answer("JOIN_OK", 0)
    /\ UNCHANGED <<session, ui, open, next_id, clicks>>

ClosedTo(id) == IF \E g \in ghosts : g.id = id THEN <<Frame("CLOSED", 0)>> ELSE <<>>

\* handle_leave; also CLOSE_SESSION, of which a guest's does nothing.
Left ==
    /\ ctx' = Nowhere
    /\ IF ctx.host
       THEN /\ open' = open \ {ctx.id}
            /\ ghosts' = {g \in ghosts : g.id # ctx.id}
            /\ down' = down \o ClosedTo(ctx.id) \o <<Frame("LEFT", 0)>>
       ELSE /\ UNCHANGED <<open, ghosts>>
            /\ Answer("LEFT", 0)

\* Mutant of ServeLeave: the context keeps the session it has left.
ServeLeaveKept ==
    /\ Take({"LEAVE", "CLOSE"})
    /\ Answer("LEFT", 0)
    /\ UNCHANGED <<session, ui, open, next_id, ctx, ghosts, clicks>>

ServeLeave ==
    /\ Take({"LEAVE", "CLOSE"})
    /\ IF ctx.id \in open /\ (Head(up).kind = "CLOSE" => ctx.host)
       THEN Left
       ELSE Answer("LEFT", 0) /\ UNCHANGED <<open, ctx, ghosts>>
    /\ UNCHANGED <<session, ui, next_id, clicks>>

\* What needs a session: nothing comes back when there is one.
ServeOther ==
    /\ Take({"DRAW", "REQUEST"})
    /\ IF ctx.id \in open THEN UNCHANGED down ELSE Answer("ERROR", 0)
    /\ UNCHANGED <<session, ui, server, clicks>>

Serve == ServeCreate \/ ServeJoin \/ ServeLeave \/ ServeOther

\* The host of another session closes it or loses its connection.
CloseForeign ==
    /\ Closing
    /\ \E id \in open \cap 1..Foreign :
          /\ open' = open \ {id}
          /\ ghosts' = {g \in ghosts : g.id # id}
          /\ down' = IF ctx.id = id THEN Append(down, Frame("CLOSED", 0))
                     ELSE down \o ClosedTo(id)
    /\ UNCHANGED <<session, ui, up, next_id, ctx, clicks>>

Next == User \/ Poll \/ Serve \/ CloseForeign

Spec == Init /\ [][Next]_vars

\* The threads run; the user need not do anything.
Fairness == WF_vars(Poll) /\ WF_vars(Serve) /\ WF_vars(SendJoin \/ SendCreate \/ FinishLeave)

FairSpec == Spec /\ Fairness

-----------------------------------------------------------------------------
(* Properties.                                                             *)

Quiet == ui.step = "idle" /\ up = <<>> /\ down = <<>>

\* No session of others has been closed.
Undisturbed == 1..Foreign \subseteq open

\* As long as others do not close their sessions: when every request has been
\* answered, the application shows the session, and the part in it, that the
\* server has it down for, and so does its sessionClient, which decides who
\* stamps the strokes (host_owns_canvas).
SidesAgree ==
    Quiet /\ Undisturbed =>
        /\ session.in_session <=> ctx.id \in open
        /\ session.in_session =>
              session.session_id = ctx.id /\ session.is_host = ctx.host
        /\ session.client_id = (IF session.in_session THEN ctx.id ELSE 0)
        /\ session.client_host = session.is_host

\* Nor does the server list this connection in two sessions: a membership its
\* context has forgotten would stay when the connection is gone.
NoGhosts == Undisturbed => ghosts = {}

\* Joining and creating come to an end.
Answered ==
    session.joining \in {"joining", "creating"}
        ~> session.joining \notin {"joining", "creating"}

-----------------------------------------------------------------------------
(* The inductive invariant behind SidesAgree and NoGhosts.                 *)

Talk == {"DRAW", "REQUEST"}
Bye == {"LEAVE", "CLOSE"}
Entry == {"JOIN", "CREATE"}
Granted == {"JOIN_OK", "CREATE_OK"}
Requests == [kind : Talk \cup Bye \cup Entry, id : Nat]
Answers == [kind : Granted \cup {"LEFT", "ERROR", "CLOSED"}, id : Nat]

\* Every variable has its type.
TypeOK ==
    /\ session \in SessionRec
    /\ ui \in [step : {"idle", "join", "create", "leave"}, id : Nat]
    /\ up \in Seq(Requests) /\ down \in Seq(Answers)
    /\ open \subseteq 1..next_id - 1 /\ next_id \in Nat /\ next_id > Foreign
    /\ ctx \in [id : Nat, host : BOOLEAN] /\ ctx.id < next_id
    /\ ghosts \subseteq [id : Nat, host : BOOLEAN] /\ clicks \in Nat

Hosted == ctx.id \in open

\* What an application waits for, if anything, and that it is in no session then.
SessionInv ==
    /\ \/ session = NoSession
       \/ session.joining \in {"joining", "creating"} /\ ui.step = "idle"
          /\ session.client_id = 0 /\ ~session.client_host
          /\ ~session.in_session /\ ~session.is_host
       \/ session.joining = "in_session" /\ session.in_session
    /\ ui.step \in {"join", "create"} => session = NoSession
    /\ ui.step = "join" => ui.id \in 1..Foreign
    /\ ui.step = "leave" => session.in_session

\* In a session, the server has the connection down for it.
MemberInv ==
    session.in_session /\ ui.step # "leave" =>
        Hosted /\ session = Entered(session, ctx.id, ctx.host)

\* An entry is what the application waits for, and the last thing it has sent.
EntryInv ==
    \A i \in 1..Len(up) :
        up[i].kind \in Entry =>
            /\ i = Len(up) /\ \A j \in 1..Len(down) : down[j].kind = "LEFT"
            /\ up[i].kind = "JOIN" =>
                  /\ session.joining = "joining"
                  /\ up[i].id = session.session_id /\ up[i].id \in 1..Foreign
            /\ up[i].kind = "CREATE" => session.joining = "creating"

\* A goodbye is the last thing sent from a session, before an entry at most.
ByeInv ==
    \A i \in 1..Len(up) :
        up[i].kind \in Bye =>
            /\ Hosted /\ (up[i].kind = "CLOSE" => ctx.host)
            /\ session.in_session => ui.step = "leave"
            /\ \A j \in i + 1..Len(up) : up[j].kind \in Entry

\* What needs a session finds one.
TalkInv == \A i \in 1..Len(up) : up[i].kind \in Talk => Hosted

\* A grant on its way is the only one, is waited for, and is true.
GrantInv ==
    \A j \in 1..Len(down) :
        /\ down[j].kind \in Granted \cup {"LEFT"}
        /\ down[j].kind \in Granted =>
              /\ Hosted /\ up = <<>>
              /\ \A i \in 1..Len(down) : i # j => down[i].kind = "LEFT"
              /\ down[j].kind = "JOIN_OK" =>
                    /\ session.joining = "joining"
                    /\ ctx.id = session.session_id /\ ~ctx.host
              /\ down[j].kind = "CREATE_OK" =>
                    /\ session.joining = "creating"
                    /\ ctx.id = down[j].id /\ ctx.host

\* Outside a session, what the server has the connection down for is about to
\* be left, or about to be entered.
OutsideInv ==
    Hosted /\ (session.in_session => ui.step = "leave") =>
        \/ \E i \in 1..Len(up) : up[i].kind \in Bye
        \/ \E j \in 1..Len(down) : down[j].kind \in Granted

\* As long as others do not close their sessions, requests and answers under
\* way are what makes up the difference between the two ends.
Between ==
    /\ SessionInv /\ MemberInv /\ EntryInv /\ ByeInv /\ TalkInv /\ GrantInv
    /\ OutsideInv /\ ghosts = {}

EndsInv == TypeOK /\ (Undisturbed => Between)
=============================================================================
