----------------------------- MODULE Connection -----------------------------
(***************************************************************************)
(* How an application connects and disconnects                             *)
(* (engine/network/network_manager.cpp, engine/process/server_process.cpp, *)
(* and the poll thread and the entry points of session_manager.cpp).       *)
(*                                                                         *)
(* Three threads: the UI thread presses buttons and, to disconnect, waits  *)
(* for the other two; the connect thread makes one attempt, waits for a    *)
(* former poll thread and starts a new one; the poll thread waits for      *)
(* frames.  They share the flags stop_poll_ and connecting_, and under a   *)
(* mutex each connected_, state_ and the session.                          *)
(*                                                                         *)
(* A socket is the number of its connection.  The other end may refuse,    *)
(* not answer, and close at any time.  Twice this end waits for it: to     *)
(* send LEAVE on a connection that is full, and to close a WebSocket,      *)
(* which both ends have to do.  Other sends are left out, and so are host  *)
(* and port: whether the other end is there is open anyway.  What frames   *)
(* do to a session is in ClientSession; here one may arrive at any time.   *)
(***************************************************************************)
EXTENDS SessionState, FiniteSets

CONSTANTS
    Protocols,  \* those the user selects: "tcp", "websocket"
    Crashes,    \* TRUE: the local server may end by itself
    Drops,      \* TRUE: connections may be closed by the other end
    Careful,    \* TRUE: the user starts no local server while connected
    MaxTries,   \* attempts of start_local_server; 15 in the code
    MaxClicks   \* bound on what the user does

ASSUME ConnectionAssumption ==
    /\ Protocols \subseteq {"tcp", "websocket"} /\ Protocols # {}
    /\ Crashes \in BOOLEAN /\ Drops \in BOOLEAN
    /\ Careful \in BOOLEAN /\ MaxTries \in Nat /\ MaxClicks \in Nat

VARIABLES
    stop_poll, connecting,     \* atomics
    connected, state, protocol, \* under mutex_
    socket, layer,             \* tcp_socket_ or ws_socket_: its number, or 0,
                               \* and which of the two it is
    session, client,           \* under session_mutex_; client: its socket, or 0
    ui, attempt, poll,         \* the three threads
    live,                      \* sockets open at both ends
    process,                   \* server_process: running_, and whether it does
    made, clicks               \* connections made, buttons pressed

flags == <<stop_poll, connecting>>
shown == <<connected, state, protocol>>
sessions == <<session, client>>
env == <<made, clicks>>
links == <<socket, layer>>
vars == <<stop_poll, connecting, connected, state, protocol, socket, layer,
          session, client, ui, attempt, poll, live, process, made, clicks>>

Kinds == {"connect", "tcp_join", "ws_join", "ws_create", "start"}

\* What finish_connect_attempt is told.
ResetsSession == Kinds \ {"connect", "start"}

NoAttempt == [step |-> "none", kind |-> "connect", tries |-> 0, socket |-> 0]
IdleUi == [step |-> "idle", call |-> "none", kind |-> "connect"]
NoPoll == [step |-> "none", socket |-> 0]

\* The calls that leave a session or a connection.
Calls == {"disconnect", "stop_server", "leave_session", "shutdown"}

Init ==
    /\ stop_poll = FALSE /\ connecting = FALSE
    /\ connected = FALSE /\ state = "disconnected" /\ protocol \in Protocols
    /\ socket = 0 /\ layer = "none" /\ session = NoSession /\ client = 0
    /\ ui = IdleUi /\ attempt = NoAttempt /\ poll = NoPoll
    /\ live = {} /\ process = [flag |-> FALSE, alive |-> FALSE]
    /\ made = 0 /\ clicks = 0

AtUi(step) == ui.step = step
UiTo(step) == ui' = [ui EXCEPT !.step = step]
AtAttempt(step) == attempt.step = step
AttemptTo(step) == attempt' = [attempt EXCEPT !.step = step]

\* server_process::running.
Running == process.flag /\ process.alive
StopProcess == process' = [flag |-> FALSE, alive |-> FALSE]

\* close_sockets.  A TCP socket is closed at once, and a receive by it returns.
\* For a WebSocket that is open a close frame is sent, which ends nothing yet.
CloseSockets == live' = IF layer = "websocket" THEN live ELSE live \ {socket}

-----------------------------------------------------------------------------
(* The UI thread.                                                          *)

Click == AtUi("idle") /\ clicks < MaxClicks /\ clicks' = clicks + 1

\* The attempt a button asks for.
MayAsk(kind) ==
    CASE kind = "connect" -> ~connected /\ protocol = "websocket"
      [] kind = "start" -> ~Running /\ (Careful => ~connected)
      [] OTHER -> /\ ~session.in_session /\ ~(connected /\ client # 0)
                  /\ (kind = "tcp_join") <=> (protocol = "tcp")

\* async_...: refused while an attempt is being made.
Ask(kind) ==
    /\ Click /\ MayAsk(kind) /\ ~connecting
    /\ connecting' = TRUE /\ stop_poll' = FALSE
    /\ ui' = [step |-> "stop_connect", call |-> "ask", kind |-> kind]
    /\ UNCHANGED <<shown, links, sessions, attempt, poll, live, process, made>>

\* disconnect, stop_local_server, leave_session and, when the window is closed,
\* shutdown.
Leave(call) ==
    /\ Click
    /\ CASE call = "disconnect" -> connected
         [] call = "stop_server" -> Running
         [] call = "leave_session" -> session.in_session
         [] OTHER -> TRUE
    /\ ui' = [IdleUi EXCEPT !.call = call,
          !.step = IF call = "leave_session" THEN "say_leave" ELSE "stop_connect"]
    /\ UNCHANGED <<flags, shown, links, sessions, attempt, poll, live, process,
                   made>>

\* Join or Create with a connection: the request is sent, or fails to be.
Enter ==
    /\ Click /\ ~session.in_session /\ connected /\ client # 0
    /\ session' \in {Joining(session, 1), Creating(session), session}
    /\ UNCHANGED <<flags, shown, links, client, ui, attempt, poll, live,
                   process, made>>

Toggle ==
    /\ Click /\ ~connected /\ ~connecting
    /\ protocol' \in Protocols \ {protocol}
    /\ UNCHANGED <<flags, connected, state, links, sessions, ui, attempt, poll,
                   live, process, made>>

\* stop_connect_thread...
StopConnect ==
    /\ AtUi("stop_connect")
    /\ stop_poll' = TRUE /\ UiTo("join_connect")
    /\ UNCHANGED <<connecting, shown, links, sessions, attempt, poll, live,
                   process, env>>

\* What follows the joining of the connect thread.
AfterConnect == CASE ui.call = "ask" -> "launch"
                  [] ui.call = "shutdown" -> "close"
                  [] OTHER -> "say_leave"

\* Mutant of JoinConnect: shutdown and disconnect do not wait.
JoinConnectNever ==
    /\ AtUi("join_connect") /\ (ui.call = "ask" => AtAttempt("none"))
    /\ UiTo(AfterConnect)
    /\ UNCHANGED <<flags, shown, links, sessions, attempt, poll, live, process,
                   env>>

\* ...which waits for the thread.
JoinConnect ==
    /\ AtUi("join_connect") /\ AtAttempt("none")
    /\ UiTo(AfterConnect)
    /\ UNCHANGED <<flags, shown, links, sessions, attempt, poll, live, process,
                   env>>

Launch ==
    /\ AtUi("launch")
    /\ state' = "connecting"
    /\ session' = CASE ui.kind \in {"tcp_join", "ws_join"} -> Joining(session, 1)
                    [] ui.kind = "ws_create" -> Creating(session)
                    [] OTHER -> session
    /\ attempt' = [NoAttempt EXCEPT !.step = "begin", !.kind = ui.kind]
    /\ ui' = IdleUi
    /\ UNCHANGED <<flags, connected, protocol, links, client, poll, live,
                   process, env>>

\* send_leave_or_close, with the client and the session as they are now...
AfterLeave == IF ui.call = "leave_session" THEN "reset" ELSE "close"

SayLeave ==
    /\ AtUi("say_leave")
    /\ UiTo(IF client # 0 /\ session.in_session THEN "sending" ELSE AfterLeave)
    /\ UNCHANGED <<flags, shown, links, sessions, attempt, poll, live, process,
                   env>>

\* ...returns when there is room for the frame, or the connection has ended.
Sent ==
    /\ AtUi("sending") /\ UiTo(AfterLeave)
    /\ UNCHANGED <<flags, shown, links, sessions, attempt, poll, live, process,
                   env>>

\* The end of leave_session.
ResetSession ==
    /\ AtUi("reset")
    /\ session' = Reset(session) /\ ui' = IdleUi
    /\ UNCHANGED <<flags, shown, links, client, attempt, poll, live, process,
                   env>>

\* Mutant of Close: the sockets stay open.
CloseNothing ==
    /\ AtUi("close")
    /\ stop_poll' = TRUE /\ UiTo("join_poll")
    /\ UNCHANGED <<connecting, shown, links, sessions, attempt, poll, live,
                   process, env>>

Close ==
    /\ AtUi("close")
    /\ stop_poll' = TRUE /\ CloseSockets /\ UiTo("join_poll")
    /\ UNCHANGED <<connecting, shown, links, sessions, attempt, poll, process,
                   env>>

\* The closing of a WebSocket waits for the other end, and then join for the
\* poll thread.
JoinPoll ==
    /\ AtUi("join_poll") /\ socket \notin live /\ poll.step = "none"
    /\ UiTo("detach")
    /\ UNCHANGED <<flags, shown, links, sessions, attempt, poll, live, process,
                   env>>

\* reset_session and detach_client.
Detach ==
    /\ AtUi("detach")
    /\ session' = Detached(Reset(session)) /\ client' = 0 /\ UiTo("release")
    /\ UNCHANGED <<flags, shown, links, attempt, poll, live, process, env>>

Release ==
    /\ AtUi("release")
    /\ socket' = 0 /\ layer' = "none"
    /\ connected' = FALSE /\ state' = "disconnected"
    /\ IF ui.call = "disconnect" THEN UNCHANGED process ELSE StopProcess
    /\ ui' = IF ui.call = "shutdown" THEN [ui EXCEPT !.step = "gone"] ELSE IdleUi
    /\ UNCHANGED <<flags, protocol, sessions, attempt, poll, live, env>>

Press == \/ \E kind \in Kinds : Ask(kind)
         \/ \E call \in Calls : Leave(call)
         \/ Enter \/ Toggle

UiThread == \/ StopConnect \/ JoinConnect \/ Launch \/ SayLeave \/ ResetSession
            \/ Close \/ JoinPoll \/ Detach \/ Release

-----------------------------------------------------------------------------
(* The connect thread.                                                     *)

\* discover_host, for a join by TCP.
Begin ==
    /\ AtAttempt("begin") /\ attempt.kind # "start"
    /\ \/ AttemptTo("check")
       \/ attempt.kind = "tcp_join" /\ AttemptTo("finish")
    /\ UNCHANGED <<flags, shown, links, sessions, ui, poll, live, process, env>>

\* start_local_server: refused while the server runs, or without server.exe,
\* whose presence is open...
RefuseStart ==
    /\ AtAttempt("begin") /\ attempt.kind = "start"
    /\ AttemptTo("finish")
    /\ UNCHANGED <<flags, shown, links, sessions, ui, poll, live, process, env>>

\* ...and by server_process::start when its flag says so...
StartServer ==
    /\ AtAttempt("begin") /\ attempt.kind = "start" /\ ~Running
    /\ stop_poll' = FALSE
    /\ IF process.flag
       THEN AttemptTo("finish") /\ UNCHANGED process
       ELSE AttemptTo("try") /\ process' = [flag |-> TRUE, alive |-> TRUE]
    /\ UNCHANGED <<connecting, shown, links, sessions, ui, poll, live, env>>

\* ...and the server is tried until it answers or the tries are used up.  Then
\* it is stopped if the last try failed.  When there was none, because of a stop
\* or a server that has ended already, conn says that there is no error.
TriesEnd == stop_poll \/ ~Running \/ attempt.tries = MaxTries

Try ==
    /\ AtAttempt("try")
    /\ \/ /\ ~TriesEnd
          /\ attempt' = [attempt EXCEPT !.step = "check", !.tries = @ + 1]
          /\ UNCHANGED process
       \/ /\ TriesEnd /\ attempt.tries > 0
          /\ AttemptTo("finish") /\ StopProcess
       \/ /\ TriesEnd /\ attempt.tries = 0
          /\ AttemptTo("request") /\ UNCHANGED process
    /\ UNCHANGED <<flags, shown, links, sessions, ui, poll, live, env>>

\* Where connect_to_server returns to, with ok or not.
Returned(ok) ==
    attempt' = [attempt EXCEPT !.socket = 0,
        !.step = CASE ok -> "request"
                   [] ~ok /\ attempt.kind = "start" -> "try"
                   [] OTHER -> "finish"]

AlreadyConnected == connected \/ client # 0

\* Mutant of Check: only connected_ is looked at.
CheckConnected ==
    /\ AtAttempt("check")
    /\ stop_poll' = FALSE
    /\ IF connected THEN Returned(FALSE) ELSE AttemptTo("dial")
    /\ UNCHANGED <<connecting, shown, links, sessions, ui, poll, live, process,
                   env>>

\* connect_to_server: a stop that was asked for before is forgotten.
Check ==
    /\ AtAttempt("check")
    /\ stop_poll' = FALSE
    /\ IF AlreadyConnected THEN Returned(FALSE) ELSE AttemptTo("dial")
    /\ UNCHANGED <<connecting, shown, links, sessions, ui, poll, live, process,
                   env>>

\* connect, with a time limit.  When it was stopped meanwhile the connection
\* is closed, and yet the result is that of connect...
Dial ==
    /\ AtAttempt("dial")
    /\ \/ Returned(FALSE) /\ UNCHANGED <<live, made>>
       \/ /\ attempt.kind = "start" => Running
          /\ made' = made + 1
          /\ IF stop_poll /\ protocol = "tcp"
             THEN Returned(TRUE) /\ UNCHANGED live
             ELSE /\ attempt' = [attempt EXCEPT !.socket = made + 1,
                        !.step = IF stop_poll THEN "discard" ELSE "replace"]
                  /\ live' = live \cup {made + 1}
    /\ UNCHANGED <<flags, shown, links, sessions, ui, poll, process, clicks>>

\* ...but for a WebSocket not before the other end has closed it too.
Discard ==
    /\ AtAttempt("discard") /\ attempt.socket \notin live
    /\ Returned(TRUE)
    /\ UNCHANGED <<flags, shown, links, sessions, ui, poll, live, process, env>>

\* A former poll thread is stopped...
Replace ==
    /\ AtAttempt("replace")
    /\ stop_poll' = TRUE /\ CloseSockets /\ AttemptTo("wait")
    /\ UNCHANGED <<connecting, shown, links, sessions, ui, poll, process, env>>

\* ...and waited for, and the new sockets take the place of the old.
Install ==
    /\ AtAttempt("wait") /\ socket \notin live /\ poll.step = "none"
    /\ socket' = attempt.socket /\ layer' = protocol
    /\ connected' = TRUE /\ state' = "connected"
    /\ AttemptTo("attach")
    /\ UNCHANGED <<flags, protocol, sessions, ui, poll, live, process, env>>

Attach ==
    /\ AtAttempt("attach")
    /\ client' = attempt.socket /\ AttemptTo("start_poll")
    /\ UNCHANGED <<flags, shown, links, session, ui, poll, live, process, env>>

\* Mutant of StartPoll: stop_poll_ stays.
StartPollStopped ==
    /\ AtAttempt("start_poll")
    /\ poll' = [step |-> "loop", socket |-> 0]
    /\ Returned(TRUE)
    /\ UNCHANGED <<flags, shown, links, sessions, ui, live, process, env>>

StartPoll ==
    /\ AtAttempt("start_poll")
    /\ stop_poll' = FALSE
    /\ poll' = [step |-> "loop", socket |-> 0]
    /\ Returned(TRUE)
    /\ UNCHANGED <<connecting, shown, links, sessions, ui, live, process, env>>

\* send_join_request, send_create_request, or create_session of a new server,
\* which may fail to be sent.
\* Not connected, create_session asks for another attempt, which is refused.
Request ==
    /\ AtAttempt("request")
    /\ session' \in {session,
          CASE client # 0 /\ attempt.kind \in {"tcp_join", "ws_join"} ->
                  Joining(session, 1)
            [] client # 0 /\ attempt.kind = "ws_create" -> Creating(session)
            [] /\ client # 0 /\ attempt.kind = "start"
               /\ connected /\ ~session.in_session -> Creating(session)
            [] OTHER -> session}
    /\ AttemptTo("finish")
    /\ UNCHANGED <<flags, shown, links, client, ui, poll, live, process, env>>

\* finish_connect_attempt...
Finish ==
    /\ AtAttempt("finish")
    /\ connecting' = FALSE /\ AttemptTo("finish_state")
    /\ UNCHANGED <<stop_poll, shown, links, sessions, ui, poll, live, process, env>>

\* Mutant of FinishState: another of the states there are.
FinishStateFailed ==
    /\ AtAttempt("finish_state")
    /\ state' = IF connected THEN state ELSE "failed"
    /\ AttemptTo(IF ~connected /\ attempt.kind \in ResetsSession
                 THEN "finish_session" ELSE "none")
    /\ UNCHANGED <<flags, connected, protocol, links, sessions, ui, poll, live,
                   process, env>>

FinishState ==
    /\ AtAttempt("finish_state")
    /\ state' = IF connected THEN state ELSE "disconnected"
    /\ AttemptTo(IF ~connected /\ attempt.kind \in ResetsSession
                 THEN "finish_session" ELSE "none")
    /\ UNCHANGED <<flags, connected, protocol, links, sessions, ui, poll, live,
                   process, env>>

FinishSession ==
    /\ AtAttempt("finish_session")
    /\ session' = ClearJoining(session) /\ AttemptTo("none")
    /\ UNCHANGED <<flags, shown, links, client, ui, poll, live, process, env>>

ConnectThread ==
    \/ Begin \/ RefuseStart \/ StartServer \/ Try \/ Check \/ Dial \/ Discard
    \/ Replace \/ Install \/ Attach \/ StartPoll \/ Request \/ Finish \/ FinishState
    \/ FinishSession

-----------------------------------------------------------------------------
(* The poll thread.                                                        *)

AtPoll(step) == poll.step = step
PollTo(step) == poll' = [poll EXCEPT !.step = step]

\* The loop's condition, and the client as it is then.
Loop ==
    /\ AtPoll("loop")
    /\ poll' = IF stop_poll THEN NoPoll
               ELSE IF client = 0 THEN poll
               ELSE [step |-> "receive", socket |-> client]
    /\ UNCHANGED <<flags, shown, links, sessions, ui, attempt, live, process, env>>

\* A frame, and what it may do to the session.
Frame ==
    /\ AtPoll("receive") /\ poll.socket \in live
    /\ \E code \in {"CREATE_OK", "JOIN_OK", "ERROR", "CLOSED", "other"} :
          session' = CASE code = "ERROR"  -> ClearJoining(session)
                       [] code = "CLOSED" -> Reset(session)
                       [] OTHER           -> Acked(session, code, 1)
    /\ PollTo("loop")
    /\ UNCHANGED <<flags, shown, links, client, ui, attempt, live, process, env>>

\* The receive fails: unless that was asked for, the session is given up...
ReceiveFails == IF stop_poll THEN poll' = NoPoll ELSE PollTo("reset")

Fail ==
    /\ AtPoll("receive") /\ poll.socket \notin live
    /\ ReceiveFails
    /\ UNCHANGED <<flags, shown, links, sessions, ui, attempt, live, process, env>>

FailReset ==
    /\ AtPoll("reset")
    /\ session' = Reset(session) /\ PollTo("disconnected")
    /\ UNCHANGED <<flags, shown, links, client, ui, attempt, live, process, env>>

\* ...and set_disconnected called; client_ and the sockets stay.
FailDisconnected ==
    /\ AtPoll("disconnected")
    /\ connected' = FALSE /\ state' = "disconnected" /\ poll' = NoPoll
    /\ UNCHANGED <<flags, protocol, links, sessions, ui, attempt, live, process,
                   env>>

PollEnds == Fail \/ FailReset \/ FailDisconnected

-----------------------------------------------------------------------------
(* The world.                                                              *)

\* WebSockets that this end has begun to close.
Closing ==
    {s \in live : \/ /\ s = socket /\ layer = "websocket"
                     /\ AtUi("join_poll") \/ AtAttempt("wait")
                  \/ s = attempt.socket /\ AtAttempt("discard")}

\* The other end closes it, too...
Answer ==
    /\ \E s \in Closing : live' = live \ {s}
    /\ UNCHANGED <<flags, shown, links, sessions, ui, attempt, poll, process, env>>

\* ...until when a receive may or may not return.
Abort ==
    /\ AtPoll("receive") /\ poll.socket \in Closing
    /\ ReceiveFails
    /\ UNCHANGED <<flags, shown, links, sessions, ui, attempt, live, process, env>>

Drop ==
    /\ Drops
    /\ \E s \in live : live' = live \ {s}
    /\ UNCHANGED <<flags, shown, links, sessions, ui, attempt, poll, process, env>>

Crash ==
    /\ Crashes /\ process.alive
    /\ process' = [process EXCEPT !.alive = FALSE]
    /\ UNCHANGED <<flags, shown, links, sessions, ui, attempt, poll, live, env>>

Next == \/ Press \/ UiThread \/ Sent \/ ConnectThread
        \/ Loop \/ Frame \/ PollEnds \/ Abort \/ Answer \/ Drop \/ Crash

Spec == Init /\ [][Next]_vars

\* The threads run.  Dialling is bounded by run_for, and a send or receive on a
\* connection that has ended returns.  Nothing is expected of the other end: no
\* frame, no room for one, and no answer to the closing of a WebSocket.
Fairness == /\ WF_vars(UiThread) /\ WF_vars(ConnectThread)
            /\ WF_vars(Loop) /\ WF_vars(PollEnds)
            /\ WF_vars(socket \notin live /\ Sent)

FairSpec == Spec /\ Fairness

-----------------------------------------------------------------------------
(* Properties.                                                             *)

UiSteps == {"idle", "stop_connect", "join_connect", "launch", "say_leave",
            "sending", "reset", "close", "join_poll", "detach", "release", "gone"}
AttemptSteps == {"none", "begin", "try", "check", "dial", "discard", "replace",
                 "wait", "attach", "start_poll", "request", "finish",
                 "finish_state", "finish_session"}

UiRec == [step : UiSteps, kind : Kinds,
          call : {"none", "ask"} \cup Calls]
AttemptRec == [step : AttemptSteps, kind : Kinds, tries : 0..MaxTries,
               socket : 0..made]
PollRec == [step : {"none", "loop", "receive", "reset", "disconnected"},
            socket : 0..made]

\* Every variable of the three threads and what they share has its type.
TypeOK ==
    /\ stop_poll \in BOOLEAN /\ connecting \in BOOLEAN /\ connected \in BOOLEAN
    /\ state \in {"disconnected", "connecting", "connected"}
    /\ protocol \in Protocols
    /\ made \in Nat /\ clicks \in 0..MaxClicks
    /\ layer \in {"none"} \cup Protocols
    /\ socket \in 0..made /\ client \in 0..made /\ live \subseteq 1..made
    /\ session \in SessionRec
    /\ ui \in UiRec /\ attempt \in AttemptRec /\ poll \in PollRec
    /\ process \in [flag : BOOLEAN, alive : BOOLEAN]

\* A sessionClient refers to the socket it was made with, and the poll thread and
\* send_leave_or_close, without a lock, to the client they found: neither is
\* destroyed while it is referred to.
NoDanglingClient ==
    /\ client # 0 => client = socket
    /\ AtPoll("receive") => poll.socket = client
    /\ AtUi("sending") => client # 0

\* No attempt, no call under way, and the poll thread waits or is gone.
AtRest == ui.step \in {"idle", "gone"} /\ AtAttempt("none")
          /\ poll.step \in {"none", "receive"}

\* At rest the screen says "Connected" exactly when a thread receives, unless a
\* local server was started over a connection.
ConnectedListens ==
    AtRest => /\ connected <=> AtPoll("receive")
              /\ state = IF connected THEN "connected" ELSE "disconnected"

\* When shutdown has returned, nothing is left behind: no thread, socket, client
\* or server process.
GoneIsClean ==
    AtUi("gone") => /\ poll = NoPoll /\ attempt.step = "none"
                    /\ socket = 0 /\ client = 0 /\ live = {} /\ ~process.alive

\* A thread waits for the other end of a connection that is open.
WaitsForPeer == Closing # {} \/ (AtUi("sending") /\ socket \in live)

\* Every call returns: the waiting of the threads for one another comes to an
\* end, unless one of them waits for the other end of its connection for ever, to
\* take a LEAVE or to close a WebSocket.
CallsReturn ==
    LET NoCall == ui.step \in {"idle", "gone"}
    IN  ~NoCall ~> (NoCall \/ []WaitsForPeer)

=============================================================================
