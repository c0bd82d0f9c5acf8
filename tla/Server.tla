------------------------------- MODULE Server -------------------------------
(***************************************************************************)
(* The session server (server/server.cpp): one handler thread per client   *)
(* connection, the registry of sessions behind sessions_mutex and the      *)
(* registry of connections behind connections_mutex.                       *)
(*                                                                         *)
(* sessions_mutex is held across a whole notification, in which every      *)
(* recipient is looked up and then written to through a plain pointer to   *)
(* the clientConnection on its handler's stack; connections_mutex is held  *)
(* for one look-up, and taken by register and unregister while             *)
(* sessions_mutex may be with another handler.  One action is one stretch  *)
(* of code between two such accesses.                                      *)
(*                                                                         *)
(* Payloads, the acks of LEAVE and CLOSE_SESSION and the error replies     *)
(* change nothing here and are left out.  A write to a socket succeeds or  *)
(* is lost with its connection; it does not block.                         *)
(***************************************************************************)
EXTENDS Integers, FiniteSets

CONSTANTS
    Conns,        \* connections; each is accepted at most once
    Free,         \* owner of an unlocked mutex
    NoConn,       \* a null clientConnection pointer
    MaxSessions,  \* bound on the session ids handed out
    MaxMembers,   \* bound on the member ids handed out
    Orderly       \* TRUE: clients send CREATE and JOIN only out of a session

ASSUME ServerAssumption ==
    /\ Free \notin Conns /\ NoConn \notin Conns
    /\ MaxSessions \in Nat /\ MaxMembers \in Nat
    /\ Orderly \in BOOLEAN

SessionIds == 1..MaxSessions
MemberIds == 1..MaxMembers
None == 0  \* member_id and session_id of a client outside any session

VARIABLES
    sessions,         \* ids of the sessions in the map
    host,             \* host[s]: member id of the host
    members,          \* members[s]: member ids
    next_session_id, next_member_id,
    connections,      \* connections[m]: the handler whose connection m uses
    sessions_mutex,   \* its owner
    pc,               \* where each handler is
    ctx,              \* clientContext of each handler: member, session
    asked,            \* session id of the JOIN in progress, None for CREATE
    frame,            \* the notification being sent: its kind and member
    todo,             \* recipients, or roster entries, still to be sent
    target,           \* the connection found for the next recipient
    after,            \* where the handler goes after the notification
    client            \* what each client knows once it has read all it was sent

registry == <<sessions, host, members>>
counters == <<next_session_id, next_member_id>>
relayVars == <<frame, todo, target, after>>
vars == <<sessions, host, members, next_session_id, next_member_id,
          connections, sessions_mutex, pc, ctx, asked, frame, todo, target,
          after, client>>

Context(m, s) == [member |-> m, session |-> s]
Frame(kind, about) == [kind |-> kind, member |-> about]
NoCtx == Context(None, None)
NoFrame == Frame("none", None)

\* A client: its joining_state_, its member id and the members it lists.
Outside == [state |-> "none", member |-> None, roster |-> {}]
Requested(known) ==
    [known EXCEPT !.state = IF @ = "none" THEN "asking" ELSE @]
Informed(known, ids) == [known EXCEPT !.roster = @ \cup ids]
Entered(known, m) ==
    IF known.state = "none" THEN known
    ELSE [state |-> "in", member |-> m, roster |-> known.roster \cup {m}]

Init ==
    /\ sessions = {}
    /\ host = [s \in SessionIds |-> None]
    /\ members = [s \in SessionIds |-> {}]
    /\ next_session_id = 1 /\ next_member_id = 1
    /\ connections = [m \in MemberIds \cup {None} |-> NoConn]
    /\ sessions_mutex = Free
    /\ pc = [c \in Conns |-> "absent"]
    /\ ctx = [c \in Conns |-> NoCtx]
    /\ asked = [c \in Conns |-> None]
    /\ frame = [c \in Conns |-> NoFrame]
    /\ todo = [c \in Conns |-> {}]
    /\ target = [c \in Conns |-> NoConn]
    /\ after = [c \in Conns |-> "reading"]
    /\ client = [c \in Conns |-> Outside]

Goto(c, label) == pc' = [pc EXCEPT ![c] = label]

InSession(c) == ctx[c].member # None /\ ctx[c].session \in sessions

IsHost(c) == host[ctx[c].session] = ctx[c].member

\* Under sessions_mutex, send a frame to some members, then go on elsewhere.
Notify(c, kind, about, to, next) ==
    /\ sessions_mutex = Free /\ sessions_mutex' = c
    /\ frame' = [frame EXCEPT ![c] = Frame(kind, about)]
    /\ todo' = [todo EXCEPT ![c] = to]
    /\ after' = [after EXCEPT ![c] = next]
    /\ Goto(c, "relay")

-----------------------------------------------------------------------------
(* CREATE and JOIN.                                                        *)

Accept(c) ==
    /\ pc[c] = "absent"
    /\ Goto(c, "reading")
    /\ UNCHANGED <<registry, counters, connections, sessions_mutex, ctx,
                   asked, relayVars, client>>

MayEnter(c) ==
    /\ pc[c] = "reading"
    /\ Orderly => client[c].state = "none"

\* The client's joining_state_ once it has sent a CREATE or a JOIN.
Asking(c) == client' = [client EXCEPT ![c] = Requested(@)]

\* The ids come from counters read before the lock; here with it, since
\* ids are only ever compared for equality.
Create(c) ==
    /\ MayEnter(c) /\ sessions_mutex = Free
    /\ next_session_id <= MaxSessions /\ next_member_id <= MaxMembers
    /\ sessions' = sessions \cup {next_session_id}
    /\ host' = [host EXCEPT ![next_session_id] = next_member_id]
    /\ members' = [members EXCEPT ![next_session_id] = {next_member_id}]
    /\ ctx' = [ctx EXCEPT ![c] = Context(next_member_id, next_session_id)]
    /\ next_session_id' = next_session_id + 1
    /\ next_member_id' = next_member_id + 1
    /\ asked' = [asked EXCEPT ![c] = None]
    /\ Goto(c, "register") /\ Asking(c)
    /\ UNCHANGED <<connections, sessions_mutex, relayVars>>

\* Mutant of Join: only the host is told of the new member.
JoinTellsHost(c) ==
    /\ MayEnter(c) /\ next_member_id <= MaxMembers
    /\ next_member_id' = next_member_id + 1
    /\ \E s \in sessions :
        /\ members' = [members EXCEPT ![s] = @ \cup {next_member_id}]
        /\ ctx' = [ctx EXCEPT ![c] = Context(next_member_id, s)]
        /\ asked' = [asked EXCEPT ![c] = s]
        /\ Notify(c, "MEMBER_JOINED", next_member_id, {host[s]}, "register")
    /\ Asking(c)
    /\ UNCHANGED <<sessions, host, next_session_id, connections, target>>

\* handle_join: a new member, announced to the others before it is registered.
Join(c) ==
    /\ MayEnter(c) /\ next_member_id <= MaxMembers
    /\ next_member_id' = next_member_id + 1
    /\ \E s \in sessions :
        /\ members' = [members EXCEPT ![s] = @ \cup {next_member_id}]
        /\ ctx' = [ctx EXCEPT ![c] = Context(next_member_id, s)]
        /\ asked' = [asked EXCEPT ![c] = s]
        /\ Notify(c, "MEMBER_JOINED", next_member_id, members[s], "register")
    /\ Asking(c)
    /\ UNCHANGED <<sessions, host, next_session_id, connections, target>>

\* A JOIN of a session that does not exist fails in handle_join, but with
\* err = error::none, which dispatch takes for success: it goes on with the
\* context as it was.
JoinMissing(c) ==
    /\ MayEnter(c) /\ next_member_id <= MaxMembers
    /\ sessions_mutex = Free
    /\ next_member_id' = next_member_id + 1
    /\ \E s \in SessionIds \ sessions : asked' = [asked EXCEPT ![c] = s]
    /\ Goto(c, "register") /\ Asking(c)
    /\ UNCHANGED <<registry, next_session_id, connections, sessions_mutex,
                   ctx, relayVars>>

Register(c) ==
    /\ pc[c] = "register"
    /\ connections' = [connections EXCEPT ![ctx[c].member] = c]
    /\ Goto(c, IF asked[c] = None THEN "ack" ELSE "roster")
    /\ UNCHANGED <<registry, counters, sessions_mutex, ctx, asked, relayVars,
                   client>>

\* The members the joining client is told of are read after it is registered:
\* whoever joins later finds its connection.
Roster(c) ==
    /\ pc[c] = "roster" /\ sessions_mutex = Free
    /\ todo' = [todo EXCEPT ![c] = IF asked[c] \in sessions
                                   THEN members[asked[c]] ELSE {}]
    /\ Goto(c, "entries")
    /\ UNCHANGED <<registry, counters, connections, sessions_mutex, ctx,
                   asked, frame, target, after, client>>

\* The MEMBER_JOINED entries, on the handler's own connection.
Entries(c) ==
    /\ pc[c] = "entries"
    /\ client' = [client EXCEPT ![c] = Informed(@, todo[c])]
    /\ todo' = [todo EXCEPT ![c] = {}]
    /\ Goto(c, "ack")
    /\ UNCHANGED <<registry, counters, connections, sessions_mutex, ctx,
                   asked, frame, target, after>>

\* CREATE_OK or JOIN_OK.  A client told meanwhile that the session is closed
\* is not waiting for it any more.
Ack(c) ==
    /\ pc[c] = "ack"
    /\ client' = [client EXCEPT ![c] = Entered(@, ctx[c].member)]
    /\ asked' = [asked EXCEPT ![c] = None]
    /\ Goto(c, "reading")
    /\ UNCHANGED <<registry, counters, connections, sessions_mutex, ctx,
                   relayVars>>

-----------------------------------------------------------------------------
(* Sending a frame to each recipient, with sessions_mutex held.            *)

\* Mutant of Find: the recipient stays in the list.
FindAgain(c) ==
    /\ pc[c] = "relay"
    /\ \E m \in todo[c] :
        /\ target' = [target EXCEPT ![c] = connections[m]]
        /\ Goto(c, IF connections[m] = NoConn THEN "relay" ELSE "send")
    /\ UNCHANGED <<registry, counters, connections, sessions_mutex, ctx,
                   asked, frame, todo, after, client>>

\* Mutant of Find: that there may be no connection is not looked at.
FindUnchecked(c) ==
    /\ pc[c] = "relay"
    /\ \E m \in todo[c] :
        /\ todo' = [todo EXCEPT ![c] = @ \ {m}]
        /\ target' = [target EXCEPT ![c] = connections[m]]
        /\ Goto(c, "send")
    /\ UNCHANGED <<registry, counters, connections, sessions_mutex, ctx,
                   asked, frame, after, client>>

Find(c) ==
    /\ pc[c] = "relay"
    /\ \E m \in todo[c] :
        /\ todo' = [todo EXCEPT ![c] = @ \ {m}]
        /\ target' = [target EXCEPT ![c] = connections[m]]
        /\ Goto(c, IF connections[m] = NoConn THEN "relay" ELSE "send")
    /\ UNCHANGED <<registry, counters, connections, sessions_mutex, ctx,
                   asked, frame, after, client>>

\* What a client makes of a notification.
Received(known, f) ==
    CASE f.kind = "MEMBER_JOINED" -> Informed(known, {f.member})
      [] f.kind = "MEMBER_LEFT" ->
            [known EXCEPT !.roster = @ \ {f.member}]
      [] f.kind = "SESSION_CLOSED" -> Outside
      [] OTHER -> known

Send(c) ==
    /\ pc[c] = "send"
    /\ client' = [client EXCEPT ![target[c]] = Received(@, frame[c])]
    /\ target' = [target EXCEPT ![c] = NoConn]
    /\ Goto(c, "relay")
    /\ UNCHANGED <<registry, counters, connections, sessions_mutex, ctx,
                   asked, frame, todo, after>>

\* Mutant of Unlock: a closed session stays in the map.
UnlockKeepsSession(c) ==
    /\ pc[c] = "relay" /\ todo[c] = {}
    /\ sessions_mutex' = Free
    /\ frame' = [frame EXCEPT ![c] = NoFrame]
    /\ after' = [after EXCEPT ![c] = "reading"]
    /\ Goto(c, after[c])
    /\ UNCHANGED <<registry, counters, connections, ctx, asked, todo, target,
                   client>>

\* Everyone has been written to: a closed session is erased, the lock freed.
Unlock(c) ==
    /\ pc[c] = "relay" /\ todo[c] = {}
    /\ IF frame[c].kind = "SESSION_CLOSED"
       THEN /\ sessions' = sessions \ {frame[c].member}
            /\ members' = [members EXCEPT ![frame[c].member] = {}]
            /\ host' = [host EXCEPT ![frame[c].member] = None]
       ELSE UNCHANGED registry
    /\ sessions_mutex' = Free
    /\ frame' = [frame EXCEPT ![c] = NoFrame]
    /\ after' = [after EXCEPT ![c] = "reading"]
    /\ Goto(c, after[c])
    /\ UNCHANGED <<counters, connections, ctx, asked, todo, target, client>>

-----------------------------------------------------------------------------
(* DRAW, CANVAS_STATE_REQUEST, CANVAS_STATE and CANVAS_CLEAR: only who is  *)
(* written to matters here.                                                *)

\* A member's DRAW, and anyone's CANVAS_STATE_REQUEST, go to the host.
RelayToHost(c) ==
    /\ pc[c] = "reading" /\ InSession(c)
    /\ Notify(c, "DATA", None, {host[ctx[c].session]}, "reading")
    /\ UNCHANGED <<registry, counters, connections, ctx, asked, target, client>>

\* The host's DRAW and CANVAS_STATE go to everyone else.
RelayToOthers(c) ==
    /\ pc[c] = "reading" /\ InSession(c) /\ IsHost(c)
    /\ Notify(c, "DATA", None, members[ctx[c].session] \ {ctx[c].member}, "reading")
    /\ UNCHANGED <<registry, counters, connections, ctx, asked, target, client>>

\* A CANVAS_CLEAR goes to everyone, its sender included.
RelayToAll(c) ==
    /\ pc[c] = "reading" /\ InSession(c)
    /\ Notify(c, "DATA", None, members[ctx[c].session], "reading")
    /\ UNCHANGED <<registry, counters, connections, ctx, asked, target, client>>

-----------------------------------------------------------------------------
(* LEAVE, CLOSE_SESSION and the end of a connection.                       *)

\* Mutant of LeaveBy: the session outlives its host.
HostLeaveBy(c, next) ==
    LET s == ctx[c].session
        rest == members[s] \ {ctx[c].member}
    IN  /\ InSession(c)
        /\ members' = [members EXCEPT ![s] = rest]
        /\ ctx' = [ctx EXCEPT ![c] = NoCtx]
        /\ client' = [client EXCEPT ![c] = Outside]
        /\ IF rest = {}
           THEN Notify(c, "SESSION_CLOSED", s, rest, next)
           ELSE Notify(c, "MEMBER_LEFT", ctx[c].member, rest, next)
        /\ UNCHANGED <<sessions, host, counters, connections, asked, target>>

LeaveBy(c, next) ==
    LET s == ctx[c].session
        rest == members[s] \ {ctx[c].member}
    IN  /\ InSession(c)
        /\ members' = [members EXCEPT ![s] = rest]
        /\ ctx' = [ctx EXCEPT ![c] = NoCtx]
        /\ client' = [client EXCEPT ![c] = Outside]
        /\ IF IsHost(c) \/ rest = {}
           THEN Notify(c, "SESSION_CLOSED", s, rest, next)
           ELSE Notify(c, "MEMBER_LEFT", ctx[c].member, rest, next)
        /\ UNCHANGED <<sessions, host, counters, connections, asked, target>>

Leave(c) == pc[c] = "reading" /\ LeaveBy(c, "reading")

\* A client that leaves forgets its session whatever the server finds: here
\* the session is gone, or there never was one, and the context is kept.
LeaveMissing(c) ==
    /\ pc[c] = "reading" /\ client[c].state = "in" /\ ~InSession(c)
    /\ ctx[c].member # None => sessions_mutex = Free
    /\ client' = [client EXCEPT ![c] = Outside]
    /\ UNCHANGED <<registry, counters, connections, sessions_mutex, pc, ctx,
                   asked, relayVars>>

\* The host is checked under sessions_mutex, which is then released before
\* handle_leave takes it again.
CloseSession(c) ==
    /\ pc[c] = "reading" /\ InSession(c) /\ IsHost(c)
    /\ sessions_mutex = Free
    /\ Goto(c, "closing")
    /\ UNCHANGED <<registry, counters, connections, sessions_mutex, ctx,
                   asked, relayVars, client>>

CloseLeave(c) == pc[c] = "closing" /\ LeaveBy(c, "reading")

\* Mutant of Disconnect: the handler returns without cleaning up.
DisconnectReturns(c) ==
    /\ pc[c] = "reading"
    /\ Goto(c, "gone")
    /\ UNCHANGED <<registry, counters, connections, sessions_mutex, ctx,
                   asked, relayVars, client>>

\* The receive fails, in the middle of a session or not.
Disconnect(c) ==
    /\ pc[c] = "reading"
    /\ Goto(c, IF ctx[c].member = None THEN "gone" ELSE "unregister")
    /\ UNCHANGED <<registry, counters, connections, sessions_mutex, ctx,
                   asked, relayVars, client>>

\* Mutant of Unregister: the handler returns without handle_leave.
UnregisterReturns(c) ==
    /\ pc[c] = "unregister"
    /\ connections' = [connections EXCEPT ![ctx[c].member] = NoConn]
    /\ Goto(c, "gone")
    /\ UNCHANGED <<registry, counters, sessions_mutex, ctx, asked, relayVars,
                   client>>

Unregister(c) ==
    /\ pc[c] = "unregister"
    /\ connections' = [connections EXCEPT ![ctx[c].member] = NoConn]
    /\ Goto(c, "leaving")
    /\ UNCHANGED <<registry, counters, sessions_mutex, ctx, asked, relayVars,
                   client>>

\* After this the handler returns and its clientConnection is destroyed.
ExitLeave(c) == pc[c] = "leaving" /\ LeaveBy(c, "gone")

ExitMissing(c) ==
    /\ pc[c] = "leaving" /\ ~InSession(c) /\ sessions_mutex = Free
    /\ Goto(c, "gone")
    /\ UNCHANGED <<registry, counters, connections, sessions_mutex, ctx,
                   asked, relayVars, client>>

\* All connections of the instance are used up.
Terminated == (\A c \in Conns : pc[c] = "gone") /\ UNCHANGED vars

Enter(c) == \/ Accept(c) \/ Create(c) \/ Join(c) \/ JoinMissing(c)
            \/ Register(c) \/ Roster(c) \/ Entries(c) \/ Ack(c)

Relay(c) == \/ Find(c) \/ Send(c) \/ Unlock(c)
            \/ RelayToHost(c) \/ RelayToOthers(c) \/ RelayToAll(c)

Exit(c) == \/ Leave(c) \/ LeaveMissing(c) \/ CloseSession(c) \/ CloseLeave(c)
           \/ Disconnect(c) \/ Unregister(c) \/ ExitLeave(c) \/ ExitMissing(c)

Next == (\E c \in Conns : Enter(c) \/ Relay(c) \/ Exit(c)) \/ Terminated

Spec == Init /\ [][Next]_vars

\* A handler that has begun a request goes on with it; a mutex that is freed
\* again and again is in the end acquired by each thread that waits for it.
Handling(c) == \/ Register(c) \/ Entries(c) \/ Ack(c) \/ Find(c) \/ Send(c)
               \/ Unlock(c) \/ Unregister(c)
Locking(c) == Roster(c) \/ CloseLeave(c) \/ ExitLeave(c) \/ ExitMissing(c)

FairSpec == Spec /\ \A c \in Conns : WF_vars(Handling(c)) /\ SF_vars(Locking(c))

-----------------------------------------------------------------------------
(* Properties.                                                             *)

Labels == {"absent", "reading", "register", "roster", "entries", "ack",
           "relay", "send", "closing", "unregister", "leaving", "gone"}
Kinds == {"none", "DATA", "MEMBER_JOINED", "MEMBER_LEFT", "SESSION_CLOSED"}

ContextRec == [member : MemberIds \cup {None}, session : SessionIds \cup {None}]
FrameRec == [kind : Kinds, member : Nat]
ClientRec == [state : {"none", "asking", "in"},
              member : MemberIds \cup {None}, roster : SUBSET Nat]

\* Every variable of the registries, the handlers and the clients has its type,
\* and who writes to a connection has one.
TypeOK ==
    /\ sessions \subseteq SessionIds
    /\ host \in [SessionIds -> MemberIds \cup {None}]
    /\ members \in [SessionIds -> SUBSET MemberIds]
    /\ next_session_id \in 1..(MaxSessions + 1)
    /\ next_member_id \in 1..(MaxMembers + 1)
    /\ connections \in [MemberIds \cup {None} -> Conns \cup {NoConn}]
    /\ sessions_mutex \in Conns \cup {Free}
    /\ pc \in [Conns -> Labels]
    /\ ctx \in [Conns -> ContextRec]
    /\ asked \in [Conns -> SessionIds \cup {None}]
    /\ frame \in [Conns -> FrameRec]
    /\ todo \in [Conns -> SUBSET (MemberIds \cup {None})]
    /\ target \in [Conns -> Conns \cup {NoConn}]
    /\ \A c \in Conns : pc[c] = "send" => target[c] # NoConn
    /\ after \in [Conns -> {"reading", "register", "gone"}]
    /\ client \in [Conns -> ClientRec]

\* A frame is never written to the connection of a handler that has returned:
\* the pointer sendNotification got from find_connection outlives the look-up,
\* but the handler it belongs to cannot return before it gets sessions_mutex.
NoDanglingSend ==
    \A c \in Conns : target[c] # NoConn => pc[target[c]] # "gone"

\* Between two critical sections every session in the map has its host among
\* its members: handle_leave erases a session with its host.
HostIsMember ==
    sessions_mutex = Free => \A s \in sessions : host[s] \in members[s]

\* A handler whose context names an open session is a member of it.
ContextIsMember ==
    \A c \in Conns :
        ctx[c].session \in sessions => ctx[c].member \in members[ctx[c].session]

\* Every member of an open session has a handler that will one day leave for
\* it; nobody stays in a session without a connection behind it.
NoGhostMembers ==
    \A s \in sessions : \A m \in members[s] :
        \E c \in Conns : pc[c] # "gone" /\ ctx[c] = Context(m, s)

\* Between two critical sections a client that joined an open session has been
\* told of every member of it, also of those that joined while it was joining:
\* it is registered before its roster is read.  (A host is registered after
\* its session can be joined and may never hear of a member that did.)
RosterComplete ==
    sessions_mutex = Free =>
        \A c \in Conns :
            pc[c] = "reading" /\ client[c].state = "in" /\ InSession(c) /\ ~IsHost(c)
                => members[ctx[c].session] \subseteq client[c].roster

\* When the connection of a host ends, its session is erased from the map.
HostExitClosesSession ==
    \A c \in Conns, s \in SessionIds :
        (pc[c] = "unregister" /\ s \in sessions /\ IsHost(c) /\ ctx[c].session = s)
            ~> s \notin sessions

\* No handler waits forever in the middle of a request.
RequestsComplete ==
    \A c \in Conns : pc[c] # "reading" ~> pc[c] \in {"reading", "gone", "absent"}

\* A JOIN of a session that does not exist is rejected ("no such session",
\* server.cpp:402), so the member id of a JOIN_OK is a member's.
JoinOkNamesMember ==
    \A c \in Conns : client[c].state = "in" => client[c].member # None

-----------------------------------------------------------------------------
(* The inductive invariant behind NoDanglingSend and NoGhostMembers, for   *)
(* orderly clients.                                                        *)

Relaying == {"relay", "send"}

\* Handler d is notifying the last members of session s that it is closed.
ClosedBy(d, s) == /\ pc[d] \in Relaying
                  /\ frame[d].kind = "SESSION_CLOSED" /\ frame[d].member = s

Closing(s) == \E d \in Conns : ClosedBy(d, s)

LockInv == \A c \in Conns : sessions_mutex = c <=> pc[c] \in Relaying

FreshInv ==
    /\ \A s \in sessions : s < next_session_id
    /\ \A c \in Conns : /\ ctx[c].member < next_member_id
                        /\ ctx[c].session < next_session_id
    /\ \A m \in MemberIds : m >= next_member_id => connections[m] = NoConn

\* A context in an open session is that of a live handler and of a member; no
\* two handlers have the same member id.
ContextInv ==
    \A c \in Conns :
        /\ ctx[c].member = None <=> ctx[c].session = None
        /\ ctx[c].session \in sessions =>
              /\ pc[c] \notin {"absent", "gone"}
              /\ ctx[c].member \in members[ctx[c].session]
        /\ pc[c] \in Relaying /\ after[c] = "gone" => ctx[c].session = None
        /\ \A d \in Conns :
              ctx[c].member = ctx[d].member /\ ctx[c].member # None => c = d

\* A member of an open session is in the context of some handler, and its
\* registered connection, if any, is that handler's.
OwnerInv ==
    \A s \in sessions : \A m \in members[s] :
        /\ \E c \in Conns : ctx[c].member = m /\ ctx[c].session = s
        /\ connections[m] # NoConn =>
              /\ ctx[connections[m]].member = m
              /\ ctx[connections[m]].session = s

HostInv == \A s \in sessions : host[s] \in members[s] \/ Closing(s)

\* Recipients are members of open sessions, of the closing one if it is closed.
RelayInv ==
    \A c \in Conns :
        /\ pc[c] \in Relaying => \A m \in todo[c] : \E s \in sessions :
              /\ m \in members[s]
              /\ frame[c].kind = "SESSION_CLOSED" => frame[c].member = s
        /\ target[c] # NoConn =>
              /\ pc[c] = "send"
              /\ ctx[target[c]].session \in sessions
              /\ frame[c].kind = "SESSION_CLOSED"
                    => frame[c].member = ctx[target[c]].session

\* A client knows itself outside any session only if its handler's session is
\* gone or is being closed.
ClientInv ==
    \A c \in Conns :
        client[c].state = "none" /\ ctx[c].session \in sessions
            => Closing(ctx[c].session)

\* How handlers, contexts, members and registered connections belong together
\* at every step: what makes the pointers of sendNotification safe to use.
ServerInv == /\ LockInv /\ FreshInv /\ ContextInv /\ OwnerInv
             /\ HostInv /\ RelayInv /\ ClientInv
-----------------------------------------------------------------------------
(* The inductive invariant behind RosterComplete, on top of ServerInv.     *)

\* Where handler c has its connection registered and has not begun to leave,
\* and where it has besides read the roster it sends its client.
Reading(c) == pc[c] = "reading" \/ (pc[c] \in Relaying /\ after[c] = "reading")
Told(c) == pc[c] \in {"entries", "ack"} \/ Reading(c)
Connected(c) == pc[c] \in {"roster", "closing"} \/ Told(c)

\* Handler c is between handle_join or handle_create and the roster.
Joining(c) == \/ pc[c] \in {"register", "roster"}
              \/ pc[c] \in Relaying /\ after[c] = "register"

\* What is read into the roster is the session that was joined; only the
\* creator of a session, which is its host, goes on without one.
AskedItsOwn(c) ==
    Joining(c) /\ InSession(c) /\ ~IsHost(c) => asked[c] = ctx[c].session

\* The connection of a member is found by whoever looks it up.
IsFound(c) == Connected(c) /\ InSession(c) => connections[ctx[c].member] = c

\* Handler d has still to tell the client of c that m has joined.
Announcing(d, m, c) ==
    /\ pc[d] \in Relaying
    /\ frame[d].kind = "MEMBER_JOINED" /\ frame[d].member = m
    /\ ctx[c].member \in todo[d] \/ target[d] = c

\* A member that the client of c has not heard of is in the roster about to be
\* sent to it, or is being announced to it.
HearsOfAll(c) ==
    Told(c) /\ InSession(c) /\ ~IsHost(c) /\ client[c].state # "none" =>
        \A m \in members[ctx[c].session] :
            \/ m \in client[c].roster
            \/ pc[c] = "entries" /\ m \in todo[c]
            \/ \E d \in Conns : Announcing(d, m, c)

\* Who is said to have left is nowhere a member, and never will be again.
LeftInv ==
    \A d \in Conns :
        pc[d] \in Relaying /\ frame[d].kind = "MEMBER_LEFT" =>
            /\ frame[d].member < next_member_id
            /\ \A s \in sessions : frame[d].member \notin members[s]

\* How a joining client hears of all members: those before it by the roster,
\* those after it through its registered connection.
RosterInv ==
    /\ LeftInv
    /\ \A c \in Conns : AskedItsOwn(c) /\ IsFound(c) /\ HearsOfAll(c)
=============================================================================
