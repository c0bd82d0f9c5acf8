------------------------------- MODULE Relay -------------------------------
(***************************************************************************)
(* The relaying of frames over connections that hold a bounded number of   *)
(* them (server.cpp; session_manager.cpp, sessionClient.cpp).              *)
(*                                                                         *)
(* A send blocks while the connection is full.  The handler of a           *)
(* connection sends to the recipients of a frame while it holds            *)
(* sessions_mutex; an application's poll thread answers some frames before *)
(* it reads the next one; its UI thread sends a clear while it holds       *)
(* session_mutex_, which the poll thread takes for every frame.  Who waits *)
(* for whom is WaitsFor.                                                   *)
(*                                                                         *)
(* Here all applications are in one session and stay; frames are appended  *)
(* whole, which is what write_mutex and the framing make of them (Stream). *)
(* What a frame does to a canvas is in Replication.                        *)
(***************************************************************************)
EXTENDS Integers, Sequences, FiniteSets, SequencesExt

CONSTANTS
    Host, Members,
    Joining,    \* members that have not read their JOIN_OK yet
    Capacity,   \* frames a connection holds in one direction
    MaxDraws,   \* MaxDraws[a]: strokes the user of a draws
    MaxClears,  \* MaxClears[a]: clears by the user of a
    MaxGaps     \* MaxGaps[a]: strokes before which a finds others missing

Apps == Members \cup {Host}
None == "none"

ASSUME RelayAssumption ==
    /\ Host \notin Members /\ IsFiniteSet(Members) /\ Joining \subseteq Members
    /\ None \notin Apps
    /\ Capacity \in Nat \ {0}
    /\ {MaxDraws, MaxClears, MaxGaps} \subseteq [Apps -> Nat]

VARIABLES
    up, down,           \* frames on their way from an application, and to it
    sessions_mutex,     \* the application whose handler holds it, or None
    handler,            \* the server's thread of each connection
    session_mutex_,     \* the thread of the application that holds it, or None
    ui, poll,           \* the two threads of an application
    in_session_,        \* has the application got its JOIN_OK
    left,               \* what may still happen at an application
    heard, cleared      \* the strokes and clears broadcast to it so far, and
                        \* the clears alone

server == <<sessions_mutex, handler>>
told == <<heard, cleared>>
vars == <<up, down, sessions_mutex, handler, session_mutex_, ui, poll,
          in_session_, left, told>>

Frame(kind, from, n) == [kind |-> kind, from |-> from, n |-> n]
Plain(kind) == Frame(kind, None, 0)
Doing(step, frame) == [step |-> step, frame |-> frame]
Idle(step) == Doing(step, Plain("none"))
Reading ==
    [step |-> "reading", frame |-> Plain("none"), to |-> {}, next |-> None]

Full(queue) == Len(queue) >= Capacity
Append1(queues, a, frame) == [queues EXCEPT ![a] = Append(@, frame)]

\* The frame is in the connection of r.
Hear(r, frame) ==
    /\ heard' = IF frame.kind \in {"STAMPED", "CLEAR"}
                THEN Append1(heard, r, frame) ELSE heard
    /\ cleared' = IF frame.kind = "CLEAR" THEN Append1(cleared, r, frame) ELSE cleared

\* Everybody has joined, as far as the server is concerned.
Init ==
    /\ up = [a \in Apps |-> <<>>]
    /\ down = [a \in Apps |-> IF a \in Joining THEN <<Plain("ACK")>> ELSE <<>>]
    /\ sessions_mutex = None
    /\ handler = [a \in Apps |-> Reading]
    /\ session_mutex_ = [a \in Apps |-> None]
    /\ ui = [a \in Apps |-> Idle("idle")]
    /\ poll = [a \in Apps |-> Idle("looking")]
    /\ in_session_ = [a \in Apps |-> a \notin Joining]
    /\ left = [a \in Apps |-> [draws |-> MaxDraws[a], clears |-> MaxClears[a],
                           gaps |-> MaxGaps[a]]]
    /\ heard = [a \in Apps |-> <<>>] /\ cleared = [a \in Apps |-> <<>>]

-----------------------------------------------------------------------------
(* The server: one thread for each connection.                             *)

\* Who gets a frame that came from a.  A member's stroke and a state request
\* go to the host, the host's strokes and states to the others, a clear to
\* everybody.
Recipients(frame, a) ==
    CASE frame.kind = "CLEAR" -> Apps
      [] frame.kind = "REQUEST" -> {Host}
      [] frame.kind = "DRAW" -> {Host}
      [] OTHER -> Apps \ {a}

Receive(a) ==
    /\ handler[a].step = "reading" /\ up[a] # <<>>
    /\ handler' = [handler EXCEPT ![a].step = "locking", ![a].frame = Head(up[a])]
    /\ up' = [up EXCEPT ![a] = Tail(@)]
    /\ UNCHANGED <<down, sessions_mutex, session_mutex_, ui, poll, in_session_,
                   left, told>>

\* What a handler does with a frame that is still to be sent to some: the
\* members of a session are in an unordered_map, so to any of them first.
Sending(frame, to) ==
    IF to = {} THEN {Reading}
    ELSE {[step |-> "sending", frame |-> frame, to |-> to, next |-> r] : r \in to}

\* Mutant of Lock: dispatch serves a frame without sessions_mutex.
WithoutMutex(a) ==
    /\ handler[a].step = "locking"
    /\ \E task \in Sending(handler[a].frame, Recipients(handler[a].frame, a)) :
          handler' = [handler EXCEPT ![a] = task]
    /\ UNCHANGED <<up, down, sessions_mutex, session_mutex_, ui, poll, in_session_,
                   left, told>>

Lock(a) ==
    /\ handler[a].step = "locking" /\ sessions_mutex = None
    /\ \E task \in Sending(handler[a].frame, Recipients(handler[a].frame, a)) :
          /\ handler' = [handler EXCEPT ![a] = task]
          /\ sessions_mutex' = IF task = Reading THEN None ELSE a
    /\ UNCHANGED <<up, down, session_mutex_, ui, poll, in_session_, left, told>>

\* Mutant of SendOn: the handler goes back to reading with the mutex locked.
KeepLocked(a) ==
    LET r == handler[a].next
    IN  /\ handler[a].step = "sending" /\ ~Full(down[r])
        /\ down' = Append1(down, r, handler[a].frame)
        /\ Hear(r, handler[a].frame)
        /\ \E task \in Sending(handler[a].frame, handler[a].to \ {r}) :
              handler' = [handler EXCEPT ![a] = task]
        /\ UNCHANGED <<up, sessions_mutex, session_mutex_, ui, poll, in_session_,
                       left>>

\* conn->send: returns when the frame is in the connection.  After the last
\* one the mutex is unlocked and the handler reads on.
SendOn(a) ==
    LET r == handler[a].next
    IN  /\ handler[a].step = "sending" /\ ~Full(down[r])
        /\ down' = Append1(down, r, handler[a].frame)
        /\ Hear(r, handler[a].frame)
        /\ \E task \in Sending(handler[a].frame, handler[a].to \ {r}) :
              /\ handler' = [handler EXCEPT ![a] = task]
              /\ sessions_mutex' = IF task = Reading THEN None ELSE a
        /\ UNCHANGED <<up, session_mutex_, ui, poll, in_session_, left>>

-----------------------------------------------------------------------------
(* An application's poll thread.                                           *)

Step(a, task) == poll' = [poll EXCEPT ![a] = task]
Looking == Idle("looking")
Replying(kind) == Doing("sending", Plain(kind))

\* The loop takes client_ under session_mutex_.
PollLook(a) ==
    /\ poll[a].step = "looking" /\ session_mutex_[a] = None
    /\ Step(a, Idle("reading"))
    /\ UNCHANGED <<up, down, server, session_mutex_, ui, in_session_, left, told>>

\* What the thread does with a frame before it looks for the next one.
Handling(a, frame) ==
    CASE frame.kind \in {"DRAW", "STAMPED", "ACK"} -> Doing("handling", frame)
      [] frame.kind = "REQUEST" /\ a = Host -> Replying("STATE")
      [] OTHER -> Looking

PollReceive(a) ==
    /\ poll[a].step = "reading" /\ down[a] # <<>>
    /\ Step(a, Handling(a, Head(down[a])))
    /\ down' = [down EXCEPT ![a] = Tail(@)]
    /\ UNCHANGED <<up, server, session_mutex_, ui, in_session_, left, told>>

\* handle_draw takes client_ under session_mutex_.  The host stamps the
\* operation and sends it back; a member that misses some asks for the state.
PollDraw(a) ==
    /\ poll[a].step = "handling" /\ poll[a].frame.kind # "ACK"
    /\ session_mutex_[a] = None
    /\ \/ /\ a = Host
          /\ Step(a, Doing("sending", [poll[a].frame EXCEPT !.kind = "STAMPED"]))
          /\ UNCHANGED left
       \/ a # Host /\ Step(a, Looking) /\ UNCHANGED left
       \/ /\ a # Host /\ left[a].gaps > 0
          /\ left' = [left EXCEPT ![a].gaps = @ - 1]
          /\ Step(a, Replying("REQUEST"))
    /\ UNCHANGED <<up, down, server, session_mutex_, ui, in_session_, told>>

\* handle_ack asks for the state with session_mutex_ held.
PollAck(a) ==
    /\ poll[a].step = "handling" /\ poll[a].frame.kind = "ACK"
    /\ session_mutex_[a] = None
    /\ session_mutex_' = [session_mutex_ EXCEPT ![a] = "poll"]
    /\ in_session_' = [in_session_ EXCEPT ![a] = TRUE]
    /\ Step(a, Replying("REQUEST"))
    /\ UNCHANGED <<up, down, server, ui, left, told>>

\* Mutant of PollSend: handle_ack returns without unlocking session_mutex_.
KeepSession(a) ==
    /\ poll[a].step = "sending" /\ ~Full(up[a])
    /\ up' = Append1(up, a, poll[a].frame)
    /\ Step(a, Looking)
    /\ UNCHANGED <<down, server, session_mutex_, ui, in_session_, left, told>>

PollSend(a) ==
    /\ poll[a].step = "sending" /\ ~Full(up[a])
    /\ up' = Append1(up, a, poll[a].frame)
    /\ session_mutex_' = [session_mutex_ EXCEPT ![a] = IF @ = "poll" THEN None ELSE @]
    /\ Step(a, Looking)
    /\ UNCHANGED <<down, server, ui, in_session_, left, told>>

-----------------------------------------------------------------------------
(* An application's UI thread.                                             *)

\* The host's own strokes are stamped before they are sent (engine).
UIDraw(a) ==
    /\ ui[a].step = "idle" /\ session_mutex_[a] = None
    /\ in_session_[a] /\ left[a].draws > 0
    /\ left' = [left EXCEPT ![a].draws = @ - 1]
    /\ ui' = [ui EXCEPT ![a] =
                Doing("sending", Frame(IF a = Host THEN "STAMPED" ELSE "DRAW",
                                       a, left[a].draws))]
    /\ UNCHANGED <<up, down, server, session_mutex_, poll, in_session_, told>>

\* broadcast_clear sends with session_mutex_ held.
UIClear(a) ==
    /\ ui[a].step = "idle" /\ session_mutex_[a] = None
    /\ in_session_[a] /\ left[a].clears > 0
    /\ left' = [left EXCEPT ![a].clears = @ - 1]
    /\ session_mutex_' = [session_mutex_ EXCEPT ![a] = "ui"]
    /\ ui' = [ui EXCEPT ![a] = Doing("sending", Frame("CLEAR", a, left[a].clears))]
    /\ UNCHANGED <<up, down, server, poll, in_session_, told>>

UISend(a) ==
    /\ ui[a].step = "sending" /\ ~Full(up[a])
    /\ up' = Append1(up, a, ui[a].frame)
    /\ session_mutex_' = [session_mutex_ EXCEPT ![a] = IF @ = "ui" THEN None ELSE @]
    /\ ui' = [ui EXCEPT ![a] = Idle("idle")]
    /\ UNCHANGED <<down, server, poll, in_session_, left, told>>

-----------------------------------------------------------------------------
HandlerStep(a) == Receive(a) \/ Lock(a) \/ SendOn(a)
PollStep(a) == PollLook(a) \/ PollReceive(a) \/ PollDraw(a) \/ PollAck(a) \/ PollSend(a)
UIStep(a) == UIDraw(a) \/ UIClear(a) \/ UISend(a)

Next == \E a \in Apps : HandlerStep(a) \/ PollStep(a) \/ UIStep(a)

\* Threads are scheduled.  Which waiting handler gets sessions_mutex is open,
\* but only finitely many frames are relayed: weak fairness is enough.  A user
\* need not do anything: only the UI thread's send is fair.
Fairness == \A a \in Apps : WF_vars(HandlerStep(a)) /\ WF_vars(PollStep(a))
                               /\ WF_vars(UISend(a))

Spec == Init /\ [][Next]_vars /\ Fairness

-----------------------------------------------------------------------------
(* Who waits for whom.                                                     *)

Threads == {"handler", "poll", "ui"} \X Apps

\* The thread that s waits for, if any: the one that holds the lock s is about
\* to take; the handler that is to read what s cannot send; the poll thread
\* that is to read what a handler cannot send.
WaitsFor(s) ==
    LET a == s[2]
        Lock1(task, idle, held) == IF task.step \in idle THEN {<<held, a>>} ELSE {}
        Room(task) == IF task.step = "sending" /\ Full(up[a])
                      THEN {<<"handler", a>>} ELSE {}
    IN CASE s[1] = "poll" ->
              Lock1(poll[a], {"looking", "handling"}, session_mutex_[a]) \cup Room(poll[a])
         [] s[1] = "ui" -> Lock1(ui[a], {"idle"}, session_mutex_[a]) \cup Room(ui[a])
         [] s[1] = "handler" /\ handler[a].step = "locking" ->
              {<<"handler", sessions_mutex>>}
         [] s[1] = "handler" /\ handler[a].step = "sending" ->
              IF Full(down[handler[a].next]) THEN {<<"poll", handler[a].next>>} ELSE {}
         [] OTHER -> {}

Waiting == {s \in Threads : WaitsFor(s) \cap Threads # {}}

\* Each of these threads waits for another one of them.
WaitForEachOther(S) == \A s \in S : WaitsFor(s) \cap S # {}

\* Threads that wait in a circle, or for one that does.
Circle == UNION {S \in SUBSET Waiting : WaitForEachOther(S)}

Quiet ==
    \A a \in Apps :
        /\ up[a] = <<>> /\ down[a] = <<>>
        /\ handler[a].step = "reading" /\ poll[a].step = "reading"
        /\ ui[a].step = "idle"

-----------------------------------------------------------------------------
\* The locks alone never make threads wait for each other in a circle: that
\* takes an application that has filled its connection while the server has
\* filled it in the other direction.
DeadlockNeedsFullConnection ==
    Circle # {} => \E a \in Apps : Full(up[a]) /\ Full(down[a])

\* sessions_mutex is held for a whole broadcast, so all members are sent the
\* host's strokes and everybody's clears in one order, and the host the clears
\* in that order too.
OneOrder ==
    LET Agree(s, t) == IsPrefix(s, t) \/ IsPrefix(t, s)
    IN  /\ \A m, k \in Members : Agree(heard[m], heard[k])
        /\ \A a, b \in Apps : Agree(cleared[a], cleared[b])

\* When the users stop, everything sent arrives and every thread is back where
\* it waits for the next frame, unless threads wait in a circle.
DeliveredOrDeadlocked == <>[](Quiet \/ Circle # {})

-----------------------------------------------------------------------------
(* The inductive invariant behind the two safety properties.               *)

Kinds == {"none", "ACK", "DRAW", "STAMPED", "CLEAR", "REQUEST", "STATE"}
Frames == [kind : Kinds, from : Apps \cup {None}, n : Nat]

\* What an application may send: only the host's strokes are stamped.
FramesOf(a) == IF a = Host THEN Frames ELSE {f \in Frames : f.kind # "STAMPED"}

Budget == [draws : Nat, clears : Nat, gaps : Nat]

\* Every variable has its type.
TypeOK ==
    /\ up \in [Apps -> Seq(Frames)] /\ \A a \in Apps : up[a] \in Seq(FramesOf(a))
    /\ down \in [Apps -> Seq(Frames)]
    /\ sessions_mutex \in Apps \cup {None}
    /\ handler \in [Apps -> [step : {"reading", "locking", "sending"}, frame : Frames,
                             to : SUBSET Apps, next : Apps \cup {None}]]
    /\ session_mutex_ \in [Apps -> {None, "poll", "ui"}]
    /\ ui \in [Apps -> [step : {"idle", "sending"}, frame : Frames]]
    /\ poll \in [Apps -> [step : {"looking", "reading", "handling", "sending"},
                          frame : Frames]]
    /\ in_session_ \in [Apps -> BOOLEAN]
    /\ left \in [Apps -> Budget]
    /\ heard \in [Apps -> Seq(Frames)] /\ cleared \in [Apps -> Seq(Frames)]

\* What a thread is about to send is something its application may send.
SentInv ==
    \A a \in Apps :
        /\ handler[a].frame \in FramesOf(a) /\ ui[a].frame \in FramesOf(a)
        /\ poll[a].step = "sending" => poll[a].frame \in FramesOf(a)

\* Who holds a mutex is in the middle of sending.
MutexInv ==
    \A a \in Apps :
        /\ sessions_mutex = a <=> handler[a].step = "sending"
        /\ handler[a].step = "sending" => handler[a].next \in handler[a].to
        /\ session_mutex_[a] = "ui" => ui[a].step = "sending"
        /\ session_mutex_[a] = "poll" => poll[a].step = "sending"

\* A frame of one of these kinds is still to be sent to application a.
Owed(a, kinds) ==
    /\ sessions_mutex # None
    /\ a \in handler[sessions_mutex].to
    /\ handler[sessions_mutex].frame.kind \in kinds

\* What a will have been told when the sending under way is over.
Soon(queues, a, kinds) ==
    IF Owed(a, kinds) THEN Append(queues[a], handler[sessions_mutex].frame)
    ELSE queues[a]

\* That is the same for all members, and with the clears for everybody.
SoonInv ==
    /\ \A m, k \in Members : Soon(heard, m, {"STAMPED", "CLEAR"})
                                = Soon(heard, k, {"STAMPED", "CLEAR"})
    /\ \A a, b \in Apps : Soon(cleared, a, {"CLEAR"}) = Soon(cleared, b, {"CLEAR"})

\* Which thread may hold what, and what the others are told of it.
RelayInv == TypeOK /\ SentInv /\ MutexInv /\ SoonInv
=============================================================================
