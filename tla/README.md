# SketchSync: specification and proofs

SketchSync is a shared whiteboard: an application (`src/engine`) in which people
draw, alone or in a session, and a server (`src/server`) through which the
members of a session reach one another. This directory holds TLA+ modules of the
parts of it in which order matters, configurations that check them with TLC, and
proofs checked by TLAPS. Definitions have the names of the functions they stand
for; `PROJECT.json` ("map") gives the lines of each, and "hazards" the places
in the code the properties are aimed at.

## The system

### Parts, their state and their operations

| Part (source) | State | Operations | Hard because | Correct when |
|---|---|---|---|---|
| canvas (`engine/canvas`) | `operations`, `operation_ids`, `next_seq`, `pixels` | `apply`, `clear_history`, `load`, `snapshot` | two threads, two mutexes and an atomic that is read and written in separate steps | each id once, pixels and `next_seq` in step with the history |
| server (`server/server.cpp`) | map of sessions, map of connections, a context per handler | CREATE, JOIN, LEAVE, CLOSE_SESSION, DRAW, CANVAS_CLEAR, state and state request, end of a connection | a thread per connection, raw pointers to connections, two mutexes taken in turn, sends that block while one is held | no pointer outlives its connection, no member without one, hosts are members, everybody hears the same in the same order |
| session manager and client (`engine/session`) | `joining_state_`, `in_session_`, ids, host flag (twice), `pending_operations_` | join, create, leave, close, broadcast, handlers of what arrives | answers do not say what they answer; tests and sends in separate critical sections | both ends agree when all is answered |
| replication (session manager, `engine.cpp`, server) | a canvas per application, FIFO connections | draw, relay, stamp and return, request and send the state, clear | two threads per application change the canvas and send separately | members follow the host's canvas and reach it |
| file manager (`engine/file`) | `current_file_`, `auto_save_on_`, `file_saved_seq_`, `operation_log_` | open, save, toggle auto-save, clear, shutdown | closes and opens the log around other steps; seqs start again after a clear | the file replays the canvas |
| auto-save writer (`engine/persistence`) | `queue_`, `stop_`, the file | `enqueue`, `run`, `stop` | condition variable, batches, header after the records, kills, a file that fails | everything enqueued is written, once, and the header promises no more than that |
| network manager (`engine/network`) | `stop_poll_`, `connecting_`, `connected_`, `state_`, sockets, client | connect, join, create, start local, disconnect, shutdown | three threads that join one another and share two flags | no object destroyed in use, no thread left, the screen is right |
| local server (`engine/process`) | `running_`, handles | start, stop, running | the process may end by itself | the flag says what is |
| UDP discovery (`common/udp/udpDiscovery.cpp`, `session_lookup`) | a socket per search; the server's open sessions | ask for the server of a session, answer | datagrams are late, lost or reordered; two servers have the same session ids; ports are used again | the server found has had the session |
| protocol (`common/protocol`, `common/bytes.h`, `draw_operation`) | none | encode, parse, validate | lengths inside lengths, widths | parse is the inverse of encode, and accepts what the application makes |
| sockets (`common/tcp`, `common/websocket`, `clientConnection`) | a stream, `write_mutex` | send, receive, close | several threads send on one stream, which takes and gives pieces | whole frames, in one order |
| canvas input (`process_canvas_input`) | the stroke under way, the tool | a frame's mouse state to operations | the tool may change in a stroke, a minimised window sees no release | every stroke is one the receiver accepts |
| rasterizer (`canvas.cpp`), UI (`engine/ui`) | textures | operations to pixels, layout | - | - |

### How they interact

The UI thread of an application runs `sketch_app::run`: buttons call the session,
network and file managers, and each finished stroke goes through
`process_canvas_input`: `canvas.apply` and the auto-save queue if this
application owns the canvas, and `broadcast_draw`. The poll thread
(`poll_session`) reads frames and calls the same canvas and the same auto-save
queue. A third thread (`connect_thread_`) makes one attempt to connect, and a
fourth (`persistence_writer::run`) writes the file. Connections are FIFO in
each direction. The server handles each connection on a thread of its own and
relays frames while holding `sessions_mutex`.

A stroke of a member goes to the server as a DRAW without seq, from there to
the host, which applies it (and so stamps it) and returns it; the server relays
what comes from the host to everyone else. A member that enters a session asks
for the canvas by CANVAS_STATE_REQUEST and gets the host's history; it does so
again when it sees a gap in the seqs.

## The modules

| Module | Models | Checked by | Proved in |
|---|---|---|---|
| `CanvasLog` | what a canvas promises: a log that takes operations one at a time, each id once, and shows its replay | as a property of `Canvas` | `CanvasProofs` |
| `Canvas` | `struct canvas`: one action per stretch of code between two accesses that other threads can see | `MCCanvas` | `CanvasProofs` |
| `Server` | `server.cpp`: handlers, registries, mutexes, notifications | `MCServer` | `ServerProofs` |
| `Replication` | host and members, two threads each, and the server as a relay | `MCReplication` | `ReplicationProofs` |
| `Persistence` | file manager, auto-save writer, the file, kills and restarts | `MCPersistence` | `PersistenceProofs` |
| `SessionState` | the fields of `session_manager` and `sessionClient` that say where the application is, as operators on a record | used by the next two | - |
| `ClientSession` | one connection: the buttons, the poll thread, and the handler at the other end | `MCClientSession` | `ClientSessionProofs` |
| `Connection` | `network_manager`, `server_process`: UI, connect and poll thread | `MCConnection` | `ConnectionProofs` |
| `Relay` | sends that block: handlers, poll and UI threads over connections that are full | `MCRelay` | `RelayProofs` |
| `Channel` | what the modules above take a connection to be: a FIFO queue of whole frames that may be cut off | as a property of `Transport` | `TransportProofs` |
| `Wire` | `bytes.h`, `message.cpp`, `draw_operation.cpp`: serializing, parsing and validating | used by the next ones | `TransportProofs` |
| `Stream` | one direction of a TCP or WebSocket connection: senders, `write_mutex`, pieces, the receiver's loop | part of `Transport` | `TransportProofs` |
| `Discovery` | `discover_host`, the responders, the look-up | part of `Transport` | `TransportProofs` |
| `CanvasInput` | `process_canvas_input` and the tool buttons, frame by frame | part of `Transport` | `TransportProofs` |
| `Transport` | the four before, composed | `MCTransport` | `TransportProofs` |

How they fit together: `Canvas` has every step of `apply`; `Replication` and
`Persistence` use what it was shown to be, a log (`CanvasLog`), with the one
thing that is not in the log's terms, the stamp taken before the lock, as a step
of its own. `Server` has every critical section of the server; `Replication`
and `ClientSession` use what holds of it, that a frame is relayed as a whole
under `sessions_mutex`, so that a handler is one step there. `SessionState` is
shared by `ClientSession`, in which frames matter and threads that connect do
not, and `Connection`, in which it is the other way round. All of these send
whole frames over queues without a bound. `Transport` shows the first to be so
(`Stream` refines `Channel`); `Relay` is about the second, with what frames do
left out.

**Canvas.** The variables are the fields of `canvas` with an owner for each
mutex, and for each thread its place in the function it is in and the function's
locals. An operation is its id and its seq; the picture is the sequence of
operations painted since the last fill. `Lookup` .. `Log` are the seven steps of
`apply`, `LoadHistory` .. `LoadPaint` the steps of `load`.

**Server.** A handler's place (`pc`), its `clientContext` (`ctx`) and its
locals; `sessions`, `host` and `members` are the map of sessions, `connections`
the map from member id to connection. `Notify` begins a notification under
`sessions_mutex`, `Find` and `Send` are one recipient of it, `Unlock` its end.
`client` is what a client knows once it has read what it was sent.

**Replication.** `history` and `next_seq` are the canvases; `ui` and `poll` what
the two threads of each application have still to log and to send; `up` and
`down` the connections. `room` is what the server has of a member; `Handler` is its
thread there, for which entering the session and registering the connection are
one step. `session` goes from "out" by "joining" (JOIN sent) and "in" (JOIN_OK
read) to "synchronized" (a state loaded), and back to "out" with `FinishLeave`;
an ERROR makes it "cancelled". The host begins in "joining" too, its connection
registered by `RegisterHost`. `unheard` remembers, for the properties, which
members asked and which strokes were sent when the host could not serve them yet,
and `leaving` who may still leave or has.

**Persistence.** `pc` is where the UI and the poll thread are in stamping,
logging, enqueueing, saving, opening, enabling or closing; `writer` the writer's
thread; `file` its header and records, and whether it is whole. `Kill` is the
end of the process at any other moment than in a save, `KillInSave` in a save;
`SaveFails`, `OpenFileFails` and `Fails` are a file that does not open for a save
or for the writer, and a write of the writer that fails. `toggle_auto_save` goes
from `Enable` (read the header, begin the log) by `Snapshot` to one `Refill` for
each operation of the snapshot (`todo`), with the writer running. `file.cut` remembers
what a kill or a failure has cost, for the properties to say so: "batch", records
without their header; "save", a save cut short or failed; "gap", an operation
lost although the header has passed its seq.

**ClientSession.** `session` is the application, `ctx`, `open`, `next_id` and
`ghosts` the server as far as this connection goes. Buttons that test and then
send are two steps.

**Connection.** A socket is the number of its connection, `layer` whether it is
`tcp_socket_` or `ws_socket_`; `live` are the sockets open at both ends. `ui`,
`attempt` and `poll` are the steps of the three threads. `Ask` .. `Launch` begin an
attempt, `Begin` .. `FinishSession` are the connect thread, `SayLeave` .. `ResetSession`
leaving, `SayLeave` .. `Release` disconnecting, `Loop` .. `FailDisconnected` the poll
thread. A TCP socket closes at once. Closing a WebSocket is a handshake: `Close`,
`Replace` and `Dial` (of an attempt that was stopped) begin it, `JoinPoll`, `Install`
and `Discard` come after the other end's `Answer`, and until then a receive may end or
not (`Closing`, `Abort`). `Sent` is the return of the send of a LEAVE, which waits
for room. `Try` ends in three ways: with one more try; after a try that failed, with
the server stopped; and before the first try, where `conn` has no error, with the
request and the server as it is.

**Relay.** `handler`, `poll` and `ui` are what the threads are about to send and
to whom, `sessions_mutex` and `session_mutex_` who holds them, `up` and `down`
the connections, with room for `Capacity` frames. A handler that relays has `to`,
those it has still to send to, `next` the one among them it is at. `WaitsFor`
says which thread a thread waits for in a state; `Circle` is the largest set of
waiting threads each of which waits for another of them. `heard` and `cleared` are
what each application was sent, strokes and clears, and clears alone.

**Wire, Stream, Discovery, CanvasInput, Transport.** `Wire` has no state: its
operators are the functions of the protocol on sequences of bytes, with the
widths of the code and fewer values to a byte. In `Stream` a message is passed on
in pieces of any length, and the receiver collects header and payload; `Break`
cuts off any end of what is on its way. `Discovery` has the sessions of each
server, the datagrams on their way, and the search of the client with its port;
a datagram that is lost is one never handled, and a receive that fails, which
ends a search until its time-out, is no different. `CanvasInput` is a function
from a frame's input to the next state of the stroke; `After[n]` is what n frames
may lead to. `Transport` begins either before the search or with a connection and
messages for two threads to send: strokes from `CanvasInput`, and every kind of
message.

## What the runs show

A run is one module with one configuration; its properties are the INVARIANTs
and PROPERTYs of the `.cfg`. Every property has a mutant in `PROJECT.json`, a
definition in the module (its comment begins "Mutant of") that is wrong in the
way the code could be, and with which TLC finds the property violated.

| Run | Instance | Question and answer | Distinct states |
|---|---|---|---|
| `canvas_mixed` | two threads, three ids (one shared), stamped and unstamped operations, a history for each to load, both clear | Do the lookups, locks and the atomic of `apply` and `load` keep ids, pixels and `next_seq` together? Yes: `NoDuplicateIds`, `RasterMatchesHistory`, `HistoryBelowNext`, and the canvas refines `CanvasLog` (`ImplementsLog`) | 234 835 |
| `server_orderly` | three connections (symmetric), two sessions, four members | Are the raw pointers, rosters and memberships safe for clients that enter only from outside? Yes: `NoDanglingSend`, `NoGhostMembers`, `RosterComplete` | 1.2 million |
| `server_live` | two connections, clients in any order | What is left when CREATE and JOIN come at any time, and does everything end? `HostIsMember`, `RequestsComplete`, `HostExitClosesSession` hold | 45 580 |
| `server_joinok` | two connections | Is a JOIN of a missing session rejected? No (`JoinOkNamesMember`), see Findings | - |
| `replication_members` | a host with an opened file and its CREATE_OK under way; two members who join and draw at any time, one of whom may leave and come back | Do members follow the host? `MembersFollowInOrder`, `StrokesComeBack`, `CanvasesConverge` | 158 504 |
| `replication_clears` | the host draws twice, a member once, one clear by either | What still holds then? `OneSeqPerStroke`, and `MembersShowTheHost` until the clear | 1.9 million |
| `persistence_faults` | UI and poll thread, three operations, two starts, two failures of the file, every button, kills anywhere | Can the file be trusted after kills and failures, and do two threads and a writer lose or repeat anything? `AutoSaveKeepsUp`, `SavedOnce`, `HeaderNeverAhead`, `DrawnIsSaved`, each with what a kill or a failure costs | 1.2 million |
| `persistence_close` | one thread, enable and disable | Does closing the log return? Not always, see Findings | - |
| `session_closing` | two sessions of others, which close at any time; six clicks | Do both ends agree? `SidesAgree` and `NoGhosts` as long as no session was closed, `Answered` always | 57 234 |
| `connection_live` | both protocols, crashes, lost connections, another end that may never answer, four clicks, two tries | Do three threads that join each other stop, and is what they share intact? `NoDanglingClient`, `ConnectedListens`, `GoneIsClean`; and `CallsReturn`: every call returns unless a thread waits for the other end to take a LEAVE or to close a WebSocket | 201 234 |
| `relay_full` | a host and two members, one of them just entering; one frame in each direction of a connection; two strokes, a clear, a gap | When can the server stop for ever? Only when an application and the server have filled their connection in both directions (`DeadlockNeedsFullConnection`); otherwise everything arrives (`DeliveredOrDeadlocked`), in one order (`OneOrder`) | 728 814 |
| `transport_lan` | two servers, one port, two searches; two threads that send all kinds of messages, and every stroke of five frames; 8 bytes in a TCP connection | Does what is sent come out as it was, where it should? `ImplementsChannel`, `ReadBack`, `EverythingArrives`, `JoinGoesWhereOffered`, `StrokesArriveValid` | 414 483 |

**Bounds, and why they are enough.** All are constants: `MaxSeq` (Canvas),
`MaxSessions` and `MaxMembers` (Server), `MaxClears`, `Strokes` and `Courses`
(Replication), `MaxDrawn`, `MaxRuns` and `MaxFailures` (Persistence), `MaxClicks`
and `Foreign` (ClientSession), `MaxClicks` and `MaxTries` (Connection),
`Capacity`, `MaxDraws`, `MaxClears` and `MaxGaps` (Relay), `Base`, `Room`,
`MaxSessions`, `MaxAttempts` and the frames of a stroke (Transport). Two threads
are all that use a canvas. In the server a pointer, its handler and a third party
that sends are three connections; a fourth member id lets one of them leave and
enter again. A gap needs one operation before and one after a member registers:
the host's opened file and one stroke each give it. Who leaves is the one who
draws, and comes back once (`Courses`). Clears: one is enough to begin the seqs
again on one side only. Persistence needs an operation in the file, one in a batch
and one queued behind it, any of which may be drawn after a restart; a second
failure may follow the repair of the first. In ClientSession six clicks leave one
session and enter another while the answers to both are under way. In Connection
four clicks connect, lose, reconnect and close, and a first try may come too late for a
stop or for the server. `MaxTries` is 2 for 15: the loop's
body is the same each time. In Relay a circle needs connections that are full,
which one frame does with the fewest frames drawn; each kind of answer (stamped
stroke, state, request) is sent by a poll thread at least once. In Transport a
byte has 11 values, one more than the largest opcode, so that lengths and ids take
more than one byte; 8 bytes hold a header and part of a payload, so that every
frame with a payload is cut somewhere; two servers that both number from 1 (each
has up to `MaxSessions`), and a port used twice, are what a late offer needs; five
frames make a stroke that begins with one tool, is dragged with another, and
misses a release. The actions of every module all happen in the passing runs.

**Deadlock** is checked in Canvas and Server, where a stop would be a lock held
for ever (`Terminated` is the end of all connections). In the other instances
the user may have no clicks, strokes or starts left, so it is not; in Relay
`Circle` takes its place, and finds threads that wait for ever while others run.

**Fairness.** Weak fairness of a thread's steps wherever a run checks liveness:
threads run, and what they do is bounded (`run_for` in dialling, a receive that
returns when its connection has ended). Not of users, nor of the other end of a
connection: in `Connection` neither a frame, nor room for one, nor the answer to the
closing of a WebSocket is expected (`Sent` is fair only when the connection has ended,
`Answer` and `Abort` never), so that `CallsReturn` says "unless `[]WaitsForPeer`". Without
that clause TLC refutes it. In `Server` the acquisition of `sessions_mutex` (`Locking`) is
strongly fair: a mutex that is free again and again is acquired by each thread
that waits for it. In `Replication` the handlers of the server are fair, and the
host's is registered. In `Persistence` a stroke that was begun and a button that was
pressed go on. In `Relay` handlers and poll threads are fair, and of the UI thread
only a send under way. In `Transport` the threads of both ends of a connection
are fair; searches end by their timer and need no fairness, for no property says
that a server is found.

**Preconditions.** Some constants say how the application is used; each is there
because without it a property is refuted, and what it excludes is a weakness of
the code.

- `Orderly` (Server), `Patient` (ClientSession): nobody presses Join or Create
  again before the answer. `join_session` and `create_session` test
  `in_session_`, which is set by the ACK, and the server does not test at all:
  a second request leaves a member without a handler, and a pointer that outlives
  its connection (`NoDanglingSend`, `NoGhostMembers`, `NoGhosts`, `SidesAgree`).
- `Undisturbed` in `SidesAgree` and `NoGhosts`: a late SESSION_CLOSED or ERROR of
  the session before resets `joining_state_`, and the JOIN_OK that follows is
  ignored.
- The host's idle UI thread in `replication_members`: what the two threads of the
  host send is not ordered as it is logged, and a snapshot may overtake or be
  overtaken by a DRAW (`Strokes <- HostStrokes` refutes `CanvasesConverge`).
- `unheard` in `CanvasesConverge` and `StrokesComeBack`: the server lets members in
  before the host's connection is registered (`server.cpp:207`), and the host
  drops what comes before its CREATE_OK (`session_manager.cpp:355`, `439`). A
  request of that time is not repeated: the member is without the canvas until a
  gap makes it ask again, and its stroke stays pending. Nor is a stroke of a
  member that leaves taken from its pending operations.
- `Careful` (Persistence): the user saves, opens, switches auto-save and quits
  while nothing is being drawn or written, and does not clear while auto-save
  is off. Otherwise seqs that begin again stay below `file_saved_seq_`, the
  refilling of the queue races with enqueueing, and the writer ends with
  operations queued.
- `WaitsForPeer` in `CallsReturn`: disconnecting, shutting down and replacing a
  connection wait without limit for the other end of a WebSocket to close it, too
  (`websocket.cpp:137`), and leaving for room for the LEAVE.
- `Careful` (Connection): no local server is started over a connection. Otherwise
  the poll thread ends and the screen goes on to say "Connected"
  (`ConnectedListens`); the other invariants do not need it.
- `Circle` in `DeliveredOrDeadlocked`: threads do come to wait in a circle when
  an application's connection is full both ways.
- At most one release missed by a minimised window in `StrokesArriveValid`: after
  two, a shape has three points and is refused ("shape requires two points").

## Findings

- **`server_joinok`.** `handle_join` rejects a missing session with
  `error::none`, which counts as success: the client gets JOIN_OK with member
  id 0 instead of JOIN_FAILED (`server.cpp:402`, `results.h:29`).
- **`persistence_close`.** `persistence_writer::stop` stores and notifies without
  `queue_mutex_`; between the writer's test and its sleep the notification is
  lost, and the join in `close_auto_save` hangs (`persistenceWriter.cpp:20-23`).

Other weaknesses of the code met on the way, none of which contradicts what the
repository says of itself:

- After a lost connection the client stays attached, and `connect_to_server`
  refuses with "Already connected" (`network_manager.cpp:390`,
  `session_manager.cpp:328-338`), while the UI has no way to disconnect what is not
  connected.
- A button that disconnects, or a window that closes, waits in the UI thread for the
  other end's part of the closing handshake (`network_manager.cpp:76`,
  `websocket.cpp:137`), with no limit of time.
- When the loop of `start_local_server` ends before its first try, because a stop was
  asked for or the server ended at once, `conn` is still what it was initialised to,
  which counts as success: the server is not stopped, `create_session` is called
  without a connection, and the result is success (`network_manager.cpp:361-379`,
  `results.h:26-29`). A server that is alive stays until it is stopped or the
  application ends; one that ended leaves `running_` set, and `server_process::start`
  refuses to start another.
- The server sends under `sessions_mutex` and the application's poll thread
  answers before it reads on: two full connections, and the server stops
  (`relay_full`, `Circle`).
- When two threads enqueue out of order and a write fails between, the header has
  passed an operation that is not in the file, and enabling auto-save again does
  not add it (`persistenceWriter.cpp:104-113`; the mark "gap").
- A failed save with auto-save on starts the writer from the seq of an older save:
  operations are added twice, and what was drawn while it was closed is missing
  (`file_manager.cpp:54-61`; the mark "save"). What is in a file twice, `load` and
  save keep.
- A writer that cannot open its file ends, and its queue grows; an incomplete
  record makes the file unreadable until the next save. Auto-save is shown as on
  in both cases.
- A stroke drawn while connected and in no session is neither applied nor sent
  (`session_manager.cpp:224-228`, `engine.cpp:72-81`).
- Strokes begun while connected and not in a session have ids of member 0, the
  same in every such application (`session_manager.cpp:307`).

## What is proved

The theorems hold for every value of the constants that satisfies the assumption
of the module (`CanvasAssumption`, `ServerAssumption`, `ReplicationAssumption`,
`ConnectionAssumption`, `PersistenceAssumption`, `ClientSessionAssumption`,
`RelayAssumption`, and in Transport `TransportAssumption`, `WireAssumption`,
`StreamAssumption`, `DiscoveryAssumption` and `CanvasInputAssumption`), that is
for any number of threads, operations, loaded histories, connections, sessions,
members, strokes, clicks, tries, starts, failures, servers, searches and messages,
any capacity of a connection, and any file before. A theorem that needs more says
so in its ASSUME: `Orderly`, `Careful`, `Patient` and `HostServes` are
preconditions of above, `DistinctIds` says that ids are not used twice (see "What
is not modelled"), and `DrawnWithTheMouse` is explained below. Every invariant
below was checked by TLC on the instances of the runs before it was proved; the
runs check what follows from them.

**Canvas.** The inductive invariant is `TypeOK /\ CanvasInv`, of four parts.
`MutexInv`: who owns a mutex is where the label says. `IdsInv`: `operation_ids`
are the ids of the history, and an operation past the second lookup is not
among them; so `Log` cannot add an id twice. `PixelsInv`: the pixels are the
history, or the history and the operation being logged. `NextInv` is the heart:
`next_seq` is beyond the history although it is raised by a read and a later
write. That the value read is beyond every seq of the history, and at most the
present `next_seq`, is needed at each step between them (`ApplyInv`); in `load`
the same must hold of the part of the history scanned so far, which is what
remains after `todo` (`LoadInv`). Each part has a lemma with a step per action.
From them follow `PixelsFollowHistory`, `SeqsBelowNext`, `IdsLoggedOnce` (if no
loaded history repeats an id, which `canvas::load` does not test) and
`CanvasIsALog`, the refinement.

**Server.** `TypeCorrect` holds whatever clients send; it includes that a handler at
`Send` has found a connection. For orderly clients
`RegistriesAgree` proves `ServerInv`. `NoDanglingSend` alone is not inductive:
that the handler behind a pointer is still there follows from the pointer's
having been found while a session was open whose member's context is that
handler's (`RelayInv`, `OwnerInv`), from contexts of open sessions belonging to
handlers that have not returned (`ContextInv`), and from one handler at a time
being between `sessions_mutex` and its release (`LockInv`). `ClientInv` ties what
a client believes to what the server has, which is what "orderly" is about, and
`HostInv` excepts the moment between a host's leaving and the erasure of its
session. `StepEffect` sums up what each action does to registries and contexts,
so that each part of the invariant is shown once for a few kinds of change and
not once per action. `SendsAreSafe`, `NoGhosts` and `HostsStay` follow.

`RostersAreComplete` (`RosterComplete`) needs `RosterInv` besides: a member that the
client of a joined connection has not heard of is in the roster about to be sent
to it, or in a notification under way in which the client's turn is still to come
(`HearsOfAll`, `Announcing`). For that, the connection must be registered by the
time the roster is read, and found by whoever looks it up (`IsFound`); the roster
read must be that of the session that was joined (`AskedItsOwn`); and who is said
to have left must not be, nor become, a member again (`LeftInv`).

**Connection.** `ThreadsAgree` proves the invariant `IndInv`: what one thread
may rely on because of where the others are. `AttemptInv` is the work of
`connecting_` and of joining the connect thread: one attempt or one request for
an attempt at a time, and none once a call disconnects (`Disconnecting`). `PollInv`
says where there is no poll thread because it was waited for, `SocketInv` that client
and socket belong together except between two statements of `attach` or of
disconnecting, that whoever sends a LEAVE has a client, and that nothing else is open
but what the attempt has just dialled, also while it is waiting for that to close.
`ClientsAreSafe` (`NoDanglingClient`) and `ShutdownIsComplete` (`GoneIsClean`) need
nothing else: they hold for every order of clicks, crashes and lost connections, for a
server that an attempt left running, and however long the other end takes to close;
`shutdown` stops the server itself. `ShownIsTrue`
(`ConnectedListens`) needs `Careful`; its `ShownInv` has a step for each moment
at which `connected_` is true without a poll thread.

**Replication.** Every step changes a few queues and at most two canvases, so
the proofs begin with what a step does to each variable, whatever its name
(`UpStep`, `DownStep`, `UiStep`, `PollStep`, `CanvasStep`), and use that four times.

- `TypeCorrect`: types, and `PlaceInv`, which kind of frame is where: what comes
  from the host is stamped, what comes from a member is not.
- `OneStamp` (`OneSeqPerStroke`), with `DistinctIds`: an operation is a copy
  wherever it is stamped, in a canvas, in a thread's hands or on its way. Copies
  with the same id are equal, and an operation that still asks for its stamp is in
  one place only and has no copy (`StampInv`). It needs no host that is idle and
  no bound on clears.
- `ShowsTheHost` (`MembersShowTheHost`), with `DistinctIds`: until a clear, all that
  is on its way to a synchronized canvas is in the host's already (`ShowInv`).
- `FollowsInOrder` (`MembersFollowInOrder`), with `HostServes`: the host has nothing
  of its own to draw and nobody clears. Then its history is numbered from the
  opened file on without a gap (`Numbered`), each DRAW on its way is an operation
  of it and each CANVAS_STATE a prefix of it (`OrderInv`); so a member that takes
  only what has its `next_seq` takes the next one, gaps and late snapshots
  included. `Numbered` needs the highest seq of a history, which the code keeps in
  `next_seq` and the model computes: that it exists is shown by a smallest upper
  bound (`HighestSeq`, from `WFMin`).

**Persistence.** `HeaderIsKept` proves what holds whatever the user does. One
thread at a time is in `file_manager` (`OneInv`), which says in which of its calls
there is a log (`LogInv`, `NamedInv`). `HeaderNeverAhead` is then not inductive: the
header is written from three numbers, itself, the writer's `saved`, and
`file_saved_seq` for a writer that is yet to begin, and a write of the header that
fails may take the last record with it. So `HeadInv` says of all three that they
are not beyond the highest record, and in a batch of the header that it is not
beyond the highest but the last. The run has careful users; `HeaderIsTrue` needs
none.

The other two need them, and the second half of `PersistenceProofs` shows what they
are careful for: `CalmInv` and `StillInv`, nobody draws and the writer has nothing to write
while a call of `file_manager` is under way, but for the refilling.

- `NothingTwice` (`SavedOnce`). What comes into the file again could only come from
  the refilling. It goes by seqs, and so that the records' seqs say which they are,
  three numbers must agree: the writer begins with the header (`StartInv`), the
  records are not beyond the header, or in a batch not beyond `saved` (`CoverInv`),
  and one id is one operation with one seq (`IdInv`). Then what the snapshot has
  beyond the header is in no record (`OnceSnapshot`); `OnceInv` follows it through
  snapshot, queue and the writer's hand.
- `NothingLost` (`AutoSaveKeepsUp`). While the file is not being rewritten, every
  operation of the canvas is in the file, or pending (in the queue, the writer's
  hand, a thread's hand or the snapshot, and beyond the seq the writer began with),
  or beyond the header, so that enabling adds it (`AllKept`). A writer that has
  failed keeps only the last of these, which is why a gap is what `Losing` says:
  lost, beyond the start, and not beyond the header. That what is drawn next is
  beyond the header uses `HeadInv` again, and that `next_seq` is beyond the history
  (`SeqInv`).

**ClientSession.** `TypeCorrect` is for any user; the rest is for patient ones,
and as long as no session of others is closed. Then `EndsMeet` proves `EndsInv`: what
the two ends differ by is what is under way. An entry (JOIN or CREATE) is the last
thing sent and the application waits for its answer (`EntryInv`); a goodbye is the
last thing said in a session (`ByeInv`); a grant (JOIN_OK or CREATE_OK) is the only
one, is waited for, and true of the context (`GrantInv`); and when the server has
the connection down for a session that the application is not in, a goodbye
is on its way to the one or a grant to the other (`OutsideInv`). So when an
entry is served there is no membership to forget (`NothingForgotten`: `NoGhosts`),
what needs a session finds one (`TalkInv`), no ERROR comes back, and when
nothing is under way both ends agree (`EndsAgree`: `SidesAgree`).

**Relay.** `RelayAgrees` proves `RelayInv`: which frames the threads of an
application and its handler may have in hand, stamped strokes only those of the
host (`SentInv`); who holds `sessions_mutex` or a `session_mutex_` is in the middle of
sending, and a handler that is sending holds the former (`MutexInv`); and
what everybody will have been told when the broadcast under way is over is
the same (`SoonInv`). `BroadcastsInOneOrder` (`OneOrder`) follows, for what is told so
far is that, or that without its last element. `LocksAreOrdered`
(`DeadlockNeedsFullConnection`): who waits in a circle waits behind a handler that is
sending, for all others wait for it or for a thread that does; it waits for the
poll thread of an application to read, and that one, being itself in the
circle, for its own connection to take a frame, or for its UI thread that does. So
that connection is full both ways.

**Transport.** From bytes upwards; a byte has any number of values from 11 on.

- What is serialized is parsed as what it was, for every kind of message and every
  value of its fields (`Survives`; `MessageSurvives` puts the kinds together).
  The widths are what matters: a field of 16, 32 or 64 bits lies where its reader
  looks for it (`Lies`), behind strings whose length a prefix tells. A canvas state is
  a loop over operations of different lengths, `Passes`, and so needs induction over
  the number of times it was gone through. The library's induction theorem cannot be
  used (its parameter is an operator); `Induction` and `StrongInduction` say the
  same of a set and follow from there being a smallest number outside it.
- `StreamInv`: the receiver's bytes, those on their way and those not yet written,
  one behind the other, are whole frames (`Framed`), and with a WebSocket every
  element is one. A step moves bytes from one of the three to the next, so that the
  whole stays what it was; a frame is added at its end only when nothing is left to be
  written, which is what `write_mutex` is for, and taken from its beginning only
  when the length in its header says that it is there. When the connection is lost,
  only what is before the cut must be the beginning of frames.
- `OffersInv`: an offer is of a session its server has had, though it may have been
  closed, and `host` has had the session that was wanted.
- `TransportInv` is the two of these, with what may have been sent: after a search
  nothing but the JOIN for the session wanted (`Sendable`).

From it follow `TypeCorrect`, `ReceivedReadBack` (`ReadBack`) and `JoinOffered`
(`JoinGoesWhereOffered`). `StreamIsAChannel` (`ImplementsChannel`) is the refinement of
`Channel`. Its mapping, `OnTheWay`, cuts bytes into frames by a recursive function;
that there is such a function is shown first, from functions that are right for
byte sequences up to a length (`FramesInIs`), then what it makes of a frame before
(`FirstOut`) or behind others (`LastIn`), and that of fewer bytes come fewer frames,
the others unchanged (`CutOff`). Then a step adds a frame, takes one off, cuts off
the end, or changes nothing (`StreamSteps`).

`StrokesValid` (`StrokesArriveValid`) goes by frames of the application in the same way:
`After` is what its definition says (`AfterIs`), and each frame keeps `UiInv`. A shape
has at most two points because the tool dragged with is the stroke's own. That fails
only after two missed releases: the first cannot change the tool, for the button it
would have to belong to was not pressed (`is_down`), and a release that is seen ends the
stroke. The hypothesis `DrawnWithTheMouse` says that DRAWs are such strokes, made
within as many frames as leave their points countable in 16 bits, and that a canvas
state was valid where it was sent; `MCTransport` assumes it, so TLC evaluates it.

**What the proofs found.** Two CASE expressions, in `Connection` and `Relay`, had
arms that overlap, so that their value was the checker's choice; they are
disjoint now. In `Replication` the assumption let `Start` and `Strokes` be anything
with the right values on nodes; it says now that they are functions on `Nodes`. In
`Persistence` the assumption allowed a file with more operations than may ever be
drawn, and no start at all. In `Persistence`, too, `toggle_auto_save` enqueued its whole snapshot
in one step, which left no state between the first operation enqueued and the last
for an invariant to speak of; it is op by op now, as in the code, and the writer may
be in a batch meanwhile. `AutoSaveKeepsUp` does not need the file to be whole: the
records are all there, though nobody can read them. In `Relay` a handler that relayed
to nobody, in a session of the host alone, stayed in its broadcast for ever: the
state was there, but no run asked about it. There `Circle` was a recursive
function and `OneOrder` went by selecting from sequences, neither of which can be
reasoned about; they are a set that waits for itself, and two sequences, now. In
`Wire` nothing said what the fields of a message can hold, and the loops were folds;
they are functions of the number of times gone through, now, as in the code. In
`Discovery` `MaxSessions` was for all servers together; it is for each. In `Stream` the
frames of a WebSocket were joined and cut again to say what is on its way: they are
messages, and stay so. In `Transport` nothing tied `Messages` to what threads send.

**Only model-checked.** All liveness (`RequestsComplete`, `HostExitClosesSession`,
`StrokesComeBack`, `CanvasesConverge`, `DrawnIsSaved`, `Answered`, `CallsReturn`,
`DeliveredOrDeadlocked`, `EverythingArrives`, `CloseReturns`), which is out of the
prover's reach, as are fairness and ENABLED. Every safety property of a passing run
is the property of a theorem.

## What is not modelled

- Starting and stopping the server and its accept loops, which keep no state that
  the other parts read; resolving and the addresses of sockets; `udpSocket`, which
  nothing uses.
- The rasterizer, textures, the UI's layout and dialogs: geometry, and no state
  that the other parts depend on. Which button may be pressed when is in the
  guards.
- The bytes of discovery's datagrams and the choice of network adapters.
- Frames that do not parse, and the error replies to them: every message here is
  one that the serializers make.
- The making of operation ids (they are distinct in `Canvas` unless given, and in
  `Replication`), `tool_type::clear` operations in a history, saving a
  synchronized canvas on request (`mark_synced_for_save`), another file chosen in
  a dialog.
- The sending of JOIN and CREATE in `Connection` finds room or fails (`Enter`,
  `Request`); that a send of any kind may block is in `Relay`. A handler of the server
  that ends closes its socket (`server.cpp:174`): that waits for the other end only
  after a frame that does not parse, which is left out above.
- A host that leaves within `Replication`, which ends the session (`ClientSession`
  and `Server` have that), a JOIN after one that was cancelled, and a stroke that is
  begun without a connection and sent after a whole joining.
- Data races proper. `operation_log_` is used by two threads without a lock;
  Persistence has only the outcomes in which one reads the old or the new pointer.

## Plan

Done, in this order: `CanvasLog` and `Canvas` with their proofs, `Server` with its
proofs, `Replication`, `Persistence`, `SessionState` and `ClientSession`,
`Connection`; then `Relay`, failures of the file in `Persistence`, and `Wire`,
`Stream`, `Channel`, `Discovery`, `CanvasInput` and `Transport`; members that leave
and a host registered late in `Replication`; the proofs of all these. Left:

1. `OperationIds`: how ids are made from member ids and a counter, 32 bits each,
   when they collide (member 0 among them), and `Replication` without distinct ids.
2. `Server` and `Replication` composed, as a refinement: what `Replication` takes for
   one step of a handler.
3. `Persistence`: saving a synchronized canvas on request.
