---------------------------- MODULE RelayProofs ----------------------------
(***************************************************************************)
(* Proofs about Relay, for any members and any capacity.                   *)
(***************************************************************************)
EXTENDS Relay, TLAPS

-----------------------------------------------------------------------------
(* Types.                                                                  *)

\* Frames, and what becomes of them.
LEMMA FrameType ==
    /\ \A kind \in Kinds, from \in Apps \cup {None}, n \in Nat :
          /\ Frame(kind, from, n) \in Frames /\ Frame(kind, from, n).kind = kind
    /\ \A kind \in Kinds : Plain(kind) \in Frames /\ Plain(kind).kind = kind
    /\ \A f \in Frames : [f EXCEPT !.kind = "STAMPED"] \in Frames
    /\ \A f \in Frames, a \in Apps :
          f \in FramesOf(a) <=> a = Host \/ f.kind # "STAMPED"
    /\ \A a \in Apps : FramesOf(a) \subseteq Frames
    /\ "none" \in Kinds
BY DEF Frame, Plain, Frames, FramesOf, Kinds, None

\* A thread's task, and a handler's.
LEMMA TaskType ==
    /\ \A step, f : Doing(step, f).step = step /\ Doing(step, f).frame = f
                    /\ Doing(step, f) = [step |-> step, frame |-> f]
    /\ \A step : Idle(step) = Doing(step, Plain("none"))
BY DEF Doing, Idle

\* The tasks of a handler that has a frame to send.
LEMMA SendingType ==
    ASSUME NEW f \in Frames, NEW to \in SUBSET Apps, NEW task \in Sending(f, to)
    PROVE  /\ task \in [step : {"reading", "locking", "sending"}, frame : Frames,
                        to : SUBSET Apps, next : Apps \cup {None}]
           /\ task = Reading <=> to = {}
           /\ task # Reading => /\ task.step = "sending" /\ task.frame = f
                                /\ task.to = to /\ task.next \in to
           /\ Reading.step = "reading" /\ Reading.frame = Plain("none")
BY FrameType DEF Sending, Reading

\* A frame more in one of the connections.
LEMMA AppendType ==
    ASSUME NEW queues \in [Apps -> Seq(Frames)], NEW a \in Apps, NEW f \in Frames
    PROVE  /\ Append1(queues, a, f) \in [Apps -> Seq(Frames)]
           /\ Append1(queues, a, f)[a] = Append(queues[a], f)
           /\ \A b \in Apps \ {a} : Append1(queues, a, f)[b] = queues[b]
BY DEF Append1

\* The initial state is well typed, and no thread sends.
LEMMA RelayInit == Init => RelayInv
<1> SUFFICES ASSUME Init PROVE RelayInv
  OBVIOUS
<1> USE RelayAssumption
<1>1. None \in Apps \cup {None} /\ None \notin Apps
  OBVIOUS
<1>2. Plain("none") \in Frames /\ Plain("ACK") \in Frames /\ Plain("none").kind = "none"
  BY FrameType DEF Kinds
<1>3. \A a \in Apps : Plain("none") \in FramesOf(a)
  BY <1>2, FrameType
<1>4. TypeOK
  <2>1. /\ up \in [Apps -> Seq(Frames)] /\ \A a \in Apps : up[a] \in Seq(FramesOf(a))
        /\ down \in [Apps -> Seq(Frames)]
        /\ heard \in [Apps -> Seq(Frames)] /\ cleared \in [Apps -> Seq(Frames)]
    BY <1>2 DEF Init
  <2>2. left \in [Apps -> Budget]
    BY DEF Init, Budget
  <2>3. /\ handler \in [Apps -> [step : {"reading", "locking", "sending"}, frame : Frames,
                                 to : SUBSET Apps, next : Apps \cup {None}]]
        /\ ui \in [Apps -> [step : {"idle", "sending"}, frame : Frames]]
        /\ poll \in [Apps -> [step : {"looking", "reading", "handling", "sending"},
                              frame : Frames]]
    BY <1>2 DEF Init, Reading, Idle, Doing
  <2> QED
    BY <2>1, <2>2, <2>3 DEF Init, TypeOK
<1>5. SentInv
  BY <1>3 DEF Init, SentInv, Reading, Idle, Doing
<1>6. MutexInv
  BY DEF Init, MutexInv, Reading, None
<1>7. SoonInv
  BY DEF Init, SoonInv, Soon, Owed, Apps
<1> QED
  BY <1>4, <1>5, <1>6, <1>7 DEF RelayInv

-----------------------------------------------------------------------------
(* The server's threads.                                                   *)

\* A task with its next frame.
LEMMA TaskTaken ==
    ASSUME NEW frame \in Frames,
           NEW task \in [step : {"reading", "locking", "sending"}, frame : Frames,
                         to : SUBSET Apps, next : Apps \cup {None}]
    PROVE  [task EXCEPT !.step = "locking", !.frame = frame]
             \in [step : {"reading", "locking", "sending"}, frame : Frames,
                  to : SUBSET Apps, next : Apps \cup {None}]
OBVIOUS

\* The handler takes the next frame.
LEMMA ReceiveStep ==
    ASSUME RelayInv, NEW a \in Apps, Receive(a)
    PROVE  RelayInv'
<1> USE DEF RelayInv
<1>1. up[a] \in Seq(FramesOf(a)) /\ up[a] # <<>>
  BY DEF TypeOK, Receive
<1>2. Head(up[a]) \in FramesOf(a) /\ Tail(up[a]) \in Seq(FramesOf(a))
      /\ Head(up[a]) \in Frames /\ Tail(up[a]) \in Seq(Frames)
  <2>1. FramesOf(a) \subseteq Frames /\ up[a] \in Seq(Frames)
    BY FrameType DEF TypeOK
  <2>2. Head(up[a]) \in FramesOf(a) /\ Tail(up[a]) \in Seq(FramesOf(a))
    BY <1>1
  <2>3. Tail(up[a]) \in Seq(Frames)
    BY <1>1, <2>1
  <2> QED
    BY <2>1, <2>2, <2>3
<1>3. /\ handler[a].step = "reading"
      /\ handler' = [handler EXCEPT ![a].step = "locking", ![a].frame = Head(up[a])]
      /\ up' = [up EXCEPT ![a] = Tail(@)]
      /\ UNCHANGED <<down, sessions_mutex, session_mutex_, ui, poll, in_session_,
                     left, heard, cleared>>
  BY DEF Receive, told
<1>4. TypeOK'
  <2>1. up' \in [Apps -> Seq(Frames)] /\ \A b \in Apps : up'[b] \in Seq(FramesOf(b))
    <3> HIDE DEF RelayInv
    <3>1. /\ up \in [Apps -> Seq(Frames)] /\ \A b \in Apps : up[b] \in Seq(FramesOf(b))
      BY DEF RelayInv, TypeOK
    <3> DEFINE rest == Tail(up[a])
    <3>2. up' = [up EXCEPT ![a] = rest] /\ rest \in Seq(FramesOf(a)) /\ rest \in Seq(Frames)
      BY <1>2, <1>3
    <3> HIDE DEF rest
    <3> QED
      BY <3>1, <3>2
  <2>2. handler' \in [Apps -> [step : {"reading", "locking", "sending"}, frame : Frames,
                              to : SUBSET Apps, next : Apps \cup {None}]]
    <3> DEFINE head == Head(up[a])
    <3>1. handler' = [handler EXCEPT ![a].step = "locking", ![a].frame = head]
          /\ head \in Frames
      BY <1>2, <1>3
    <3>2. handler \in [Apps -> [step : {"reading", "locking", "sending"}, frame : Frames,
                                to : SUBSET Apps, next : Apps \cup {None}]]
      BY DEF TypeOK
    <3> HIDE DEF head, RelayInv
    <3> DEFINE task == [handler[a] EXCEPT !.step = "locking", !.frame = head]
    <3>3. task \in [step : {"reading", "locking", "sending"}, frame : Frames,
                    to : SUBSET Apps, next : Apps \cup {None}]
      <4>1. handler[a] \in [step : {"reading", "locking", "sending"}, frame : Frames,
                            to : SUBSET Apps, next : Apps \cup {None}]
        BY <3>2
      <4> QED
        BY <3>1, <4>1, TaskTaken
    <3>4. handler' = [handler EXCEPT ![a] = task]
      BY <3>1, <3>2
    <3> HIDE DEF task
    <3> QED
      BY <3>2, <3>3, <3>4
  <2> QED
    BY <1>3, <2>1, <2>2 DEF TypeOK
<1>5. SentInv'
  BY <1>2, <1>3 DEF SentInv, TypeOK
<1>6. MutexInv'
  BY <1>3 DEF MutexInv, TypeOK
<1>7. SoonInv'
  <2>1. sessions_mutex # None => handler'[sessions_mutex] = handler[sessions_mutex]
    BY <1>3 DEF MutexInv, TypeOK
  <2>2. ASSUME NEW b \in Apps
        PROVE  /\ Soon(heard, b, {"STAMPED", "CLEAR"})' = Soon(heard, b, {"STAMPED", "CLEAR"})
               /\ Soon(cleared, b, {"CLEAR"})' = Soon(cleared, b, {"CLEAR"})
    <3>1. UNCHANGED <<sessions_mutex, heard, cleared>>
      BY <1>3
    <3>2. CASE sessions_mutex = None
      BY <3>1, <3>2 DEF Soon, Owed
    <3>3. CASE sessions_mutex # None
      BY <2>1, <3>1, <3>3 DEF Soon, Owed
    <3> QED
      BY <3>2, <3>3
  <2> QED
    BY <2>2 DEF SoonInv, Apps
<1> QED
  BY <1>4, <1>5, <1>6, <1>7

\* All members are among the recipients of what is broadcast, and everybody is
\* among those of a clear.
LEMMA BroadcastToAll ==
    ASSUME NEW a \in Apps, NEW f \in FramesOf(a)
    PROVE  /\ f.kind \in {"STAMPED", "CLEAR"} => Members \subseteq Recipients(f, a)
           /\ f.kind = "CLEAR" => Recipients(f, a) = Apps
           /\ Recipients(f, a) \subseteq Apps
<1>1. f \in Frames /\ (f.kind = "STAMPED" => a = Host)
  BY FrameType
<1>2. CASE f.kind = "CLEAR"
  BY <1>2 DEF Recipients, Apps
<1>3. CASE f.kind = "STAMPED"
  BY <1>1, <1>3, RelayAssumption DEF Recipients, Apps
<1>4. CASE f.kind \notin {"CLEAR", "STAMPED"}
  BY <1>4 DEF Recipients, Apps
<1> QED
  BY <1>2, <1>3, <1>4

\* The handler takes sessions_mutex: everybody is still to be sent the frame.
LEMMA LockStep ==
    ASSUME RelayInv, NEW a \in Apps, Lock(a)
    PROVE  RelayInv'
<1> USE DEF RelayInv
<1> DEFINE f == handler[a].frame
           to == Recipients(f, a)
<1>1. PICK task \in Sending(f, to) :
          /\ handler' = [handler EXCEPT ![a] = task]
          /\ sessions_mutex' = IF task = Reading THEN None ELSE a
  BY DEF Lock
<1>2. /\ handler[a].step = "locking" /\ sessions_mutex = None
      /\ UNCHANGED <<up, down, session_mutex_, ui, poll, in_session_, left, heard, cleared>>
  BY DEF Lock, told
<1>3. f \in FramesOf(a) /\ f \in Frames
  BY FrameType DEF SentInv
<1>4. to \subseteq Apps
  BY <1>3, BroadcastToAll
<1>5. /\ f.kind \in {"STAMPED", "CLEAR"} => Members \subseteq to
      /\ f.kind = "CLEAR" => to = Apps
  BY <1>3, BroadcastToAll
<1>6. None \notin Apps
  BY RelayAssumption
<1> HIDE DEF to, f
<1>7. /\ task \in [step : {"reading", "locking", "sending"}, frame : Frames,
                   to : SUBSET Apps, next : Apps \cup {None}]
      /\ task = Reading <=> to = {}
      /\ task # Reading => /\ task.step = "sending" /\ task.frame = f
                           /\ task.to = to /\ task.next \in to
      /\ Reading.step = "reading" /\ Reading.frame = Plain("none")
  BY <1>1, <1>3, <1>4, SendingType
<1>8. TypeOK'
  BY <1>1, <1>2, <1>7 DEF TypeOK
<1>9. SentInv'
  <2>1. Plain("none") \in FramesOf(a)
    BY FrameType
  <2>2. task.frame \in FramesOf(a)
    BY <1>3, <1>7, <2>1
  <2> QED
    BY <1>1, <1>2, <2>2 DEF SentInv, TypeOK
<1>10. MutexInv'
  BY <1>1, <1>2, <1>6, <1>7 DEF MutexInv, TypeOK
<1>11. SoonInv'
  <2>1. \A b : \A kinds : ~Owed(b, kinds)
    BY <1>2 DEF Owed
  <2>2. /\ \A m, k \in Members : heard[m] = heard[k]
        /\ \A b, c \in Apps : cleared[b] = cleared[c]
    BY <2>1 DEF SoonInv, Soon
  <2>3. CASE to = {}
    <3>1. \A b : \A kinds : ~Owed(b, kinds)'
      BY <1>1, <1>7, <2>3 DEF Owed
    <3> QED
      BY <1>2, <2>2, <3>1 DEF SoonInv, Soon
  <2>4. CASE to # {}
    <3>1. sessions_mutex' = a /\ a # None /\ handler'[a].to = to /\ handler'[a].frame = f
      BY <1>1, <1>6, <1>7, <2>4 DEF TypeOK
    <3>2. \A kinds : \A b : Owed(b, kinds)' <=> b \in to /\ f.kind \in kinds
      BY <3>1 DEF Owed
    <3>3. \A m, k \in Members : Owed(m, {"STAMPED", "CLEAR"})' <=> Owed(k, {"STAMPED", "CLEAR"})'
      BY <1>5, <3>2
    <3>4. \A b, c \in Apps : Owed(b, {"CLEAR"})' <=> Owed(c, {"CLEAR"})'
      BY <1>5, <3>2
    <3> QED
      BY <1>2, <2>2, <3>1, <3>3, <3>4 DEF SoonInv, Soon
  <2> QED
    BY <2>3, <2>4
<1> QED
  BY <1>8, <1>9, <1>10, <1>11

\* What b will have been told when f has been sent to all of rest, and the
\* queues once it has been sent to r, if it is of one of the kinds told.
ToldAt(queues, b, f, rest, kinds) ==
    IF b \in rest /\ f.kind \in kinds THEN Append(queues[b], f) ELSE queues[b]
Given(queues, r, f, kinds) ==
    IF f.kind \in kinds THEN Append1(queues, r, f) ELSE queues

\* The next recipient has the frame: what it will have been told is the same.
LEMMA SendOnStep ==
    ASSUME RelayInv, NEW a \in Apps, SendOn(a)
    PROVE  RelayInv'
<1> USE DEF RelayInv
<1> DEFINE f == handler[a].frame
           r == handler[a].next
           rest == handler[a].to \ {r}
<1>1. PICK task \in Sending(f, rest) :
          /\ handler' = [handler EXCEPT ![a] = task]
          /\ sessions_mutex' = IF task = Reading THEN None ELSE a
  BY DEF SendOn
<1>2. /\ handler[a].step = "sending" /\ sessions_mutex = a
      /\ down' = Append1(down, r, f) /\ Hear(r, f)
      /\ UNCHANGED <<up, session_mutex_, ui, poll, in_session_, left>>
  BY DEF SendOn, MutexInv
<1>3. f \in FramesOf(a) /\ f \in Frames
  BY FrameType DEF SentInv
<1>4. rest \subseteq Apps /\ r \in handler[a].to /\ handler[a].to = rest \cup {r} /\ r \in Apps
      /\ r \notin rest
  BY <1>2 DEF TypeOK, MutexInv
<1>5. None \notin Apps /\ a # None
  BY RelayAssumption
<1>6. /\ heard' = IF f.kind \in {"STAMPED", "CLEAR"} THEN Append1(heard, r, f) ELSE heard
      /\ cleared' = IF f.kind \in {"CLEAR"} THEN Append1(cleared, r, f) ELSE cleared
  BY <1>2 DEF Hear
<1>7. \A kinds : \A b : Owed(b, kinds) <=> b \in rest \cup {r} /\ f.kind \in kinds
  BY <1>2, <1>4, <1>5 DEF Owed
<1> HIDE DEF rest, f, r
<1>8. /\ task \in [step : {"reading", "locking", "sending"}, frame : Frames,
                   to : SUBSET Apps, next : Apps \cup {None}]
      /\ task = Reading <=> rest = {}
      /\ task # Reading => /\ task.step = "sending" /\ task.frame = f
                           /\ task.to = rest /\ task.next \in rest
      /\ Reading.step = "reading" /\ Reading.frame = Plain("none")
  BY <1>1, <1>3, <1>4, SendingType
<1>9. TypeOK'
  <2>1. down' \in [Apps -> Seq(Frames)]
    BY <1>2, <1>3, <1>4, AppendType DEF TypeOK
  <2>2. heard' \in [Apps -> Seq(Frames)] /\ cleared' \in [Apps -> Seq(Frames)]
    BY <1>3, <1>4, <1>6, AppendType DEF TypeOK
  <2> QED
    BY <1>1, <1>2, <1>8, <2>1, <2>2 DEF TypeOK
<1>10. SentInv'
  <2>1. Plain("none") \in FramesOf(a)
    BY FrameType
  <2>2. task.frame \in FramesOf(a)
    BY <1>3, <1>8, <2>1
  <2> QED
    BY <1>1, <1>2, <2>2 DEF SentInv, TypeOK
<1>11. MutexInv'
  BY <1>1, <1>2, <1>5, <1>8 DEF MutexInv, TypeOK
<1>12. SoonInv'
  <2>1. \A kinds : \A b \in Apps : Owed(b, kinds)' <=> b \in rest /\ f.kind \in kinds
    BY <1>1, <1>5, <1>8 DEF Owed, TypeOK
  <2>2. rest # {} => handler'[sessions_mutex'].frame = f
    BY <1>1, <1>8 DEF TypeOK
  <2>3. ASSUME NEW b \in Apps
        PROVE  /\ Soon(heard, b, {"STAMPED", "CLEAR"})' = Soon(heard, b, {"STAMPED", "CLEAR"})
               /\ Soon(cleared, b, {"CLEAR"})' = Soon(cleared, b, {"CLEAR"})
    <3>1. handler[sessions_mutex].frame = f
      BY <1>2 DEF f
    <3>2. Soon(heard, b, {"STAMPED", "CLEAR"})' = Soon(heard, b, {"STAMPED", "CLEAR"})
      <4> DEFINE K == {"STAMPED", "CLEAR"}
      <4>1. heard \in [Apps -> Seq(Frames)]
            /\ heard' = Given(heard, r, f, K)
        BY <1>6 DEF TypeOK, Given
      <4> HIDE DEF K
      <4>2. Soon(heard, b, K)' = ToldAt(heard', b, f, rest, K)
        BY <2>1, <2>2 DEF Soon, ToldAt
      <4>3. Soon(heard, b, K) = ToldAt(heard, b, f, rest \cup {r}, K)
        BY <1>7, <3>1 DEF Soon, ToldAt
      <4>4. ToldAt(Given(heard, r, f, K), b, f, rest, K)
               = ToldAt(heard, b, f, rest \cup {r}, K)
        <5>1. CASE f.kind \notin K
          BY <5>1 DEF ToldAt, Given
        <5>2. CASE f.kind \in K /\ b = r
          BY <1>4, <4>1, <5>2 DEF Append1, ToldAt, Given
        <5>3. CASE f.kind \in K /\ b # r
          BY <1>4, <4>1, <5>3 DEF Append1, ToldAt, Given
        <5> QED
          BY <5>1, <5>2, <5>3
      <4>5. Soon(heard, b, K)' = Soon(heard, b, K)
        BY <4>1, <4>2, <4>3, <4>4
      <4> QED
        BY <4>5 DEF K
    <3>3. Soon(cleared, b, {"CLEAR"})' = Soon(cleared, b, {"CLEAR"})
      <4> DEFINE K == {"CLEAR"}
      <4>1. cleared \in [Apps -> Seq(Frames)]
            /\ cleared' = Given(cleared, r, f, K)
        BY <1>6 DEF TypeOK, Given
      <4> HIDE DEF K
      <4>2. Soon(cleared, b, K)' = ToldAt(cleared', b, f, rest, K)
        BY <2>1, <2>2 DEF Soon, ToldAt
      <4>3. Soon(cleared, b, K) = ToldAt(cleared, b, f, rest \cup {r}, K)
        BY <1>7, <3>1 DEF Soon, ToldAt
      <4>4. ToldAt(Given(cleared, r, f, K), b, f, rest, K)
               = ToldAt(cleared, b, f, rest \cup {r}, K)
        <5>1. CASE f.kind \notin K
          BY <5>1 DEF ToldAt, Given
        <5>2. CASE f.kind \in K /\ b = r
          BY <1>4, <4>1, <5>2 DEF Append1, ToldAt, Given
        <5>3. CASE f.kind \in K /\ b # r
          BY <1>4, <4>1, <5>3 DEF Append1, ToldAt, Given
        <5> QED
          BY <5>1, <5>2, <5>3
      <4>5. Soon(cleared, b, K)' = Soon(cleared, b, K)
        BY <4>1, <4>2, <4>3, <4>4
      <4> QED
        BY <4>5 DEF K
    <3> QED
      BY <3>2, <3>3
  <2> QED
    BY <2>3 DEF SoonInv, Apps
<1> QED
  BY <1>9, <1>10, <1>11, <1>12

-----------------------------------------------------------------------------
(* The applications' threads.                                              *)

UITasks == [step : {"idle", "sending"}, frame : Frames]
PollTasks == [step : {"looking", "reading", "handling", "sending"}, frame : Frames]

\* Something less that an application may still do.
LEMMA SpentType ==
    ASSUME left \in [Apps -> Budget], NEW a \in Apps
    PROVE  /\ left[a].draws > 0 => [left EXCEPT ![a].draws = @ - 1] \in [Apps -> Budget]
           /\ left[a].clears > 0 => [left EXCEPT ![a].clears = @ - 1] \in [Apps -> Budget]
           /\ left[a].gaps > 0 => [left EXCEPT ![a].gaps = @ - 1] \in [Apps -> Budget]
<1>1. left[a] \in Budget
  OBVIOUS
<1>2. /\ left[a].draws > 0 => [left[a] EXCEPT !.draws = @ - 1] \in Budget
      /\ left[a].clears > 0 => [left[a] EXCEPT !.clears = @ - 1] \in Budget
      /\ left[a].gaps > 0 => [left[a] EXCEPT !.gaps = @ - 1] \in Budget
  BY <1>1 DEF Budget
<1> QED
  BY <1>2

\* What the threads of an application do to the server: nothing but the frames
\* they send.  What is to be shown of them is about themselves.
LEMMA AppStep ==
    ASSUME RelayInv, NEW a \in Apps, UNCHANGED <<server, told>>,
           /\ up' \in [Apps -> Seq(Frames)] /\ down' \in [Apps -> Seq(Frames)]
           /\ up'[a] \in Seq(FramesOf(a)) /\ \A b \in Apps \ {a} : up'[b] = up[b]
           /\ ui' \in [Apps -> UITasks] /\ poll' \in [Apps -> PollTasks]
           /\ session_mutex_' \in [Apps -> {None, "poll", "ui"}]
           /\ in_session_' \in [Apps -> BOOLEAN] /\ left' \in [Apps -> Budget],
           \A b \in Apps \ {a} : /\ ui'[b] = ui[b] /\ poll'[b] = poll[b]
                                 /\ session_mutex_'[b] = session_mutex_[b],
           ui'[a].frame \in FramesOf(a),
           poll'[a].step = "sending" => poll'[a].frame \in FramesOf(a),
           session_mutex_'[a] = "ui" => ui'[a].step = "sending",
           session_mutex_'[a] = "poll" => poll'[a].step = "sending"
    PROVE  RelayInv'
<1>1. UNCHANGED <<handler, sessions_mutex, heard, cleared>>
  BY DEF server, told
<1>2. TypeOK'
  <2>1. \A b \in Apps : up'[b] \in Seq(FramesOf(b))
    BY DEF RelayInv, TypeOK
  <2> QED
    BY <1>1, <2>1 DEF RelayInv, TypeOK, UITasks, PollTasks
<1>3. SentInv'
  BY <1>1 DEF RelayInv, SentInv
<1>4. MutexInv'
  <2> SUFFICES ASSUME NEW b \in Apps
               PROVE  /\ sessions_mutex' = b <=> handler'[b].step = "sending"
                      /\ handler'[b].step = "sending" => handler'[b].next \in handler'[b].to
                      /\ session_mutex_'[b] = "ui" => ui'[b].step = "sending"
                      /\ session_mutex_'[b] = "poll" => poll'[b].step = "sending"
    BY DEF MutexInv
  <2>1. MutexInv
    BY DEF RelayInv
  <2>2. CASE b = a
    BY <1>1, <2>1, <2>2 DEF MutexInv
  <2>3. CASE b # a
    BY <1>1, <2>1, <2>3 DEF MutexInv
  <2> QED
    BY <2>2, <2>3
<1>5. SoonInv'
  BY <1>1 DEF RelayInv, SoonInv, Soon, Owed
<1> QED
  BY <1>2, <1>3, <1>4, <1>5 DEF RelayInv

\* The poll thread.
LEMMA PollKeeps ==
    ASSUME RelayInv, NEW a \in Apps, PollStep(a)
    PROVE  RelayInv'
<1>0. /\ up \in [Apps -> Seq(Frames)] /\ up[a] \in Seq(FramesOf(a))
      /\ down \in [Apps -> Seq(Frames)] /\ session_mutex_ \in [Apps -> {None, "poll", "ui"}]
      /\ ui \in [Apps -> UITasks] /\ poll \in [Apps -> PollTasks]
      /\ in_session_ \in [Apps -> BOOLEAN] /\ left \in [Apps -> Budget]
      /\ poll[a].step \in {"looking", "reading", "handling", "sending"}
      /\ poll[a].frame \in Frames
  BY DEF RelayInv, TypeOK, UITasks, PollTasks
<1>1. /\ ui[a].frame \in FramesOf(a)
      /\ poll[a].step = "sending" => poll[a].frame \in FramesOf(a)
      /\ session_mutex_[a] = "ui" => ui[a].step = "sending"
      /\ session_mutex_[a] = "poll" => poll[a].step = "sending"
  BY DEF RelayInv, SentInv, MutexInv
<1>2. \A kind \in Kinds : /\ Plain(kind) \in Frames
                          /\ kind # "STAMPED" => Plain(kind) \in FramesOf(a)
  BY FrameType
<1>3. \A f \in Frames, step \in {"looking", "reading", "handling", "sending"} :
         Doing(step, f) \in PollTasks /\ Doing(step, f).step = step
         /\ Doing(step, f).frame = f
  BY DEF Doing, PollTasks
<1>4. /\ Looking \in PollTasks /\ Looking.step = "looking"
      /\ \A kind \in Kinds \ {"STAMPED"} :
            /\ Replying(kind) \in PollTasks /\ Replying(kind).step = "sending"
            /\ Replying(kind).frame \in FramesOf(a)
  BY <1>2, <1>3, FrameType DEF Looking, Replying, Idle
<1>5. CASE PollLook(a)
  <2> DEFINE task == Idle("reading")
  <2>1. task \in PollTasks /\ task.step = "reading"
    BY <1>3, FrameType DEF Idle
  <2>2. /\ poll' = [poll EXCEPT ![a] = task] /\ poll[a].step = "looking"
        /\ UNCHANGED <<up, down, server, session_mutex_, ui, in_session_, left, told>>
    BY <1>5 DEF PollLook, Step
  <2> HIDE DEF task
  <2> QED
    BY <1>0, <1>1, <2>1, <2>2, AppStep
<1>6. CASE PollReceive(a)
  <2>1. Head(down[a]) \in Frames /\ down' \in [Apps -> Seq(Frames)]
    <3>1. down[a] \in Seq(Frames) /\ down[a] # <<>> /\ down' = [down EXCEPT ![a] = Tail(@)]
      BY <1>0, <1>6 DEF PollReceive
    <3> QED
      BY <1>0, <3>1
  <2> DEFINE task == Handling(a, Head(down[a]))
  <2>2. task \in PollTasks /\ (task.step = "sending" => task.frame \in FramesOf(a))
    BY <1>3, <1>4, <2>1 DEF Handling, Kinds
  <2>3. /\ poll' = [poll EXCEPT ![a] = task] /\ poll[a].step = "reading"
        /\ UNCHANGED <<up, server, session_mutex_, ui, in_session_, left, told>>
    BY <1>6 DEF PollReceive, Step
  <2> HIDE DEF task
  <2> QED
    BY <1>0, <1>1, <2>1, <2>2, <2>3, AppStep
<1>7. CASE PollDraw(a)
  <2>1. /\ Doing("sending", [poll[a].frame EXCEPT !.kind = "STAMPED"]) \in PollTasks
        /\ Doing("sending", [poll[a].frame EXCEPT !.kind = "STAMPED"]).frame \in Frames
    BY <1>0, <1>3, FrameType
  <2>2. a = Host => FramesOf(a) = Frames
    BY DEF FramesOf
  <2>3. PICK task \in PollTasks :
            /\ poll' = [poll EXCEPT ![a] = task]
            /\ task.step = "sending" => task.frame \in FramesOf(a)
    BY <1>4, <1>7, <2>1, <2>2 DEF PollDraw, Step, Kinds
  <2>4. left' \in [Apps -> Budget]
    <3>1. CASE UNCHANGED left
      BY <1>0, <3>1
    <3>2. CASE left[a].gaps > 0 /\ left' = [left EXCEPT ![a].gaps = @ - 1]
      BY <1>0, <3>2, SpentType
    <3> QED
      BY <1>7, <3>1, <3>2 DEF PollDraw
  <2>5. /\ poll[a].step = "handling"
        /\ UNCHANGED <<up, down, server, session_mutex_, ui, in_session_, told>>
    BY <1>7 DEF PollDraw
  <2> QED
    BY <1>0, <1>1, <2>3, <2>4, <2>5, AppStep
<1>8. CASE PollAck(a)
  <2> DEFINE task == Replying("REQUEST")
  <2>1. task \in PollTasks /\ task.step = "sending" /\ task.frame \in FramesOf(a)
    BY <1>4 DEF Kinds
  <2>2. /\ poll' = [poll EXCEPT ![a] = task]
        /\ session_mutex_' = [session_mutex_ EXCEPT ![a] = "poll"]
        /\ in_session_' = [in_session_ EXCEPT ![a] = TRUE]
        /\ UNCHANGED <<up, down, server, ui, left, told>>
    BY <1>8 DEF PollAck, Step
  <2> HIDE DEF task
  <2> QED
    BY <1>0, <1>1, <2>1, <2>2, AppStep
<1>9. CASE PollSend(a)
  <2> DEFINE f == poll[a].frame
  <2>1. f \in FramesOf(a) /\ f \in Frames
    BY <1>0, <1>1, <1>9 DEF PollSend
  <2>2. /\ up' = Append1(up, a, f) /\ poll' = [poll EXCEPT ![a] = Looking]
        /\ session_mutex_' = [session_mutex_ EXCEPT ![a] = IF @ = "poll" THEN None ELSE @]
        /\ UNCHANGED <<down, server, ui, in_session_, left, told>>
    BY <1>9 DEF PollSend, Step
  <2> HIDE DEF f
  <2>3. /\ up' \in [Apps -> Seq(Frames)] /\ up'[a] = Append(up[a], f)
        /\ \A b \in Apps \ {a} : up'[b] = up[b]
    BY <1>0, <2>1, <2>2 DEF Append1
  <2>4. up'[a] \in Seq(FramesOf(a))
    BY <1>0, <2>1, <2>3
  <2>5. /\ session_mutex_' \in [Apps -> {None, "poll", "ui"}]
        /\ session_mutex_'[a] # "poll"
        /\ session_mutex_'[a] = "ui" => session_mutex_[a] = "ui"
        /\ \A b \in Apps \ {a} : session_mutex_'[b] = session_mutex_[b]
    BY <1>0, <2>2 DEF None
  <2> QED
    BY <1>0, <1>1, <1>4, <2>1, <2>2, <2>3, <2>4, <2>5, AppStep
<1> QED
  BY <1>5, <1>6, <1>7, <1>8, <1>9 DEF PollStep

\* The UI thread.
LEMMA UIKeeps ==
    ASSUME RelayInv, NEW a \in Apps, UIStep(a)
    PROVE  RelayInv'
<1>0. /\ up \in [Apps -> Seq(Frames)] /\ up[a] \in Seq(FramesOf(a))
      /\ down \in [Apps -> Seq(Frames)] /\ session_mutex_ \in [Apps -> {None, "poll", "ui"}]
      /\ ui \in [Apps -> UITasks] /\ poll \in [Apps -> PollTasks]
      /\ in_session_ \in [Apps -> BOOLEAN] /\ left \in [Apps -> Budget]
  BY DEF RelayInv, TypeOK, UITasks, PollTasks
<1>1. /\ ui[a].frame \in FramesOf(a)
      /\ poll[a].step = "sending" => poll[a].frame \in FramesOf(a)
      /\ session_mutex_[a] = "ui" => ui[a].step = "sending"
      /\ session_mutex_[a] = "poll" => poll[a].step = "sending"
  BY DEF RelayInv, SentInv, MutexInv
<1>2. \A f \in Frames, step \in {"idle", "sending"} :
         Doing(step, f) \in UITasks /\ Doing(step, f).step = step
         /\ Doing(step, f).frame = f
  BY DEF Doing, UITasks
<1>3. \A b \in Apps : left[b].draws \in Nat /\ left[b].clears \in Nat
  BY <1>0 DEF Budget
<1>4. CASE UIDraw(a)
  <2> DEFINE task == Doing("sending", Frame(IF a = Host THEN "STAMPED" ELSE "DRAW",
                                            a, left[a].draws))
  <2>1. task \in UITasks /\ task.step = "sending" /\ task.frame \in FramesOf(a)
    BY <1>2, <1>3, FrameType DEF Kinds
  <2>2. /\ ui' = [ui EXCEPT ![a] = task] /\ ui[a].step = "idle"
        /\ UNCHANGED <<up, down, server, session_mutex_, poll, in_session_, told>>
    BY <1>4 DEF UIDraw
  <2>3. left' \in [Apps -> Budget]
    BY <1>0, <1>4, SpentType DEF UIDraw
  <2> HIDE DEF task
  <2> QED
    BY <1>0, <1>1, <2>1, <2>2, <2>3, AppStep
<1>5. CASE UIClear(a)
  <2> DEFINE task == Doing("sending", Frame("CLEAR", a, left[a].clears))
  <2>1. task \in UITasks /\ task.step = "sending" /\ task.frame \in FramesOf(a)
    BY <1>2, <1>3, FrameType DEF Kinds
  <2>2. /\ ui' = [ui EXCEPT ![a] = task]
        /\ session_mutex_' = [session_mutex_ EXCEPT ![a] = "ui"]
        /\ UNCHANGED <<up, down, server, poll, in_session_, told>>
    BY <1>5 DEF UIClear
  <2>3. left' \in [Apps -> Budget]
    BY <1>0, <1>5, SpentType DEF UIClear
  <2> HIDE DEF task
  <2> QED
    BY <1>0, <1>1, <2>1, <2>2, <2>3, AppStep
<1>6. CASE UISend(a)
  <2> DEFINE f == ui[a].frame
             task == Idle("idle")
  <2>1. f \in FramesOf(a) /\ f \in Frames
    BY <1>1, FrameType
  <2>2. task \in UITasks /\ task.step = "idle" /\ task.frame \in FramesOf(a)
    BY <1>2, FrameType DEF Idle
  <2>3. /\ up' = Append1(up, a, f) /\ ui' = [ui EXCEPT ![a] = task]
        /\ session_mutex_' = [session_mutex_ EXCEPT ![a] = IF @ = "ui" THEN None ELSE @]
        /\ UNCHANGED <<down, server, poll, in_session_, left, told>>
    BY <1>6 DEF UISend
  <2> HIDE DEF f, task
  <2>4. /\ up' \in [Apps -> Seq(Frames)] /\ up'[a] = Append(up[a], f)
        /\ \A b \in Apps \ {a} : up'[b] = up[b]
    BY <1>0, <2>1, <2>3 DEF Append1
  <2>5. up'[a] \in Seq(FramesOf(a))
    BY <1>0, <2>1, <2>4
  <2>6. /\ session_mutex_' \in [Apps -> {None, "poll", "ui"}]
        /\ session_mutex_'[a] # "ui"
        /\ session_mutex_'[a] = "poll" => session_mutex_[a] = "poll"
        /\ \A b \in Apps \ {a} : session_mutex_'[b] = session_mutex_[b]
    BY <1>0, <2>3 DEF None
  <2> QED
    BY <1>0, <1>1, <2>2, <2>3, <2>4, <2>5, <2>6, AppStep
<1> QED
  BY <1>4, <1>5, <1>6 DEF UIStep

\* Every step keeps the invariant.
LEMMA RelayStep == RelayInv /\ [Next]_vars => RelayInv'
<1> SUFFICES ASSUME RelayInv, [Next]_vars PROVE RelayInv'
  OBVIOUS
<1>1. CASE UNCHANGED vars
  BY <1>1 DEF vars, told, RelayInv, TypeOK, SentInv, MutexInv, SoonInv, Soon, Owed
<1>2. ASSUME NEW a \in Apps, HandlerStep(a) PROVE RelayInv'
  BY <1>2, ReceiveStep, LockStep, SendOnStep DEF HandlerStep
<1> QED
  BY <1>1, <1>2, PollKeeps, UIKeeps DEF Next

-----------------------------------------------------------------------------
(* What follows.                                                           *)

\* For whom the threads of an application wait, and those of the server.
LEMMA Waits ==
    ASSUME RelayInv, NEW a \in Apps, NEW S \in SUBSET Threads, NEW s \in S,
           WaitForEachOther(S), s[2] = a
    PROVE  /\ s = <<"ui", a>> =>
                \/ ui[a].step = "idle" /\ <<session_mutex_[a], a>> \in S
                \/ ui[a].step = "sending" /\ Full(up[a]) /\ <<"handler", a>> \in S
           /\ s = <<"poll", a>> =>
                \/ /\ poll[a].step \in {"looking", "handling"}
                   /\ <<session_mutex_[a], a>> \in S
                \/ poll[a].step = "sending" /\ Full(up[a]) /\ <<"handler", a>> \in S
           /\ s = <<"handler", a>> =>
                \/ handler[a].step = "locking" /\ <<"handler", sessions_mutex>> \in S
                \/ /\ handler[a].step = "sending" /\ Full(down[handler[a].next])
                   /\ <<"poll", handler[a].next>> \in S
<1>1. WaitsFor(s) \cap S # {}
  BY DEF WaitForEachOther
<1>2. ASSUME s = <<"ui", a>>
      PROVE  \/ ui[a].step = "idle" /\ <<session_mutex_[a], a>> \in S
             \/ ui[a].step = "sending" /\ Full(up[a]) /\ <<"handler", a>> \in S
  BY <1>1, <1>2 DEF WaitsFor
<1>3. ASSUME s = <<"poll", a>>
      PROVE  \/ /\ poll[a].step \in {"looking", "handling"}
                /\ <<session_mutex_[a], a>> \in S
             \/ poll[a].step = "sending" /\ Full(up[a]) /\ <<"handler", a>> \in S
  BY <1>1, <1>3 DEF WaitsFor
<1>4. ASSUME s = <<"handler", a>>
      PROVE  \/ handler[a].step = "locking" /\ <<"handler", sessions_mutex>> \in S
             \/ /\ handler[a].step = "sending" /\ Full(down[handler[a].next])
                /\ <<"poll", handler[a].next>> \in S
  BY <1>1, <1>4 DEF WaitsFor
<1> QED
  BY <1>2, <1>3, <1>4

\* Threads that wait for each other need a connection that is full both ways:
\* a handler that sends waits for a poll thread, and that for its connection,
\* itself or behind its UI thread.
LEMMA CircleIsFull ==
    ASSUME RelayInv, NEW S \in SUBSET Threads, WaitForEachOther(S), S # {}
    PROVE  \E a \in Apps : Full(up[a]) /\ Full(down[a])
<1> SUFFICES ASSUME \A a \in Apps : ~(Full(up[a]) /\ Full(down[a]))
             PROVE  FALSE
  OBVIOUS
<1>0. /\ None \notin Apps
      /\ \A k : \A a : <<k, a>> \in S => k \in {"handler", "poll", "ui"} /\ a \in Apps
      /\ \A a \in Apps : session_mutex_[a] \in {"none", "poll", "ui"}
  BY RelayAssumption DEF Threads, RelayInv, TypeOK, None
<1>1. ASSUME NEW a \in Apps, <<"ui", a>> \in S
      PROVE  Full(up[a]) /\ <<"handler", a>> \in S
  <2>1. CASE ui[a].step = "sending"
    BY <1>1, <2>1, Waits
  <2>2. CASE ui[a].step # "sending"
    <3>1. <<session_mutex_[a], a>> \in S
      BY <1>1, <2>2, Waits
    <3>2. <<"poll", a>> \in S /\ poll[a].step = "sending"
      BY <1>0, <2>2, <3>1 DEF RelayInv, MutexInv
    <3> QED
      BY <3>2, Waits
  <2> QED
    BY <2>1, <2>2
<1>2. ASSUME NEW a \in Apps, <<"poll", a>> \in S
      PROVE  Full(up[a])
  <2>1. CASE poll[a].step = "sending"
    BY <1>2, <2>1, Waits
  <2>2. CASE poll[a].step # "sending"
    <3>1. <<session_mutex_[a], a>> \in S
      BY <1>2, <2>2, Waits
    <3>2. <<"ui", a>> \in S
      BY <1>0, <2>2, <3>1 DEF RelayInv, MutexInv
    <3> QED
      BY <1>1, <3>2
  <2> QED
    BY <2>1, <2>2
<1>3. ASSUME NEW a \in Apps, <<"handler", a>> \in S, handler[a].step = "sending"
      PROVE  FALSE
  <2>1. Full(down[handler[a].next]) /\ <<"poll", handler[a].next>> \in S
    BY <1>3, Waits
  <2> QED
    BY <1>0, <1>2, <2>1
<1>4. ASSUME NEW a \in Apps, <<"handler", a>> \in S
      PROVE  FALSE
  <2>1. <<"handler", sessions_mutex>> \in S
    BY <1>3, <1>4, Waits
  <2> QED
    BY <1>0, <1>3, <2>1 DEF RelayInv, MutexInv
<1>5. ASSUME NEW a \in Apps, <<"poll", a>> \in S
      PROVE  FALSE
  <2>1. CASE poll[a].step = "sending"
    BY <1>4, <1>5, <2>1, Waits
  <2>2. CASE poll[a].step # "sending"
    <3>1. <<session_mutex_[a], a>> \in S
      BY <1>5, <2>2, Waits
    <3> QED
      BY <1>0, <1>1, <1>4, <2>2, <3>1 DEF RelayInv, MutexInv
  <2> QED
    BY <2>1, <2>2
<1>6. PICK s \in S : TRUE
  OBVIOUS
<1>7. PICK k \in {"handler", "poll", "ui"}, a \in Apps : s = <<k, a>>
  BY <1>6 DEF Threads
<1> QED
  BY <1>1, <1>4, <1>5, <1>7

\* Queues of which one may be a frame behind the other are in the same order.
LEMMA Behind ==
    ASSUME NEW s \in Seq(Frames), NEW f \in Frames
    PROVE  IsPrefix(s, s) /\ IsPrefix(s, Append(s, f))
BY DEF IsPrefix

\* A frame at the end of both is the same in front of it.
LEMMA SameBefore ==
    ASSUME NEW s \in Seq(Frames), NEW t \in Seq(Frames), NEW f \in Frames,
           Append(s, f) = Append(t, f)
    PROVE  s = t
<1>1. Len(s) = Len(t)
  <2>1. Len(Append(s, f)) = Len(s) + 1 /\ Len(Append(t, f)) = Len(t) + 1
    OBVIOUS
  <2> QED
    BY <2>1
<1>2. \A i \in 1..Len(s) : s[i] = Append(s, f)[i] /\ t[i] = Append(t, f)[i]
  BY <1>1
<1> QED
  BY <1>1, <1>2

\* What will have been told alike is told in one order so far.
LEMMA SoonAgree ==
    ASSUME TypeOK, NEW queues \in [Apps -> Seq(Frames)], NEW kinds,
           NEW a \in Apps, NEW b \in Apps,
           Soon(queues, a, kinds) = Soon(queues, b, kinds)
    PROVE  IsPrefix(queues[a], queues[b]) \/ IsPrefix(queues[b], queues[a])
<1>1. queues[a] \in Seq(Frames) /\ queues[b] \in Seq(Frames)
  OBVIOUS
<1> DEFINE f == handler[sessions_mutex].frame
<1>2. Owed(a, kinds) \/ Owed(b, kinds) => f \in Frames
  BY DEF Owed, TypeOK
<1>3. CASE Owed(a, kinds) /\ Owed(b, kinds)
  <2>1. Append(queues[a], f) = Append(queues[b], f)
    BY <1>3 DEF Soon
  <2>2. queues[a] = queues[b]
    BY <1>1, <1>2, <1>3, <2>1, SameBefore
  <2> QED
    BY <1>1, <1>2, <1>3, <2>2, Behind
<1>4. CASE Owed(a, kinds) /\ ~Owed(b, kinds)
  <2>1. queues[b] = Append(queues[a], f)
    BY <1>4 DEF Soon
  <2> QED
    BY <1>1, <1>2, <1>4, <2>1, Behind
<1>5. CASE ~Owed(a, kinds) /\ Owed(b, kinds)
  <2>1. queues[a] = Append(queues[b], f)
    BY <1>5 DEF Soon
  <2> QED
    BY <1>1, <1>2, <1>5, <2>1, Behind
<1>6. CASE ~Owed(a, kinds) /\ ~Owed(b, kinds)
  <2>1. queues[a] = queues[b]
    BY <1>6 DEF Soon
  <2>2. IsPrefix(queues[a], queues[a])
    BY <1>1 DEF IsPrefix
  <2> QED
    BY <2>1, <2>2
<1> QED
  BY <1>3, <1>4, <1>5, <1>6

-----------------------------------------------------------------------------
(* The theorems.                                                           *)

\* Which threads hold the mutexes, and what everybody will have been told when
\* a broadcast is over, is as RelayInv says, at every step.
THEOREM RelayAgrees == Spec => []RelayInv
BY RelayInit, RelayStep, PTL DEF Spec

\* The locks alone never make threads of the server and the applications wait
\* for each other in a circle (dispatch, poll_session, broadcast_clear).
THEOREM LocksAreOrdered == Spec => []DeadlockNeedsFullConnection
<1>1. RelayInv => DeadlockNeedsFullConnection
  <2> SUFFICES ASSUME RelayInv, Circle # {}
               PROVE  \E a \in Apps : Full(up[a]) /\ Full(down[a])
    BY DEF DeadlockNeedsFullConnection
  <2>1. PICK S \in SUBSET Waiting : WaitForEachOther(S) /\ S # {}
    BY DEF Circle
  <2>2. S \in SUBSET Threads
    BY DEF Waiting
  <2> QED
    BY <2>1, <2>2, CircleIsFull
<1> QED
  BY <1>1, RelayAgrees, PTL

\* All members are sent the host's strokes and everybody's clears in one order,
\* and everybody the clears (handle_draw, sendNotification).
THEOREM BroadcastsInOneOrder == Spec => []OneOrder
<1>1. RelayInv => OneOrder
  <2> SUFFICES ASSUME RelayInv
               PROVE  OneOrder
    OBVIOUS
  <2>1. TypeOK /\ SoonInv /\ heard \in [Apps -> Seq(Frames)]
        /\ cleared \in [Apps -> Seq(Frames)] /\ Members \subseteq Apps
    BY DEF RelayInv, TypeOK, Apps
  <2>2. \A m, k \in Members : IsPrefix(heard[m], heard[k]) \/ IsPrefix(heard[k], heard[m])
    BY <2>1, SoonAgree DEF SoonInv
  <2>3. \A a, b \in Apps : IsPrefix(cleared[a], cleared[b])
                              \/ IsPrefix(cleared[b], cleared[a])
    BY <2>1, SoonAgree DEF SoonInv
  <2> QED
    BY <2>2, <2>3 DEF OneOrder
<1> QED
  BY <1>1, RelayAgrees, PTL
=============================================================================
