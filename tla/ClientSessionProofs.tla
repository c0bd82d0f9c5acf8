------------------------ MODULE ClientSessionProofs ------------------------
(***************************************************************************)
(* Proofs about ClientSession, for any number of sessions and clicks: when *)
(* a patient user's requests have been answered, the application and the   *)
(* server agree, as long as no other host closes its session.              *)
(***************************************************************************)
EXTENDS ClientSession, TLAPS

(* Sequences.                                                              *)

\* A sequence that is not empty, and what is left of it.
LEMMA Taken ==
    ASSUME NEW S, NEW q \in Seq(S), q # <<>>
    PROVE  /\ Len(q) \in Nat /\ Len(q) >= 1
           /\ Tail(q) \in Seq(S) /\ Len(Tail(q)) = Len(q) - 1
           /\ Head(q) = q[1] /\ Head(q) \in S
           /\ \A i \in 1..Len(Tail(q)) : i + 1 \in 1..Len(q) /\ Tail(q)[i] = q[i + 1]
           /\ \A i \in 2..Len(q) : i - 1 \in 1..Len(Tail(q)) /\ Tail(q)[i - 1] = q[i]
OBVIOUS

\* A sequence with one more element.
LEMMA Put ==
    ASSUME NEW S, NEW q \in Seq(S), NEW x \in S
    PROVE  /\ Append(q, x) \in Seq(S)
           /\ Len(q) \in Nat /\ Len(Append(q, x)) = Len(q) + 1
           /\ \A i \in 1..Len(q) : Append(q, x)[i] = q[i]
           /\ Append(q, x)[Len(q) + 1] = x
OBVIOUS

\* A sequence of no elements.
LEMMA Nothing ==
    ASSUME NEW S, NEW q \in Seq(S), Len(q) = 0
    PROVE  q = <<>>
OBVIOUS

\* Nothing between a sequence and its last element.
LEMMA PutBehind ==
    ASSUME NEW S, NEW q \in Seq(S), NEW x \in S
    PROVE  q \o <<>> \o <<x>> = Append(q, x)
OBVIOUS

-----------------------------------------------------------------------------
(* Types.                                                                  *)

\* What the application does to its session yields a session.
LEMMA SessionType ==
    ASSUME NEW s \in SessionRec, NEW id \in Nat, NEW code
    PROVE  /\ NoSession \in SessionRec
           /\ Joining(s, id) \in SessionRec /\ Creating(s) \in SessionRec
           /\ Reset(s) \in SessionRec /\ ClearJoining(s) \in SessionRec
           /\ Acked(s, code, id) \in SessionRec
BY DEF SessionRec, JoiningStates, NoSession, Joining, Creating, Reset,
       ClearJoining, Acked, Entered

\* Frames are requests or answers by their kind.
LEMMA FrameType ==
    ASSUME NEW id \in Nat
    PROVE  /\ \A kind \in Talk \cup Bye \cup Entry : Frame(kind, id) \in Requests
           /\ \A kind \in Granted \cup {"LEFT", "ERROR", "CLOSED"} :
                 Frame(kind, id) \in Answers
           /\ \A kind : Frame(kind, id).kind = kind /\ Frame(kind, id).id = id
BY DEF Frame, Requests, Answers

\* The initial state is well typed.
LEMMA TypeInit == Init => TypeOK
BY ClientSessionAssumption, SessionType
   DEF Init, TypeOK, SessionRec, JoiningStates, NoSession, Idle, Nowhere,
       Requests, Answers

\* Every step keeps the types.
LEMMA TypeStep == TypeOK /\ [Next]_vars => TypeOK'
<1> SUFFICES ASSUME TypeOK, [Next]_vars PROVE TypeOK'
  OBVIOUS
<1> USE ClientSessionAssumption
<1>0. /\ session \in SessionRec
      /\ ui \in [step : {"idle", "join", "create", "leave"}, id : Nat]
      /\ up \in Seq(Requests) /\ down \in Seq(Answers)
      /\ open \subseteq 1..next_id - 1 /\ next_id \in Nat /\ next_id > Foreign
      /\ ctx \in [id : Nat, host : BOOLEAN] /\ ctx.id < next_id
      /\ ghosts \subseteq [id : Nat, host : BOOLEAN] /\ clicks \in Nat
  BY DEF TypeOK
<1>1. CASE ClickJoin
  <2>1. PICK id \in IF Patient THEN 1..Foreign ELSE Ids :
            ui' = [step |-> "join", id |-> id]
    BY <1>1 DEF ClickJoin
  <2>2. id \in Nat
    BY <2>1 DEF Ids
  <2>3. ui' \in [step : {"idle", "join", "create", "leave"}, id : Nat]
    BY <2>1, <2>2
  <2> QED
    BY <1>0, <1>1, <2>3 DEF ClickJoin, Click, server, TypeOK
<1>2. CASE SendJoin
  <2>1. Frame("JOIN", ui.id) \in Requests
    BY <1>0, FrameType DEF Entry
  <2>2. up' \in Seq(Requests)
    BY <1>0, <1>2, <2>1, Put DEF SendJoin
  <2>3. session' \in SessionRec
    BY <1>0, <1>2, SessionType DEF SendJoin
  <2> QED
    BY <1>0, <1>2, <2>2, <2>3 DEF SendJoin, Idle, server, TypeOK
<1>3. CASE ClickCreate
  BY <1>0, <1>3 DEF ClickCreate, Click, Idle, server, TypeOK
<1>4. CASE SendCreate
  <2>1. Frame("CREATE", 0) \in Requests
    BY FrameType DEF Entry
  <2>2. up' \in Seq(Requests)
    BY <1>0, <1>4, <2>1, Put DEF SendCreate
  <2>3. session' \in SessionRec
    BY <1>0, <1>4, SessionType DEF SendCreate
  <2> QED
    BY <1>0, <1>4, <2>2, <2>3 DEF SendCreate, Idle, server, TypeOK
<1>5. CASE ClickLeave
  <2>1. Frame(IF session.is_host THEN "CLOSE" ELSE "LEAVE", 0) \in Requests
    BY FrameType DEF Bye
  <2>2. up' \in Seq(Requests)
    BY <1>0, <1>5, <2>1, Put DEF ClickLeave
  <2> QED
    BY <1>0, <1>5, <2>2 DEF ClickLeave, Click, Idle, server, TypeOK
<1>6. CASE FinishLeave
  <2>1. session' \in SessionRec
    BY <1>0, <1>6, SessionType DEF FinishLeave
  <2> QED
    BY <1>0, <1>6, <2>1 DEF FinishLeave, Idle, server, TypeOK
<1>7. CASE ClickDraw
  <2>1. Frame("DRAW", 0) \in Requests
    BY FrameType DEF Talk
  <2>2. up' \in Seq(Requests)
    BY <1>0, <1>7, <2>1, Put DEF ClickDraw
  <2> QED
    BY <1>0, <1>7, <2>2 DEF ClickDraw, Click, server, TypeOK
<1>8. CASE HandleAck
  <2>1. PICK code \in {"CREATE_OK", "JOIN_OK", "LEFT"} :
            /\ Receive(code)
            /\ session' = Acked(session, code, Head(down).id)
            /\ up' = IF session.joining = "joining" /\ code = "JOIN_OK"
                     THEN Append(up, Frame("REQUEST", 0)) ELSE up
    BY <1>8 DEF HandleAck
  <2>2. down' \in Seq(Answers) /\ Head(down) \in Answers
    BY <1>0, <2>1, Taken DEF Receive
  <2>3. Head(down).id \in Nat
    BY <2>2 DEF Answers
  <2>4. session' \in SessionRec
    BY <1>0, <2>1, <2>3, SessionType
  <2>5. Frame("REQUEST", 0) \in Requests
    BY FrameType DEF Talk
  <2>6. up' \in Seq(Requests)
    BY <1>0, <2>1, <2>5, Put
  <2> QED
    BY <1>0, <1>8, <2>2, <2>4, <2>6 DEF HandleAck, server, TypeOK
<1>9. CASE HandleError
  <2>1. down' \in Seq(Answers)
    BY <1>0, <1>9, Taken DEF HandleError, Receive
  <2>2. session' \in SessionRec
    BY <1>0, <1>9, SessionType DEF HandleError
  <2> QED
    BY <1>0, <1>9, <2>1, <2>2 DEF HandleError, server, TypeOK
<1>10. CASE HandleClosed
  <2>1. down' \in Seq(Answers)
    BY <1>0, <1>10, Taken DEF HandleClosed, Receive
  <2>2. session' \in SessionRec
    BY <1>0, <1>10, SessionType DEF HandleClosed
  <2> QED
    BY <1>0, <1>10, <2>1, <2>2 DEF HandleClosed, server, TypeOK
<1>11. CASE ServeCreate
  <2>1. up' \in Seq(Requests)
    BY <1>0, <1>11, Taken DEF ServeCreate, Take
  <2>2. Frame("CREATE_OK", next_id) \in Answers
    BY <1>0, FrameType DEF Granted
  <2>3. down' \in Seq(Answers)
    BY <1>0, <1>11, <2>2, Put DEF ServeCreate, Answer
  <2>4. open' \subseteq 1..next_id' - 1 /\ next_id' \in Nat /\ next_id' > Foreign
    BY <1>0, <1>11 DEF ServeCreate
  <2>5. ctx' \in [id : Nat, host : BOOLEAN] /\ ctx'.id < next_id'
    BY <1>0, <1>11 DEF ServeCreate
  <2>6. ghosts' \subseteq [id : Nat, host : BOOLEAN]
    BY <1>0, <1>11 DEF ServeCreate, Forgotten
  <2> QED
    BY <1>0, <1>11, <2>1, <2>3, <2>4, <2>5, <2>6 DEF ServeCreate, TypeOK
<1>12. CASE ServeJoin
  <2>1. up' \in Seq(Requests)
    BY <1>0, <1>12, Taken DEF ServeJoin, Take
  <2>2. Frame("JOIN_OK", 0) \in Answers
    BY FrameType DEF Granted
  <2>3. down' \in Seq(Answers)
    BY <1>0, <1>12, <2>2, Put DEF ServeJoin, Answer
  <2>4. ctx' \in [id : Nat, host : BOOLEAN] /\ ctx'.id < next_id
    <3>1. CASE Head(up).id \in open
      <4>1. \A id \in open : id \in Nat /\ id < next_id
        BY <1>0
      <4>2. ctx' = [id |-> Head(up).id, host |-> FALSE]
        BY <1>12, <3>1 DEF ServeJoin
      <4> DEFINE id == Head(up).id
      <4>3. id \in Nat /\ id < next_id
        BY <3>1, <4>1
      <4>4. ctx' = [id |-> id, host |-> FALSE]
        BY <4>2
      <4> HIDE DEF id
      <4> QED
        BY <4>3, <4>4
    <3>2. CASE Head(up).id \notin open
      BY <1>0, <1>12, <3>2 DEF ServeJoin
    <3> QED
      BY <3>1, <3>2
  <2>5. ghosts' \subseteq [id : Nat, host : BOOLEAN]
    BY <1>0, <1>12 DEF ServeJoin, Forgotten
  <2> QED
    BY <1>0, <1>12, <2>1, <2>3, <2>4, <2>5 DEF ServeJoin, TypeOK
<1>13. CASE ServeLeave
  <2>1. up' \in Seq(Requests)
    BY <1>0, <1>13, Taken DEF ServeLeave, Take
  <2>2. Frame("LEFT", 0) \in Answers /\ Frame("CLOSED", 0) \in Answers
    BY FrameType
  <2>3. ClosedTo(ctx.id) \in Seq(Answers)
    BY <2>2 DEF ClosedTo
  <2>4. down \o ClosedTo(ctx.id) \o <<Frame("LEFT", 0)>> \in Seq(Answers)
    BY <1>0, <2>2, <2>3
  <2>8. Append(down, Frame("LEFT", 0)) \in Seq(Answers)
    BY <1>0, <2>2, Put
  <2>5. down' \in Seq(Answers)
    BY <1>13, <2>4, <2>8 DEF ServeLeave, Left, Answer
  <2>6. open' \subseteq open /\ ghosts' \subseteq ghosts
    BY <1>13 DEF ServeLeave, Left
  <2>7. ctx' \in [id : Nat, host : BOOLEAN] /\ ctx'.id < next_id
    <3>1. Nowhere \in [id : Nat, host : BOOLEAN] /\ Nowhere.id < next_id
      BY <1>0 DEF Nowhere
    <3>2. ctx' = Nowhere \/ ctx' = ctx
      BY <1>13 DEF ServeLeave, Left
    <3> QED
      BY <1>0, <3>1, <3>2
  <2> QED
    BY <1>0, <1>13, <2>1, <2>5, <2>6, <2>7 DEF ServeLeave, TypeOK
<1>14. CASE ServeOther
  <2>1. up' \in Seq(Requests)
    BY <1>0, <1>14, Taken DEF ServeOther, Take
  <2>2. Frame("ERROR", 0) \in Answers
    BY FrameType
  <2>4. Append(down, Frame("ERROR", 0)) \in Seq(Answers)
    BY <1>0, <2>2, Put
  <2>3. down' \in Seq(Answers)
    BY <1>0, <1>14, <2>4 DEF ServeOther, Answer
  <2> QED
    BY <1>0, <1>14, <2>1, <2>3 DEF ServeOther, server, TypeOK
<1>15. CASE CloseForeign
  <2>1. PICK id \in open \cap 1..Foreign :
            /\ open' = open \ {id}
            /\ ghosts' = {g \in ghosts : g.id # id}
            /\ down' = IF ctx.id = id THEN Append(down, Frame("CLOSED", 0))
                       ELSE down \o ClosedTo(id)
    BY <1>15 DEF CloseForeign
  <2>2. Frame("CLOSED", 0) \in Answers
    BY FrameType
  <2>3. ClosedTo(id) \in Seq(Answers)
    BY <2>2 DEF ClosedTo
  <2>4. down \o ClosedTo(id) \in Seq(Answers)
    BY <1>0, <2>3
  <2>5. down' \in Seq(Answers)
    BY <1>0, <2>1, <2>2, <2>4, Put
  <2>6. open' \subseteq open /\ ghosts' \subseteq ghosts
    BY <2>1
  <2> QED
    BY <1>0, <1>15, <2>5, <2>6 DEF CloseForeign, TypeOK
<1>16. CASE UNCHANGED vars
  BY <1>0, <1>16 DEF vars, TypeOK
<1> QED
  BY <1>1, <1>2, <1>3, <1>4, <1>5, <1>6, <1>7, <1>8, <1>9, <1>10, <1>11, <1>12,
     <1>13, <1>14, <1>15, <1>16 DEF Next, User, Poll, Serve

-----------------------------------------------------------------------------
(* The two ends, step by step, as long as no other host closes its session. *)

\* An application that waits for nothing has no entry nor grant under way.
LEMMA NothingAsked ==
    ASSUME Between, session.joining \notin {"joining", "creating"}
    PROVE  /\ \A i \in 1..Len(up) : up[i].kind \notin Entry
           /\ \A j \in 1..Len(down) : down[j].kind = "LEFT"
<1>1. \A i \in 1..Len(up) : up[i].kind \notin Entry
  BY DEF Between, EntryInv, Entry
<1>2. \A j \in 1..Len(down) : down[j].kind = "LEFT"
  BY DEF Between, GrantInv, Granted
<1> QED
  BY <1>1, <1>2

\* What the queues hold by kind.
LEMMA Kinds ==
    /\ \A kind \in Talk : kind \notin Bye /\ kind \notin Entry
    /\ \A kind \in Bye : kind \notin Talk /\ kind \notin Entry
    /\ \A kind \in Entry : kind \notin Talk /\ kind \notin Bye
    /\ "LEFT" \notin Granted /\ "ERROR" \notin Granted /\ "CLOSED" \notin Granted
BY DEF Talk, Bye, Entry, Granted

\* The initial state, in which there is nothing.
LEMMA EndsInit == Init => EndsInv
<1> SUFFICES ASSUME Init PROVE EndsInv
  OBVIOUS
<1>1. /\ session = NoSession /\ ui.step = "idle" /\ up = <<>> /\ down = <<>>
      /\ ghosts = {} /\ ~Hosted
  BY ClientSessionAssumption DEF Init, Idle, Nowhere, Hosted
<1>2. SessionInv /\ MemberInv
  BY <1>1 DEF SessionInv, MemberInv, NoSession
<1>3. EntryInv /\ ByeInv /\ TalkInv /\ GrantInv
  BY <1>1 DEF EntryInv, ByeInv, TalkInv, GrantInv
<1>4. OutsideInv
  BY <1>1 DEF OutsideInv
<1> QED
  BY <1>1, <1>2, <1>3, <1>4, TypeInit DEF EndsInv, Between

\* A button that asks to enter: nothing is sent yet.
LEMMA ClickEnterBetween ==
    ASSUME Patient, TypeOK, Between, ClickJoin \/ ClickCreate
    PROVE  Between'
<1>1. /\ session = NoSession /\ ~session.in_session
      /\ UNCHANGED <<session, up, down, ctx, open, ghosts>>
      /\ ui'.step \in {"join", "create"}
      /\ ui'.step = "join" => ui'.id \in 1..Foreign
  <2>1. ~session.in_session /\ session.joining = "none"
    BY DEF ClickJoin, ClickCreate, MayEnter
  <2>2. session = NoSession
    BY <2>1 DEF Between, SessionInv
  <2>3. CASE ClickJoin
    BY <2>1, <2>2, <2>3 DEF ClickJoin, server
  <2>4. CASE ClickCreate
    BY <2>1, <2>2, <2>4 DEF ClickCreate, server, Idle
  <2> QED
    BY <2>3, <2>4
<1>2. SessionInv'
  BY <1>1 DEF SessionInv
<1>3. MemberInv'
  BY <1>1 DEF MemberInv
<1>4. EntryInv' /\ TalkInv' /\ GrantInv'
  BY <1>1 DEF Between, EntryInv, TalkInv, GrantInv, Hosted
<1>5. ByeInv'
  BY <1>1 DEF Between, ByeInv, Hosted
<1>6. OutsideInv'
  BY <1>1 DEF Between, OutsideInv, Hosted
<1> QED
  BY <1>1, <1>2, <1>3, <1>4, <1>5, <1>6 DEF Between

\* The request to enter goes out behind everything else.
LEMMA SendEnterBetween ==
    ASSUME TypeOK, Between, SendJoin \/ SendCreate
    PROVE  Between'
<1>1. /\ session = NoSession /\ ~session.in_session
      /\ session.joining = "none" /\ session.client_id = 0
      /\ ~session.client_host /\ ~session.is_host
  BY DEF SendJoin, SendCreate, Between, SessionInv, NoSession
<1>2. PICK x \in Requests :
         /\ up' = Append(up, x) /\ x.kind \in Entry
         /\ x.kind = "JOIN" => /\ session'.joining = "joining"
                              /\ x.id = session'.session_id /\ x.id \in 1..Foreign
         /\ x.kind = "CREATE" => session'.joining = "creating"
  <2>1. CASE SendJoin
    <3>1. Frame("JOIN", ui.id) \in Requests
      BY FrameType DEF TypeOK, Entry
    <3>2. ui.id \in 1..Foreign
      BY <2>1 DEF SendJoin, Between, SessionInv
    <3>3. session' = [session EXCEPT !.joining = "joining", !.session_id = ui.id]
      BY <2>1 DEF SendJoin, Joining
    <3>4. session'.joining = "joining" /\ session'.session_id = ui.id
      BY <1>1, <3>3 DEF NoSession
    <3> QED
      BY <2>1, <3>1, <3>2, <3>4 DEF SendJoin, Frame, Entry
  <2>2. CASE SendCreate
    <3>1. Frame("CREATE", 0) \in Requests
      BY FrameType DEF Entry
    <3>2. session'.joining = "creating"
      BY <1>1, <2>2 DEF SendCreate, Creating, NoSession
    <3> QED
      BY <2>2, <3>1, <3>2 DEF SendCreate, Frame, Entry
  <2> QED
    BY <2>1, <2>2
<1>3. /\ ui'.step = "idle" /\ UNCHANGED <<down, ctx, open, ghosts>>
      /\ session'.joining \in {"joining", "creating"}
      /\ session'.client_id = 0 /\ ~session'.client_host
      /\ ~session'.in_session /\ ~session'.is_host
  <2>1. CASE SendJoin
    <3>1. session' = [NoSession EXCEPT !.joining = "joining", !.session_id = ui.id]
      BY <1>1, <2>1 DEF SendJoin, Joining
    <3> QED
      BY <2>1, <3>1 DEF SendJoin, NoSession, Idle, server
  <2>2. CASE SendCreate
    <3>1. session' = [NoSession EXCEPT !.joining = "creating"]
      BY <1>1, <2>2 DEF SendCreate, Creating
    <3> QED
      BY <2>2, <3>1 DEF SendCreate, NoSession, Idle, server
  <2> QED
    BY <2>1, <2>2
<1>4. /\ \A i \in 1..Len(up) : up[i].kind \notin Entry
      /\ \A j \in 1..Len(down) : down[j].kind = "LEFT"
  BY <1>1, NothingAsked
<1>5. /\ Len(up) \in Nat /\ Len(up') = Len(up) + 1
      /\ \A i \in 1..Len(up) : up'[i] = up[i]
      /\ up'[Len(up) + 1] = x
  BY <1>2, Put DEF TypeOK
<1>6. SessionInv' /\ MemberInv'
  BY <1>3 DEF SessionInv, MemberInv
<1>7. EntryInv'
  <2> SUFFICES ASSUME NEW i \in 1..Len(up'), up'[i].kind \in Entry
               PROVE  /\ i = Len(up') /\ \A j \in 1..Len(down') : down'[j].kind = "LEFT"
                      /\ up'[i].kind = "JOIN" =>
                            /\ session'.joining = "joining"
                            /\ up'[i].id = session'.session_id
                            /\ up'[i].id \in 1..Foreign
                      /\ up'[i].kind = "CREATE" => session'.joining = "creating"
    BY DEF EntryInv
  <2>1. i = Len(up) + 1
    BY <1>4, <1>5
  <2> QED
    BY <1>2, <1>3, <1>4, <1>5, <2>1
<1>8. ByeInv'
  <2> SUFFICES ASSUME NEW i \in 1..Len(up'), up'[i].kind \in Bye
               PROVE  /\ Hosted' /\ (up'[i].kind = "CLOSE" => ctx'.host)
                      /\ session'.in_session => ui'.step = "leave"
                      /\ \A j \in i + 1..Len(up') : up'[j].kind \in Entry
    BY DEF ByeInv
  <2>1. i \in 1..Len(up) /\ up[i].kind \in Bye
    BY <1>2, <1>5, Kinds
  <2>2. /\ Hosted /\ (up[i].kind = "CLOSE" => ctx.host)
        /\ \A j \in i + 1..Len(up) : up[j].kind \in Entry
    BY <2>1 DEF Between, ByeInv
  <2>3. \A j \in i + 1..Len(up') : up'[j].kind \in Entry
    BY <1>2, <1>5, <2>1, <2>2
  <2> QED
    BY <1>3, <1>5, <2>1, <2>2, <2>3 DEF Hosted
<1>9. TalkInv'
  <2> SUFFICES ASSUME NEW i \in 1..Len(up'), up'[i].kind \in Talk PROVE Hosted'
    BY DEF TalkInv
  <2>1. i \in 1..Len(up) /\ up[i].kind \in Talk
    BY <1>2, <1>5, Kinds
  <2> QED
    BY <1>3, <2>1 DEF Between, TalkInv, Hosted
<1>10. GrantInv'
  BY <1>3, <1>4, Kinds DEF GrantInv
<1>11. OutsideInv'
  <2> SUFFICES ASSUME Hosted' PROVE \E i \in 1..Len(up') : up'[i].kind \in Bye
    BY DEF OutsideInv
  <2>1. Hosted
    BY <1>3 DEF Hosted
  <2>2. PICK i \in 1..Len(up) : up[i].kind \in Bye
    BY <1>1, <1>4, <2>1, Kinds DEF Between, OutsideInv
  <2> QED
    BY <1>5, <2>2
<1> QED
  BY <1>3, <1>6, <1>7, <1>8, <1>9, <1>10, <1>11 DEF Between

\* The goodbye of a session goes out behind what was said in it.
LEMMA ClickLeaveBetween ==
    ASSUME TypeOK, Between, ClickLeave
    PROVE  Between'
<1>1. /\ session.in_session /\ session.joining = "in_session"
      /\ ui.step = "idle" /\ ui'.step = "leave" /\ session # NoSession
      /\ UNCHANGED <<session, down, ctx, open, ghosts>>
  BY DEF ClickLeave, Click, Idle, server, Between, SessionInv, NoSession
<1>2. Hosted /\ session.is_host = ctx.host
  BY <1>1 DEF Between, MemberInv, Entered
<1>3. PICK x \in Requests :
         up' = Append(up, x) /\ x.kind \in Bye /\ (x.kind = "CLOSE" => ctx.host)
  <2> DEFINE kind == IF session.is_host THEN "CLOSE" ELSE "LEAVE"
  <2>1. kind \in Bye /\ (kind = "CLOSE" => ctx.host)
    BY <1>2 DEF Bye
  <2>2. Frame(kind, 0) \in Requests /\ Frame(kind, 0).kind = kind
    BY <2>1, FrameType
  <2>3. up' = Append(up, Frame(kind, 0))
    BY DEF ClickLeave
  <2> HIDE DEF kind
  <2> QED
    BY <2>1, <2>2, <2>3
<1>4. /\ \A i \in 1..Len(up) : up[i].kind \notin Entry
      /\ \A j \in 1..Len(down) : down[j].kind = "LEFT"
  BY <1>1, NothingAsked
<1>5. /\ Len(up) \in Nat /\ Len(up') = Len(up) + 1
      /\ \A i \in 1..Len(up) : up'[i] = up[i]
      /\ up'[Len(up) + 1] = x
  BY <1>3, Put DEF TypeOK
<1>6. SessionInv' /\ MemberInv'
  BY <1>1 DEF Between, SessionInv, MemberInv
<1>7. EntryInv'
  <2>1. \A i \in 1..Len(up') : up'[i].kind \notin Entry
    BY <1>3, <1>4, <1>5, Kinds
  <2> QED
    BY <2>1 DEF EntryInv
<1>8. ByeInv'
  <2> SUFFICES ASSUME NEW i \in 1..Len(up'), up'[i].kind \in Bye
               PROVE  /\ Hosted' /\ (up'[i].kind = "CLOSE" => ctx'.host)
                      /\ session'.in_session => ui'.step = "leave"
                      /\ \A j \in i + 1..Len(up') : up'[j].kind \in Entry
    BY DEF ByeInv
  <2>1. i = Len(up) + 1
    BY <1>1, <1>5 DEF Between, ByeInv
  <2> QED
    BY <1>1, <1>2, <1>3, <1>5, <2>1 DEF Hosted
<1>9. TalkInv'
  BY <1>1, <1>2 DEF TalkInv, Hosted
<1>10. GrantInv'
  BY <1>1, <1>4, Kinds DEF GrantInv
<1>11. OutsideInv'
  BY <1>3, <1>5 DEF OutsideInv
<1> QED
  BY <1>1, <1>6, <1>7, <1>8, <1>9, <1>10, <1>11 DEF Between

\* The application forgets a session after its goodbye.
LEMMA FinishLeaveBetween ==
    ASSUME TypeOK, Between, FinishLeave
    PROVE  Between'
<1>1. /\ session.in_session /\ session.joining = "in_session"
      /\ ui.step = "leave" /\ ui'.step = "idle" /\ session' = NoSession
      /\ UNCHANGED <<up, down, ctx, open, ghosts>>
  BY DEF FinishLeave, Reset, Idle, server, Between, SessionInv, NoSession
<1>2. ~session'.in_session
  BY <1>1 DEF NoSession
<1>3. /\ \A i \in 1..Len(up) : up[i].kind \notin Entry
      /\ \A j \in 1..Len(down) : down[j].kind = "LEFT"
  BY <1>1, NothingAsked
<1>4. SessionInv' /\ MemberInv'
  BY <1>1, <1>2 DEF SessionInv, MemberInv
<1>5. EntryInv' /\ TalkInv'
  BY <1>1, <1>3 DEF Between, EntryInv, TalkInv, Hosted
<1>6. ByeInv'
  BY <1>1, <1>2 DEF Between, ByeInv, Hosted
<1>7. GrantInv'
  BY <1>1, <1>3, Kinds DEF GrantInv
<1>8. OutsideInv'
  BY <1>1, <1>2 DEF Between, OutsideInv, Hosted
<1> QED
  BY <1>1, <1>4, <1>5, <1>6, <1>7, <1>8 DEF Between

\* Drawing is for a session.
LEMMA ClickDrawBetween ==
    ASSUME TypeOK, Between, ClickDraw
    PROVE  Between'
<1>1. /\ session.in_session /\ session.joining = "in_session" /\ ui.step = "idle"
      /\ UNCHANGED <<session, ui, down, ctx, open, ghosts>>
  <2>1. session.in_session \/ session.client_id # 0
    BY DEF ClickDraw
  <2>2. session # NoSession /\ session.joining \notin {"joining", "creating"}
    BY <2>1 DEF Between, SessionInv, NoSession
  <2> QED
    BY <2>2 DEF ClickDraw, Click, server, Between, SessionInv
<1>2. Hosted
  BY <1>1 DEF Between, MemberInv
<1>3. PICK x \in Requests : up' = Append(up, x) /\ x.kind \in Talk
  <2>1. Frame("DRAW", 0) \in Requests /\ Frame("DRAW", 0).kind \in Talk
    BY FrameType DEF Talk
  <2> QED
    BY <2>1 DEF ClickDraw
<1>4. /\ \A i \in 1..Len(up) : up[i].kind \notin Entry /\ up[i].kind \notin Bye
      /\ \A j \in 1..Len(down) : down[j].kind = "LEFT"
  <2>1. \A i \in 1..Len(up) : up[i].kind \notin Bye
    BY <1>1 DEF Between, ByeInv
  <2> QED
    BY <1>1, <2>1, NothingAsked
<1>5. /\ Len(up) \in Nat /\ Len(up') = Len(up) + 1
      /\ \A i \in 1..Len(up) : up'[i] = up[i]
      /\ up'[Len(up) + 1] = x
  BY <1>3, Put DEF TypeOK
<1>6. \A i \in 1..Len(up') : up'[i].kind \notin Entry /\ up'[i].kind \notin Bye
  BY <1>3, <1>4, <1>5, Kinds
<1>7. SessionInv' /\ MemberInv'
  BY <1>1 DEF Between, SessionInv, MemberInv, Hosted
<1>8. EntryInv' /\ ByeInv'
  BY <1>6 DEF EntryInv, ByeInv
<1>9. TalkInv'
  BY <1>1, <1>2 DEF TalkInv, Hosted
<1>10. GrantInv'
  BY <1>1, <1>4, Kinds DEF GrantInv
<1>11. OutsideInv'
  BY <1>1 DEF OutsideInv
<1> QED
  BY <1>1, <1>7, <1>8, <1>9, <1>10, <1>11 DEF Between

\* An answer without consequences is taken.
LEMMA TakeLeftBetween ==
    ASSUME TypeOK, Between, HandleAck, Head(down).kind = "LEFT"
    PROVE  Between'
<1>1. /\ Len(down) \in Nat /\ Len(down') = Len(down) - 1
      /\ \A i \in 1..Len(down') : i + 1 \in 1..Len(down) /\ down'[i] = down[i + 1]
      /\ \A i \in 2..Len(down) : i - 1 \in 1..Len(down') /\ down'[i - 1] = down[i]
      /\ Len(down) >= 1 /\ down[1].kind = "LEFT"
  BY Taken DEF HandleAck, Receive, TypeOK
<1>2. UNCHANGED <<session, ui, up, ctx, open, ghosts>>
  BY DEF HandleAck, Receive, Acked, server
<1>3. SessionInv' /\ MemberInv' /\ ByeInv' /\ TalkInv'
  BY <1>2 DEF Between, SessionInv, MemberInv, ByeInv, TalkInv, Hosted
<1>4. EntryInv'
  BY <1>1, <1>2 DEF Between, EntryInv
<1>5. GrantInv'
  <2> SUFFICES ASSUME NEW j \in 1..Len(down')
      PROVE  /\ down'[j].kind \in Granted \cup {"LEFT"}
             /\ down'[j].kind \in Granted =>
                   /\ Hosted' /\ up' = <<>>
                   /\ \A i \in 1..Len(down') : i # j => down'[i].kind = "LEFT"
                   /\ down'[j].kind = "JOIN_OK" =>
                         /\ session'.joining = "joining"
                         /\ ctx'.id = session'.session_id /\ ~ctx'.host
                   /\ down'[j].kind = "CREATE_OK" =>
                         /\ session'.joining = "creating"
                         /\ ctx'.id = down'[j].id /\ ctx'.host
    BY DEF GrantInv
  <2>1. j + 1 \in 1..Len(down) /\ down'[j] = down[j + 1]
    BY <1>1
  <2>2. /\ down[j + 1].kind \in Granted \cup {"LEFT"}
        /\ down[j + 1].kind \in Granted =>
              /\ Hosted /\ up = <<>>
              /\ \A i \in 1..Len(down) : i # j + 1 => down[i].kind = "LEFT"
              /\ down[j + 1].kind = "JOIN_OK" =>
                    /\ session.joining = "joining"
                    /\ ctx.id = session.session_id /\ ~ctx.host
              /\ down[j + 1].kind = "CREATE_OK" =>
                    /\ session.joining = "creating"
                    /\ ctx.id = down[j + 1].id /\ ctx.host
    BY <2>1 DEF Between, GrantInv
  <2>3. ASSUME \A i \in 1..Len(down) : i # j + 1 => down[i].kind = "LEFT"
        PROVE  \A i \in 1..Len(down') : i # j => down'[i].kind = "LEFT"
    BY <1>1, <2>3
  <2> QED
    BY <1>2, <2>1, <2>2, <2>3 DEF Hosted
<1>6. OutsideInv'
  <2> SUFFICES ASSUME Hosted', session'.in_session => ui'.step = "leave"
      PROVE  \/ \E i \in 1..Len(up') : up'[i].kind \in Bye
             \/ \E j \in 1..Len(down') : down'[j].kind \in Granted
    BY DEF OutsideInv
  <2>1. \/ \E i \in 1..Len(up) : up[i].kind \in Bye
        \/ \E j \in 1..Len(down) : down[j].kind \in Granted
    BY <1>2 DEF Between, OutsideInv, Hosted
  <2>2. ASSUME NEW j \in 1..Len(down), down[j].kind \in Granted
        PROVE  \E k \in 1..Len(down') : down'[k].kind \in Granted
    <3>1. j \in 2..Len(down)
      BY <1>1, <2>2, Kinds
    <3> QED
      BY <1>1, <2>2, <3>1
  <2> QED
    BY <1>2, <2>1, <2>2
<1> QED
  BY <1>2, <1>3, <1>4, <1>5, <1>6 DEF Between

\* The application enters the session it has waited for, which is the one the
\* server has it down for.
LEMMA TakeGrantBetween ==
    ASSUME TypeOK, Between, HandleAck, Head(down).kind \in Granted
    PROVE  Between'
<1>1. /\ Len(down) \in Nat /\ Len(down') = Len(down) - 1
      /\ \A i \in 1..Len(down') : i + 1 \in 1..Len(down) /\ down'[i] = down[i + 1]
      /\ 1 \in 1..Len(down) /\ Head(down) = down[1]
  BY Taken DEF HandleAck, Receive, TypeOK
<1>2. /\ Hosted /\ up = <<>>
      /\ \A i \in 1..Len(down) : i # 1 => down[i].kind = "LEFT"
      /\ down[1].kind = "JOIN_OK" =>
            /\ session.joining = "joining" /\ ctx.id = session.session_id /\ ~ctx.host
      /\ down[1].kind = "CREATE_OK" =>
            /\ session.joining = "creating" /\ ctx.id = down[1].id /\ ctx.host
  BY <1>1 DEF Between, GrantInv
<1>3. /\ session' = Entered(session, ctx.id, ctx.host)
      /\ \A i \in 1..Len(up') : up'[i].kind \in Talk
  <2>1. ctx.host \in BOOLEAN
    BY DEF TypeOK
  <2>2. CASE Head(down).kind = "JOIN_OK"
    <3>1. /\ session' = Acked(session, "JOIN_OK", Head(down).id)
          /\ up' = IF session.joining = "joining"
                   THEN Append(up, Frame("REQUEST", 0)) ELSE up
      BY <2>2 DEF HandleAck, Receive
    <3>2. session' = Entered(session, session.session_id, FALSE)
      BY <1>1, <1>2, <2>2, <3>1 DEF Acked
    <3>3. up' = <<Frame("REQUEST", 0)>>
      BY <1>1, <1>2, <2>2, <3>1
    <3>4. Frame("REQUEST", 0).kind \in Talk
      BY DEF Frame, Talk
    <3>5. ctx.host = FALSE /\ ctx.id = session.session_id
      BY <1>1, <1>2, <2>1, <2>2
    <3>6. session' = Entered(session, ctx.id, ctx.host)
      BY <3>2, <3>5
    <3> QED
      BY <3>3, <3>4, <3>6
  <2>3. CASE Head(down).kind = "CREATE_OK"
    <3>1. /\ session' = Acked(session, "CREATE_OK", Head(down).id)
          /\ up' = up
      BY <2>3 DEF HandleAck, Receive
    <3>2. session' = Entered(session, Head(down).id, TRUE)
      BY <1>1, <1>2, <2>3, <3>1 DEF Acked
    <3>3. ctx.host = TRUE /\ ctx.id = Head(down).id
      BY <1>1, <1>2, <2>1, <2>3
    <3>4. session' = Entered(session, ctx.id, ctx.host)
      BY <3>2, <3>3
    <3> QED
      BY <1>2, <3>1, <3>4
  <2> QED
    BY <2>2, <2>3 DEF Granted
<1>4. UNCHANGED <<ui, ctx, open, ghosts>>
  BY DEF HandleAck, server
<1>5. ui.step = "idle"
  BY <1>1, <1>2 DEF Between, SessionInv, NoSession, Granted
<1>6. /\ session'.in_session /\ session'.joining = "in_session"
      /\ session' = Entered(session', ctx'.id, ctx'.host)
  BY <1>3, <1>4 DEF Entered
<1>7. SessionInv' /\ MemberInv'
  BY <1>2, <1>4, <1>5, <1>6 DEF SessionInv, MemberInv, Hosted
<1>8. EntryInv' /\ ByeInv' /\ TalkInv'
  BY <1>2, <1>3, <1>4, Kinds DEF EntryInv, ByeInv, TalkInv, Hosted
<1>9. GrantInv'
  <2>1. \A j \in 1..Len(down') : down'[j].kind = "LEFT"
    BY <1>1, <1>2
  <2> QED
    BY <2>1, Kinds DEF GrantInv
<1>10. OutsideInv'
  BY <1>4, <1>5, <1>6 DEF OutsideInv
<1> QED
  BY <1>4, <1>7, <1>8, <1>9, <1>10 DEF Between

\* No answer refuses anything.
LEMMA PollBetween ==
    ASSUME TypeOK, Between, Poll
    PROVE  Between'
<1>1. down # <<>> => Head(down).kind \in Granted \cup {"LEFT"}
  BY Taken DEF TypeOK, Between, GrantInv
<1>2. CASE HandleAck
  <2>1. Head(down).kind \in Granted \cup {"LEFT"}
    BY <1>1, <1>2 DEF HandleAck, Receive
  <2> QED
    BY <1>2, <2>1, TakeLeftBetween, TakeGrantBetween
<1>3. CASE HandleError \/ HandleClosed
  BY <1>1, <1>3, Kinds DEF HandleError, HandleClosed, Receive
<1> QED
  BY <1>2, <1>3 DEF Poll

\* An entry that is served is all there is under way, and finds the connection
\* in no session, so that none is forgotten.
LEMMA EntryServed ==
    ASSUME TypeOK, Between, up # <<>>, Head(up).kind \in Entry
    PROVE  /\ Tail(up) = <<>> /\ ~Hosted /\ Forgotten = {}
           /\ \A j \in 1..Len(down) : down[j].kind = "LEFT"
           /\ session.joining \in {"joining", "creating"}
           /\ Head(up).kind = "JOIN" => /\ session.joining = "joining"
                                       /\ Head(up).id = session.session_id
                                       /\ Head(up).id \in 1..Foreign
           /\ Head(up).kind = "CREATE" => session.joining = "creating"
<1>1. /\ 1 \in 1..Len(up) /\ Head(up) = up[1] /\ Tail(up) \in Seq(Requests)
      /\ Len(Tail(up)) = Len(up) - 1
  BY Taken DEF TypeOK
<1>2. /\ Len(up) = 1 /\ \A j \in 1..Len(down) : down[j].kind = "LEFT"
      /\ up[1].kind = "JOIN" => /\ session.joining = "joining"
                               /\ up[1].id = session.session_id
                               /\ up[1].id \in 1..Foreign
      /\ up[1].kind = "CREATE" => session.joining = "creating"
  BY <1>1 DEF Between, EntryInv
<1>3. session.joining \in {"joining", "creating"} /\ ~session.in_session
  <2>1. session.joining \in {"joining", "creating"}
    BY <1>1, <1>2 DEF Entry
  <2> QED
    BY <2>1 DEF Between, SessionInv, NoSession
<1>4. Tail(up) = <<>>
  <2> DEFINE rest == Tail(up)
  <2>1. rest \in Seq(Requests) /\ Len(rest) = 0
    BY <1>1, <1>2
  <2> HIDE DEF rest
  <2>2. rest = <<>>
    BY <2>1, Nothing
  <2> QED
    BY <2>2 DEF rest
<1>5. ~Hosted
  <2>1. \A i \in 1..Len(up) : up[i].kind \notin Bye
    BY <1>1, <1>2, Kinds
  <2> QED
    BY <1>2, <1>3, <2>1, Kinds DEF Between, OutsideInv
<1> QED
  BY <1>1, <1>2, <1>3, <1>4, <1>5 DEF Forgotten, Hosted

\* What is granted is what the server has done, and is waited for.
LEMMA GrantBetween ==
    ASSUME TypeOK, Between, NEW answer \in Answers,
           UNCHANGED <<session, ui>>, up' = <<>>, ghosts' = {},
           down' = Append(down, answer), ctx'.id \in open',
           \A j \in 1..Len(down) : down[j].kind = "LEFT",
           \/ /\ answer.kind = "JOIN_OK" /\ session.joining = "joining"
              /\ ctx'.id = session.session_id /\ ~ctx'.host
           \/ /\ answer.kind = "CREATE_OK" /\ session.joining = "creating"
              /\ ctx'.id = answer.id /\ ctx'.host
    PROVE  Between'
<1>1. /\ Len(down) \in Nat /\ Len(down') = Len(down) + 1
      /\ \A j \in 1..Len(down) : down'[j] = down[j]
      /\ down'[Len(down) + 1] = answer
  BY Put DEF TypeOK
<1>2. Hosted'
  BY DEF Hosted
<1>3. SessionInv' /\ MemberInv'
  BY DEF Between, SessionInv, MemberInv, NoSession
<1>4. EntryInv' /\ ByeInv' /\ TalkInv'
  BY <1>2 DEF EntryInv, ByeInv, TalkInv
<1>5. GrantInv'
  <2> SUFFICES ASSUME NEW j \in 1..Len(down')
      PROVE  /\ down'[j].kind \in Granted \cup {"LEFT"}
             /\ down'[j].kind \in Granted =>
                   /\ Hosted' /\ up' = <<>>
                   /\ \A i \in 1..Len(down') : i # j => down'[i].kind = "LEFT"
                   /\ down'[j].kind = "JOIN_OK" =>
                         /\ session'.joining = "joining"
                         /\ ctx'.id = session'.session_id /\ ~ctx'.host
                   /\ down'[j].kind = "CREATE_OK" =>
                         /\ session'.joining = "creating"
                         /\ ctx'.id = down'[j].id /\ ctx'.host
    BY DEF GrantInv
  <2>1. CASE j \in 1..Len(down)
    BY <1>1, <2>1, Kinds
  <2>2. CASE j = Len(down) + 1
    <3>1. \A i \in 1..Len(down') : i # j => down'[i].kind = "LEFT"
      BY <1>1, <2>2
    <3> QED
      BY <1>1, <1>2, <2>2, <3>1 DEF Granted
  <2> QED
    BY <1>1, <2>1, <2>2
<1>6. OutsideInv'
  <2>1. Len(down) + 1 \in 1..Len(down') /\ down'[Len(down) + 1].kind \in Granted
    BY <1>1 DEF Granted
  <2> QED
    BY <2>1 DEF OutsideInv
<1> QED
  BY <1>3, <1>4, <1>5, <1>6 DEF Between

\* The server opens a session and has the connection down as its host.
LEMMA ServeCreateBetween ==
    ASSUME TypeOK, Between, ServeCreate
    PROVE  Between'
<1>1. up # <<>> /\ Head(up).kind = "CREATE" /\ up' = Tail(up)
  BY DEF ServeCreate, Take
<1>2. /\ Tail(up) = <<>> /\ Forgotten = {} /\ session.joining = "creating"
      /\ \A j \in 1..Len(down) : down[j].kind = "LEFT"
  BY <1>1, EntryServed DEF Entry
<1>3. /\ Frame("CREATE_OK", next_id) \in Answers
      /\ Frame("CREATE_OK", next_id).kind = "CREATE_OK"
      /\ Frame("CREATE_OK", next_id).id = next_id
  BY FrameType DEF Granted, TypeOK
<1>4. /\ ctx'.id = next_id /\ ctx'.host /\ next_id \in open' /\ ghosts' = {}
      /\ down' = Append(down, Frame("CREATE_OK", next_id))
      /\ UNCHANGED <<session, ui>>
  BY <1>2 DEF ServeCreate, Answer, Between
<1> QED
  BY <1>1, <1>2, <1>3, <1>4, GrantBetween

\* The server has the connection down as a guest of the session asked for,
\* which is there.
LEMMA ServeJoinBetween ==
    ASSUME TypeOK, Undisturbed, Between, ServeJoin
    PROVE  Between'
<1>1. up # <<>> /\ Head(up).kind = "JOIN" /\ up' = Tail(up)
  BY DEF ServeJoin, Take
<1>2. /\ Tail(up) = <<>> /\ Forgotten = {} /\ session.joining = "joining"
      /\ \A j \in 1..Len(down) : down[j].kind = "LEFT"
      /\ Head(up).id = session.session_id /\ Head(up).id \in open
  BY <1>1, EntryServed DEF Entry, Undisturbed
<1>3. /\ Frame("JOIN_OK", 0) \in Answers
      /\ Frame("JOIN_OK", 0).kind = "JOIN_OK"
  BY FrameType DEF Granted
<1>4. /\ ctx' = [id |-> Head(up).id, host |-> FALSE]
      /\ ghosts' = {} /\ open' = open
      /\ down' = Append(down, Frame("JOIN_OK", 0))
      /\ UNCHANGED <<session, ui>>
  BY <1>2 DEF ServeJoin, Answer, Between
<1>5. ctx'.id = session.session_id /\ ctx'.id \in open' /\ ~ctx'.host
  BY <1>2, <1>4
<1> QED
  BY <1>1, <1>2, <1>3, <1>4, <1>5, GrantBetween

\* The server has the connection leave the session, of which it then knows no
\* more; what comes behind the goodbye is an entry at most.
LEMMA ServeLeaveBetween ==
    ASSUME TypeOK, Between, ServeLeave
    PROVE  Between'
<1>1. /\ Len(up) \in Nat /\ 1 \in 1..Len(up) /\ Head(up) = up[1]
      /\ Len(up') = Len(up) - 1
      /\ \A i \in 1..Len(up') : i + 1 \in 1..Len(up) /\ up'[i] = up[i + 1]
      /\ up[1].kind \in Bye
  BY Taken DEF ServeLeave, Take, TypeOK, Bye
<1>2. /\ Hosted /\ (up[1].kind = "CLOSE" => ctx.host)
      /\ session.in_session => ui.step = "leave"
      /\ \A j \in 2..Len(up) : up[j].kind \in Entry
  BY <1>1 DEF Between, ByeInv
<1>3. Left
  BY <1>1, <1>2 DEF ServeLeave, Hosted
<1>4. ghosts = {}
  BY DEF Between
<1>5. Frame("LEFT", 0) \in Answers /\ Frame("LEFT", 0).kind = "LEFT"
  BY FrameType
<1>6. down' = Append(down, Frame("LEFT", 0))
  <2>1. CASE ctx.host
    <3>1. ClosedTo(ctx.id) = <<>>
      BY <1>4 DEF ClosedTo
    <3>2. down' = down \o <<>> \o <<Frame("LEFT", 0)>>
      BY <1>3, <2>1, <3>1 DEF Left
    <3> QED
      BY <1>5, <3>2, PutBehind DEF TypeOK
  <2>2. CASE ~ctx.host
    BY <1>3, <2>2 DEF Left, Answer
  <2> QED
    BY <2>1, <2>2
<1>7. /\ Len(down) \in Nat /\ Len(down') = Len(down) + 1
      /\ \A j \in 1..Len(down) : down'[j] = down[j]
      /\ down'[Len(down) + 1].kind = "LEFT"
  BY <1>5, <1>6, Put DEF TypeOK
<1>8. up # <<>>
  BY DEF ServeLeave, Take
<1>9. \A j \in 1..Len(down') : down'[j].kind = "LEFT"
  <2>1. \A j \in 1..Len(down) : down[j].kind = "LEFT"
    BY <1>8 DEF Between, GrantInv
  <2> QED
    BY <1>7, <2>1
<1>10. /\ ~Hosted' /\ ghosts' = {}
       /\ UNCHANGED <<session, ui>>
  <2>1. ctx' = Nowhere /\ open' \subseteq open /\ ghosts' \subseteq ghosts
    BY <1>3 DEF Left
  <2>2. 0 \notin open
    BY DEF TypeOK
  <2> QED
    BY <1>4, <2>1, <2>2 DEF ServeLeave, Hosted, Nowhere
<1>11. \A i \in 1..Len(up') : up'[i].kind \in Entry
  BY <1>1, <1>2
<1>12. SessionInv' /\ MemberInv'
  BY <1>2, <1>10 DEF Between, SessionInv, MemberInv
<1>13. EntryInv'
  <2> SUFFICES ASSUME NEW i \in 1..Len(up'), up'[i].kind \in Entry
      PROVE  /\ i = Len(up')
             /\ up'[i].kind = "JOIN" =>
                   /\ session'.joining = "joining"
                   /\ up'[i].id = session'.session_id /\ up'[i].id \in 1..Foreign
             /\ up'[i].kind = "CREATE" => session'.joining = "creating"
    BY <1>9 DEF EntryInv
  <2>1. i + 1 \in 1..Len(up) /\ up'[i] = up[i + 1]
    BY <1>1
  <2> QED
    BY <1>1, <1>10, <2>1 DEF Between, EntryInv
<1>14. ByeInv' /\ TalkInv'
  BY <1>11, Kinds DEF ByeInv, TalkInv
<1>15. GrantInv'
  BY <1>9, Kinds DEF GrantInv
<1>16. OutsideInv'
  BY <1>10 DEF OutsideInv
<1> QED
  BY <1>10, <1>12, <1>13, <1>14, <1>15, <1>16 DEF Between

\* What needs a session has one, and is not answered.
LEMMA ServeOtherBetween ==
    ASSUME TypeOK, Between, ServeOther
    PROVE  Between'
<1>1. /\ Len(up) \in Nat /\ 1 \in 1..Len(up) /\ Head(up) = up[1]
      /\ Len(up') = Len(up) - 1
      /\ \A i \in 1..Len(up') : i + 1 \in 1..Len(up) /\ up'[i] = up[i + 1]
      /\ \A i \in 2..Len(up) : i - 1 \in 1..Len(up') /\ up'[i - 1] = up[i]
      /\ up[1].kind \in Talk
  BY Taken DEF ServeOther, Take, TypeOK, Talk
<1>2. Hosted /\ up # <<>>
  BY <1>1 DEF Between, TalkInv, ServeOther, Take
<1>3. UNCHANGED <<session, ui, down, ctx, open, ghosts>>
  BY <1>2 DEF ServeOther, Hosted, server
<1>4. \A j \in 1..Len(down) : down[j].kind = "LEFT"
  BY <1>2 DEF Between, GrantInv
<1>5. SessionInv' /\ MemberInv'
  BY <1>3 DEF Between, SessionInv, MemberInv, Hosted
<1>6. EntryInv'
  <2> SUFFICES ASSUME NEW i \in 1..Len(up'), up'[i].kind \in Entry
      PROVE  /\ i = Len(up')
             /\ up'[i].kind = "JOIN" =>
                   /\ session'.joining = "joining"
                   /\ up'[i].id = session'.session_id /\ up'[i].id \in 1..Foreign
             /\ up'[i].kind = "CREATE" => session'.joining = "creating"
    BY <1>3, <1>4 DEF EntryInv
  <2>1. i + 1 \in 1..Len(up) /\ up'[i] = up[i + 1]
    BY <1>1
  <2> QED
    BY <1>1, <1>3, <2>1 DEF Between, EntryInv
<1>7. ByeInv'
  <2> SUFFICES ASSUME NEW i \in 1..Len(up'), up'[i].kind \in Bye
      PROVE  /\ Hosted' /\ (up'[i].kind = "CLOSE" => ctx'.host)
             /\ session'.in_session => ui'.step = "leave"
             /\ \A j \in i + 1..Len(up') : up'[j].kind \in Entry
    BY DEF ByeInv
  <2>1. i + 1 \in 1..Len(up) /\ up'[i] = up[i + 1]
    BY <1>1
  <2>2. /\ Hosted /\ (up[i + 1].kind = "CLOSE" => ctx.host)
        /\ session.in_session => ui.step = "leave"
        /\ \A j \in i + 2..Len(up) : up[j].kind \in Entry
    BY <2>1 DEF Between, ByeInv
  <2>3. ASSUME NEW j \in i + 1..Len(up') PROVE up'[j].kind \in Entry
    <3>1. j \in 1..Len(up') /\ j + 1 \in i + 2..Len(up) /\ up'[j] = up[j + 1]
      BY <1>1
    <3> QED
      BY <2>2, <3>1
  <2> QED
    BY <1>3, <2>1, <2>2, <2>3 DEF Hosted
<1>8. TalkInv'
  BY <1>2, <1>3 DEF TalkInv, Hosted
<1>9. GrantInv'
  BY <1>3, <1>4, Kinds DEF GrantInv
<1>10. OutsideInv'
  <2> SUFFICES ASSUME session'.in_session => ui'.step = "leave"
      PROVE  \E i \in 1..Len(up') : up'[i].kind \in Bye
    BY DEF OutsideInv
  <2>1. PICK i \in 1..Len(up) : up[i].kind \in Bye
    BY <1>2, <1>3, <1>4, Kinds DEF Between, OutsideInv
  <2>2. i \in 2..Len(up)
    BY <1>1, <2>1, Kinds
  <2> QED
    BY <1>1, <2>1, <2>2
<1> QED
  BY <1>3, <1>5, <1>6, <1>7, <1>8, <1>9, <1>10 DEF Between

-----------------------------------------------------------------------------
(* The theorems.                                                           *)

\* What has been closed is not opened again.
LEMMA StaysClosed ==
    ASSUME TypeOK, [Next]_vars, Undisturbed'
    PROVE  Undisturbed /\ ~CloseForeign
<1>1. ~CloseForeign
  BY DEF CloseForeign, Undisturbed
<1>2. open' \subseteq open \cup {next_id}
  BY <1>1 DEF Next, vars, server, User, ClickJoin, SendJoin, ClickCreate, SendCreate,
      ClickLeave, FinishLeave, ClickDraw, Poll, HandleAck, HandleError,
      HandleClosed, Serve, ServeCreate, ServeJoin, ServeLeave, Left, ServeOther
<1>3. next_id \notin 1..Foreign
  BY ClientSessionAssumption DEF TypeOK
<1> QED
  BY <1>1, <1>2, <1>3 DEF Undisturbed

\* Every step of a patient user, the poll thread and the server keeps it.
LEMMA EndsStep == Patient /\ EndsInv /\ [Next]_vars => EndsInv'
<1> SUFFICES ASSUME Patient, TypeOK, [Next]_vars, Undisturbed => Between, Undisturbed'
             PROVE  Between'
  BY TypeStep DEF EndsInv
<1>1. Undisturbed /\ Between /\ ~CloseForeign
  BY StaysClosed
<1>2. CASE User
  BY <1>1, <1>2, ClickEnterBetween, SendEnterBetween, ClickLeaveBetween,
     FinishLeaveBetween, ClickDrawBetween DEF User
<1>3. CASE Poll
  BY <1>1, <1>3, PollBetween
<1>4. CASE Serve
  BY <1>1, <1>4, ServeCreateBetween, ServeJoinBetween, ServeLeaveBetween,
     ServeOtherBetween DEF Serve
<1>5. CASE UNCHANGED vars
  BY <1>1, <1>5 DEF vars, Between, SessionInv, MemberInv, EntryInv, ByeInv, TalkInv,
      GrantInv, OutsideInv, Hosted
<1> QED
  BY <1>1, <1>2, <1>3, <1>4, <1>5 DEF Next

\* Whatever the user does, and whoever closes a session: the types are kept.
THEOREM TypeCorrect == Spec => []TypeOK
<1>1. Init => TypeOK
  BY TypeInit
<1>2. TypeOK /\ [Next]_vars => TypeOK'
  BY TypeStep
<1> QED
  BY <1>1, <1>2, PTL DEF Spec

\* For a patient user: what the two ends of the connection make of the session
\* differs only by what is under way (all handlers of both ends together).
THEOREM EndsMeet ==
    ASSUME Patient
    PROVE  Spec => []EndsInv
<1>1. Init => EndsInv
  BY EndsInit
<1>2. EndsInv /\ [Next]_vars => EndsInv'
  BY EndsStep
<1> QED
  BY <1>1, <1>2, PTL DEF Spec

\* For a patient user: whenever every request has been answered and no session
\* of others was closed, application and server agree about the session and
\* the part in it (HandleAck, SendJoin, ServeJoin and ServeLeave together).
THEOREM EndsAgree ==
    ASSUME Patient
    PROVE  Spec => []SidesAgree
<1>1. EndsInv => SidesAgree
  <2> SUFFICES ASSUME EndsInv, Quiet, Undisturbed
      PROVE  /\ session.in_session <=> ctx.id \in open
             /\ session.in_session =>
                   session.session_id = ctx.id /\ session.is_host = ctx.host
             /\ session.client_id = (IF session.in_session THEN ctx.id ELSE 0)
             /\ session.client_host = session.is_host
    BY DEF SidesAgree
  <2>1. TypeOK /\ SessionInv /\ MemberInv /\ OutsideInv
    BY DEF EndsInv, Between
  <2>2. /\ ui.step = "idle"
        /\ ~\E i \in 1..Len(up) : up[i].kind \in Bye
        /\ ~\E j \in 1..Len(down) : down[j].kind \in Granted
    BY DEF Quiet
  <2>3. session.in_session <=> Hosted
    BY <2>1, <2>2 DEF MemberInv, OutsideInv
  <2>4. CASE session.in_session
    BY <2>1, <2>2, <2>3, <2>4 DEF MemberInv, Entered, Hosted
  <2>5. CASE ~session.in_session
    <3>1. /\ session.client_id = 0 /\ session.client_host = FALSE
          /\ session.is_host = FALSE
      BY <2>1, <2>5 DEF SessionInv, NoSession, TypeOK, SessionRec
    <3> QED
      BY <2>3, <2>5, <3>1 DEF Hosted
  <2> QED
    BY <2>4, <2>5
<1> QED
  BY <1>1, EndsMeet, PTL

\* For a patient user: the server forgets no membership of this connection, as
\* long as no session of others was closed (ServeCreate and ServeJoin, which
\* overwrite the context, and ServeLeave).
THEOREM NothingForgotten ==
    ASSUME Patient
    PROVE  Spec => []NoGhosts
<1>1. EndsInv => NoGhosts
  BY DEF EndsInv, Between, NoGhosts
<1> QED
  BY <1>1, EndsMeet, PTL

=============================================================================
