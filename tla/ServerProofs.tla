---------------------------- MODULE ServerProofs ----------------------------
(***************************************************************************)
(* Proofs about Server, for any set of connections and any bounds.         *)
(***************************************************************************)
EXTENDS Server, TLAPS

\* Ids are positive, so that None is not one of them.
LEMMA PositiveIds ==
    /\ SessionIds \subseteq Nat \ {None} /\ MemberIds \subseteq Nat \ {None}
    /\ None \in Nat /\ (MemberIds \cup {None}) \subseteq Nat
BY ServerAssumption DEF SessionIds, MemberIds, None

-----------------------------------------------------------------------------
(* Types.                                                                  *)

\* Contexts and their fields.
LEMMA ContextType ==
    /\ NoCtx \in ContextRec
    /\ \A m \in MemberIds \cup {None}, s \in SessionIds \cup {None} :
          /\ Context(m, s) \in ContextRec
          /\ Context(m, s).member = m /\ Context(m, s).session = s
    /\ \A x \in ContextRec : /\ x.member \in MemberIds \cup {None}
                             /\ x.session \in SessionIds \cup {None}
BY DEF NoCtx, Context, ContextRec

\* Notifications and their fields.
LEMMA FrameType ==
    /\ NoFrame \in FrameRec
    /\ \A kind \in Kinds, m \in Nat :
          /\ Frame(kind, m) \in FrameRec
          /\ Frame(kind, m).kind = kind /\ Frame(kind, m).member = m
    /\ \A f \in FrameRec : f.kind \in Kinds /\ f.member \in Nat
BY DEF NoFrame, Frame, FrameRec, Kinds, None

\* Everything a client does to what it knows yields a client state.
LEMMA ClientType ==
    ASSUME NEW known \in ClientRec
    PROVE  /\ Outside \in ClientRec
           /\ Requested(known) \in ClientRec
           /\ \A ids \in SUBSET Nat : Informed(known, ids) \in ClientRec
           /\ \A m \in MemberIds \cup {None} : Entered(known, m) \in ClientRec
           /\ \A f \in FrameRec : Received(known, f) \in ClientRec
<1>1. Outside \in ClientRec
  BY DEF Outside, ClientRec
<1>2. Requested(known) \in ClientRec
  BY DEF Requested, ClientRec
<1>3. \A ids \in SUBSET Nat : Informed(known, ids) \in ClientRec
  BY DEF Informed, ClientRec
<1>4. \A m \in MemberIds \cup {None} : Entered(known, m) \in ClientRec
  BY PositiveIds DEF Entered, ClientRec
<1>5. \A f \in FrameRec : Received(known, f) \in ClientRec
  <2>1. \A m \in Nat : [known EXCEPT !.roster = @ \ {m}] \in ClientRec
    BY DEF ClientRec
  <2>2. \A m \in Nat : Informed(known, {m}) \in ClientRec
    BY <1>3
  <2> QED
    BY <1>1, <2>1, <2>2, FrameType DEF Received
<1> QED
  BY <1>1, <1>2, <1>3, <1>4, <1>5

\* The initial state is well typed.
LEMMA TypeInit == Init => TypeOK
<1> USE ServerAssumption DEF SessionIds, MemberIds, None
<1>1. Outside \in ClientRec
  BY DEF Outside, ClientRec
<1> QED
  BY <1>1, ContextType, FrameType DEF Init, TypeOK, Labels

\* Starting a notification keeps the relay variables well typed.
LEMMA NotifyType ==
    ASSUME TypeOK, NEW c \in Conns, NEW kind \in Kinds, NEW about \in Nat,
           NEW to \in SUBSET (MemberIds \cup {None}), NEW next \in {"reading", "register", "gone"},
           Notify(c, kind, about, to, next)
    PROVE  /\ sessions_mutex' \in Conns
           /\ frame' \in [Conns -> FrameRec]
           /\ todo' \in [Conns -> SUBSET (MemberIds \cup {None})]
           /\ after' \in [Conns -> {"reading", "register", "gone"}]
           /\ pc' \in [Conns -> Labels]
           /\ \A d \in Conns : pc'[d] = "send" => pc[d] = "send"
BY FrameType DEF Notify, TypeOK, Goto, Labels

\* So does handle_leave, with the registry and the client.
LEMMA LeaveType ==
    ASSUME TypeOK, NEW c \in Conns, NEW next \in {"reading", "register", "gone"}, LeaveBy(c, next)
    PROVE  TypeOK'
<1> DEFINE s == ctx[c].session
           rest == members[s] \ {ctx[c].member}
<1> USE DEF TypeOK
<1>1. s \in SessionIds /\ rest \in SUBSET MemberIds /\ s \in Nat
  <2>1. s \in SessionIds
    BY DEF LeaveBy, InSession
  <2>2. members[s] \in SUBSET MemberIds
    BY <2>1
  <2>3. rest \in SUBSET MemberIds
    BY <2>2
  <2>4. s \in Nat
    BY <2>1, PositiveIds
  <2> QED
    BY <2>1, <2>3, <2>4
<1>2. ctx[c].member \in Nat
  BY ContextType, PositiveIds
<1>3. \/ Notify(c, "SESSION_CLOSED", s, rest, next)
      \/ Notify(c, "MEMBER_LEFT", ctx[c].member, rest, next)
  BY DEF LeaveBy
<1>4. "SESSION_CLOSED" \in Kinds /\ "MEMBER_LEFT" \in Kinds
  BY DEF Kinds
<1>5. /\ members' = [members EXCEPT ![s] = rest]
      /\ ctx' = [ctx EXCEPT ![c] = NoCtx]
      /\ client' = [client EXCEPT ![c] = Outside]
      /\ UNCHANGED <<sessions, host, counters, connections, asked, target>>
  BY DEF LeaveBy
<1> HIDE DEF s, rest
<1>6. /\ sessions_mutex' \in Conns
      /\ frame' \in [Conns -> FrameRec]
      /\ todo' \in [Conns -> SUBSET (MemberIds \cup {None})]
      /\ after' \in [Conns -> {"reading", "register", "gone"}]
      /\ pc' \in [Conns -> Labels]
      /\ \A d \in Conns : pc'[d] = "send" => pc[d] = "send"
  <2> HIDE DEF TypeOK
  <2> QED
    BY <1>1, <1>2, <1>3, <1>4, NotifyType
<1>7. client' \in [Conns -> ClientRec]
  BY <1>5, ClientType
<1>8. ctx' \in [Conns -> ContextRec] /\ members' \in [SessionIds -> SUBSET MemberIds]
  BY <1>1, <1>5, ContextType
<1> QED
  BY <1>5, <1>6, <1>7, <1>8 DEF counters

\* Every step keeps every variable well typed.
LEMMA TypeStep == TypeOK /\ [Next]_vars => TypeOK'
<1> SUFFICES ASSUME TypeOK, [Next]_vars PROVE TypeOK'
  OBVIOUS
<1> USE ServerAssumption, ContextType, FrameType, ClientType
    DEF TypeOK, Goto, Labels
<1>1. ASSUME NEW c \in Conns, Accept(c) PROVE TypeOK'
  BY <1>1 DEF Accept, registry, counters, relayVars
<1>2. ASSUME NEW c \in Conns, Create(c) PROVE TypeOK'
  <2>1. next_session_id \in SessionIds /\ next_member_id \in MemberIds
    BY <1>2 DEF Create, SessionIds, MemberIds
  <2> QED
    BY <1>2, <2>1, PositiveIds DEF Create, MayEnter, relayVars, Asking
<1>3. ASSUME NEW c \in Conns, Join(c) PROVE TypeOK'
  <2>1. next_member_id \in MemberIds /\ next_member_id' \in 1..(MaxMembers + 1)
    BY <1>3 DEF Join, MemberIds
  <2>2. PICK s \in sessions :
            /\ members' = [members EXCEPT ![s] = @ \cup {next_member_id}]
            /\ ctx' = [ctx EXCEPT ![c] = Context(next_member_id, s)]
            /\ asked' = [asked EXCEPT ![c] = s]
            /\ Notify(c, "MEMBER_JOINED", next_member_id, members[s], "register")
    BY <1>3 DEF Join
  <2>3. "MEMBER_JOINED" \in Kinds /\ next_member_id \in Nat
            /\ members[s] \in SUBSET MemberIds
    BY <2>1, PositiveIds DEF Kinds
  <2>4. /\ sessions_mutex' \in Conns
        /\ frame' \in [Conns -> FrameRec]
        /\ todo' \in [Conns -> SUBSET (MemberIds \cup {None})]
        /\ after' \in [Conns -> {"reading", "register", "gone"}]
        /\ pc' \in [Conns -> Labels]
        /\ \A d \in Conns : pc'[d] = "send" => pc[d] = "send"
    <3> HIDE DEF TypeOK, Labels
    <3> QED
      BY <2>2, <2>3, NotifyType
  <2>5. client' \in [Conns -> ClientRec]
    BY <1>3 DEF Join, Asking
  <2>6. ctx' \in [Conns -> ContextRec] /\ members' \in [SessionIds -> SUBSET MemberIds]
            /\ asked' \in [Conns -> SessionIds \cup {None}]
    BY <2>1, <2>2
  <2> QED
    BY <1>3, <2>1, <2>4, <2>5, <2>6 DEF Join
<1>4. ASSUME NEW c \in Conns, JoinMissing(c) PROVE TypeOK'
  <2>1. next_member_id' \in 1..(MaxMembers + 1)
    BY <1>4 DEF JoinMissing
  <2>2. client' \in [Conns -> ClientRec] /\ asked' \in [Conns -> SessionIds \cup {None}]
    BY <1>4 DEF JoinMissing, Asking
  <2> QED
    BY <1>4, <2>1, <2>2 DEF JoinMissing, registry, relayVars
<1>5. ASSUME NEW c \in Conns, Register(c) PROVE TypeOK'
  BY <1>5 DEF Register, registry, counters, relayVars
<1>6. ASSUME NEW c \in Conns, Roster(c) PROVE TypeOK'
  BY <1>6 DEF Roster, registry, counters
<1>7. ASSUME NEW c \in Conns, Entries(c) PROVE TypeOK'
  <2>1. todo[c] \in SUBSET Nat
    BY PositiveIds
  <2>2. client' \in [Conns -> ClientRec]
    BY <1>7, <2>1 DEF Entries
  <2> QED
    BY <1>7, <2>2 DEF Entries, registry, counters
<1>8. ASSUME NEW c \in Conns, Ack(c) PROVE TypeOK'
  <2>1. client' \in [Conns -> ClientRec]
    BY <1>8 DEF Ack
  <2> QED
    BY <1>8, <2>1 DEF Ack, registry, counters, relayVars
<1>9. ASSUME NEW c \in Conns, Find(c) PROVE TypeOK'
  BY <1>9 DEF Find, registry, counters
<1>10. ASSUME NEW c \in Conns, Send(c) PROVE TypeOK'
  <2>1. client' \in [Conns -> ClientRec]
    BY <1>10 DEF Send
  <2> QED
    BY <1>10, <2>1 DEF Send, registry, counters
<1>11. ASSUME NEW c \in Conns, Unlock(c) PROVE TypeOK'
  <2>1. frame' \in [Conns -> FrameRec] /\ pc' \in [Conns -> Labels]
            /\ \A d \in Conns : pc'[d] = "send" => pc[d] = "send"
            /\ after' \in [Conns -> {"reading", "register", "gone"}] /\ sessions_mutex' = Free
    BY <1>11 DEF Unlock
  <2>2. /\ sessions' \subseteq SessionIds
        /\ host' \in [SessionIds -> MemberIds \cup {None}]
        /\ members' \in [SessionIds -> SUBSET MemberIds]
    <3>1. CASE frame[c].kind = "SESSION_CLOSED"
      <4>1. /\ sessions' = sessions \ {frame[c].member}
            /\ members' = [members EXCEPT ![frame[c].member] = {}]
            /\ host' = [host EXCEPT ![frame[c].member] = None]
        BY <1>11, <3>1 DEF Unlock
      <4> QED
        BY <4>1
    <3>2. CASE frame[c].kind # "SESSION_CLOSED"
      BY <1>11, <3>2 DEF Unlock, registry
    <3> QED
      BY <3>1, <3>2
  <2> QED
    BY <1>11, <2>1, <2>2 DEF Unlock, counters
<1>12. ASSUME NEW c \in Conns, RelayToHost(c) PROVE TypeOK'
  <2>1. ctx[c].session \in SessionIds
    BY <1>12 DEF RelayToHost, InSession
  <2>2. {host[ctx[c].session]} \in SUBSET (MemberIds \cup {None})
    BY <1>12, <2>1 DEF RelayToHost
  <2>3. "DATA" \in Kinds /\ None \in Nat
    BY PositiveIds DEF Kinds
  <2>4. Notify(c, "DATA", None, {host[ctx[c].session]}, "reading")
    BY <1>12 DEF RelayToHost
  <2>5. /\ sessions_mutex' \in Conns
        /\ frame' \in [Conns -> FrameRec]
        /\ todo' \in [Conns -> SUBSET (MemberIds \cup {None})]
        /\ after' \in [Conns -> {"reading", "register", "gone"}]
        /\ pc' \in [Conns -> Labels]
        /\ \A d \in Conns : pc'[d] = "send" => pc[d] = "send"
    <3> HIDE DEF TypeOK, Labels
    <3> QED
      BY <2>2, <2>3, <2>4, NotifyType
  <2> QED
    BY <1>12, <2>5 DEF RelayToHost, registry, counters
<1>13. ASSUME NEW c \in Conns, RelayToOthers(c) PROVE TypeOK'
  <2>1. ctx[c].session \in SessionIds
    BY <1>13 DEF RelayToOthers, InSession
  <2>2. members[ctx[c].session] \ {ctx[c].member} \in SUBSET (MemberIds \cup {None})
    BY <1>13, <2>1 DEF RelayToOthers
  <2>3. "DATA" \in Kinds /\ None \in Nat
    BY PositiveIds DEF Kinds
  <2>4. Notify(c, "DATA", None, members[ctx[c].session] \ {ctx[c].member}, "reading")
    BY <1>13 DEF RelayToOthers
  <2>5. /\ sessions_mutex' \in Conns
        /\ frame' \in [Conns -> FrameRec]
        /\ todo' \in [Conns -> SUBSET (MemberIds \cup {None})]
        /\ after' \in [Conns -> {"reading", "register", "gone"}]
        /\ pc' \in [Conns -> Labels]
        /\ \A d \in Conns : pc'[d] = "send" => pc[d] = "send"
    <3> HIDE DEF TypeOK, Labels
    <3> QED
      BY <2>2, <2>3, <2>4, NotifyType
  <2> QED
    BY <1>13, <2>5 DEF RelayToOthers, registry, counters
<1>14. ASSUME NEW c \in Conns, RelayToAll(c) PROVE TypeOK'
  <2>1. ctx[c].session \in SessionIds
    BY <1>14 DEF RelayToAll, InSession
  <2>2. members[ctx[c].session] \in SUBSET (MemberIds \cup {None})
    BY <1>14, <2>1 DEF RelayToAll
  <2>3. "DATA" \in Kinds /\ None \in Nat
    BY PositiveIds DEF Kinds
  <2>4. Notify(c, "DATA", None, members[ctx[c].session], "reading")
    BY <1>14 DEF RelayToAll
  <2>5. /\ sessions_mutex' \in Conns
        /\ frame' \in [Conns -> FrameRec]
        /\ todo' \in [Conns -> SUBSET (MemberIds \cup {None})]
        /\ after' \in [Conns -> {"reading", "register", "gone"}]
        /\ pc' \in [Conns -> Labels]
        /\ \A d \in Conns : pc'[d] = "send" => pc[d] = "send"
    <3> HIDE DEF TypeOK, Labels
    <3> QED
      BY <2>2, <2>3, <2>4, NotifyType
  <2> QED
    BY <1>14, <2>5 DEF RelayToAll, registry, counters
<1>15. ASSUME NEW c \in Conns, Leave(c) PROVE TypeOK'
  BY <1>15, LeaveType DEF Leave
<1>16. ASSUME NEW c \in Conns, LeaveMissing(c) PROVE TypeOK'
  BY <1>16 DEF LeaveMissing, registry, counters, relayVars, Outside
<1>17. ASSUME NEW c \in Conns, CloseSession(c) PROVE TypeOK'
  BY <1>17 DEF CloseSession, registry, counters, relayVars
<1>18. ASSUME NEW c \in Conns, CloseLeave(c) PROVE TypeOK'
  BY <1>18, LeaveType DEF CloseLeave
<1>19. ASSUME NEW c \in Conns, Disconnect(c) PROVE TypeOK'
  BY <1>19 DEF Disconnect, registry, counters, relayVars
<1>20. ASSUME NEW c \in Conns, Unregister(c) PROVE TypeOK'
  BY <1>20 DEF Unregister, registry, counters, relayVars
<1>21. ASSUME NEW c \in Conns, ExitLeave(c) PROVE TypeOK'
  BY <1>21, LeaveType DEF ExitLeave
<1>22. ASSUME NEW c \in Conns, ExitMissing(c) PROVE TypeOK'
  BY <1>22 DEF ExitMissing, registry, counters, relayVars
<1>23. CASE UNCHANGED vars
  BY <1>23 DEF vars
<1> QED
  BY <1>1, <1>2, <1>3, <1>4, <1>5, <1>6, <1>7, <1>8, <1>9, <1>10, <1>11,
     <1>12, <1>13, <1>14, <1>15, <1>16, <1>17, <1>18, <1>19, <1>20, <1>21, <1>22,
     <1>23
  DEF Next, Enter, Relay, Exit, Terminated

-----------------------------------------------------------------------------
(* What the actions that change a session or a context do, as facts.       *)

Others(c) == /\ \A d \in Conns \ {c} : /\ ctx'[d] = ctx[d] /\ pc'[d] = pc[d]
                                       /\ frame'[d] = frame[d]
                                       /\ todo'[d] = todo[d]
                                       /\ after'[d] = after[d]
                                       /\ client'[d] = client[d]
             /\ UNCHANGED target

\* A client that has sent a CREATE or a JOIN is waiting or in a session.
LEMMA RequestedState == \A known \in ClientRec : Requested(known).state # "none"
BY DEF Requested, ClientRec

CreateFacts(c) ==
    LET s == next_session_id
        m == next_member_id
    IN  /\ s \in SessionIds /\ s \notin sessions /\ sessions' = sessions \cup {s}
        /\ m \in MemberIds
        /\ next_session_id' = s + 1 /\ next_member_id' = m + 1
        /\ members'[s] = {m} /\ host'[s] = m
        /\ \A x \in sessions : members'[x] = members[x] /\ host'[x] = host[x]
        /\ ctx'[c].member = m /\ ctx'[c].session = s
        /\ pc[c] = "reading" /\ pc'[c] = "register"
        /\ client'[c].state # "none" /\ (Orderly => client[c].state = "none")
        /\ frame' = frame /\ todo' = todo /\ after' = after
        /\ connections' = connections
        /\ sessions_mutex = Free /\ sessions_mutex' = Free
        /\ Others(c)

\* handle_create: a new session with fresh ids, of which the handler is host.
LEMMA CreateEffect ==
    ASSUME TypeOK, FreshInv, NEW c \in Conns, Create(c)
    PROVE  CreateFacts(c)
<1> USE DEF CreateFacts
<1> USE DEF TypeOK
<1>1. next_session_id \in SessionIds /\ next_member_id \in MemberIds
  BY DEF Create, SessionIds, MemberIds
<1>2. next_session_id \notin sessions
  BY DEF FreshInv, SessionIds
<1>3. client'[c].state # "none"
  BY RequestedState DEF Create, Asking
<1>4. ctx'[c].member = next_member_id /\ ctx'[c].session = next_session_id
  BY <1>1, ContextType DEF Create
<1>5. Others(c)
  BY DEF Create, Others, Goto, Asking, relayVars
<1> QED
  BY <1>1, <1>2, <1>3, <1>4, <1>5 DEF Create, MayEnter, Goto, relayVars

JoinFacts(c) ==
    LET m == next_member_id
    IN  /\ m \in MemberIds /\ next_member_id' = m + 1
        /\ \E s \in sessions :
              /\ members'[s] = members[s] \cup {m}
              /\ \A x \in sessions \ {s} : members'[x] = members[x]
              /\ ctx'[c].member = m /\ ctx'[c].session = s
              /\ todo'[c] = members[s]
        /\ frame'[c].kind = "MEMBER_JOINED" /\ after'[c] = "register"
        /\ pc[c] = "reading" /\ pc'[c] = "relay"
        /\ client'[c].state # "none" /\ (Orderly => client[c].state = "none")
        /\ sessions_mutex = Free /\ sessions_mutex' = c
        /\ UNCHANGED <<sessions, host, next_session_id, connections>>
        /\ Others(c)

\* handle_join: a fresh member id in an open session, announced to the others.
LEMMA JoinEffect ==
    ASSUME TypeOK, NEW c \in Conns, Join(c)
    PROVE  JoinFacts(c)
<1> USE DEF JoinFacts
<1> USE DEF TypeOK
<1>1. next_member_id \in MemberIds
  BY DEF Join, MemberIds
<1>2. PICK s \in sessions :
          /\ members' = [members EXCEPT ![s] = @ \cup {next_member_id}]
          /\ ctx' = [ctx EXCEPT ![c] = Context(next_member_id, s)]
          /\ Notify(c, "MEMBER_JOINED", next_member_id, members[s], "register")
  BY DEF Join
<1>3. /\ members'[s] = members[s] \cup {next_member_id}
      /\ \A x \in sessions \ {s} : members'[x] = members[x]
  BY <1>2
<1>4. ctx'[c].member = next_member_id /\ ctx'[c].session = s
  BY <1>1, <1>2, ContextType
<1>5. "MEMBER_JOINED" \in Kinds /\ next_member_id \in Nat
  BY <1>1, PositiveIds DEF Kinds
<1>6. /\ frame'[c].kind = "MEMBER_JOINED" /\ after'[c] = "register"
      /\ todo'[c] = members[s]
      /\ pc'[c] = "relay" /\ sessions_mutex = Free /\ sessions_mutex' = c
  BY <1>2, <1>5, FrameType DEF Notify, Goto
<1>7. client'[c].state # "none"
  BY RequestedState DEF Join, Asking
<1>8. Others(c)
  BY <1>2 DEF Join, Others, Goto, Asking, Notify
<1> QED
  BY <1>1, <1>3, <1>4, <1>6, <1>7, <1>8 DEF Join, MayEnter

LeaveFacts(c) ==
    LET s == ctx[c].session
    IN  /\ s \in sessions /\ ctx[c].member # None
        /\ members'[s] = members[s] \ {ctx[c].member}
        /\ \A x \in sessions \ {s} : members'[x] = members[x]
        /\ ctx'[c].member = None /\ ctx'[c].session = None
        /\ todo'[c] = members'[s]
        /\ \/ frame'[c].kind = "SESSION_CLOSED" /\ frame'[c].member = s
           \/ /\ frame'[c].kind = "MEMBER_LEFT"
              /\ host[s] # ctx[c].member
        /\ pc'[c] = "relay" /\ after'[c] \in {"reading", "gone"}
        /\ sessions_mutex = Free /\ sessions_mutex' = c
        /\ UNCHANGED <<sessions, host, counters, connections>>
        /\ Others(c)

\* handle_leave: the handler is out; the others are told so, or that it is over.
LEMMA LeaveEffect ==
    ASSUME TypeOK, NEW c \in Conns, NEW next \in {"reading", "gone"},
           LeaveBy(c, next)
    PROVE  LeaveFacts(c)
<1> USE DEF LeaveFacts
<1> DEFINE s == ctx[c].session
           rest == members[s] \ {ctx[c].member}
<1> USE DEF TypeOK
<1>1. s \in sessions /\ ctx[c].member # None
  BY DEF LeaveBy, InSession
<1>2. /\ members' = [members EXCEPT ![s] = rest]
      /\ ctx' = [ctx EXCEPT ![c] = NoCtx]
      /\ client' = [client EXCEPT ![c] = Outside]
      /\ UNCHANGED <<sessions, host, counters, connections, target>>
  BY DEF LeaveBy
<1>3. PICK kind \in Kinds, about \in Nat :
          /\ Notify(c, kind, about, rest, next)
          /\ \/ kind = "SESSION_CLOSED" /\ about = s
             \/ kind = "MEMBER_LEFT" /\ host[s] # ctx[c].member
  <2>1. s \in Nat /\ ctx[c].member \in Nat
    BY <1>1, PositiveIds, ContextType
  <2>2. "SESSION_CLOSED" \in Kinds /\ "MEMBER_LEFT" \in Kinds
    BY DEF Kinds
  <2> QED
    BY <2>1, <2>2 DEF LeaveBy, IsHost
<1>4. /\ members'[s] = rest /\ \A x \in sessions \ {s} : members'[x] = members[x]
      /\ ctx'[c] = NoCtx
  BY <1>1, <1>2
<1>5. /\ frame'[c] = Frame(kind, about) /\ todo'[c] = rest /\ after'[c] = next
      /\ pc'[c] = "relay" /\ sessions_mutex = Free /\ sessions_mutex' = c
  BY <1>3 DEF Notify, Goto
<1>6. Others(c)
  BY <1>2, <1>3 DEF Others, Notify, Goto
<1>7. NoCtx.member = None /\ NoCtx.session = None
  BY DEF NoCtx, Context
<1> HIDE DEF TypeOK
<1> QED
  BY <1>1, <1>2, <1>3, <1>4, <1>5, <1>6, <1>7, FrameType

UnlockFacts(c) ==
    /\ \/ /\ frame[c].kind = "SESSION_CLOSED"
          /\ sessions' = sessions \ {frame[c].member}
       \/ frame[c].kind # "SESSION_CLOSED" /\ sessions' = sessions
    /\ \A x \in sessions' : members'[x] = members[x] /\ host'[x] = host[x]
    /\ pc[c] = "relay" /\ pc'[c] = after[c]
    /\ after[c] \in {"reading", "register", "gone"}
    /\ sessions_mutex' = Free
    /\ UNCHANGED <<counters, connections, ctx, todo, client>>
    /\ Others(c)

\* The end of a notification: a closed session is gone, the lock is free.
LEMMA UnlockEffect ==
    ASSUME TypeOK, NEW c \in Conns, Unlock(c)
    PROVE  UnlockFacts(c)
<1> USE DEF UnlockFacts
<1> USE DEF TypeOK
<1>1. CASE frame[c].kind = "SESSION_CLOSED"
  <2>1. /\ sessions' = sessions \ {frame[c].member}
        /\ members' = [members EXCEPT ![frame[c].member] = {}]
        /\ host' = [host EXCEPT ![frame[c].member] = None]
    BY <1>1 DEF Unlock
  <2>2. \A x \in sessions' : members'[x] = members[x] /\ host'[x] = host[x]
    BY <2>1
  <2> QED
    BY <1>1, <2>1, <2>2 DEF Unlock, Others, Goto
<1>2. CASE frame[c].kind # "SESSION_CLOSED"
  BY <1>2 DEF Unlock, Others, Goto, registry
<1> QED
  BY <1>1, <1>2

FindFacts(c) ==
    /\ pc[c] = "relay" /\ pc'[c] \in Relaying
    /\ \E m \in todo[c] :
          /\ todo'[c] = todo[c] \ {m}
          /\ target'[c] = connections[m]
          /\ connections[m] # NoConn => pc'[c] = "send"
    /\ \A d \in Conns \ {c} : /\ pc'[d] = pc[d] /\ todo'[d] = todo[d]
                              /\ target'[d] = target[d]
    /\ UNCHANGED <<registry, counters, connections, sessions_mutex, ctx,
                   frame, after, client>>

\* sendNotification: one recipient less, and its connection looked up.
LEMMA FindEffect ==
    ASSUME TypeOK, NEW c \in Conns, Find(c)
    PROVE  FindFacts(c)
BY DEF Find, FindFacts, TypeOK, Goto, Relaying

SendFacts(c) ==
    /\ pc[c] = "send" /\ pc'[c] = "relay" /\ target'[c] = NoConn
    /\ \A d \in Conns \ {c} : pc'[d] = pc[d] /\ target'[d] = target[d]
    /\ \A d \in Conns :
          client'[d].state = "none" =>
             \/ client[d].state = "none"
             \/ d = target[c] /\ frame[c].kind = "SESSION_CLOSED"
    /\ UNCHANGED <<registry, counters, connections, sessions_mutex, ctx,
                   frame, todo, after>>

\* sendNotification: only a SESSION_CLOSED makes a client forget its session.
LEMMA SendEffect ==
    ASSUME TypeOK, NEW c \in Conns, Send(c)
    PROVE  SendFacts(c)
<1> DEFINE known == client[target[c]]
<1>1. ASSUME target[c] \in Conns, frame[c].kind # "SESSION_CLOSED"
      PROVE  Received(known, frame[c]).state = known.state
  <2>1. known \in ClientRec
    BY <1>1 DEF TypeOK
  <2>2. \A ids : Informed(known, ids).state = known.state
    BY <2>1 DEF Informed, ClientRec
  <2>3. \A ids : [known EXCEPT !.roster = @ \ ids].state = known.state
    BY <2>1 DEF ClientRec
  <2> QED
    BY <1>1, <2>2, <2>3 DEF Received
<1>2. \A d \in Conns :
          client'[d].state = "none" =>
             \/ client[d].state = "none"
             \/ d = target[c] /\ frame[c].kind = "SESSION_CLOSED"
  BY <1>1 DEF Send, TypeOK
<1> QED
  BY <1>2 DEF Send, SendFacts, TypeOK, Goto

RelayFacts(c) ==
    LET s == ctx[c].session
    IN  /\ s \in sessions
        /\ pc[c] = "reading" /\ pc'[c] = "relay"
        /\ sessions_mutex = Free /\ sessions_mutex' = c
        /\ frame'[c].kind = "DATA" /\ after'[c] = "reading"
        /\ todo'[c] \subseteq members[s] \cup {host[s]}
        /\ UNCHANGED <<registry, counters, connections, ctx, client>>
        /\ Others(c)

\* DRAW, CANVAS_STATE and their like: the host or the members are written to.
LEMMA RelayEffect ==
    ASSUME TypeOK, NEW c \in Conns,
           RelayToHost(c) \/ RelayToOthers(c) \/ RelayToAll(c)
    PROVE  RelayFacts(c)
<1> DEFINE s == ctx[c].session
<1>1. PICK to : /\ to \subseteq members[s] \cup {host[s]}
                /\ Notify(c, "DATA", None, to, "reading")
  BY DEF RelayToHost, RelayToOthers, RelayToAll
<1>2. /\ UNCHANGED <<registry, counters, connections, ctx, client, target>>
      /\ pc[c] = "reading" /\ s \in sessions
  BY DEF RelayToHost, RelayToOthers, RelayToAll, InSession
<1>3. Frame("DATA", None).kind = "DATA"
  BY DEF Frame
<1> QED
  BY <1>1, <1>2, <1>3 DEF Notify, RelayFacts, Others, TypeOK, Goto

\* The other actions: the registry stays as it is, and so does every handler
\* that is sending a notification.
QuietFacts(c) ==
    /\ UNCHANGED <<registry, next_session_id, sessions_mutex, ctx, frame,
                   target, after>>
    /\ next_member_id' \in {next_member_id, next_member_id + 1}
    /\ pc[c] \notin Relaying /\ pc'[c] \notin Relaying /\ pc'[c] # "absent"
    /\ pc'[c] = "gone" => ctx[c].session \notin sessions
    /\ pc[c] \in {"absent", "gone"} => pc[c] = "absent"
    /\ \A d \in Conns \ {c} : pc'[d] = pc[d] /\ todo'[d] = todo[d]
    /\ \A m \in MemberIds :
          \/ connections'[m] \in {connections[m], NoConn}
          \/ connections'[m] = c /\ m = ctx[c].member
    /\ \A d \in Conns :
          client'[d].state = "none" =>
             client[d].state = "none" \/ ctx[d].session \notin sessions

QuietAction(c) ==
    \/ Accept(c) \/ JoinMissing(c) \/ Register(c) \/ Roster(c) \/ Entries(c)
    \/ Ack(c) \/ LeaveMissing(c) \/ CloseSession(c) \/ Disconnect(c)
    \/ Unregister(c) \/ ExitMissing(c)

\* Of what a client receives only a SESSION_CLOSED ends its session.
LEMMA KnownStates ==
    ASSUME NEW known \in ClientRec
    PROVE  /\ Requested(known).state # "none"
           /\ \A ids : Informed(known, ids).state = known.state
           /\ \A m : Entered(known, m).state = "none" => known.state = "none"
BY DEF Requested, Informed, Entered, ClientRec

\* What the actions that leave the registry alone have in common.
LEMMA QuietEffect ==
    ASSUME TypeOK, ContextInv, NEW c \in Conns, QuietAction(c)
    PROVE  QuietFacts(c)
<1>0. /\ None \notin sessions
      /\ ctx[c].member = None => ctx[c].session \notin sessions
  BY PositiveIds DEF TypeOK, ContextInv
<1> USE DEF QuietFacts, TypeOK, Relaying, Goto, registry, counters, relayVars
<1>1. CASE Accept(c)
  BY <1>1 DEF Accept
<1>2. CASE JoinMissing(c)
  BY <1>2, KnownStates DEF JoinMissing, MayEnter, Asking
<1>3. CASE Register(c)
  BY <1>3 DEF Register
<1>4. CASE Roster(c)
  BY <1>4 DEF Roster
<1>5. CASE Entries(c)
  BY <1>5, KnownStates DEF Entries
<1>6. CASE Ack(c)
  BY <1>6, KnownStates DEF Ack
<1>7. CASE LeaveMissing(c)
  BY <1>7, <1>0 DEF LeaveMissing, InSession
<1>8. CASE CloseSession(c)
  BY <1>8 DEF CloseSession
<1>9. CASE Disconnect(c)
  BY <1>9, <1>0 DEF Disconnect
<1>10. CASE Unregister(c)
  BY <1>10 DEF Unregister
<1>11. CASE ExitMissing(c)
  BY <1>11, <1>0 DEF ExitMissing, InSession
<1> QED
  BY <1>1, <1>2, <1>3, <1>4, <1>5, <1>6, <1>7, <1>8, <1>9, <1>10, <1>11
  DEF QuietAction

StepFacts(c) ==
    \/ CreateFacts(c) \/ JoinFacts(c) \/ LeaveFacts(c) \/ UnlockFacts(c)
    \/ FindFacts(c) \/ SendFacts(c) \/ RelayFacts(c) \/ QuietFacts(c)

\* Every step is one of the eight kinds above.
LEMMA StepEffect ==
    ASSUME TypeOK, FreshInv, ContextInv, Next
    PROVE  UNCHANGED vars \/ \E c \in Conns : StepFacts(c)
<1> SUFFICES ASSUME NEW c \in Conns, Enter(c) \/ Relay(c) \/ Exit(c)
             PROVE  StepFacts(c)
  BY DEF Next, Terminated
<1>1. CASE Create(c)
  BY <1>1, CreateEffect DEF StepFacts
<1>2. CASE Join(c)
  BY <1>2, JoinEffect DEF StepFacts
<1>3. CASE Leave(c) \/ CloseLeave(c) \/ ExitLeave(c)
  BY <1>3, LeaveEffect DEF StepFacts, Leave, CloseLeave, ExitLeave
<1>4. CASE Unlock(c)
  BY <1>4, UnlockEffect DEF StepFacts
<1>5. CASE Find(c)
  BY <1>5, FindEffect DEF StepFacts
<1>6. CASE Send(c)
  BY <1>6, SendEffect DEF StepFacts
<1>7. CASE RelayToHost(c) \/ RelayToOthers(c) \/ RelayToAll(c)
  BY <1>7, RelayEffect DEF StepFacts
<1>8. CASE QuietAction(c)
  BY <1>8, QuietEffect DEF StepFacts
<1> QED
  BY <1>1, <1>2, <1>3, <1>4, <1>5, <1>6, <1>7, <1>8
  DEF QuietAction, Enter, Relay, Exit

-----------------------------------------------------------------------------
(* The inductive invariant.                                                *)

IndInv == TypeOK /\ ServerInv

\* While sessions_mutex is free nobody sends a notification.
LEMMA FreeLock ==
    ASSUME TypeOK, LockInv, sessions_mutex = Free
    PROVE  /\ \A d \in Conns : pc[d] \notin Relaying
           /\ \A s \in sessions : ~Closing(s)
<1>1. \A d \in Conns : pc[d] \notin Relaying
  BY ServerAssumption DEF LockInv
<1> QED
  BY <1>1 DEF Closing, ClosedBy

\* One handler at most sends a notification.
LEMMA OneHolder ==
    ASSUME LockInv, NEW c \in Conns, pc[c] \in Relaying
    PROVE  \A d \in Conns : pc[d] \in Relaying => d = c
BY DEF LockInv

\* sessions_mutex belongs to the handler that sends a notification.
LEMMA LockStep ==
    ASSUME IndInv, NEW c \in Conns, StepFacts(c)
    PROVE  LockInv'
<1> USE ServerAssumption DEF IndInv, ServerInv, LockInv, Relaying, Others
<1>1. CASE CreateFacts(c)
  BY <1>1 DEF CreateFacts
<1>2. CASE JoinFacts(c)
  BY <1>2 DEF JoinFacts
<1>3. CASE LeaveFacts(c)
  BY <1>3 DEF LeaveFacts
<1>4. CASE UnlockFacts(c)
  BY <1>4 DEF UnlockFacts
<1>5. CASE FindFacts(c)
  BY <1>5 DEF FindFacts
<1>6. CASE SendFacts(c)
  BY <1>6 DEF SendFacts
<1>7. CASE RelayFacts(c)
  BY <1>7 DEF RelayFacts
<1>8. CASE QuietFacts(c)
  BY <1>8 DEF QuietFacts
<1> QED
  BY <1>1, <1>2, <1>3, <1>4, <1>5, <1>6, <1>7, <1>8 DEF StepFacts

\* The counters stay ahead of the ids in use.
LEMMA FreshStep ==
    ASSUME IndInv, NEW c \in Conns, StepFacts(c)
    PROVE  FreshInv'
<1>0. /\ next_member_id \in Nat /\ next_session_id \in Nat
      /\ sessions \subseteq Nat /\ MemberIds \subseteq Nat
      /\ \A d \in Conns : ctx[d].member \in Nat /\ ctx[d].session \in Nat
      /\ None \in Nat /\ None < next_member_id /\ None < next_session_id
      /\ \A m \in MemberIds : connections[m] = NoConn \/ m < next_member_id
  <2>1. TypeOK /\ FreshInv
    BY DEF IndInv, ServerInv
  <2>2. /\ next_member_id \in Nat /\ next_session_id \in Nat
        /\ None < next_member_id /\ None < next_session_id
    BY <2>1, ServerAssumption DEF TypeOK, None
  <2>3. sessions \subseteq Nat
    BY <2>1, PositiveIds DEF TypeOK
  <2>4. \A d \in Conns : ctx[d].member \in Nat /\ ctx[d].session \in Nat
    BY <2>1, PositiveIds, ContextType DEF TypeOK
  <2>5. \A m \in MemberIds : connections[m] = NoConn \/ m < next_member_id
    BY <2>1, <2>2, PositiveIds DEF FreshInv
  <2> QED
    BY <2>2, <2>3, <2>4, <2>5, PositiveIds
<1>10. /\ \A s \in sessions : s < next_session_id
       /\ \A d \in Conns : /\ ctx[d].member < next_member_id
                           /\ ctx[d].session < next_session_id
  BY DEF IndInv, ServerInv, FreshInv
<1>1. CASE CreateFacts(c)
  <2>1. /\ next_member_id' = next_member_id + 1
        /\ next_session_id' = next_session_id + 1
        /\ sessions' = sessions \cup {next_session_id}
        /\ ctx'[c].member = next_member_id /\ ctx'[c].session = next_session_id
        /\ connections' = connections
    BY <1>1 DEF CreateFacts
  <2>2. \A d \in Conns \ {c} : ctx'[d] = ctx[d]
    BY <1>1 DEF CreateFacts, Others
  <2>3. \A x \in sessions' : x < next_session_id'
    BY <1>0, <1>10, <2>1
  <2>4. \A d \in Conns : /\ ctx'[d].member < next_member_id'
                         /\ ctx'[d].session < next_session_id'
    <3>1. ASSUME NEW d \in Conns, d # c
          PROVE  ctx'[d].member < next_member_id' /\ ctx'[d].session < next_session_id'
      <4>1. ctx'[d] = ctx[d]
        BY <2>2, <3>1
      <4>2. /\ ctx[d].member \in Nat /\ ctx[d].session \in Nat
            /\ ctx[d].member < next_member_id /\ ctx[d].session < next_session_id
        BY <1>0, <1>10
      <4> QED
        BY <1>0, <2>1, <4>1, <4>2
    <3>2. ctx'[c].member < next_member_id' /\ ctx'[c].session < next_session_id'
      BY <1>0, <1>10, <2>1
    <3> QED
      BY <3>1, <3>2
  <2>5. \A m \in MemberIds : m >= next_member_id' => connections'[m] = NoConn
    BY <1>0, <2>1
  <2> QED
    BY <2>3, <2>4, <2>5 DEF FreshInv
<1>2. CASE JoinFacts(c)
  <2>1. /\ next_member_id' = next_member_id + 1
        /\ ctx'[c].member = next_member_id /\ ctx'[c].session \in sessions
        /\ UNCHANGED <<sessions, next_session_id, connections>>
    BY <1>2 DEF JoinFacts
  <2>2. \A d \in Conns \ {c} : ctx'[d] = ctx[d]
    BY <1>2 DEF JoinFacts, Others
  <2>3. \A x \in sessions' : x < next_session_id'
    BY <1>10, <2>1
  <2>4. \A d \in Conns : /\ ctx'[d].member < next_member_id'
                         /\ ctx'[d].session < next_session_id'
    <3>1. ASSUME NEW d \in Conns, d # c
          PROVE  ctx'[d].member < next_member_id' /\ ctx'[d].session < next_session_id'
      <4>1. ctx'[d] = ctx[d]
        BY <2>2, <3>1
      <4>2. /\ ctx[d].member \in Nat /\ ctx[d].session \in Nat
            /\ ctx[d].member < next_member_id /\ ctx[d].session < next_session_id
        BY <1>0, <1>10
      <4> QED
        BY <1>0, <2>1, <4>1, <4>2
    <3>2. ctx'[c].member < next_member_id' /\ ctx'[c].session < next_session_id'
      <4>1. next_member_id < next_member_id + 1
        BY <1>0
      <4>2. ctx'[c].session < next_session_id'
        BY <1>10, <2>1
      <4> QED
        BY <2>1, <4>1, <4>2
    <3> QED
      BY <3>1, <3>2
  <2>5. \A m \in MemberIds : m >= next_member_id' => connections'[m] = NoConn
    BY <1>0, <2>1
  <2> QED
    BY <2>3, <2>4, <2>5 DEF FreshInv
<1> USE <1>0 DEF IndInv, ServerInv, FreshInv, Others
<1>3. CASE LeaveFacts(c)
  BY <1>3 DEF LeaveFacts, counters
<1>4. CASE UnlockFacts(c)
  BY <1>4 DEF UnlockFacts, counters
<1>5. CASE FindFacts(c)
  BY <1>5 DEF FindFacts, registry, counters
<1>6. CASE SendFacts(c)
  BY <1>6 DEF SendFacts, registry, counters
<1>7. CASE RelayFacts(c)
  BY <1>7 DEF RelayFacts, registry, counters
<1>8. CASE QuietFacts(c)
  BY <1>8 DEF QuietFacts, registry
<1> QED
  BY <1>1, <1>2, <1>3, <1>4, <1>5, <1>6, <1>7, <1>8 DEF StepFacts

\* An orderly client that may CREATE or JOIN is in no open session.
LEMMA EnterFromOutside ==
    ASSUME IndInv, Orderly, NEW c \in Conns, CreateFacts(c) \/ JoinFacts(c)
    PROVE  ctx[c].session \notin sessions
<1>1. client[c].state = "none" /\ sessions_mutex = Free
  BY DEF CreateFacts, JoinFacts
<1> QED
  BY <1>1, FreeLock DEF IndInv, ServerInv, ClientInv

\* Contexts: an open session's are of live handlers, members, and unique.
LEMMA ContextStep ==
    ASSUME IndInv, Orderly, NEW c \in Conns, StepFacts(c)
    PROVE  ContextInv'
<1>0. /\ None \notin sessions /\ None \notin MemberIds /\ None \notin SessionIds
      /\ \A d \in Conns : /\ ctx[d].member # next_member_id
                          /\ ctx[d].session # next_session_id
      /\ Relaying = {"relay", "send"}
  <2>1. \A d \in Conns : ctx[d].member \in Nat /\ ctx[d].session \in Nat
    BY PositiveIds, ContextType DEF IndInv, TypeOK
  <2> QED
    BY <2>1, PositiveIds DEF IndInv, TypeOK, ServerInv, FreshInv, Relaying
<1> USE <1>0 DEF IndInv, ServerInv, ContextInv, Others
<1>1. CASE CreateFacts(c)
  BY <1>1 DEF CreateFacts
<1>2. CASE JoinFacts(c)
  BY <1>2 DEF JoinFacts
<1>3. CASE LeaveFacts(c)
  BY <1>3 DEF LeaveFacts, counters
<1>4. CASE UnlockFacts(c)
  BY <1>4 DEF UnlockFacts, counters
<1>5. CASE FindFacts(c)
  BY <1>5 DEF FindFacts, registry, counters
<1>6. CASE SendFacts(c)
  BY <1>6 DEF SendFacts, registry, counters
<1>7. CASE RelayFacts(c)
  BY <1>7 DEF RelayFacts, registry, counters
<1>8. CASE QuietFacts(c)
  BY <1>8 DEF QuietFacts, registry
<1> QED
  BY <1>1, <1>2, <1>3, <1>4, <1>5, <1>6, <1>7, <1>8 DEF StepFacts

\* Every member of an open session keeps its handler, and that its connection.
LEMMA OwnerStep ==
    ASSUME IndInv, Orderly, NEW c \in Conns, StepFacts(c)
    PROVE  OwnerInv'
<1>0. /\ connections[next_member_id] = NoConn \/ next_member_id \notin MemberIds
      /\ \A s \in sessions : \A m \in members[s] :
            m \in MemberIds /\ m # None /\ s # None
      /\ \A m \in MemberIds : connections[m] \in Conns \cup {NoConn}
      /\ NoConn \notin Conns
  BY PositiveIds, ServerAssumption DEF IndInv, TypeOK, ServerInv, FreshInv
<1> USE <1>0 DEF IndInv, ServerInv, OwnerInv, Others
<1>1. CASE CreateFacts(c)
  BY <1>1, EnterFromOutside DEF CreateFacts
<1>2. CASE JoinFacts(c)
  BY <1>2, EnterFromOutside DEF JoinFacts
<1>3. CASE LeaveFacts(c)
  BY <1>3 DEF LeaveFacts, counters, ContextInv
<1>4. CASE UnlockFacts(c)
  BY <1>4 DEF UnlockFacts, counters
<1>5. CASE FindFacts(c)
  BY <1>5 DEF FindFacts, registry, counters
<1>6. CASE SendFacts(c)
  BY <1>6 DEF SendFacts, registry, counters
<1>7. CASE RelayFacts(c)
  BY <1>7 DEF RelayFacts, registry, counters
<1>8. CASE QuietFacts(c)
  BY <1>8 DEF QuietFacts, registry, ContextInv
<1> QED
  BY <1>1, <1>2, <1>3, <1>4, <1>5, <1>6, <1>7, <1>8 DEF StepFacts

\* An open session keeps its host until it is being closed.
LEMMA HostStep ==
    ASSUME IndInv, NEW c \in Conns, StepFacts(c)
    PROVE  HostInv'
<1> USE DEF IndInv, ServerInv, HostInv, Others
<1>1. CASE CreateFacts(c)
  BY <1>1, FreeLock DEF CreateFacts
<1>2. CASE JoinFacts(c)
  BY <1>2, FreeLock DEF JoinFacts
<1>3. CASE LeaveFacts(c)
  BY <1>3, FreeLock DEF LeaveFacts, Closing, ClosedBy, Relaying
<1>4. CASE UnlockFacts(c)
  BY <1>4, OneHolder DEF UnlockFacts, Closing, ClosedBy, Relaying
<1>5. CASE FindFacts(c)
  BY <1>5 DEF FindFacts, registry, Closing, ClosedBy, Relaying
<1>6. CASE SendFacts(c)
  BY <1>6 DEF SendFacts, registry, Closing, ClosedBy, Relaying
<1>7. CASE RelayFacts(c)
  BY <1>7, FreeLock DEF RelayFacts, registry
<1>8. CASE QuietFacts(c)
  BY <1>8 DEF QuietFacts, registry, Closing, ClosedBy
<1> QED
  BY <1>1, <1>2, <1>3, <1>4, <1>5, <1>6, <1>7, <1>8 DEF StepFacts

\* Recipients stay members, and their connections those of live handlers.
LEMMA RelayStep ==
    ASSUME IndInv, NEW c \in Conns, StepFacts(c)
    PROVE  RelayInv'
<1>0. \A d \in Conns : pc[d] \notin Relaying => target[d] = NoConn
  BY DEF IndInv, ServerInv, RelayInv, Relaying
<1> USE <1>0 DEF IndInv, ServerInv, RelayInv, Others, Relaying
<1>1. CASE CreateFacts(c)
  BY <1>1, FreeLock DEF CreateFacts
<1>2. CASE JoinFacts(c)
  BY <1>2, FreeLock DEF JoinFacts
<1>3. CASE LeaveFacts(c)
  BY <1>3, FreeLock DEF LeaveFacts
<1>4. CASE UnlockFacts(c)
  BY <1>4, OneHolder DEF UnlockFacts
<1>5. CASE FindFacts(c)
  BY <1>5, OneHolder DEF FindFacts, registry, OwnerInv
<1>6. CASE SendFacts(c)
  BY <1>6 DEF SendFacts, registry
<1>7. CASE RelayFacts(c)
  BY <1>7, FreeLock DEF RelayFacts, registry, HostInv
<1>8. CASE QuietFacts(c)
  BY <1>8 DEF QuietFacts, registry
<1> QED
  BY <1>1, <1>2, <1>3, <1>4, <1>5, <1>6, <1>7, <1>8 DEF StepFacts

\* Clients out of any session are not in the context of an open one.
LEMMA ClientStep ==
    ASSUME IndInv, NEW c \in Conns, StepFacts(c)
    PROVE  ClientInv'
<1>0. /\ \A d \in Conns : ctx[d].session # next_session_id
      /\ None \notin sessions
  <2>1. \A d \in Conns : ctx[d].session \in Nat
    BY PositiveIds, ContextType DEF IndInv, TypeOK
  <2> QED
    BY <2>1, PositiveIds DEF IndInv, TypeOK, ServerInv, FreshInv
<1> USE <1>0 DEF IndInv, ServerInv, ClientInv, Others
<1>1. CASE CreateFacts(c)
  BY <1>1, FreeLock DEF CreateFacts
<1>2. CASE JoinFacts(c)
  BY <1>2, FreeLock DEF JoinFacts
<1>3. CASE LeaveFacts(c)
  BY <1>3, FreeLock DEF LeaveFacts
<1>4. CASE UnlockFacts(c)
  BY <1>4, OneHolder DEF UnlockFacts, Closing, ClosedBy, Relaying
<1>5. CASE FindFacts(c)
  BY <1>5 DEF FindFacts, registry, Closing, ClosedBy, Relaying
<1>6. CASE SendFacts(c)
  BY <1>6, ServerAssumption
  DEF SendFacts, registry, RelayInv, Closing, ClosedBy, Relaying
<1>7. CASE RelayFacts(c)
  BY <1>7, FreeLock DEF RelayFacts, registry
<1>8. CASE QuietFacts(c)
  BY <1>8 DEF QuietFacts, registry, Closing, ClosedBy
<1> QED
  BY <1>1, <1>2, <1>3, <1>4, <1>5, <1>6, <1>7, <1>8 DEF StepFacts

\* The invariant holds initially.
LEMMA IndInit == Init => IndInv
<1> SUFFICES ASSUME Init PROVE IndInv
  OBVIOUS
<1>1. TypeOK
  BY TypeInit
<1>2. NoCtx.member = None /\ NoCtx.session = None /\ None = 0
  BY DEF NoCtx, Context, None
<1> QED
  BY <1>1, <1>2, ServerAssumption
  DEF Init, IndInv, ServerInv, LockInv, FreshInv, ContextInv, OwnerInv, HostInv,
      RelayInv, ClientInv, Relaying, MemberIds

\* It is a property of the state.
LEMMA IndStutter == IndInv /\ UNCHANGED vars => IndInv'
BY DEF vars, IndInv, TypeOK, ServerInv, LockInv, FreshInv, ContextInv, OwnerInv,
       HostInv, RelayInv, ClientInv, Closing, ClosedBy

\* It is inductive, for orderly clients.
LEMMA IndStep == Orderly /\ IndInv /\ [Next]_vars => IndInv'
<1> SUFFICES ASSUME Orderly, IndInv, [Next]_vars PROVE IndInv'
  OBVIOUS
<1>1. TypeOK'
  BY TypeStep DEF IndInv
<1>2. CASE UNCHANGED vars
  BY <1>2, IndStutter
<1>3. ASSUME NEW c \in Conns, StepFacts(c) PROVE IndInv'
  BY <1>1, <1>3, LockStep, FreshStep, ContextStep, OwnerStep, HostStep,
     RelayStep, ClientStep
  DEF IndInv, ServerInv
<1> QED
  BY <1>2, <1>3, StepEffect DEF IndInv, ServerInv

-----------------------------------------------------------------------------
(* The theorems.                                                           *)

\* Type correctness, whatever the clients do.
THEOREM TypeCorrect == Spec => []TypeOK
BY TypeInit, TypeStep, PTL DEF Spec

\* With orderly clients the handlers, contexts, members and registered
\* connections of the server belong together as ServerInv says, at every step.
THEOREM RegistriesAgree == ASSUME Orderly PROVE Spec => []ServerInv
<1>1. Spec => []IndInv
  BY IndInit, IndStep, PTL DEF Spec
<1>2. IndInv => ServerInv
  BY DEF IndInv
<1> QED
  BY <1>1, <1>2, PTL

\* With orderly clients no notification is written to the connection of a
\* handler that has returned (sendNotification, find_connection).
THEOREM SendsAreSafe == ASSUME Orderly PROVE Spec => []NoDanglingSend
<1>1. TypeOK /\ ServerInv => NoDanglingSend
  BY DEF TypeOK, ServerInv, RelayInv, ContextInv, NoDanglingSend
<1> QED
  BY <1>1, TypeCorrect, RegistriesAgree, PTL

\* With orderly clients every member of an open session has a live handler.
THEOREM NoGhosts == ASSUME Orderly PROVE Spec => []NoGhostMembers
<1>1. TypeOK /\ ServerInv => NoGhostMembers
  <2> SUFFICES ASSUME TypeOK, ServerInv, NEW s \in sessions, NEW m \in members[s]
               PROVE  \E c \in Conns : pc[c] # "gone" /\ ctx[c] = Context(m, s)
    BY DEF NoGhostMembers
  <2>1. PICK c \in Conns : ctx[c].member = m /\ ctx[c].session = s
    BY DEF ServerInv, OwnerInv
  <2>2. ctx[c] = Context(m, s)
    BY <2>1 DEF TypeOK, ContextRec, Context
  <2> QED
    BY <2>1, <2>2 DEF ServerInv, ContextInv
<1> QED
  BY <1>1, TypeCorrect, RegistriesAgree, PTL

\* Between critical sections the host of every open session is its member,
\* and so is every handler whose context names an open session.
THEOREM HostsStay == ASSUME Orderly PROVE Spec => [](HostIsMember /\ ContextIsMember)
<1>1. TypeOK /\ ServerInv => HostIsMember /\ ContextIsMember
  BY FreeLock DEF ServerInv, HostInv, ContextInv, HostIsMember, ContextIsMember
<1> QED
  BY <1>1, TypeCorrect, RegistriesAgree, PTL

-----------------------------------------------------------------------------
(* RosterComplete: a client that has joined a session hears of all its     *)
(* members.  The invariant is RosterInv, inductive on top of ServerInv.    *)

\* What RosterInv says of one handler.
Joined(c) == AskedItsOwn(c) /\ IsFound(c) /\ HearsOfAll(c)

\* What the client makes of the frames and replies it is sent.
LEMMA Hearing ==
    ASSUME NEW known \in ClientRec
    PROVE  /\ \A ids : Informed(known, ids).roster = known.roster \cup ids
           /\ \A m : /\ known.roster \subseteq Entered(known, m).roster
                     /\ Entered(known, m).state # "none" => known.state # "none"
           /\ \A f \in FrameRec :
                 LET next == Received(known, f)
                 IN  /\ next.state # "none" =>
                           known.state # "none" /\ f.kind # "SESSION_CLOSED"
                     /\ f.kind = "MEMBER_JOINED" =>
                           next.roster = known.roster \cup {f.member}
                     /\ f.kind = "MEMBER_LEFT" =>
                           next.roster = known.roster \ {f.member}
                     /\ f.kind \notin {"MEMBER_JOINED", "MEMBER_LEFT",
                                       "SESSION_CLOSED"} => next.roster = known.roster
<1>1. \A ids : /\ Informed(known, ids).roster = known.roster \cup ids
               /\ Informed(known, ids).state = known.state
  BY DEF Informed, ClientRec
<1>2. \A ids : /\ [known EXCEPT !.roster = @ \ ids].roster = known.roster \ ids
               /\ [known EXCEPT !.roster = @ \ ids].state = known.state
  BY DEF ClientRec
<1>3. \A m : /\ known.roster \subseteq Entered(known, m).roster
             /\ Entered(known, m).state # "none" => known.state # "none"
  BY DEF Entered, ClientRec
<1>4. Outside.state = "none"
  BY DEF Outside
<1> QED
  BY <1>1, <1>2, <1>3, <1>4 DEF Received

-----------------------------------------------------------------------------
(* A step of one handler, seen from the others.                            *)

\* Everything of handler d is as it was.
Untouched(d) == /\ pc'[d] = pc[d] /\ asked'[d] = asked[d] /\ ctx'[d] = ctx[d]
                /\ todo'[d] = todo[d] /\ client'[d] = client[d]

\* A step that sends no notification: the registry stays as it is, and only
\* the handler's own connection may be registered or unregistered.
Silent(c) ==
    /\ pc[c] \notin Relaying /\ pc'[c] \notin Relaying
    /\ UNCHANGED <<registry, ctx, frame, target, after>>
    /\ next_member_id' \in Nat /\ next_member_id' >= next_member_id
    /\ \A m \in MemberIds \ {ctx[c].member} : connections'[m] = connections[m]
    /\ \A d \in Conns \ {c} : Untouched(d)

\* It leaves what RosterInv says of the others as it is.
LEMMA SilentOthers ==
    ASSUME IndInv, RosterInv, NEW c \in Conns, Silent(c)
    PROVE  LeftInv' /\ \A d \in Conns \ {c} : Joined(d)'
<1>1. LeftInv'
  <2> SUFFICES ASSUME NEW d \in Conns, pc'[d] \in Relaying,
                      frame'[d].kind = "MEMBER_LEFT"
               PROVE  /\ frame'[d].member < next_member_id'
                      /\ \A s \in sessions' : frame'[d].member \notin members'[s]
    BY DEF LeftInv
  <2>1. pc[d] \in Relaying /\ frame' = frame /\ sessions' = sessions /\ members' = members
    BY DEF Silent, Untouched, registry
  <2>2. /\ frame[d].member < next_member_id
        /\ \A s \in sessions : frame[d].member \notin members[s]
    BY <2>1 DEF RosterInv, LeftInv
  <2>3. frame[d].member \in Nat /\ next_member_id \in Nat /\ next_member_id' \in Nat
    BY FrameType DEF Silent, IndInv, TypeOK
  <2> QED
    BY <2>1, <2>2, <2>3 DEF Silent
<1>2. ASSUME NEW d \in Conns, d # c PROVE Joined(d)'
  <2> USE DEF Silent, registry, Untouched
  <2>1. AskedItsOwn(d)'
    BY <1>2 DEF RosterInv, AskedItsOwn, Joining, InSession, IsHost
  <2>2. IsFound(d)'
    <3> SUFFICES ASSUME Connected(d), InSession(d)
                 PROVE  connections'[ctx[d].member] = d
      BY <1>2 DEF IsFound, Connected, Told, Reading, InSession
    <3>1. connections[ctx[d].member] = d
      BY DEF RosterInv, IsFound
    <3>2. ctx[d].member \in MemberIds \ {ctx[c].member}
      BY <1>2, ContextType
      DEF InSession, IndInv, TypeOK, ServerInv, ContextInv
    <3> QED
      BY <3>1, <3>2
  <2>3. HearsOfAll(d)'
    <3>1. \A m : \A e \in Conns : Announcing(e, m, d) => Announcing(e, m, d)'
      BY <1>2 DEF Announcing
    <3>2. HearsOfAll(d)
      BY DEF RosterInv
    <3> QED
      BY <1>2, <3>1, <3>2 DEF HearsOfAll, Told, Reading, InSession, IsHost
  <2> QED
    BY <2>1, <2>2, <2>3 DEF Joined
<1> QED
  BY <1>1, <1>2

-----------------------------------------------------------------------------
(* The handler that takes the step.                                        *)

\* A CREATE or a JOIN, of a session that exists or not, comes from a client
\* whose handler is in no open session.
LEMMA AsksFromOutside ==
    ASSUME IndInv, Orderly, NEW c \in Conns, MayEnter(c), sessions_mutex = Free
    PROVE  ctx[c].session \notin sessions
BY FreeLock DEF MayEnter, IndInv, ServerInv, ClientInv

\* The actions that send no notification are silent.
LEMMA SilentEffect ==
    ASSUME TypeOK, NEW c \in Conns, QuietAction(c)
    PROVE  Silent(c)
<1> USE DEF Silent, Untouched, TypeOK, Relaying, Goto, registry, counters, relayVars
<1>1. CASE Accept(c)
  BY <1>1 DEF Accept
<1>2. CASE JoinMissing(c)
  BY <1>2 DEF JoinMissing, MayEnter, Asking
<1>3. CASE Register(c)
  BY <1>3 DEF Register
<1>4. CASE Roster(c)
  BY <1>4 DEF Roster
<1>5. CASE Entries(c)
  BY <1>5 DEF Entries
<1>6. CASE Ack(c)
  BY <1>6 DEF Ack
<1>7. CASE LeaveMissing(c)
  BY <1>7 DEF LeaveMissing
<1>8. CASE CloseSession(c)
  BY <1>8 DEF CloseSession
<1>9. CASE Disconnect(c)
  BY <1>9 DEF Disconnect
<1>10. CASE Unregister(c)
  BY <1>10 DEF Unregister
<1>11. CASE ExitMissing(c)
  BY <1>11 DEF ExitMissing
<1> QED
  BY <1>1, <1>2, <1>3, <1>4, <1>5, <1>6, <1>7, <1>8, <1>9, <1>10, <1>11
  DEF QuietAction

\* Registering a connection, and reading and sending the roster.
LEMMA EnteringJoined ==
    ASSUME IndInv, RosterInv, NEW c \in Conns,
           Register(c) \/ Roster(c) \/ Entries(c) \/ Ack(c)
    PROVE  Joined(c)'
<1>0. /\ pc \in [Conns -> Labels] /\ todo \in [Conns -> SUBSET (MemberIds \cup {None})]
      /\ client \in [Conns -> ClientRec] /\ ctx[c].member \in MemberIds \cup {None}
      /\ connections \in [MemberIds \cup {None} -> Conns \cup {NoConn}]
  BY ContextType DEF IndInv, TypeOK
<1>1. /\ ctx' = ctx /\ sessions' = sessions /\ members' = members /\ host' = host
      /\ frame' = frame /\ target' = target /\ after' = after
      /\ \A m : \A d \in Conns \ {c} : Announcing(d, m, c) => Announcing(d, m, c)'
      /\ \A m : ~Announcing(c, m, c)
  BY <1>0 DEF Register, Roster, Entries, Ack, registry, relayVars, Announcing,
              Relaying, Goto
<1>2. (InSession(c)' <=> InSession(c)) /\ (IsHost(c)' <=> IsHost(c))
  BY <1>1 DEF InSession, IsHost
<1>3. SUFFICES ASSUME InSession(c) PROVE Joined(c)'
  BY <1>2 DEF Joined, AskedItsOwn, IsFound, HearsOfAll
<1>4. /\ AskedItsOwn(c) /\ IsFound(c) /\ HearsOfAll(c)
      /\ ctx[c].session # None
  BY <1>3, PositiveIds DEF RosterInv, InSession, IndInv, TypeOK
<1> USE DEF Joining, Connected, Told, Reading, Relaying, Goto
<1>5. CASE Register(c)
  <2>1. /\ pc[c] = "register" /\ connections'[ctx[c].member] = c
        /\ asked' = asked /\ pc'[c] = IF asked[c] = None THEN "ack" ELSE "roster"
    BY <1>0, <1>5 DEF Register
  <2>2. AskedItsOwn(c)' /\ IsFound(c)'
    BY <1>1, <1>2, <1>4, <2>1 DEF AskedItsOwn, IsFound
  <2>3. HearsOfAll(c)'
    BY <1>1, <1>2, <1>3, <1>4, <2>1 DEF AskedItsOwn, HearsOfAll
  <2> QED
    BY <2>2, <2>3 DEF Joined
<1>6. CASE Roster(c)
  <2>1. /\ pc[c] = "roster" /\ pc'[c] = "entries" /\ connections' = connections
        /\ asked[c] \in sessions => todo'[c] = members[asked[c]]
    BY <1>0, <1>6 DEF Roster
  <2>2. AskedItsOwn(c)' /\ IsFound(c)'
    BY <1>1, <1>2, <1>4, <2>1 DEF AskedItsOwn, IsFound
  <2>3. HearsOfAll(c)'
    BY <1>1, <1>2, <1>3, <1>4, <2>1 DEF AskedItsOwn, HearsOfAll, InSession
  <2> QED
    BY <2>2, <2>3 DEF Joined
<1>7. CASE Entries(c)
  <2>1. /\ pc[c] = "entries" /\ pc'[c] = "ack" /\ connections' = connections
        /\ client'[c] = Informed(client[c], todo[c])
    BY <1>0, <1>7 DEF Entries
  <2>2. /\ client'[c].roster = client[c].roster \cup todo[c]
        /\ client'[c].state = client[c].state
    BY <1>0, <2>1, Hearing, KnownStates
  <2>3. AskedItsOwn(c)' /\ IsFound(c)'
    BY <1>1, <1>2, <1>4, <2>1 DEF AskedItsOwn, IsFound
  <2>4. HearsOfAll(c)'
    BY <1>1, <1>2, <1>4, <2>1, <2>2 DEF HearsOfAll
  <2> QED
    BY <2>3, <2>4 DEF Joined
<1>8. CASE Ack(c)
  <2>1. /\ pc[c] = "ack" /\ pc'[c] = "reading" /\ connections' = connections
        /\ client'[c] = Entered(client[c], ctx[c].member)
    BY <1>0, <1>8 DEF Ack
  <2>2. /\ client[c].roster \subseteq client'[c].roster
        /\ client'[c].state # "none" => client[c].state # "none"
    BY <1>0, <2>1, Hearing
  <2>3. AskedItsOwn(c)' /\ IsFound(c)'
    BY <1>1, <1>2, <1>4, <2>1 DEF AskedItsOwn, IsFound
  <2>4. HearsOfAll(c)'
    BY <1>1, <1>2, <1>4, <2>1, <2>2 DEF HearsOfAll
  <2> QED
    BY <2>3, <2>4 DEF Joined
<1> QED
  BY <1>5, <1>6, <1>7, <1>8

\* So do all actions that send no notification.
LEMMA SilentJoined ==
    ASSUME IndInv, RosterInv, Orderly, NEW c \in Conns, QuietAction(c)
    PROVE  Joined(c)'
<1>0. pc \in [Conns -> Labels] /\ ctx' = ctx /\ sessions' = sessions /\ target' = target
  BY SilentEffect DEF IndInv, TypeOK, Silent, registry
<1>1. ~InSession(c) => Joined(c)'
  BY <1>0 DEF Joined, AskedItsOwn, IsFound, HearsOfAll, InSession
<1>2. CASE Accept(c)
  BY <1>1, <1>2 DEF Accept, InSession, IndInv, ServerInv, ContextInv
<1>3. CASE JoinMissing(c)
  BY <1>1, <1>3, AsksFromOutside DEF JoinMissing, InSession
<1>4. CASE Register(c) \/ Roster(c) \/ Entries(c) \/ Ack(c)
  BY <1>4, EnteringJoined
<1>5. CASE LeaveMissing(c)
  BY <1>1, <1>5 DEF LeaveMissing
<1>6. CASE CloseSession(c)
  <2>1. pc[c] = "reading" /\ pc'[c] = "closing" /\ connections' = connections
    BY <1>0, <1>6 DEF CloseSession, Goto
  <2>2. IsFound(c)
    BY DEF RosterInv
  <2> QED
    BY <1>0, <2>1, <2>2
    DEF Joined, AskedItsOwn, IsFound, HearsOfAll, InSession, Joining, Connected,
        Told, Reading, Relaying
<1>7. CASE Disconnect(c) \/ Unregister(c) \/ ExitMissing(c)
  <2>1. pc'[c] \in {"gone", "leaving", "unregister"}
    BY <1>0, <1>7 DEF Disconnect, Unregister, ExitMissing, Goto
  <2> QED
    BY <2>1 DEF Joined, AskedItsOwn, IsFound, HearsOfAll, Joining, Connected,
                Told, Reading, Relaying
<1> QED
  BY <1>2, <1>3, <1>4, <1>5, <1>6, <1>7 DEF QuietAction

-----------------------------------------------------------------------------
(* Entering and leaving, and starting a notification.                      *)

\* While sessions_mutex is free nothing is being announced.
LEMMA NoneAnnounced ==
    ASSUME IndInv, sessions_mutex = Free
    PROVE  /\ \A d \in Conns : pc[d] \notin Relaying
           /\ \A m, c : \A d \in Conns : ~Announcing(d, m, c)
<1>1. \A d \in Conns : pc[d] \notin Relaying
  BY FreeLock DEF IndInv, ServerInv
<1> QED
  BY <1>1 DEF Announcing

\* Handler d's context, session and connection are what they were, and its
\* client has heard what it had.
Kept(d) ==
    /\ ctx'[d] = ctx[d] /\ asked'[d] = asked[d] /\ client'[d] = client[d]
    /\ todo'[d] = todo[d] \/ pc[d] # "entries"
    /\ ctx[d].session \in sessions => host'[ctx[d].session] = host[ctx[d].session]
    /\ ctx[d].session \in sessions' => ctx[d].session \in sessions
    /\ connections' = connections
    /\ Joining(d)' => Joining(d)
    /\ Connected(d)' => Connected(d)
    /\ Told(d)' => Told(d)
    /\ pc[d] = "entries" => pc'[d] = "entries"

\* Then RosterInv goes on to hold of d if every announcement to d is still
\* under way, and every new member of its session is being announced.
LEMMA KeptJoined ==
    ASSUME RosterInv, NEW d \in Conns, Kept(d),
           Told(d) /\ InSession(d) =>
              \A m : \A e \in Conns : Announcing(e, m, d) => Announcing(e, m, d)',
           InSession(d) => \A m \in members'[ctx[d].session] :
                     \/ m \in members[ctx[d].session]
                     \/ \E e \in Conns : Announcing(e, m, d)'
    PROVE  Joined(d)'
<1>1. /\ InSession(d)' => InSession(d)
      /\ InSession(d) => (IsHost(d)' <=> IsHost(d))
  BY DEF Kept, InSession, IsHost
<1>2. AskedItsOwn(d) /\ IsFound(d) /\ HearsOfAll(d)
  BY DEF RosterInv
<1>3. AskedItsOwn(d)' /\ IsFound(d)'
  BY <1>1, <1>2 DEF Kept, AskedItsOwn, IsFound
<1>4. HearsOfAll(d)'
  BY <1>1, <1>2 DEF Kept, HearsOfAll
<1> QED
  BY <1>3, <1>4 DEF Joined

\* handle_create: the new session has its host for a member.
LEMMA CreateJoined ==
    ASSUME IndInv, RosterInv, Orderly, NEW c \in Conns, Create(c)
    PROVE  RosterInv'
<1>1. CreateFacts(c)
  BY CreateEffect DEF IndInv, ServerInv
<1>2. /\ \A d \in Conns : asked'[d] = asked[d] \/ d = c
      /\ UNCHANGED <<connections, todo, frame, after, target>>
  BY DEF Create, IndInv, TypeOK, relayVars
<1>3. LeftInv'
  BY <1>1, <1>2, NoneAnnounced DEF CreateFacts, Others, LeftInv, Relaying
<1>4. Joined(c)'
  <2>1. IsHost(c)'
    BY <1>1 DEF CreateFacts, IsHost
  <2> QED
    BY <1>1, <2>1 DEF CreateFacts, Joined, AskedItsOwn, IsFound, HearsOfAll,
                      Connected, Told, Reading, Relaying
<1>5. ASSUME NEW d \in Conns, d # c PROVE Joined(d)'
  <2>1. ctx[d].session # next_session_id
    BY PositiveIds DEF IndInv, ServerInv, FreshInv, TypeOK, ContextRec, SessionIds, None
  <2>2. Kept(d)
    BY <1>1, <1>2, <1>5, <2>1
    DEF CreateFacts, Others, Kept, Joining, Connected, Told, Reading
  <2>3. InSession(d) => members'[ctx[d].session] = members[ctx[d].session]
    BY <1>1 DEF CreateFacts, InSession
  <2>4. \A m : \A e \in Conns : ~Announcing(e, m, d)
    BY <1>1, NoneAnnounced DEF CreateFacts
  <2> QED
    BY <2>2, <2>3, <2>4, KeptJoined
<1> QED
  BY <1>3, <1>4, <1>5 DEF RosterInv, Joined

\* handle_join: the new member is announced to all that were there.
LEMMA JoinJoined ==
    ASSUME IndInv, RosterInv, Orderly, NEW c \in Conns, Join(c)
    PROVE  RosterInv'
<1>1. PICK s \in sessions :
          /\ members' = [members EXCEPT ![s] = @ \cup {next_member_id}]
          /\ ctx' = [ctx EXCEPT ![c] = Context(next_member_id, s)]
          /\ asked' = [asked EXCEPT ![c] = s]
          /\ Notify(c, "MEMBER_JOINED", next_member_id, members[s], "register")
  BY DEF Join
<1>2. /\ ctx'[c].session = s /\ asked'[c] = s
      /\ frame'[c].kind = "MEMBER_JOINED" /\ frame'[c].member = next_member_id
      /\ todo'[c] = members[s] /\ after'[c] = "register" /\ pc'[c] = "relay"
      /\ sessions_mutex = Free
  <2>1. next_member_id \in MemberIds /\ next_member_id \in Nat
    BY PositiveIds DEF Join, IndInv, TypeOK, MemberIds
  <2>2. /\ Context(next_member_id, s).session = s
        /\ Frame("MEMBER_JOINED", next_member_id).kind = "MEMBER_JOINED"
        /\ Frame("MEMBER_JOINED", next_member_id).member = next_member_id
    BY <2>1 DEF Context, Frame
  <2> QED
    BY <1>1, <2>2 DEF Notify, Goto, IndInv, TypeOK
<1>3. /\ \A d \in Conns \ {c} : Untouched(d) /\ after'[d] = after[d]
                                /\ frame'[d] = frame[d]
      /\ UNCHANGED <<sessions, host, connections, target>>
  BY <1>1 DEF Join, Untouched, Asking, Notify, Goto
<1>4. LeftInv'
  BY <1>2, <1>3, NoneAnnounced DEF LeftInv, Untouched
<1>5. Joined(c)'
  BY <1>2 DEF Joined, AskedItsOwn, IsFound, HearsOfAll, Connected, Told, Reading,
              Relaying
<1>6. ASSUME NEW d \in Conns, d # c PROVE Joined(d)'
  <2>1. Kept(d)
    BY <1>3, <1>6 DEF Untouched, Kept, Joining, Connected, Told, Reading
  <2>2. \A m : \A e \in Conns : ~Announcing(e, m, d)
    BY <1>2, NoneAnnounced
  <2>3. ASSUME InSession(d), NEW m \in members'[ctx[d].session],
               m \notin members[ctx[d].session]
        PROVE  Announcing(c, m, d)'
    <3>1. ctx[d].session = s /\ m = next_member_id
      BY <1>1, <2>3 DEF IndInv, TypeOK, InSession
    <3>2. ctx[d].member \in members[s]
      BY <2>3, <3>1 DEF InSession, IndInv, ServerInv, ContextInv
    <3> QED
      BY <1>2, <1>3, <1>6, <3>1, <3>2 DEF Announcing, Relaying, Untouched
  <2> QED
    BY <2>1, <2>2, <2>3, KeptJoined
<1> QED
  BY <1>4, <1>5, <1>6 DEF RosterInv, Joined

\* handle_leave: who is said to have left is a member of no open session.
LEMMA LeaveJoined ==
    ASSUME IndInv, RosterInv, NEW c \in Conns, NEW next \in {"reading", "gone"},
           LeaveBy(c, next)
    PROVE  RosterInv'
<1>1. LeaveFacts(c)
  BY LeaveEffect DEF IndInv
<1>2. /\ \A d \in Conns \ {c} : Untouched(d)
      /\ UNCHANGED <<sessions, host, connections, target, next_member_id>>
  BY <1>1 DEF LeaveFacts, Others, Untouched, LeaveBy, counters
<1>3. LeftInv'
  <2> SUFFICES ASSUME NEW d \in Conns, pc'[d] \in Relaying,
                      frame'[d].kind = "MEMBER_LEFT"
               PROVE  /\ frame'[d].member < next_member_id
                      /\ \A s \in sessions : frame'[d].member \notin members'[s]
    BY <1>2 DEF LeftInv
  <2>1. d = c
    BY <1>1, <1>2, NoneAnnounced DEF LeaveFacts, Untouched
  <2>2. frame'[c].member = ctx[c].member
    <3>1. /\ Frame("SESSION_CLOSED", ctx[c].session).kind = "SESSION_CLOSED"
          /\ Frame("MEMBER_LEFT", ctx[c].member).member = ctx[c].member
      BY DEF Frame
    <3> QED
      BY <2>1, <3>1 DEF LeaveBy, Notify, IndInv, TypeOK
  <2>3. ctx[c].member < next_member_id
    BY DEF IndInv, ServerInv, FreshInv
  <2>4. ASSUME NEW s \in sessions PROVE ctx[c].member \notin members'[s]
    BY <1>1 DEF LeaveFacts, IndInv, ServerInv, OwnerInv, ContextInv
  <2> QED
    BY <2>1, <2>2, <2>3, <2>4
<1>4. Joined(c)'
  BY <1>1 DEF LeaveFacts, Joined, AskedItsOwn, IsFound, HearsOfAll, InSession
<1>5. ASSUME NEW d \in Conns, d # c PROVE Joined(d)'
  <2>1. Kept(d)
    BY <1>1, <1>2, <1>5
    DEF LeaveFacts, Others, Untouched, Kept, Joining, Connected, Told, Reading
  <2>2. \A m : \A e \in Conns : ~Announcing(e, m, d)
    BY <1>1, NoneAnnounced DEF LeaveFacts
  <2>3. InSession(d) => members'[ctx[d].session] \subseteq members[ctx[d].session]
    BY <1>1 DEF LeaveFacts, InSession
  <2> QED
    BY <2>1, <2>2, <2>3, KeptJoined
<1> QED
  BY <1>3, <1>4, <1>5 DEF RosterInv, Joined

\* DRAW and the like: nobody enters or leaves.
LEMMA DataJoined ==
    ASSUME IndInv, RosterInv, NEW c \in Conns,
           RelayToHost(c) \/ RelayToOthers(c) \/ RelayToAll(c)
    PROVE  RosterInv'
<1>1. RelayFacts(c)
  BY RelayEffect DEF IndInv
<1>2. asked' = asked /\ UNCHANGED <<registry, connections, target, next_member_id>>
  BY <1>1 DEF RelayFacts, RelayToHost, RelayToOthers, RelayToAll, counters
<1>3. LeftInv'
  BY <1>1, <1>2, NoneAnnounced DEF RelayFacts, Others, LeftInv, registry
<1>4. ASSUME NEW d \in Conns PROVE Joined(d)'
  <2>1. Kept(d)
    BY <1>1, <1>2
    DEF RelayFacts, Others, Kept, Joining, Connected, Told, Reading, Relaying, registry
  <2>2. \A m : \A e \in Conns : ~Announcing(e, m, d)
    BY <1>1, NoneAnnounced DEF RelayFacts
  <2> QED
    BY <1>2, <2>1, <2>2, KeptJoined DEF registry
<1> QED
  BY <1>3, <1>4 DEF RosterInv, Joined

-----------------------------------------------------------------------------
(* Sending the notification.                                               *)

\* The next recipient: an announcement to it is now on its connection.
LEMMA FindJoined ==
    ASSUME IndInv, RosterInv, NEW c \in Conns, Find(c)
    PROVE  RosterInv'
<1>1. FindFacts(c) /\ target[c] = NoConn
  BY FindEffect DEF IndInv, ServerInv, RelayInv, Find
<1>2. asked' = asked
  BY DEF Find
<1>3. LeftInv'
  BY <1>1 DEF FindFacts, LeftInv, RosterInv, registry, counters, Relaying
<1>4. ASSUME NEW d \in Conns PROVE Joined(d)'
  <2>1. Kept(d)
    BY <1>1, <1>2
    DEF FindFacts, Kept, Joining, Connected, Told, Reading, Relaying, registry
  <2>2. ASSUME Told(d), InSession(d), NEW m, NEW e \in Conns, Announcing(e, m, d)
        PROVE  Announcing(e, m, d)'
    <3>1. CASE e = c
      <4>1. ctx[d].member \in todo[c]
        BY <1>1, <2>2, <3>1, ServerAssumption DEF Announcing
      <4>2. PICK x \in todo[c] : todo'[c] = todo[c] \ {x} /\ target'[c] = connections[x]
        BY <1>1 DEF FindFacts
      <4>3. ctx[d].member = x => target'[c] = d
        BY <2>2, <4>2 DEF RosterInv, IsFound, Connected
      <4> QED
        BY <1>1, <2>2, <3>1, <4>1, <4>2, <4>3 DEF FindFacts, Announcing
    <3>2. CASE e # c
      BY <1>1, <2>2, <3>2 DEF FindFacts, Announcing
    <3> QED
      BY <3>1, <3>2
  <2> QED
    BY <1>1, <2>1, <2>2, KeptJoined DEF FindFacts, registry
<1> QED
  BY <1>3, <1>4 DEF RosterInv, Joined

\* The frame is written to the connection that was found.
LEMMA SendJoined ==
    ASSUME IndInv, RosterInv, NEW c \in Conns, Send(c)
    PROVE  RosterInv'
<1>1. /\ SendFacts(c)
      /\ asked' = asked
      /\ \A d \in Conns : client'[d] = IF d = target[c]
                                       THEN Received(client[d], frame[c]) ELSE client[d]
  BY SendEffect DEF IndInv, TypeOK, Send
<1>2. LeftInv'
  BY <1>1 DEF SendFacts, LeftInv, RosterInv, registry, counters, Relaying
<1>3. ASSUME NEW d \in Conns PROVE Joined(d)'
  <2>1. /\ Joining(d)' => Joining(d)
        /\ Connected(d)' => Connected(d)
        /\ Told(d)' => Told(d)
        /\ pc[d] = "entries" => pc'[d] = "entries"
    BY <1>1 DEF SendFacts, Joining, Connected, Told, Reading, Relaying
  <2>2. /\ UNCHANGED <<sessions, host, members, ctx, connections, todo, frame>>
        /\ InSession(d)' <=> InSession(d)
        /\ IsHost(d)' <=> IsHost(d)
    BY <1>1 DEF SendFacts, registry, InSession, IsHost
  <2>3. AskedItsOwn(d) /\ IsFound(d) /\ HearsOfAll(d)
    BY DEF RosterInv
  <2>4. AskedItsOwn(d)' /\ IsFound(d)'
    BY <1>1, <2>1, <2>2, <2>3 DEF AskedItsOwn, IsFound
  <2>5. HearsOfAll(d)'
    <3> SUFFICES ASSUME Told(d)', InSession(d), ~IsHost(d), client'[d].state # "none",
                        NEW m \in members[ctx[d].session]
                 PROVE  \/ m \in client'[d].roster
                        \/ pc'[d] = "entries" /\ m \in todo'[d]
                        \/ \E e \in Conns : Announcing(e, m, d)'
      BY <2>2 DEF HearsOfAll
    <3>1. client[d] \in ClientRec /\ frame[c] \in FrameRec
      BY DEF IndInv, TypeOK
    <3>2. /\ client[d].state # "none"
          /\ m \in client[d].roster => m \in client'[d].roster
      <4>1. CASE d # target[c]
        BY <1>1, <4>1
      <4>2. CASE d = target[c]
        <5>1. frame[c].kind = "MEMBER_LEFT" => frame[c].member # m
          BY <1>1 DEF SendFacts, RosterInv, LeftInv, Relaying, InSession
        <5> QED
          BY <1>1, <3>1, <4>2, <5>1, Hearing
      <4> QED
        BY <4>1, <4>2
    <3>3. ASSUME NEW e \in Conns, Announcing(e, m, d)
          PROVE  m \in client'[d].roster \/ Announcing(e, m, d)'
      <4>1. CASE e = c /\ d = target[c]
        BY <1>1, <3>1, <3>3, <4>1, Hearing DEF Announcing
      <4>2. CASE ~(e = c /\ d = target[c])
        BY <1>1, <2>2, <3>3, <4>2 DEF SendFacts, Announcing, Relaying
      <4> QED
        BY <4>1, <4>2
    <3> QED
      BY <2>1, <2>2, <2>3, <3>2, <3>3 DEF HearsOfAll
  <2> QED
    BY <2>4, <2>5 DEF Joined
<1> QED
  BY <1>2, <1>3 DEF RosterInv, Joined

\* The end of the notification: nobody is left to be told.
LEMMA UnlockJoined ==
    ASSUME IndInv, RosterInv, NEW c \in Conns, Unlock(c)
    PROVE  RosterInv'
<1>1. /\ UnlockFacts(c) /\ todo[c] = {} /\ target[c] = NoConn /\ asked' = asked
      /\ sessions' \subseteq sessions
  BY UnlockEffect DEF IndInv, ServerInv, RelayInv, Unlock, UnlockFacts
<1>2. LeftInv'
  BY <1>1 DEF UnlockFacts, Others, LeftInv, RosterInv, counters, Relaying
<1>3. ASSUME NEW d \in Conns PROVE Joined(d)'
  <2>1. CASE ctx[d].session \in sessions'
    <3>1. Kept(d)
      BY <1>1, <2>1
      DEF UnlockFacts, Others, Kept, Joining, Connected, Told, Reading, Relaying
    <3>2. \A m : \A e \in Conns : Announcing(e, m, d) => Announcing(e, m, d)'
      BY <1>1, ServerAssumption DEF UnlockFacts, Others, Announcing
    <3> QED
      BY <1>1, <2>1, <3>1, <3>2, KeptJoined DEF UnlockFacts
  <2>2. CASE ctx[d].session \notin sessions'
    BY <1>1, <2>2 DEF UnlockFacts, Joined, AskedItsOwn, IsFound, HearsOfAll, InSession
  <2> QED
    BY <2>1, <2>2
<1> QED
  BY <1>2, <1>3 DEF RosterInv, Joined

-----------------------------------------------------------------------------
(* The inductive invariant and the theorem.                                *)

\* Nobody has joined anything yet.
LEMMA RosterInit == Init => RosterInv
BY DEF Init, RosterInv, LeftInv, AskedItsOwn, IsFound, HearsOfAll, InSession, Relaying

\* Every step keeps RosterInv.
LEMMA RosterStep == Orderly /\ IndInv /\ RosterInv /\ [Next]_vars => RosterInv'
<1> SUFFICES ASSUME Orderly, IndInv, RosterInv, [Next]_vars PROVE RosterInv'
  OBVIOUS
<1>1. CASE UNCHANGED vars
  BY <1>1 DEF vars, RosterInv, LeftInv, AskedItsOwn, IsFound, HearsOfAll, Joining,
              Connected, Told, Reading, InSession, IsHost, Announcing
<1>2. ASSUME NEW c \in Conns, Create(c) \/ Join(c) PROVE RosterInv'
  BY <1>2, CreateJoined, JoinJoined
<1>3. ASSUME NEW c \in Conns, Leave(c) \/ CloseLeave(c) \/ ExitLeave(c) PROVE RosterInv'
  BY <1>3, LeaveJoined DEF Leave, CloseLeave, ExitLeave
<1>4. ASSUME NEW c \in Conns, RelayToHost(c) \/ RelayToOthers(c) \/ RelayToAll(c)
      PROVE  RosterInv'
  BY <1>4, DataJoined
<1>5. ASSUME NEW c \in Conns, Find(c) \/ Send(c) \/ Unlock(c) PROVE RosterInv'
  BY <1>5, FindJoined, SendJoined, UnlockJoined
<1>6. ASSUME NEW c \in Conns, QuietAction(c) PROVE RosterInv'
  <2>1. Silent(c)
    BY <1>6, SilentEffect DEF IndInv
  <2>2. Joined(c)' /\ LeftInv' /\ \A d \in Conns \ {c} : Joined(d)'
    BY <1>6, <2>1, SilentJoined, SilentOthers
  <2> QED
    BY <2>2 DEF RosterInv, Joined
<1> QED
  BY <1>1, <1>2, <1>3, <1>4, <1>5, <1>6
  DEF Next, Enter, Relay, Exit, QuietAction, Terminated

\* With orderly clients, a client that has joined an open session has, between
\* two critical sections, been told of every member of it (handle_join,
\* dispatch's roster, sendNotification).
THEOREM RostersAreComplete == ASSUME Orderly PROVE Spec => []RosterComplete
<1>1. Init => IndInv /\ RosterInv
  BY IndInit, RosterInit
<1>2. IndInv /\ RosterInv /\ [Next]_vars => IndInv' /\ RosterInv'
  BY IndStep, RosterStep
<1>3. IndInv /\ RosterInv => RosterComplete
  <2> SUFFICES ASSUME IndInv, RosterInv, sessions_mutex = Free, NEW c \in Conns,
                      pc[c] = "reading", client[c].state = "in", InSession(c), ~IsHost(c)
               PROVE  members[ctx[c].session] \subseteq client[c].roster
    BY DEF RosterComplete
  <2> QED
    BY NoneAnnounced DEF RosterInv, HearsOfAll, Told, Reading
<1> QED
  BY <1>1, <1>2, <1>3, PTL DEF Spec
=============================================================================
