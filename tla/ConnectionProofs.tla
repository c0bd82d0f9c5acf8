-------------------------- MODULE ConnectionProofs --------------------------
(***************************************************************************)
(* Proofs about Connection, for any choice of protocols, any number of     *)
(* clicks and tries, and connections and servers that end at any time.     *)
(***************************************************************************)
EXTENDS Connection, TLAPS

(* The inductive invariant.                                                *)

\* The UI thread has taken a button that asks for an attempt...
Asking == ui.step \in {"stop_connect", "join_connect", "launch"} /\ ui.call = "ask"

\* ...or says that this application leaves a session...
Leaving == ui.step \in {"say_leave", "sending"}

\* ...perhaps to disconnect, and when it disconnects no attempt is made.
Disconnecting ==
    \/ ui.step \in {"close", "join_poll", "detach", "release", "gone"}
    \/ Leaving /\ ui.call # "leave_session"

\* The attempt has not come to finish_connect_attempt yet.
Attempting == attempt.step \notin {"none", "finish_state", "finish_session"}

\* connecting_ keeps attempts and new requests for one apart; join keeps
\* attempts and disconnecting apart.
AttemptInv ==
    /\ Attempting => connecting /\ ~Asking
    /\ ui.step = "launch" => ui.call = "ask" /\ connecting
    /\ Asking => connecting
    /\ ui.step = "launch" \/ Disconnecting => attempt.step = "none"
    /\ ui.step # "idle" => ui.call # "none"
    /\ Leaving \/ Disconnecting => ui.call # "ask"
    /\ ui.call = "leave_session" => Leaving \/ ui.step = "reset"
    /\ ui.step = "gone" => ui.call = "shutdown"

\* No poll thread where one is replaced, or was waited for.
PollInv ==
    /\ poll.step = "none" => poll.socket = 0
    /\ attempt.step \in {"attach", "start_poll"} => poll.step = "none"
    /\ ui.step \in {"detach", "release", "gone"} => poll.step = "none"

\* Client and socket are the same, but for the moments in which one of them is
\* there already, or still; and no socket is open but this one and the one the
\* attempt has dialled.  Nobody detaches a client that sends.
SocketInv ==
    /\ attempt.step \in {"dial", "replace", "wait", "attach"} => client = 0
    /\ ui.step \in {"release", "gone"} => client = 0
    /\ \/ client = socket
       \/ client = 0 /\ attempt.step = "attach"
       \/ client = 0 /\ ui.step = "release"
    /\ attempt.step \in {"replace", "wait", "attach"} => attempt.socket # 0
    /\ ui.step = "sending" => client # 0
    /\ attempt.step = "attach" => socket = attempt.socket
    /\ AtPoll("receive") => poll.socket = client
    /\ live \subseteq {socket} \cup (IF attempt.step \in {"discard", "replace", "wait"}
                                     THEN {attempt.socket} ELSE {})
    /\ ui.step \in {"detach", "release", "gone"} => live = {}
    /\ ui.step = "gone" => socket = 0 /\ process.alive = FALSE

IndInv == TypeOK /\ AttemptInv /\ PollInv /\ SocketInv

\* For a careful user, what is shown: while an attempt may still dial there is
\* no connection, and while there is one a poll thread runs, is about to be
\* started, or has been stopped by a call that goes on to disconnect.
ShownInv ==
    /\ poll.step # "none" => connected
    /\ Asking => ~connected
    /\ attempt.step \in {"begin", "try", "check", "dial", "discard", "replace", "wait"}
          => ~connected
    /\ attempt.step \in {"attach", "start_poll"} => connected
    /\ connected => \/ client # 0 \/ attempt.step = "attach"
                    \/ ui.step = "release"
    /\ connected => state = "connected"
    /\ attempt.step \in {"none", "finish_session"} /\ ~connected
          => state = "disconnected"
    /\ connected /\ (stop_poll \/ poll.step = "none")
          => \/ attempt.step \in {"attach", "start_poll"}
             \/ ui.step = "join_connect" \/ Disconnecting
    /\ ui.step = "gone" => ~connected

-----------------------------------------------------------------------------
USE DEF Calls

(* Types.                                                                  *)

\* What the application does to its session yields a session.
LEMMA SessionType ==
    ASSUME NEW s \in SessionRec
    PROVE  /\ NoSession \in SessionRec /\ Reset(s) \in SessionRec
           /\ Creating(s) \in SessionRec /\ ClearJoining(s) \in SessionRec
           /\ Detached(s) \in SessionRec
           /\ \A id \in Nat : Joining(s, id) \in SessionRec
           /\ \A code : Acked(s, code, 1) \in SessionRec
BY DEF SessionRec, JoiningStates, NoSession, Reset, Creating, ClearJoining,
       Detached, Joining, Acked, Entered

\* What the application has set for a server process.
LEMMA ProcessType ==
    \A up \in BOOLEAN : [flag |-> up, alive |-> up] \in [flag : BOOLEAN, alive : BOOLEAN]
OBVIOUS

\* The initial state is well typed.
LEMMA TypeInit == Init => TypeOK
<1> SUFFICES ASSUME Init PROVE TypeOK
  OBVIOUS
<1>1. session \in SessionRec
  BY DEF Init, SessionRec, JoiningStates, NoSession
<1>2. ui \in UiRec /\ attempt \in AttemptRec /\ poll \in PollRec
  BY ConnectionAssumption DEF Init, UiRec, AttemptRec, PollRec, Kinds, IdleUi,
      NoAttempt, NoPoll, UiSteps, AttemptSteps
<1>3. process \in [flag : BOOLEAN, alive : BOOLEAN]
  BY ProcessType DEF Init
<1>4. /\ stop_poll \in BOOLEAN /\ connecting \in BOOLEAN /\ connected \in BOOLEAN
      /\ state = "disconnected" /\ protocol \in Protocols /\ live = {}
      /\ made = 0 /\ clicks = 0 /\ socket = 0 /\ client = 0
      /\ layer = "none"
  BY DEF Init
<1> QED
  BY ConnectionAssumption, <1>1, <1>2, <1>3, <1>4 DEF TypeOK

\* Flags stay Boolean, whatever the step.
LEMMA FlagTypes ==
    ASSUME TypeOK, [Next]_vars
    PROVE  /\ stop_poll' \in BOOLEAN /\ connecting' \in BOOLEAN
           /\ connected' \in BOOLEAN
           /\ process' \in [flag : BOOLEAN, alive : BOOLEAN]
<1> USE DEF TypeOK, flags, shown, links, StopProcess
<1>1. ASSUME NEW kind \in Kinds, Ask(kind)
      PROVE  /\ stop_poll' \in BOOLEAN
             /\ connecting' \in BOOLEAN
             /\ connected' \in BOOLEAN
             /\ process' \in [flag : BOOLEAN, alive : BOOLEAN]
  BY <1>1 DEF Ask, Click
<1>2. ASSUME NEW call \in Calls, Leave(call)
      PROVE  /\ stop_poll' \in BOOLEAN
             /\ connecting' \in BOOLEAN
             /\ connected' \in BOOLEAN
             /\ process' \in [flag : BOOLEAN, alive : BOOLEAN]
  BY <1>2 DEF Leave, Click
<1>3. CASE Enter
  BY <1>3 DEF Enter, Click
<1>4. CASE Toggle
  BY <1>4 DEF Toggle, Click
<1>5. CASE StopConnect
  BY <1>5 DEF StopConnect
<1>6. CASE JoinConnect
  BY <1>6 DEF JoinConnect, AfterConnect
<1>7. CASE Launch
  BY <1>7 DEF Launch
<1>8. CASE SayLeave
  BY <1>8 DEF SayLeave, AfterLeave
<1>9. CASE Sent
  BY <1>9 DEF Sent, AfterLeave
<1>10. CASE ResetSession
  BY <1>10 DEF ResetSession
<1>11. CASE Close
  BY <1>11 DEF Close, CloseSockets
<1>12. CASE JoinPoll
  BY <1>12 DEF JoinPoll
<1>13. CASE Detach
  BY <1>13 DEF Detach
<1>14. CASE Release
  <2>1. process' = process \/ process' = [flag |-> FALSE, alive |-> FALSE]
    BY <1>14 DEF Release
  <2>2. process' \in [flag : BOOLEAN, alive : BOOLEAN]
    BY <2>1, ProcessType
  <2> QED
    BY <1>14, <2>2 DEF Release
<1>15. CASE Begin
  BY <1>15 DEF Begin
<1>16. CASE RefuseStart
  BY <1>16 DEF RefuseStart
<1>17. CASE StartServer
  <2>1. process' = process \/ process' = [flag |-> TRUE, alive |-> TRUE]
    BY <1>17 DEF StartServer
  <2>2. process' \in [flag : BOOLEAN, alive : BOOLEAN]
    BY <2>1, ProcessType
  <2> QED
    BY <1>17, <2>2 DEF StartServer
<1>18. CASE Try
  <2>1. process' = process \/ process' = [flag |-> FALSE, alive |-> FALSE]
    BY <1>18 DEF Try
  <2>2. process' \in [flag : BOOLEAN, alive : BOOLEAN]
    BY <2>1, ProcessType
  <2> QED
    BY <1>18, <2>2 DEF Try
<1>19. CASE Check
  BY <1>19 DEF Check, Returned, AlreadyConnected
<1>20. CASE Dial
  BY <1>20 DEF Dial, Returned
<1>21. CASE Discard
  BY <1>21 DEF Discard, Returned
<1>22. CASE Replace
  BY <1>22 DEF Replace, CloseSockets
<1>23. CASE Install
  BY <1>23 DEF Install
<1>24. CASE Attach
  BY <1>24 DEF Attach
<1>25. CASE StartPoll
  BY <1>25 DEF StartPoll, Returned
<1>26. CASE Request
  BY <1>26 DEF Request
<1>27. CASE Finish
  BY <1>27 DEF Finish
<1>28. CASE FinishState
  BY <1>28 DEF FinishState
<1>29. CASE FinishSession
  BY <1>29 DEF FinishSession
<1>30. CASE Loop
  BY <1>30 DEF Loop
<1>31. CASE Frame
  BY <1>31 DEF Frame
<1>32. CASE Fail
  BY <1>32 DEF Fail, ReceiveFails
<1>33. CASE FailReset
  BY <1>33 DEF FailReset
<1>34. CASE FailDisconnected
  BY <1>34 DEF FailDisconnected
<1>35. CASE Answer
  BY <1>35 DEF Answer, Closing
<1>36. CASE Abort
  BY <1>36 DEF Abort, ReceiveFails
<1>37. CASE Drop
  BY <1>37 DEF Drop
<1>38. CASE Crash
  BY <1>38 DEF Crash
<1>39. CASE UNCHANGED vars
  BY <1>39 DEF vars
<1> QED
  BY <1>1, <1>2, <1>3, <1>4, <1>5, <1>6, <1>7, <1>8, <1>9, <1>10, <1>11,
     <1>12, <1>13, <1>14, <1>15, <1>16, <1>17, <1>18, <1>19, <1>20, <1>21,
     <1>22, <1>23, <1>24, <1>25, <1>26, <1>27, <1>28, <1>29, <1>30, <1>31,
     <1>32, <1>33, <1>34, <1>35, <1>36, <1>37, <1>38, <1>39
  DEF Next, Press, UiThread, ConnectThread, PollEnds

\* Where connect_to_server returns to is a step of the attempt.
LEMMA ReturnedType ==
    ASSUME TypeOK, NEW ok \in BOOLEAN, Returned(ok)
    PROVE  /\ attempt' \in [step : AttemptSteps, kind : Kinds,
                       tries : 0..MaxTries, socket : {0}]
           /\ attempt' \in AttemptRec
           /\ ok => attempt'.step = "request"
<1> DEFINE step == CASE ok -> "request"
                     [] ~ok /\ attempt.kind = "start" -> "try"
                     [] OTHER -> "finish"
<1>1. step \in AttemptSteps
  BY DEF AttemptSteps
<1>2. attempt' = [step |-> step, kind |-> attempt.kind,
                  tries |-> attempt.tries, socket |-> 0]
  BY DEF Returned, TypeOK, AttemptRec
<1>3. ok => step = "request"
  OBVIOUS
<1> HIDE DEF step
<1> QED
  BY <1>1, <1>2, <1>3 DEF TypeOK, AttemptRec

\* The records of the threads stay records of the threads.
LEMMA ThreadTypes ==
    ASSUME TypeOK, [Next]_vars
    PROVE  /\ made' \in Nat
           /\ ui' \in UiRec
           /\ attempt' \in AttemptRec'
           /\ poll' \in PollRec'
<1>0. "connect" \in Kinds
  BY DEF Kinds
<1> USE ConnectionAssumption, <1>0
    DEF TypeOK, UiRec, AttemptRec, PollRec, UiSteps, AttemptSteps,
        UiTo, AttemptTo, PollTo, IdleUi, NoAttempt, NoPoll, shown, links, env
<1>1. ASSUME NEW kind \in Kinds, Ask(kind)
      PROVE  /\ made' \in Nat
             /\ ui' \in UiRec
             /\ attempt' \in AttemptRec'
             /\ poll' \in PollRec'
  BY <1>1 DEF Ask, Click
<1>2. ASSUME NEW call \in Calls, Leave(call)
      PROVE  /\ made' \in Nat
             /\ ui' \in UiRec
             /\ attempt' \in AttemptRec'
             /\ poll' \in PollRec'
  <2> DEFINE step == IF call = "leave_session" THEN "say_leave"
                     ELSE "stop_connect"
  <2>1. ui' = [step |-> step, kind |-> "connect", call |-> call]
    BY <1>2 DEF Leave
  <2>2. step \in UiSteps
    OBVIOUS
  <2> HIDE DEF step
  <2> QED
    BY <1>2, <2>1, <2>2 DEF Leave
<1>3. CASE Enter
  BY <1>3 DEF Enter, Click
<1>4. CASE Toggle
  BY <1>4 DEF Toggle, Click
<1>5. CASE StopConnect
  BY <1>5 DEF StopConnect
<1>6. CASE JoinConnect
  BY <1>6 DEF JoinConnect, AfterConnect
<1>7. CASE Launch
  <2>1. attempt' = [step |-> "begin", kind |-> ui.kind, tries |-> 0, socket |-> 0]
    BY <1>7 DEF Launch
  <2> QED
    BY <1>7, <2>1 DEF Launch
<1>8. CASE SayLeave
  BY <1>8 DEF SayLeave, AfterLeave
<1>9. CASE Sent
  BY <1>9 DEF Sent, AfterLeave
<1>10. CASE ResetSession
  BY <1>10 DEF ResetSession
<1>11. CASE Close
  BY <1>11 DEF Close, CloseSockets
<1>12. CASE JoinPoll
  BY <1>12 DEF JoinPoll
<1>13. CASE Detach
  BY <1>13 DEF Detach
<1>14. CASE Release
  <2>1. ui' = IdleUi \/ ui' = [ui EXCEPT !.step = "gone"]
    BY <1>14 DEF Release
  <2> QED
    BY <1>14, <2>1 DEF Release
<1>15. CASE Begin
  BY <1>15 DEF Begin
<1>16. CASE RefuseStart
  BY <1>16 DEF RefuseStart
<1>17. CASE StartServer
  BY <1>17 DEF StartServer
<1>18. CASE Try
  <2>1. CASE \/ attempt' = [attempt EXCEPT !.step = "finish"]
             \/ attempt' = [attempt EXCEPT !.step = "request"]
    BY <1>18, <2>1 DEF Try
  <2>2. CASE /\ attempt.tries # MaxTries
             /\ attempt' = [attempt EXCEPT !.step = "check", !.tries = @ + 1]
    <3>1. attempt.tries + 1 \in 0..MaxTries
      <4>1. attempt.tries \in 0..MaxTries
        OBVIOUS
      <4> QED
        BY <4>1, <2>2
    <3> QED
      BY <1>18, <2>2, <3>1 DEF Try
  <2> QED
    BY <1>18, <2>1, <2>2 DEF Try, TriesEnd
<1>19. CASE Check
  <2>1. CASE attempt' = [attempt EXCEPT !.step = "dial"]
    BY <1>19, <2>1 DEF Check
  <2>2. CASE Returned(FALSE)
    <3>1. attempt' \in AttemptRec
      BY <2>2, ReturnedType
    <3> QED
      BY <1>19, <3>1 DEF Check
  <2> QED
    BY <1>19, <2>1, <2>2 DEF Check
<1>20. CASE Dial
  <2>0. UNCHANGED <<ui, poll>>
    BY <1>20 DEF Dial
  <2>1. CASE Returned(FALSE) /\ UNCHANGED made
    <3>1. attempt' \in [step : AttemptSteps, kind : Kinds, tries : 0..MaxTries, socket : {0}]
      BY <2>1, ReturnedType
    <3>2. made' \in Nat
      BY <2>1
    <3> QED
      BY <2>0, <2>1, <3>1, <3>2
  <2>2. CASE Returned(TRUE) /\ made' = made + 1
    <3>1. attempt' \in [step : AttemptSteps, kind : Kinds, tries : 0..MaxTries, socket : {0}]
      BY <2>2, ReturnedType
    <3>2. made' \in Nat
      BY <2>2
    <3> QED
      BY <2>0, <2>2, <3>1, <3>2
  <2>3. CASE /\ made' = made + 1
             /\ attempt' = [attempt EXCEPT !.socket = made + 1,
                      !.step = IF stop_poll THEN "discard" ELSE "replace"]
    <3>1. \E step \in {"discard", "replace"} :
             attempt' = [step |-> step, kind |-> attempt.kind,
                         tries |-> attempt.tries, socket |-> made + 1]
      BY <2>3
    <3>2. attempt.kind \in Kinds /\ attempt.tries \in 0..MaxTries /\ made' \in Nat
          /\ made' = made + 1
      BY <2>3
    <3>3. attempt' \in AttemptRec'
      BY <3>1, <3>2
    <3> QED
      BY <2>0, <3>3, <3>2
  <2> QED
    BY <1>20, <2>1, <2>2, <2>3 DEF Dial
<1>21. CASE Discard
  <2>1. Returned(TRUE)
    BY <1>21 DEF Discard
  <2>2. attempt' \in AttemptRec
    BY <2>1, ReturnedType
  <2> QED
    BY <1>21, <2>2 DEF Discard
<1>22. CASE Replace
  BY <1>22 DEF Replace, CloseSockets
<1>23. CASE Install
  BY <1>23 DEF Install
<1>24. CASE Attach
  BY <1>24 DEF Attach
<1>25. CASE StartPoll
  <2>1. Returned(TRUE)
    BY <1>25 DEF StartPoll
  <2>2. attempt' \in AttemptRec
    BY <2>1, ReturnedType
  <2> QED
    BY <1>25, <2>2 DEF StartPoll
<1>26. CASE Request
  BY <1>26 DEF Request
<1>27. CASE Finish
  BY <1>27 DEF Finish
<1>28. CASE FinishState
  BY <1>28 DEF FinishState
<1>29. CASE FinishSession
  BY <1>29 DEF FinishSession
<1>30. CASE Loop
  BY <1>30 DEF Loop
<1>31. CASE Frame
  BY <1>31 DEF Frame
<1>32. CASE Fail
  BY <1>32 DEF Fail, ReceiveFails
<1>33. CASE FailReset
  BY <1>33 DEF FailReset
<1>34. CASE FailDisconnected
  BY <1>34 DEF FailDisconnected
<1>35. CASE Answer
  BY <1>35 DEF Answer, Closing
<1>36. CASE Abort
  BY <1>36 DEF Abort, ReceiveFails
<1>37. CASE Drop
  BY <1>37 DEF Drop
<1>38. CASE Crash
  BY <1>38 DEF Crash
<1>39. CASE UNCHANGED vars
  BY <1>39 DEF vars
<1> QED
  BY <1>1, <1>2, <1>3, <1>4, <1>5, <1>6, <1>7, <1>8, <1>9, <1>10, <1>11,
     <1>12, <1>13, <1>14, <1>15, <1>16, <1>17, <1>18, <1>19, <1>20, <1>21,
     <1>22, <1>23, <1>24, <1>25, <1>26, <1>27, <1>28, <1>29, <1>30, <1>31,
     <1>32, <1>33, <1>34, <1>35, <1>36, <1>37, <1>38, <1>39
  DEF Next, Press, UiThread, ConnectThread, PollEnds

\* Every step keeps every variable well typed.
LEMMA TypeStep == TypeOK /\ [Next]_vars => TypeOK'
<1> SUFFICES ASSUME TypeOK, [Next]_vars PROVE TypeOK'
  OBVIOUS
<1> USE ConnectionAssumption, FlagTypes, ThreadTypes DEF TypeOK, shown, links,
    sessions, env
<1>1. ASSUME NEW kind \in Kinds, Ask(kind) PROVE TypeOK'
  <2>1. clicks' \in 0..MaxClicks
    BY <1>1 DEF Ask, Click
  <2> QED
    BY <1>1, <2>1 DEF Ask
<1>2. ASSUME NEW call \in Calls, Leave(call) PROVE TypeOK'
  <2>1. clicks' \in 0..MaxClicks
    BY <1>2 DEF Leave, Click
  <2> QED
    BY <1>2, <2>1 DEF Leave
<1>3. CASE Enter
  <2>1. clicks' \in 0..MaxClicks
    BY <1>3 DEF Enter, Click
  <2> QED
    BY <1>3, <2>1, SessionType DEF Enter
<1>4. CASE Toggle
  <2>1. clicks' \in 0..MaxClicks
    BY <1>4 DEF Toggle, Click
  <2> QED
    BY <1>4, <2>1 DEF Toggle
<1>5. CASE StopConnect
  BY <1>5 DEF StopConnect
<1>6. CASE JoinConnect
  BY <1>6 DEF JoinConnect, AfterConnect
<1>7. CASE Launch
  BY <1>7, SessionType DEF Launch
<1>8. CASE SayLeave
  BY <1>8 DEF SayLeave, AfterLeave
<1>9. CASE Sent
  BY <1>9 DEF Sent, AfterLeave
<1>10. CASE ResetSession
  BY <1>10, SessionType DEF ResetSession
<1>11. CASE Close
  BY <1>11 DEF Close, CloseSockets
<1>12. CASE JoinPoll
  BY <1>12 DEF JoinPoll
<1>13. CASE Detach
  BY <1>13, SessionType DEF Detach
<1>14. CASE Release
  BY <1>14 DEF Release, StopProcess
<1>15. CASE Begin
  BY <1>15 DEF Begin
<1>16. CASE RefuseStart
  BY <1>16 DEF RefuseStart
<1>17. CASE StartServer
  BY <1>17 DEF StartServer
<1>18. CASE Try
  BY <1>18 DEF Try, StopProcess
<1>19. CASE Check
  BY <1>19 DEF Check, Returned, AlreadyConnected
<1>20. CASE Dial
  BY <1>20 DEF Dial, Returned
<1>21. CASE Discard
  BY <1>21 DEF Discard, Returned
<1>22. CASE Replace
  BY <1>22 DEF Replace, CloseSockets
<1>23. CASE Install
  BY <1>23 DEF Install, AttemptRec
<1>24. CASE Attach
  BY <1>24 DEF Attach, AttemptRec
<1>25. CASE StartPoll
  BY <1>25 DEF StartPoll, Returned
<1>26. CASE Request
  BY <1>26, SessionType DEF Request
<1>27. CASE Finish
  BY <1>27 DEF Finish
<1>28. CASE FinishState
  BY <1>28 DEF FinishState
<1>29. CASE FinishSession
  BY <1>29, SessionType DEF FinishSession
<1>30. CASE Loop
  BY <1>30 DEF Loop
<1>31. CASE Frame
  BY <1>31, SessionType DEF Frame
<1>32. CASE Fail
  BY <1>32 DEF Fail, ReceiveFails
<1>33. CASE FailReset
  BY <1>33, SessionType DEF FailReset
<1>34. CASE FailDisconnected
  BY <1>34 DEF FailDisconnected
<1>35. CASE Answer
  BY <1>35 DEF Answer, Closing
<1>36. CASE Abort
  BY <1>36 DEF Abort, ReceiveFails
<1>37. CASE Drop
  BY <1>37 DEF Drop
<1>38. CASE Crash
  BY <1>38 DEF Crash
<1>39. CASE UNCHANGED vars
  BY <1>39 DEF vars
<1> QED
  BY <1>1, <1>2, <1>3, <1>4, <1>5, <1>6, <1>7, <1>8, <1>9, <1>10, <1>11,
     <1>12, <1>13, <1>14, <1>15, <1>16, <1>17, <1>18, <1>19, <1>20, <1>21,
     <1>22, <1>23, <1>24, <1>25, <1>26, <1>27, <1>28, <1>29, <1>30, <1>31,
     <1>32, <1>33, <1>34, <1>35, <1>36, <1>37, <1>38, <1>39
  DEF Next, Press, UiThread, ConnectThread, PollEnds

\* No step lets two attempts, or an attempt and a disconnecting, overlap.
LEMMA AttemptStep == TypeOK /\ AttemptInv /\ [Next]_vars => AttemptInv'
<1> SUFFICES ASSUME TypeOK, AttemptInv, [Next]_vars PROVE AttemptInv'
  OBVIOUS
<1> USE DEF TypeOK, UiRec, AttemptRec, PollRec, AttemptInv, Asking, Disconnecting, Leaving,
    Attempting,
        AtUi, UiTo, AtAttempt, AttemptTo, AtPoll, PollTo,
        IdleUi, NoAttempt, NoPoll, flags, shown, links, sessions, env
<1>1. ASSUME NEW kind \in Kinds, Ask(kind) PROVE AttemptInv'
  BY <1>1 DEF Ask, Click
<1>2. ASSUME NEW call \in Calls, Leave(call) PROVE AttemptInv'
  BY <1>2 DEF Leave, Click
<1>3. CASE Enter
  BY <1>3 DEF Enter, Click
<1>4. CASE Toggle
  BY <1>4 DEF Toggle, Click
<1>5. CASE StopConnect
  BY <1>5 DEF StopConnect
<1>6. CASE JoinConnect
  BY <1>6 DEF JoinConnect, AfterConnect
<1>7. CASE Launch
  BY <1>7 DEF Launch
<1>8. CASE SayLeave
  BY <1>8 DEF SayLeave, AfterLeave
<1>9. CASE Sent
  BY <1>9 DEF Sent, AfterLeave
<1>10. CASE ResetSession
  BY <1>10 DEF ResetSession
<1>11. CASE Close
  BY <1>11 DEF Close, CloseSockets
<1>12. CASE JoinPoll
  BY <1>12 DEF JoinPoll
<1>13. CASE Detach
  BY <1>13 DEF Detach
<1>14. CASE Release
  BY <1>14 DEF Release, StopProcess
<1>15. CASE Begin
  BY <1>15 DEF Begin
<1>16. CASE RefuseStart
  BY <1>16 DEF RefuseStart
<1>17. CASE StartServer
  BY <1>17 DEF StartServer
<1>18. CASE Try
  BY <1>18 DEF Try, StopProcess
<1>19. CASE Check
  BY <1>19 DEF Check, Returned, AlreadyConnected
<1>20. CASE Dial
  BY <1>20 DEF Dial, Returned
<1>21. CASE Discard
  BY <1>21 DEF Discard, Returned
<1>22. CASE Replace
  BY <1>22 DEF Replace, CloseSockets
<1>23. CASE Install
  BY <1>23 DEF Install
<1>24. CASE Attach
  BY <1>24 DEF Attach
<1>25. CASE StartPoll
  BY <1>25 DEF StartPoll, Returned
<1>26. CASE Request
  BY <1>26 DEF Request
<1>27. CASE Finish
  BY <1>27 DEF Finish
<1>28. CASE FinishState
  BY <1>28 DEF FinishState
<1>29. CASE FinishSession
  BY <1>29 DEF FinishSession
<1>30. CASE Loop
  BY <1>30 DEF Loop
<1>31. CASE Frame
  BY <1>31 DEF Frame
<1>32. CASE Fail
  BY <1>32 DEF Fail, ReceiveFails
<1>33. CASE FailReset
  BY <1>33 DEF FailReset
<1>34. CASE FailDisconnected
  BY <1>34 DEF FailDisconnected
<1>35. CASE Answer
  BY <1>35 DEF Answer, Closing
<1>36. CASE Abort
  BY <1>36 DEF Abort, ReceiveFails
<1>37. CASE Drop
  BY <1>37 DEF Drop
<1>38. CASE Crash
  BY <1>38 DEF Crash
<1>39. CASE UNCHANGED vars
  BY <1>39 DEF vars
<1> QED
  BY <1>1, <1>2, <1>3, <1>4, <1>5, <1>6, <1>7, <1>8, <1>9, <1>10, <1>11,
     <1>12, <1>13, <1>14, <1>15, <1>16, <1>17, <1>18, <1>19, <1>20, <1>21,
     <1>22, <1>23, <1>24, <1>25, <1>26, <1>27, <1>28, <1>29, <1>30, <1>31,
     <1>32, <1>33, <1>34, <1>35, <1>36, <1>37, <1>38, <1>39
  DEF Next, Press, UiThread, ConnectThread, PollEnds

\* No step replaces a poll thread that runs.
LEMMA PollStep == TypeOK /\ AttemptInv /\ PollInv /\ [Next]_vars => PollInv'
<1> SUFFICES ASSUME TypeOK, AttemptInv, PollInv, [Next]_vars PROVE PollInv'
  OBVIOUS
<1> USE DEF TypeOK, UiRec, AttemptRec, PollRec, AttemptInv, PollInv, Disconnecting, Leaving,
        AtUi, UiTo, AtAttempt, AttemptTo, AtPoll, PollTo,
        IdleUi, NoAttempt, NoPoll, flags, shown, links, sessions, env
<1>1. ASSUME NEW kind \in Kinds, Ask(kind) PROVE PollInv'
  BY <1>1 DEF Ask, Click
<1>2. ASSUME NEW call \in Calls, Leave(call) PROVE PollInv'
  BY <1>2 DEF Leave, Click
<1>3. CASE Enter
  BY <1>3 DEF Enter, Click
<1>4. CASE Toggle
  BY <1>4 DEF Toggle, Click
<1>5. CASE StopConnect
  BY <1>5 DEF StopConnect
<1>6. CASE JoinConnect
  BY <1>6 DEF JoinConnect, AfterConnect
<1>7. CASE Launch
  BY <1>7 DEF Launch
<1>8. CASE SayLeave
  BY <1>8 DEF SayLeave, AfterLeave
<1>9. CASE Sent
  BY <1>9 DEF Sent, AfterLeave
<1>10. CASE ResetSession
  BY <1>10 DEF ResetSession
<1>11. CASE Close
  BY <1>11 DEF Close, CloseSockets
<1>12. CASE JoinPoll
  BY <1>12 DEF JoinPoll
<1>13. CASE Detach
  BY <1>13 DEF Detach
<1>14. CASE Release
  BY <1>14 DEF Release, StopProcess
<1>15. CASE Begin
  BY <1>15 DEF Begin
<1>16. CASE RefuseStart
  BY <1>16 DEF RefuseStart
<1>17. CASE StartServer
  BY <1>17 DEF StartServer
<1>18. CASE Try
  BY <1>18 DEF Try, StopProcess
<1>19. CASE Check
  BY <1>19 DEF Check, Returned, AlreadyConnected
<1>20. CASE Dial
  BY <1>20 DEF Dial, Returned
<1>21. CASE Discard
  BY <1>21 DEF Discard, Returned
<1>22. CASE Replace
  BY <1>22 DEF Replace, CloseSockets
<1>23. CASE Install
  BY <1>23 DEF Install
<1>24. CASE Attach
  BY <1>24 DEF Attach
<1>25. CASE StartPoll
  BY <1>25 DEF StartPoll, Returned
<1>26. CASE Request
  BY <1>26 DEF Request
<1>27. CASE Finish
  BY <1>27 DEF Finish
<1>28. CASE FinishState
  BY <1>28 DEF FinishState
<1>29. CASE FinishSession
  BY <1>29 DEF FinishSession
<1>30. CASE Loop
  BY <1>30 DEF Loop
<1>31. CASE Frame
  BY <1>31 DEF Frame
<1>32. CASE Fail
  BY <1>32 DEF Fail, ReceiveFails
<1>33. CASE FailReset
  BY <1>33 DEF FailReset
<1>34. CASE FailDisconnected
  BY <1>34 DEF FailDisconnected
<1>35. CASE Answer
  BY <1>35 DEF Answer, Closing
<1>36. CASE Abort
  BY <1>36 DEF Abort, ReceiveFails
<1>37. CASE Drop
  BY <1>37 DEF Drop
<1>38. CASE Crash
  BY <1>38 DEF Crash
<1>39. CASE UNCHANGED vars
  BY <1>39 DEF vars
<1> QED
  BY <1>1, <1>2, <1>3, <1>4, <1>5, <1>6, <1>7, <1>8, <1>9, <1>10, <1>11,
     <1>12, <1>13, <1>14, <1>15, <1>16, <1>17, <1>18, <1>19, <1>20, <1>21,
     <1>22, <1>23, <1>24, <1>25, <1>26, <1>27, <1>28, <1>29, <1>30, <1>31,
     <1>32, <1>33, <1>34, <1>35, <1>36, <1>37, <1>38, <1>39
  DEF Next, Press, UiThread, ConnectThread, PollEnds

\* What an attempt is after start_local_server has waited once more for the
\* server's answer, and after connect_to_server has begun.
LEMMA TryEffect ==
    ASSUME attempt \in AttemptRec, Try
    PROVE  /\ attempt.step = "try" /\ attempt'.step \in {"finish", "check", "request"}
           /\ attempt'.kind = attempt.kind /\ attempt'.socket = attempt.socket
           /\ attempt'.step # "finish" => process' = process
           /\ UNCHANGED <<flags, shown, links, sessions, ui, poll, live, env>>
<1>1. CASE AttemptTo("finish")
  BY <1>1 DEF Try, AtAttempt, AttemptTo, AttemptRec
<1>2. CASE attempt' = [attempt EXCEPT !.step = "check", !.tries = @ + 1] /\ process' = process
  BY <1>2 DEF Try, AtAttempt, AttemptRec
<1>3. CASE AttemptTo("request") /\ process' = process
  BY <1>3 DEF Try, AtAttempt, AttemptTo, AttemptRec
<1> QED
  BY <1>1, <1>2, <1>3 DEF Try

LEMMA CheckEffect ==
    ASSUME attempt \in AttemptRec, Check
    PROVE  /\ attempt.step = "check" /\ attempt'.step \in {"try", "finish", "dial"}
           /\ attempt'.step = "try" => attempt.kind = "start"
           /\ attempt'.kind = attempt.kind
           /\ attempt'.socket = IF attempt'.step = "dial" THEN attempt.socket ELSE 0
           /\ attempt'.step = "dial" => ~connected /\ client = 0
           /\ stop_poll' = FALSE
           /\ UNCHANGED <<connecting, shown, links, sessions, ui, poll, live, process, env>>
<1>1. CASE AlreadyConnected /\ Returned(FALSE)
  BY <1>1 DEF Check, AtAttempt, Returned, AttemptRec
<1>2. CASE ~AlreadyConnected /\ AttemptTo("dial")
  BY <1>2 DEF Check, AtAttempt, AttemptTo, AttemptRec, AlreadyConnected
<1> QED
  BY <1>1, <1>2 DEF Check

\* No step leaves a client without its socket, or a socket without an owner.
LEMMA SocketStep == IndInv /\ [Next]_vars => SocketInv'
<1> SUFFICES ASSUME TypeOK, AttemptInv, PollInv, SocketInv, [Next]_vars
             PROVE  SocketInv'
  BY DEF IndInv
<1> USE DEF TypeOK, UiRec, AttemptRec, PollRec, AttemptInv, PollInv, SocketInv,
        Disconnecting, Leaving,
        AtUi, UiTo, AtAttempt, AttemptTo, AtPoll, PollTo,
        IdleUi, NoAttempt, NoPoll, flags, shown, links, sessions, env
<1>1. ASSUME NEW kind \in Kinds, Ask(kind) PROVE SocketInv'
  BY <1>1 DEF Ask, Click
<1>2. ASSUME NEW call \in Calls, Leave(call) PROVE SocketInv'
  BY <1>2 DEF Leave, Click
<1>3. CASE Enter
  BY <1>3 DEF Enter, Click
<1>4. CASE Toggle
  BY <1>4 DEF Toggle, Click
<1>5. CASE StopConnect
  BY <1>5 DEF StopConnect
<1>6. CASE JoinConnect
  BY <1>6 DEF JoinConnect, AfterConnect
<1>7. CASE Launch
  BY <1>7 DEF Launch
<1>8. CASE SayLeave
  BY <1>8 DEF SayLeave, AfterLeave
<1>9. CASE Sent
  BY <1>9 DEF Sent, AfterLeave
<1>10. CASE ResetSession
  BY <1>10 DEF ResetSession
<1>11. CASE Close
  BY <1>11 DEF Close, CloseSockets
<1>12. CASE JoinPoll
  BY <1>12 DEF JoinPoll
<1>13. CASE Detach
  BY <1>13 DEF Detach
<1>14. CASE Release
  BY <1>14 DEF Release, StopProcess
<1>15. CASE Begin
  BY <1>15 DEF Begin
<1>16. CASE RefuseStart
  BY <1>16 DEF RefuseStart
<1>17. CASE StartServer
  BY <1>17 DEF StartServer
<1>18. CASE Try
  BY <1>18, TryEffect
<1>19. CASE Check
  BY <1>19, CheckEffect
<1>20. CASE Dial
  <2>0. UNCHANGED <<socket, client, ui, poll, process>> /\ attempt.step = "dial"
    BY <1>20 DEF Dial
  <2>1. CASE attempt'.step \in {"request", "try", "finish"} /\ live' = live
    BY <2>0, <2>1
  <2>2. CASE /\ attempt' = [attempt EXCEPT !.socket = made + 1,
                      !.step = IF stop_poll THEN "discard" ELSE "replace"]
             /\ live' = live \cup {made + 1}
    BY <2>0, <2>2
  <2> QED
    BY <1>20, <2>1, <2>2 DEF Dial, Returned
<1>21. CASE Discard
  BY <1>21 DEF Discard, Returned
<1>22. CASE Replace
  BY <1>22 DEF Replace, CloseSockets
<1>23. CASE Install
  BY <1>23 DEF Install
<1>24. CASE Attach
  BY <1>24 DEF Attach
<1>25. CASE StartPoll
  BY <1>25 DEF StartPoll, Returned
<1>26. CASE Request
  BY <1>26 DEF Request
<1>27. CASE Finish
  BY <1>27 DEF Finish
<1>28. CASE FinishState
  BY <1>28 DEF FinishState
<1>29. CASE FinishSession
  BY <1>29 DEF FinishSession
<1>30. CASE Loop
  BY <1>30 DEF Loop
<1>31. CASE Frame
  BY <1>31 DEF Frame
<1>32. CASE Fail
  BY <1>32 DEF Fail, ReceiveFails
<1>33. CASE FailReset
  BY <1>33 DEF FailReset
<1>34. CASE FailDisconnected
  BY <1>34 DEF FailDisconnected
<1>35. CASE Answer
  BY <1>35 DEF Answer, Closing
<1>36. CASE Abort
  BY <1>36 DEF Abort, ReceiveFails
<1>37. CASE Drop
  BY <1>37 DEF Drop
<1>38. CASE Crash
  BY <1>38 DEF Crash
<1>39. CASE UNCHANGED vars
  BY <1>39 DEF vars
<1> QED
  BY <1>1, <1>2, <1>3, <1>4, <1>5, <1>6, <1>7, <1>8, <1>9, <1>10, <1>11,
     <1>12, <1>13, <1>14, <1>15, <1>16, <1>17, <1>18, <1>19, <1>20, <1>21,
     <1>22, <1>23, <1>24, <1>25, <1>26, <1>27, <1>28, <1>29, <1>30, <1>31,
     <1>32, <1>33, <1>34, <1>35, <1>36, <1>37, <1>38, <1>39
  DEF Next, Press, UiThread, ConnectThread, PollEnds

\* What a careful user is shown stays true.
LEMMA ShownStep == Careful /\ IndInv /\ ShownInv /\ [Next]_vars => ShownInv'
<1> SUFFICES ASSUME Careful, TypeOK, AttemptInv, PollInv, SocketInv, ShownInv, [Next]_vars
             PROVE  ShownInv'
  BY DEF IndInv
<1> USE DEF TypeOK, UiRec, AttemptRec, PollRec, AttemptInv, PollInv, SocketInv,
        ShownInv, Asking, Attempting, Disconnecting, Leaving,
        AtUi, UiTo, AtAttempt, AttemptTo, AtPoll, PollTo,
        IdleUi, NoAttempt, NoPoll, flags, shown, links, sessions, env
<1>1. ASSUME NEW kind \in Kinds, Ask(kind) PROVE ShownInv'
  BY <1>1 DEF Ask, Click, MayAsk
<1>2. ASSUME NEW call \in Calls, Leave(call) PROVE ShownInv'
  BY <1>2 DEF Leave, Click
<1>3. CASE Enter
  BY <1>3 DEF Enter, Click
<1>4. CASE Toggle
  BY <1>4 DEF Toggle, Click
<1>5. CASE StopConnect
  BY <1>5 DEF StopConnect
<1>6. CASE JoinConnect
  BY <1>6 DEF JoinConnect, AfterConnect
<1>7. CASE Launch
  BY <1>7 DEF Launch
<1>8. CASE SayLeave
  BY <1>8 DEF SayLeave, AfterLeave
<1>9. CASE Sent
  BY <1>9 DEF Sent, AfterLeave
<1>10. CASE ResetSession
  BY <1>10 DEF ResetSession
<1>11. CASE Close
  BY <1>11 DEF Close, CloseSockets
<1>12. CASE JoinPoll
  BY <1>12 DEF JoinPoll
<1>13. CASE Detach
  BY <1>13 DEF Detach
<1>14. CASE Release
  BY <1>14 DEF Release, StopProcess
<1>15. CASE Begin
  BY <1>15 DEF Begin
<1>16. CASE RefuseStart
  BY <1>16 DEF RefuseStart
<1>17. CASE StartServer
  BY <1>17 DEF StartServer
<1>18. CASE Try
  BY <1>18, TryEffect
<1>19. CASE Check
  BY <1>19, CheckEffect
<1>20. CASE Dial
  BY <1>20 DEF Dial, Returned
<1>21. CASE Discard
  BY <1>21 DEF Discard, Returned
<1>22. CASE Replace
  BY <1>22 DEF Replace, CloseSockets
<1>23. CASE Install
  BY <1>23 DEF Install
<1>24. CASE Attach
  BY <1>24 DEF Attach
<1>25. CASE StartPoll
  <2>1. /\ UNCHANGED <<connecting, shown, client, ui>>
        /\ stop_poll' = FALSE /\ poll'.step = "loop"
        /\ attempt.step = "start_poll" /\ Returned(TRUE)
    BY <1>25 DEF StartPoll
  <2>2. attempt'.step = "request"
    BY <2>1, ReturnedType
  <2> QED
    BY <2>1, <2>2
<1>26. CASE Request
  BY <1>26 DEF Request
<1>27. CASE Finish
  BY <1>27 DEF Finish
<1>28. CASE FinishState
  BY <1>28 DEF FinishState
<1>29. CASE FinishSession
  BY <1>29 DEF FinishSession
<1>30. CASE Loop
  BY <1>30 DEF Loop
<1>31. CASE Frame
  BY <1>31 DEF Frame
<1>32. CASE Fail
  BY <1>32 DEF Fail, ReceiveFails
<1>33. CASE FailReset
  BY <1>33 DEF FailReset
<1>34. CASE FailDisconnected
  BY <1>34 DEF FailDisconnected
<1>35. CASE Answer
  BY <1>35 DEF Answer, Closing
<1>36. CASE Abort
  BY <1>36 DEF Abort, ReceiveFails
<1>37. CASE Drop
  BY <1>37 DEF Drop
<1>38. CASE Crash
  BY <1>38 DEF Crash
<1>39. CASE UNCHANGED vars
  BY <1>39 DEF vars
<1> QED
  BY <1>1, <1>2, <1>3, <1>4, <1>5, <1>6, <1>7, <1>8, <1>9, <1>10, <1>11,
     <1>12, <1>13, <1>14, <1>15, <1>16, <1>17, <1>18, <1>19, <1>20, <1>21,
     <1>22, <1>23, <1>24, <1>25, <1>26, <1>27, <1>28, <1>29, <1>30, <1>31,
     <1>32, <1>33, <1>34, <1>35, <1>36, <1>37, <1>38, <1>39
  DEF Next, Press, UiThread, ConnectThread, PollEnds

-----------------------------------------------------------------------------
(* The theorems.                                                           *)

\* The invariant holds initially.
LEMMA IndInit == Init => IndInv /\ ShownInv
<1> SUFFICES ASSUME Init PROVE IndInv /\ ShownInv
  OBVIOUS
<1>1. TypeOK
  BY TypeInit
<1> QED
  BY <1>1 DEF Init, IndInv, ShownInv, AttemptInv, PollInv, SocketInv, Asking,
     Disconnecting, Leaving, Attempting, AtPoll, IdleUi, NoAttempt, NoPoll

\* It is inductive, whatever the user does.
LEMMA IndStep == IndInv /\ [Next]_vars => IndInv'
BY TypeStep, AttemptStep, PollStep, SocketStep DEF IndInv

\* What the three threads share fits together at every step.
THEOREM ThreadsAgree == Spec => []IndInv
BY IndInit, IndStep, PTL DEF Spec

\* Type correctness.
THEOREM TypeCorrect == Spec => []TypeOK
<1>1. IndInv => TypeOK
  BY DEF IndInv
<1> QED
  BY <1>1, ThreadsAgree, PTL

\* The socket of a client is not replaced or destroyed while the client is
\* attached, nor the client while the poll thread receives by it
\* (install_*, detach_client, poll_session), whatever the user does.
THEOREM ClientsAreSafe == Spec => []NoDanglingClient
<1>1. IndInv => NoDanglingClient
  BY DEF IndInv, SocketInv, NoDanglingClient, AtUi
<1> QED
  BY <1>1, ThreadsAgree, PTL

\* After shutdown no thread, socket, client or server process is left.
THEOREM ShutdownIsComplete == Spec => []GoneIsClean
<1>1. IndInv => GoneIsClean
  BY DEF IndInv, TypeOK, PollRec, AttemptInv, PollInv, SocketInv, Disconnecting, Leaving,
         GoneIsClean, AtUi, NoPoll
<1> QED
  BY <1>1, ThreadsAgree, PTL

\* For a user who starts no local server while connected, the screen says
\* "Connected" exactly when a thread receives, whenever all is at rest.
THEOREM ShownIsTrue == ASSUME Careful PROVE Spec => []ConnectedListens
<1>1. Spec => [](IndInv /\ ShownInv)
  BY IndInit, IndStep, ShownStep, PTL DEF Spec
<1>2. IndInv /\ ShownInv => ConnectedListens
  BY DEF IndInv, TypeOK, PollRec, ShownInv, ConnectedListens, AtRest, AtPoll,
         AtAttempt, Disconnecting, Leaving
<1> QED
  BY <1>1, <1>2, PTL
=============================================================================
