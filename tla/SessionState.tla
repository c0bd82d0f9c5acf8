---------------------------- MODULE SessionState ----------------------------
(***************************************************************************)
(* What an application remembers of the session it is in: joining_state_   *)
(* and the fields of session_manager (session_manager.h), and the copy its *)
(* sessionClient keeps (sessionClient.h), which is what drawing goes by.   *)
(* Everything here happens under session_mutex_.  Member ids and the list  *)
(* of members are left out.                                                *)
(***************************************************************************)
EXTENDS Naturals

\* "leaving" and "closing" are never assigned in the code.
JoiningStates == {"none", "creating", "joining", "in_session"}

SessionRec == [joining : JoiningStates, in_session : BOOLEAN, session_id : Nat,
               is_host : BOOLEAN,
               client_id : Nat, client_host : BOOLEAN]  \* of the sessionClient

NoSession == [joining |-> "none", in_session |-> FALSE, session_id |-> 0,
              is_host |-> FALSE, client_id |-> 0, client_host |-> FALSE]

\* prepare_join and send_join_request, prepare_create and send_create_request.
Joining(s, id) == [s EXCEPT !.joining = "joining", !.session_id = id]
Creating(s) == [s EXCEPT !.joining = "creating"]

\* reset_session: also the client is marked closed.
Reset(s) == NoSession

\* clear_joining_state, and handle_error.
ClearJoining(s) == [s EXCEPT !.joining = "none"]

\* detach_client: the client goes with its copy.
Detached(s) == [s EXCEPT !.client_id = 0, !.client_host = FALSE]

Entered(s, id, host) ==
    [joining |-> "in_session", in_session |-> TRUE, session_id |-> id,
     is_host |-> host, client_id |-> id, client_host |-> host]

\* Mutant of Acked: the JOIN_OK has to name the session.
AckedById(s, code, id) ==
    CASE s.joining = "creating" /\ code = "CREATE_OK" -> Entered(s, id, TRUE)
      [] s.joining = "joining" /\ code = "JOIN_OK" /\ id = s.session_id ->
            Entered(s, s.session_id, FALSE)
      [] OTHER -> s

\* handle_ack.  A JOIN_OK names a member and not the session.
Acked(s, code, id) ==
    CASE s.joining = "creating" /\ code = "CREATE_OK" -> Entered(s, id, TRUE)
      [] s.joining = "joining" /\ code = "JOIN_OK" -> Entered(s, s.session_id, FALSE)
      [] OTHER -> s
=============================================================================
