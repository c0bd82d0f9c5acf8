----------------------------- MODULE Discovery -----------------------------
(***************************************************************************)
(* How a client finds the server of a session on the LAN: discover_host,   *)
(* the responder of every server and its look-up in the open sessions.     *)
(*                                                                         *)
(* Every server numbers its sessions from 1, so two may have the same id.  *)
(* A request goes out as a broadcast and to the loopback address; datagrams *)
(* come late, in any order, or never: that is one never handled.  The      *)
(* operating system may give a port that an earlier attempt used.          *)
(***************************************************************************)
EXTENDS Integers, FiniteSets

CONSTANTS
    Servers,
    Local,          \* the server on the client's machine
    MaxSessions,    \* that a server opens
    Ports,          \* of the client
    MaxAttempts

ASSUME DiscoveryAssumption ==
    /\ MaxSessions \in Nat /\ MaxAttempts \in Nat
    /\ Local \in Servers /\ "none" \notin Servers /\ "none" \notin Ports

Ids == 1..MaxSessions

VARIABLES
    next_session_id, open_sessions,     \* of each server
    requests, offers,                   \* datagrams on their way
    port,                               \* of the socket of this attempt, or "none"
    wanted,                             \* the session looked for
    host,                               \* the server found, or "none"
    attempts

lan == <<next_session_id, open_sessions>>
discovery == <<lan, requests, offers, port, wanted, host, attempts>>

DiscoveryTypeOK ==
    /\ next_session_id \in [Servers -> 1..(MaxSessions + 1)]
    /\ open_sessions \in [Servers -> SUBSET Ids]
    /\ requests \subseteq [to : Servers, session_id : Ids, from : Ports, via : {"broadcast", "loopback"}]
    /\ offers \subseteq [by : Servers, session_id : Ids, to : Ports, via : {"broadcast", "loopback"}]
    /\ port \in Ports \cup {"none"} /\ host \in Servers \cup {"none"}
    /\ wanted \in Ids \cup {0} /\ attempts \in 0..MaxAttempts

DiscoveryInit ==
    /\ next_session_id = [s \in Servers |-> 1]
    /\ open_sessions = [s \in Servers |-> {}]
    /\ requests = {} /\ offers = {}
    /\ port = "none" /\ wanted = 0 /\ host = "none" /\ attempts = 0

-----------------------------------------------------------------------------
(* The servers.                                                            *)

OpenSession(s) ==
    /\ next_session_id[s] <= MaxSessions
    /\ next_session_id' = [next_session_id EXCEPT ![s] = @ + 1]
    /\ open_sessions' = [open_sessions EXCEPT ![s] = @ \cup {next_session_id[s]}]
    /\ UNCHANGED <<requests, offers, port, wanted, host, attempts>>

CloseSession(s) ==
    /\ \E id \in open_sessions[s] :
          open_sessions' = [open_sessions EXCEPT ![s] = @ \ {id}]
    /\ UNCHANGED <<next_session_id, requests, offers, port, wanted, host, attempts>>

\* Under sessions_mutex.
lookup(s, session_id) == session_id \in open_sessions[s]

\* run_loop.
Respond(r) ==
    /\ requests' = requests \ {r}
    /\ offers' = IF lookup(r.to, r.session_id)
                 THEN offers \cup {[by |-> r.to, session_id |-> r.session_id,
                                    to |-> r.from, via |-> r.via]}
                 ELSE offers
    /\ UNCHANGED <<lan, port, wanted, host, attempts>>

-----------------------------------------------------------------------------
(* The client's connect thread.                                            *)

Discover ==
    /\ port = "none" /\ host = "none" /\ attempts < MaxAttempts
    /\ attempts' = attempts + 1
    /\ port' \in Ports /\ wanted' \in Ids
    /\ requests' = requests
          \cup [to : Servers, session_id : {wanted'}, from : {port'}, via : {"broadcast"}]
          \cup [to : {Local}, session_id : {wanted'}, from : {port'}, via : {"loopback"}]
    /\ UNCHANGED <<lan, offers, host>>

\* Mutant of ReceiveOffer: any offer will do.
ReceiveAnyOffer(o) ==
    /\ port = o.to
    /\ offers' = offers \ {o} /\ host' = o.by /\ port' = "none"
    /\ UNCHANGED <<lan, requests, wanted, attempts>>

\* The first offer of the session looked for ends the search.
ReceiveOffer(o) ==
    /\ port = o.to
    /\ offers' = offers \ {o}
    /\ IF o.session_id = wanted THEN host' = o.by /\ port' = "none"
       ELSE UNCHANGED <<host, port>>
    /\ UNCHANGED <<lan, requests, wanted, attempts>>

\* The three seconds are over.
TimeOut ==
    /\ port # "none" /\ port' = "none"
    /\ UNCHANGED <<lan, requests, offers, wanted, host, attempts>>

DiscoveryNext ==
    \/ \E s \in Servers : OpenSession(s) \/ CloseSession(s)
    \/ \E r \in requests : Respond(r)
    \/ Discover \/ (\E o \in offers : ReceiveOffer(o)) \/ TimeOut
=============================================================================
