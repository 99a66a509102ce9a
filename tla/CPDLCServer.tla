------------------------------ MODULE CPDLCServer ------------------------------
(***************************************************************************)
(* CPDLCServer of openlink-server (acars.rs): the KV bucket of sessions,   *)
(* one session per aircraft address, and the handlers of CPDLC messages.   *)
(*                                                                         *)
(* The server of a network handles one message (or one presence sweep) at  *)
(* a time, so at most one call is in flight.  A meta message is one        *)
(* read-modify-write of one session.  An application message is applied to *)
(* a private copy of the session, element by element, and written at the   *)
(* end; terminating a station is one read-modify-write per session.  A     *)
(* failed KV operation or a crash may end either of them half way.         *)
(*                                                                         *)
(* What the caller is given back stays in `reply' until the caller, the    *)
(* message loop of OpenLinkServer, is done with it.                        *)
(***************************************************************************)
EXTENDS CPDLCSession, Integers, Sequences, FiniteSets

CONSTANTS
    Routing,    \* the routings messages carry: aircraft, source, destination
    Body,       \* the element lists application messages carry
    Min         \* the message identification numbers clients assign

(* UM160 carries a facility designation, or an argument of another type    *)
(* (None), which the server skips.                                         *)
Element == [id : {"UM160"}, facility : Callsign \cup {None}]
             \cup [id : {"UM161", "Other"}, facility : {None}]

ASSUME RoutingAssumption ==
    Routing \subseteq
        [aircraft : Endpoint, source : Callsign, destination : Callsign]

ASSUME BodyAssumption == Body \subseteq Seq(Element)

ASSUME MinAssumption == Min \subseteq Nat

VARIABLES
    sessions,   \* the KV bucket: aircraft address -> session
    call,       \* the multi-step call in progress, or None
    reply       \* the result of the last call, not yet dealt with, or None

vars == <<sessions, call, reply>>

ApplicationCall ==
    [kind : {"application"}, routing : Routing, draft : Session,
     elements : Seq(Element)]

TerminateCall ==
    [kind : {"terminate"}, callsign : Callsign,
     todo : SUBSET Address, done : SUBSET Session]

RoutedReply ==
    [kind : {"routed"}, routing : Routing, session : Session \cup {None}]

TerminatedReply ==
    [kind : {"terminated"}, callsign : Callsign, sessions : SUBSET Session]

(* The separation that lets None stand for the absence of a call or reply. *)
ASSUME NoCallAssumption ==
    /\ None \notin ApplicationCall \cup TerminateCall
    /\ None \notin RoutedReply \cup TerminatedReply

TypeOK ==
    /\ sessions \in [Address -> Session \cup {None}]
    /\ call \in ApplicationCall \cup TerminateCall \cup {None}
    /\ reply \in RoutedReply \cup TerminatedReply \cup {None}

-----------------------------------------------------------------------------

Init ==
    /\ sessions = [a \in Address |-> None]
    /\ call = None
    /\ reply = None

Idle == call = None /\ reply = None

(* What a read of the bucket gives a handler that creates missing sessions. *)
Current(r) ==
    IF sessions[r.aircraft.address] = None THEN NewSession(r.aircraft)
                                           ELSE sessions[r.aircraft.address]

(* The write that ends get_and_update_session_for_aircraft, and the return *)
(* of the destination with the updated session.                            *)
Store(r, s) ==
    /\ sessions' = [sessions EXCEPT ![r.aircraft.address] = s]
    /\ reply' = [kind |-> "routed", routing |-> r, session |-> s]

(* The message is forwarded but no session is touched.                     *)
RouteOnly(r) ==
    /\ reply' = [kind |-> "routed", routing |-> r, session |-> None]
    /\ UNCHANGED sessions

-----------------------------------------------------------------------------
(* handle_cpdlc_meta_message *)

HandleLogonRequest(r, station) ==
    /\ Idle
    /\ Store(r, LogonRequest(Current(r), station))
    /\ UNCHANGED call

HandleLogonResponse(r, accepted) ==
    /\ Idle
    /\ IF accepted THEN Store(r, LogonAccepted(Current(r), r.source))
                   ELSE RouteOnly(r)
    /\ UNCHANGED call

HandleConnectionRequest(r) ==
    /\ Idle
    /\ Store(r, ConnectionRequest(Current(r), r.source))
    /\ UNCHANGED call

(* The aircraft answers: the station is the destination.  The error of a   *)
(* connection that was never logged on leaves no trace.                    *)
HandleConnectionResponse(r, accepted) ==
    /\ Idle
    /\ accepted => ~ConnectionAcceptedErr(Current(r), r.destination)
    /\ IF accepted THEN Store(r, ConnectionAccepted(Current(r), r.destination))
                   ELSE RouteOnly(r)
    /\ UNCHANGED call

(* LogonForward, and a SessionUpdate that a client should not send.        *)
HandlePassThrough(r) ==
    /\ Idle
    /\ RouteOnly(r)
    /\ UNCHANGED call

-----------------------------------------------------------------------------
(* handle_cpdlc_application_message *)

(* The session is read and the message validated.                          *)
ApplicationStart(r, min, elements) ==
    LET s == sessions[r.aircraft.address] IN
    /\ Idle
    /\ s # None
    /\ s.active # None
    /\ ReadyExchange(s.active)
    /\ min \in 1..63
    /\ call' = [kind |-> "application", routing |-> r, draft |-> s,
                elements |-> elements]
    /\ UNCHANGED <<sessions, reply>>

(* What one element does to the session.                                   *)
Apply(s, e, source) ==
    CASE e.id = "UM160" /\ e.facility # None -> NextDataAuthority(s, e.facility)
      [] e.id = "UM161" -> TerminationRequest(s, source)
      [] OTHER -> s

ApplicationElement ==
    /\ call # None
    /\ call.kind = "application"
    /\ call.elements # << >>
    /\ call' = [call EXCEPT
                  !.draft = Apply(call.draft, Head(call.elements), call.routing.source),
                  !.elements = Tail(call.elements)]
    /\ UNCHANGED <<sessions, reply>>

ApplicationStore ==
    /\ call # None
    /\ call.kind = "application"
    /\ call.elements = << >>
    /\ Store(call.routing, call.draft)
    /\ call' = None

-----------------------------------------------------------------------------
(* terminate_sessions_for_station *)

(* list_sessions_for_callsign *)
SessionsFor(callsign) ==
    {a \in Address : sessions[a] # None /\ RelevantTo(sessions[a], callsign)}

TerminateStart(callsign) ==
    /\ Idle
    /\ call' = [kind |-> "terminate", callsign |-> callsign,
                todo |-> SessionsFor(callsign), done |-> {}]
    /\ UNCHANGED <<sessions, reply>>

(* One session: the station is removed from it if it holds a slot, and the *)
(* session is reported unless the station still holds one.                 *)
TerminateSession(a) ==
    /\ call # None
    /\ call.kind = "terminate"
    /\ a \in call.todo
    /\ LET s == TerminationRequest(sessions[a], call.callsign) IN
         /\ sessions' = [sessions EXCEPT ![a] = s]
         /\ call' = [call EXCEPT
                       !.todo = @ \ {a},
                       !.done = IF InSlot(s, call.callsign) THEN @ ELSE @ \cup {s}]
    /\ UNCHANGED reply

TerminateReturn ==
    /\ call # None
    /\ call.kind = "terminate"
    /\ call.todo = {}
    /\ reply' = [kind |-> "terminated", callsign |-> call.callsign,
                 sessions |-> call.done]
    /\ call' = None
    /\ UNCHANGED sessions

-----------------------------------------------------------------------------

(* A KV operation of the call fails and its error is returned, or the      *)
(* server stops: what was written stays, what was only held is lost.       *)
Abort ==
    /\ call # None
    /\ call' = None
    /\ UNCHANGED <<sessions, reply>>

(* The caller is done with the result.                                     *)
Return ==
    /\ reply # None
    /\ reply' = None
    /\ UNCHANGED <<sessions, call>>

(* A logon request names its destination as the station.                   *)
Message ==
    \E r \in Routing :
      \/ HandleLogonRequest(r, r.destination)
      \/ \E accepted \in BOOLEAN : HandleLogonResponse(r, accepted)
      \/ HandleConnectionRequest(r)
      \/ \E accepted \in BOOLEAN : HandleConnectionResponse(r, accepted)
      \/ HandlePassThrough(r)
      \/ \E min \in Min, elements \in Body : ApplicationStart(r, min, elements)

Next ==
    \/ Message
    \/ ApplicationElement
    \/ ApplicationStore
    \/ \E callsign \in Callsign : TerminateStart(callsign)
    \/ \E a \in Address : TerminateSession(a)
    \/ TerminateReturn
    \/ Abort
    \/ Return

Spec == Init /\ [][Next]_vars
=============================================================================
