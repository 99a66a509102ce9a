----------------------------- MODULE OpenLinkServer -----------------------------
(***************************************************************************)
(* OpenLinkServer of openlink-server (server.rs): the message loop of one  *)
(* network, with its session store (CPDLCServer), its station registry     *)
(* (StationRegistry) and what its clients have been shown.                 *)
(*                                                                         *)
(* The loop takes a message or a tick of the presence ticker, handles it   *)
(* to the end and takes the next.  A change of a session is followed by a  *)
(* SessionUpdate to the aircraft and the stations concerned; a station     *)
(* that goes offline, by message or because its lease ran out, is taken    *)
(* out of every session; a station that comes online is sent the sessions  *)
(* it takes part in.  Clients subscribe to their inbox and may vanish at   *)
(* any moment; what is sent to an inbox nobody listens to is lost.  A send *)
(* that fails is logged and not repeated.                                  *)
(***************************************************************************)
EXTENDS Integers, Sequences, FiniteSets

CONSTANTS
    Callsign, Address, None,                \* see CPDLCSession
    Routing, Body, Min,                     \* see CPDLCServer
    StationId, Key, IndexKey, Licence, Ttl, MaxFaults,  \* see StationRegistry
    Relogon     \* may aircraft log on to a station that holds a slot already?

ASSUME RelogonAssumption == Relogon \in BOOLEAN

VARIABLES
    sessions, call, reply,                  \* CPDLCServer
    registry, index, age, sweep, faults,    \* StationRegistry
    offline,    \* stations marked offline whose sessions are to be ended next
    listening,  \* clients subscribed to their inbox
    joined,     \* those of them that came online since they listen
    views       \* client -> aircraft -> the last SessionUpdate it was shown

C == INSTANCE CPDLCServer
R == INSTANCE StationRegistry

(* What the two modules assume of their constants.                         *)
ASSUME StoreAssumption ==
    /\ C!NoneAssumption
    /\ C!RoutingAssumption
    /\ C!BodyAssumption
    /\ C!MinAssumption
    /\ C!NoCallAssumption
ASSUME RegistryAssumption ==
    /\ R!IndexKeyAssumption
    /\ R!LicenceAssumption
    /\ R!TtlAssumption
    /\ R!FaultsAssumption
    /\ R!NoneAssumption

storeVars    == <<sessions, call, reply>>
registryVars == <<registry, index, age, sweep, faults>>
clientVars   == <<listening, joined, views>>
vars == <<storeVars, registryVars, offline, clientVars>>

(* A client that has been shown nothing of an aircraft holds None.         *)
TypeOK ==
    /\ C!TypeOK
    /\ R!TypeOK
    /\ offline \in SUBSET StationId
    /\ listening \in SUBSET StationId
    /\ joined \in SUBSET listening
    /\ DOMAIN views = StationId
    /\ \A i \in StationId : DOMAIN views[i] = Address

Init ==
    /\ C!Init
    /\ R!Init
    /\ offline = {}
    /\ listening = {}
    /\ joined = {}
    /\ views = [i \in StationId |-> [a \in Address |-> None]]

(* The loop is back at its select.                                         *)
Free == C!Idle /\ sweep = None /\ offline = {}

-----------------------------------------------------------------------------
(* What is sent. *)

BothParties(s, source, destination) ==   \* variant: only those who exchanged
    {s.aircraft.callsign, source, destination}

(* The callsigns that broadcast_session_update sends session s to, when    *)
(* the triggering message went from source to destination.                 *)
Audience(s, source, destination) ==
    {s.aircraft.callsign, source, destination}
      \cup {slot.station : slot \in {s.active, s.inactive} \ {None}}

(* The clients as they are after s was broadcast: whoever is found under a *)
(* callsign of the audience and listens is shown its view of s.            *)
Shown(shown, s, source, destination) ==
    [i \in StationId |-> [a \in Address |->
        LET for == {c \in Audience(s, source, destination) : R!Lookup(c) = i}
        IN  IF a = s.aircraft.address /\ i \in listening /\ for # {}
            THEN C!View(s, CHOOSE c \in for : TRUE)
            ELSE shown[i][a]]]

OwnSynced(i, callsign) ==   \* variant: only sessions the callsign owns
    [views EXCEPT ![i] = [a \in Address |->
        IF /\ i \in listening
           /\ a \in C!SessionsFor(callsign)
           /\ sessions[a].aircraft.callsign = callsign
        THEN C!View(sessions[a], callsign) ELSE @[a]]]

(* sync_session_snapshots_for_callsign: all sessions of a callsign, sent   *)
(* to the address that came online.                                        *)
Synced(i, callsign) ==
    [views EXCEPT ![i] = [a \in Address |->
        IF i \in listening /\ a \in C!SessionsFor(callsign)
        THEN C!View(sessions[a], callsign) ELSE @[a]]]

-----------------------------------------------------------------------------
(* Station status. *)

(* handle_meta_message, after the registry was updated.                    *)
AfterStatus(i, status, callsign) ==
    IF status = "Online"
    THEN /\ views' = Synced(i, callsign)
         /\ joined' = joined \cup ({i} \cap listening)
         /\ UNCHANGED offline
    ELSE /\ offline' = {i}
         /\ UNCHANGED <<views, joined>>

StationStatus(i, status, callsign) ==
    /\ Free
    /\ R!StationStatus(i, status, callsign)
    /\ AfterStatus(i, status, callsign)
    /\ UNCHANGED <<storeVars, listening>>

(* A write of the registry failed: the server goes on only if it did not   *)
(* notice.  If it stopped there, nothing more happens.                     *)
StationStatusFault(i, status, callsign) ==
    /\ Free
    /\ \E w \in R!CutShort :
         /\ R!Faulty(w)
         /\ R!UpdateStatus(i, status, callsign, w)
         /\ \/ R!ReturnsOk(status, w) /\ AfterStatus(i, status, callsign)
            \/ UNCHANGED <<offline, views, joined>>
    /\ UNCHANGED <<storeVars, sweep, listening>>

(* The presence ticker. *)

SweepStart ==
    /\ Free
    /\ R!SweepStart
    /\ UNCHANGED <<storeVars, offline, clientVars>>

SweepStation(i) ==
    /\ R!SweepStation(i) \/ R!SweepFault(i)
    /\ UNCHANGED <<storeVars, offline, clientVars>>

SweepForgotten ==   \* variant: what has expired is not processed
    /\ R!SweepEnd
    /\ UNCHANGED <<storeVars, offline, clientVars>>

SweepCallsigns ==   \* variant: passes on callsigns instead of entries
    /\ R!SweepEnd
    /\ offline' = {registry[i].callsign : i \in sweep.expired}
    /\ UNCHANGED <<storeVars, clientVars>>

SweepEnd ==
    /\ R!SweepEnd
    /\ offline' = sweep.expired
    /\ UNCHANGED <<storeVars, clientVars>>

(* handle_station_offline of the next station: the sessions are ended, and *)
(* the changed ones are broadcast by TellTerminated.                       *)
EndSessions(i) ==
    /\ i \in offline
    /\ sweep = None
    /\ C!TerminateStart(registry[i].callsign)
    /\ offline' = offline \ {i}
    /\ UNCHANGED <<registryVars, clientVars>>

-----------------------------------------------------------------------------
(* CPDLC messages. *)

SentBy(callsign) == \E i \in listening : callsign \in Licence[i]

FromAircraft(r) == r.source = r.aircraft.callsign
FromStation(r)  == r.destination = r.aircraft.callsign

(* The messages of the SDK, with the sender and receiver it gives them.    *)
CpdlcMessage ==
    /\ Free
    /\ \E r \in Routing :
         /\ SentBy(r.source)
         /\ \/ /\ FromAircraft(r)
               /\ \/ /\ Relogon \/ ~C!InSlot(C!Current(r), r.destination)
                     /\ C!HandleLogonRequest(r, r.destination)
                  \/ \E accepted \in BOOLEAN : C!HandleConnectionResponse(r, accepted)
            \/ /\ FromStation(r)
               /\ \/ \E accepted \in BOOLEAN : C!HandleLogonResponse(r, accepted)
                  \/ C!HandleConnectionRequest(r)
            \/ /\ ~FromAircraft(r) /\ ~FromStation(r)
               /\ C!HandlePassThrough(r)
            \/ /\ FromAircraft(r) \/ FromStation(r)
               /\ \E min \in Min, elements \in Body : C!ApplicationStart(r, min, elements)
    /\ UNCHANGED <<registryVars, offline, clientVars>>

(* The steps of the call in progress. *)
CallStep ==
    /\ \/ C!ApplicationElement
       \/ C!ApplicationStore
       \/ \E a \in Address : C!TerminateSession(a)
       \/ C!TerminateReturn
    /\ UNCHANGED <<registryVars, offline, clientVars>>

(* The message is forwarded and, if a session came back, broadcast.        *)
TellRouted ==
    /\ reply # None
    /\ reply.kind = "routed"
    /\ views' = IF reply.session = None THEN views
                ELSE Shown(views, reply.session,
                           reply.routing.source, reply.routing.destination)
    /\ C!Return
    /\ UNCHANGED <<registryVars, offline, listening, joined>>

UntoldTerminated(s) ==   \* variant: END SERVICE, but no broadcast
    /\ reply # None
    /\ reply.kind = "terminated"
    /\ s \in reply.sessions
    /\ reply' = [reply EXCEPT !.sessions = @ \ {s}]
    /\ UNCHANGED <<sessions, call, registryVars, offline, clientVars>>

(* One of the sessions a departed station was taken out of: END SERVICE in *)
(* its name, and a broadcast with it as the source.                        *)
TellTerminated(s) ==
    /\ reply # None
    /\ reply.kind = "terminated"
    /\ s \in reply.sessions
    /\ views' = Shown(views, s, reply.callsign, s.aircraft.callsign)
    /\ reply' = [reply EXCEPT !.sessions = @ \ {s}]
    /\ UNCHANGED <<sessions, call, registryVars, offline, listening, joined>>

TellTerminatedEnd ==
    /\ reply # None
    /\ reply.kind = "terminated"
    /\ reply.sessions = {}
    /\ C!Return
    /\ UNCHANGED <<registryVars, offline, clientVars>>

-----------------------------------------------------------------------------
(* Failures, and the clients. *)

Fault == faults < MaxFaults /\ faults' = faults + 1

(* A KV operation of the call fails; the loop goes on.                     *)
CallFails ==
    /\ Fault
    /\ C!Abort
    /\ UNCHANGED <<registry, index, age, sweep, offline, clientVars>>

(* What a client keeps whom an update did not reach.                       *)
Unreached(missed, shown) ==
    [i \in StationId |-> IF i \in missed THEN views[i] ELSE shown[i]]

(* A lookup or a send of a broadcast that fails is logged, and the others  *)
(* are told all the same.                                                  *)
TellRoutedFault ==
    /\ reply # None
    /\ reply.kind = "routed"
    /\ reply.session # None
    /\ Fault
    /\ \E missed \in (SUBSET listening) \ {{}} :
         views' = Unreached(missed, Shown(views, reply.session,
                              reply.routing.source, reply.routing.destination))
    /\ C!Return
    /\ UNCHANGED <<registry, index, age, sweep, offline, listening, joined>>

TellTerminatedFault(s) ==
    /\ reply # None
    /\ reply.kind = "terminated"
    /\ s \in reply.sessions
    /\ Fault
    /\ \E missed \in (SUBSET listening) \ {{}} :
         views' = Unreached(missed, Shown(views, s, reply.callsign, s.aircraft.callsign))
    /\ reply' = [reply EXCEPT !.sessions = @ \ {s}]
    /\ UNCHANGED <<sessions, call, registry, index, age, sweep, offline, listening, joined>>

(* The client is online, but reading its sessions or sending one of them   *)
(* failed: the rest of the snapshots, at least one, is not sent.           *)
SyncFault(i, callsign) ==
    /\ Free
    /\ Fault
    /\ R!UpdateStatus(i, "Online", callsign, R!AllWritten)
    /\ \E missed \in (SUBSET C!SessionsFor(callsign)) \ {{}} :
         views' = [views EXCEPT ![i] = [a \in Address |->
                     IF a \in missed THEN @[a] ELSE Synced(i, callsign)[i][a]]]
    /\ joined' = joined \cup ({i} \cap listening)
    /\ UNCHANGED <<storeVars, sweep, offline, listening>>

SendFails ==
    \/ TellRoutedFault
    \/ reply # None /\ reply.kind = "terminated"
         /\ \E s \in reply.sessions : TellTerminatedFault(s)
    \/ \E i \in listening : \E callsign \in Licence[i] : SyncFault(i, callsign)

(* The server stops and is started again without --clean: the buckets are  *)
(* kept.                                                                   *)
Crash ==
    /\ ~Free
    /\ Fault
    /\ call' = None
    /\ reply' = None
    /\ sweep' = None
    /\ offline' = {}
    /\ UNCHANGED <<sessions, registry, index, age, clientVars>>

Listen(i) ==
    /\ i \notin listening
    /\ listening' = listening \cup {i}
    /\ UNCHANGED <<storeVars, registryVars, offline, joined, views>>

Vanish(i) ==
    /\ i \in listening
    /\ listening' = listening \ {i}
    /\ joined' = joined \ {i}
    /\ views' = [views EXCEPT ![i] = [a \in Address |-> None]]
    /\ UNCHANGED <<storeVars, registryVars, offline>>

Tick ==
    /\ Free
    /\ R!Tick
    /\ UNCHANGED <<storeVars, offline, clientVars>>

(* A connected client comes online, renews its lease or goes offline.      *)
StatusMessage ==
    \E i \in listening : \E callsign \in Licence[i], status \in {"Online", "Offline"} :
        StationStatus(i, status, callsign) \/ StationStatusFault(i, status, callsign)

ServerStep ==
    \/ SweepStart
    \/ \E i \in StationId : SweepStation(i)
    \/ SweepEnd
    \/ \E i \in StationId : EndSessions(i)
    \/ CallStep
    \/ TellRouted
    \/ reply # None /\ reply.kind = "terminated"
         /\ \E s \in reply.sessions : TellTerminated(s)
    \/ TellTerminatedEnd

Next ==
    \/ StatusMessage
    \/ CpdlcMessage
    \/ ServerStep
    \/ CallFails
    \/ SendFails
    \/ Crash
    \/ \E i \in StationId : Listen(i) \/ Vanish(i)
    \/ Tick

Spec == Init /\ [][Next]_vars
=============================================================================
