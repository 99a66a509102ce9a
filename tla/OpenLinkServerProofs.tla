-------------------------- MODULE OpenLinkServerProofs --------------------------
(***************************************************************************)
(* Proofs about the message loop, for any clients, callsigns, routings,    *)
(* message bodies, leases and fault budget: its type invariant, and that   *)
(* clients with a callsign of their own are shown their sessions as they   *)
(* are.  The lemmas about the session store and the registry are those of  *)
(* CPDLCServerProofs and StationRegistryProofs, of which this module takes *)
(* an instance each.                                                       *)
(***************************************************************************)
EXTENDS OpenLinkServerProperties, TLAPS

CP == INSTANCE CPDLCServerProofs
RP == INSTANCE StationRegistryProofs

-----------------------------------------------------------------------------
(* The instances of the proof modules are those of the loop. *)

LEMMA StoreAssumed ==
    /\ CP!NoneAssumption /\ CP!RoutingAssumption /\ CP!BodyAssumption
    /\ CP!MinAssumption /\ CP!NoCallAssumption
BY StoreAssumption
   DEF C!NoneAssumption, C!RoutingAssumption, C!BodyAssumption, C!MinAssumption,
       C!NoCallAssumption, CP!NoneAssumption, CP!RoutingAssumption,
       CP!BodyAssumption, CP!MinAssumption, CP!NoCallAssumption,
       C!Connection, C!Session, C!Endpoint, C!Element, C!ApplicationCall,
       C!TerminateCall, C!RoutedReply, C!TerminatedReply,
       CP!Connection, CP!Session, CP!Endpoint, CP!Element, CP!ApplicationCall,
       CP!TerminateCall, CP!RoutedReply, CP!TerminatedReply

LEMMA RegistryAssumed ==
    /\ RP!IndexKeyAssumption /\ RP!LicenceAssumption /\ RP!TtlAssumption
    /\ RP!FaultsAssumption /\ RP!NoneAssumption
BY RegistryAssumption
   DEF R!IndexKeyAssumption, R!LicenceAssumption, R!TtlAssumption,
       R!FaultsAssumption, R!NoneAssumption, RP!IndexKeyAssumption,
       RP!LicenceAssumption, RP!TtlAssumption, RP!FaultsAssumption,
       RP!NoneAssumption, R!Entry, R!Sweep, RP!Entry, RP!Sweep

LEMMA SameRegistryActions ==
    /\ \A i, status, c : R!StationStatus(i, status, c) => RP!StationStatus(i, status, c)
    /\ \A i, status, c, w : R!UpdateStatus(i, status, c, w) => RP!UpdateStatus(i, status, c, w)
    /\ \A w : R!Faulty(w) => RP!Faulty(w)
    /\ R!CutShort = RP!CutShort
    /\ R!SweepStart => RP!SweepStart
    /\ R!SweepEnd => RP!SweepEnd
    /\ R!Tick => RP!Tick
    /\ \A i : R!SweepStation(i) => RP!SweepStation(i)
    /\ \A i : R!SweepFault(i) => RP!SweepFault(i)
BY DEF R!StationStatus, R!UpdateStatus, R!Faulty, R!CutShort, R!SweepStart, R!SweepEnd, R!Tick,
       R!SweepStation, R!SweepFault, R!AllWritten, R!Writes, R!DropOld, R!KeyOf, R!IsOnline,
       R!Stale, R!ReturnsOk,
       RP!StationStatus, RP!UpdateStatus, RP!Faulty, RP!CutShort, RP!SweepStart, RP!SweepEnd,
       RP!Tick, RP!SweepStation, RP!SweepFault, RP!AllWritten, RP!Writes, RP!DropOld, RP!KeyOf,
       RP!IsOnline, RP!Stale, RP!ReturnsOk

LEMMA SameMeta ==
    ASSUME NEW r
    PROVE
    /\ \A s : C!HandleLogonRequest(r, s) => CP!HandleLogonRequest(r, s)
    /\ \A b : C!HandleLogonResponse(r, b) => CP!HandleLogonResponse(r, b)
    /\ C!HandleConnectionRequest(r) => CP!HandleConnectionRequest(r)
    /\ \A b : C!HandleConnectionResponse(r, b) => CP!HandleConnectionResponse(r, b)
    /\ C!HandlePassThrough(r) => CP!HandlePassThrough(r)
    /\ \A m, e : C!ApplicationStart(r, m, e) => CP!ApplicationStart(r, m, e)
BY DEF C!HandleLogonRequest, C!HandleLogonResponse, C!HandleConnectionRequest,
       C!HandleConnectionResponse, C!HandlePassThrough, C!ApplicationStart, C!Idle, C!Store,
       C!RouteOnly, C!Current, C!NewSession, C!LogonRequest, C!Enter, C!NewConnection,
       C!LogonAccepted, C!Holds, C!Logon, C!ConnectionRequest, C!InSlot, C!ConnectionAccepted,
       C!Connect, C!ConnectionAcceptedErr, C!ReadyExchange,
       CP!HandleLogonRequest, CP!HandleLogonResponse, CP!HandleConnectionRequest,
       CP!HandleConnectionResponse, CP!HandlePassThrough, CP!ApplicationStart, CP!Idle, CP!Store,
       CP!RouteOnly, CP!Current, CP!NewSession, CP!LogonRequest, CP!Enter, CP!NewConnection,
       CP!LogonAccepted, CP!Holds, CP!Logon, CP!ConnectionRequest, CP!InSlot, CP!ConnectionAccepted,
       CP!Connect, CP!ConnectionAcceptedErr, CP!ReadyExchange

LEMMA SameCall ==
    /\ C!ApplicationElement => CP!ApplicationElement
    /\ C!ApplicationStore => CP!ApplicationStore
    /\ \A c : C!TerminateStart(c) => CP!TerminateStart(c)
    /\ \A a : C!TerminateSession(a) => CP!TerminateSession(a)
    /\ C!TerminateReturn => CP!TerminateReturn
    /\ C!Return => CP!Return
    /\ C!Abort => CP!Abort
BY DEF C!ApplicationElement, C!ApplicationStore, C!TerminateStart, C!TerminateSession,
       C!TerminateReturn, C!Return, C!Abort, C!Apply, C!NextDataAuthority, C!TerminationRequest, C!Store,
       C!Idle, C!SessionsFor, C!RelevantTo, C!InSlot, C!Holds,
       CP!ApplicationElement, CP!ApplicationStore, CP!TerminateStart, CP!TerminateSession,
       CP!TerminateReturn, CP!Return, CP!Abort, CP!Apply, CP!NextDataAuthority, CP!TerminationRequest,
       CP!Store, CP!Idle, CP!SessionsFor, CP!RelevantTo, CP!InSlot, CP!Holds

-----------------------------------------------------------------------------
(* The inductive invariant. *)

StoreInv == CP!IInv
RegistryInv == RP!IInv

(* Stations whose sessions are to be ended are registered.                 *)
OfflineRegistered ==
    /\ \A i \in offline : registry[i] # None
    /\ sweep # None => \A i \in sweep.expired : registry[i] # None

ClientsInv ==
    /\ offline \in SUBSET StationId
    /\ listening \in SUBSET StationId
    /\ joined \in SUBSET listening
    /\ DOMAIN views = StationId
    /\ \A i \in StationId : DOMAIN views[i] = Address

BaseInv == StoreInv /\ RegistryInv /\ ClientsInv /\ OfflineRegistered

(* A call in progress has no result yet.                                   *)
OneAtATime == call = None \/ reply = None

(* What is to be told of a session is the session as it is stored.         *)
AsStored(s) == s.aircraft.address \in Address /\ sessions[s.aircraft.address] = s

ToldInv ==
    /\ reply # None /\ reply.kind = "routed" /\ reply.session # None
         => AsStored(reply.session)
    /\ reply # None /\ reply.kind = "terminated"
         => \A s \in reply.sessions : AsStored(s)
    /\ call # None /\ call.kind = "terminate"
         => \A s \in call.done : AsStored(s) /\ s.aircraft.address \notin call.todo

(* No station holds both slots of the session.                             *)
SlotsDiffer(s) ==
    s.active # None /\ s.inactive # None => s.active.station # s.inactive.station

(* None holds both slots of an aircraft of A.                              *)
SlotsOf(A) == \A a \in A : sessions[a] # None => SlotsDiffer(sessions[a])

(* None ever does, unless aircraft log on to a station twice.              *)
SlotsInv == ~Relogon => SlotsOf(Address)

(* The session of a has changed and is still to be broadcast.              *)
Untold(a) ==
    \/ reply # None /\ reply.kind = "routed" /\ reply.session = sessions[a]
    \/ reply # None /\ reply.kind = "terminated" /\ sessions[a] \in reply.sessions
    \/ call # None /\ call.kind = "terminate" /\ sessions[a] \in call.done

(* No other client uses the callsign of i, and it has one spelling.        *)
OwnCallsign(i) ==
    /\ \A j \in StationId \ {i} : \A c \in Licence[j] : IndexKey[c] # R!KeyOf(i)
    /\ \A c \in Callsign : IndexKey[c] = R!KeyOf(i) => c = CallsignOf(i)

(* Client i came online since it listens, and what can leave it with stale *)
(* views is excluded: a callsign that is also another client's or has      *)
(* another spelling, and faults.                                           *)
Concerned(i) ==
    /\ i \in joined
    /\ registry[i] # None
    /\ OwnCallsign(i)
    /\ faults = 0

(* Such a client has the current view, or is going to be told.             *)
ViewHeld(i, a) == Concerned(i) => ViewCurrent(i, a) \/ Untold(a)

ViewsOf(A) == \A i \in StationId, a \in A : ViewHeld(i, a)

-----------------------------------------------------------------------------
(* The store. *)

LEMMA StoreNext == StoreInv /\ (CP!Next \/ UNCHANGED storeVars) => StoreInv'
<1> SUFFICES ASSUME StoreInv, CP!Next \/ UNCHANGED storeVars PROVE StoreInv'
  OBVIOUS
<1>1. CASE CP!Next
  <2>1. CP!IInv /\ [CP!Next]_CP!vars => CP!IInv' /\ CP!HandoverStep
    BY StoreAssumed, CP!NextGood
  <2> QED BY <1>1, <2>1 DEF StoreInv
<1>2. CASE UNCHANGED storeVars
  BY <1>2 DEF storeVars, StoreInv, CP!IInv, CP!TypeOK, CP!SlotsWellFormed,
              CP!ApplicationFits, CP!TerminateFits
<1> QED BY <1>1, <1>2

(* Results that are dealt with, or lost, disturb nothing.                  *)
LEMMA StoreDropped ==
    ASSUME StoreInv, UNCHANGED sessions, call' = call \/ call' = None,
           \/ reply' = None
           \/ /\ reply # None /\ reply.kind = "terminated" /\ reply' # None
              /\ reply' \in CP!TerminatedReply
    PROVE  StoreInv'
<1>1. CP!TypeOK'
  BY DEF StoreInv, CP!IInv, CP!TypeOK
<1>2. CP!SlotsWellFormed' /\ CP!ApplicationFits' /\ CP!TerminateFits'
  BY DEF StoreInv, CP!IInv, CP!SlotsWellFormed, CP!ApplicationFits, CP!TerminateFits
<1> QED BY <1>1, <1>2 DEF StoreInv, CP!IInv

LEMMA StoreTypes ==
    ASSUME StoreInv
    PROVE  /\ sessions \in [Address -> CP!Session \cup {None}]
           /\ call \in CP!ApplicationCall \cup CP!TerminateCall \cup {None}
           /\ reply \in CP!RoutedReply \cup CP!TerminatedReply \cup {None}
BY DEF StoreInv, CP!IInv, CP!TypeOK

(* One of the sessions of a reply is told.                                 *)
LEMMA ToldReply ==
    ASSUME StoreInv, reply # None, reply.kind = "terminated", NEW s \in reply.sessions
    PROVE  LET rest == [reply EXCEPT !.sessions = @ \ {s}] IN
           /\ rest \in CP!TerminatedReply /\ rest # None
           /\ rest.kind = "terminated" /\ rest.callsign = reply.callsign
           /\ rest.sessions = reply.sessions \ {s}
           /\ s \in CP!Session /\ reply.callsign \in Callsign
<1>1. reply \in CP!TerminatedReply
  BY StoreTypes DEF CP!RoutedReply, CP!TerminatedReply
<1> DEFINE rest == [reply EXCEPT !.sessions = @ \ {s}]
<1>2. /\ rest \in CP!TerminatedReply
      /\ rest.kind = "terminated" /\ rest.callsign = reply.callsign
      /\ rest.sessions = reply.sessions \ {s}
      /\ s \in CP!Session /\ reply.callsign \in Callsign
  BY <1>1 DEF CP!TerminatedReply
<1>3. rest # None
  BY <1>2, StoreAssumed DEF CP!NoCallAssumption
<1> QED BY <1>2, <1>3

LEMMA MessageForms ==
    ASSUME CpdlcMessage
    PROVE  \E r \in Routing :
        \/ /\ CP!HandleLogonRequest(r, r.destination)
           /\ Relogon \/ ~CP!InSlot(CP!Current(r), r.destination)
        \/ \E accepted \in BOOLEAN : CP!HandleConnectionResponse(r, accepted)
        \/ \E accepted \in BOOLEAN : CP!HandleLogonResponse(r, accepted)
        \/ CP!HandleConnectionRequest(r)
        \/ CP!HandlePassThrough(r)
        \/ \E min \in Min, elements \in Body : CP!ApplicationStart(r, min, elements)
<1>1. PICK r \in Routing :
        \/ /\ C!HandleLogonRequest(r, r.destination)
           /\ Relogon \/ ~C!InSlot(C!Current(r), r.destination)
        \/ \E accepted \in BOOLEAN : C!HandleConnectionResponse(r, accepted)
        \/ \E accepted \in BOOLEAN : C!HandleLogonResponse(r, accepted)
        \/ C!HandleConnectionRequest(r)
        \/ C!HandlePassThrough(r)
        \/ \E min \in Min, elements \in Body : C!ApplicationStart(r, min, elements)
  BY DEF CpdlcMessage
<1>2. C!InSlot(C!Current(r), r.destination) = CP!InSlot(CP!Current(r), r.destination)
  BY DEF C!InSlot, C!Current, C!NewSession, C!Holds, CP!InSlot, CP!Current, CP!NewSession, CP!Holds
<1> QED BY <1>1, <1>2, SameMeta

LEMMA MessageStore ==
    ASSUME CpdlcMessage
    PROVE  CP!Next
<1>1. CP!Message
  BY MessageForms DEF CP!Message
<1> QED BY <1>1 DEF CP!Next

(* What a step of the loop is to the store: a CPDLC message, a step of its *)
(* other operations, none, the loss of what was in progress, or one of the *)
(* sessions of a reply told.                                               *)
StoreOperation ==
    \/ \E c \in Callsign : CP!TerminateStart(c)
    \/ CP!ApplicationElement
    \/ CP!ApplicationStore
    \/ \E a \in Address : CP!TerminateSession(a)
    \/ CP!TerminateReturn
    \/ CP!Return
    \/ CP!Abort

Lost == UNCHANGED sessions /\ call' = None /\ reply' = None

Told(s) ==
    /\ reply # None /\ reply.kind = "terminated" /\ s \in reply.sessions
    /\ UNCHANGED <<sessions, call>>
    /\ reply' = [reply EXCEPT !.sessions = @ \ {s}]

LEMMA StoreForms ==
    ASSUME BaseInv, [Next]_vars
    PROVE  CpdlcMessage \/ StoreOperation \/ UNCHANGED storeVars \/ Lost \/ \E s : Told(s)
<1>1. CASE StatusMessage
  BY <1>1 DEF StatusMessage, StationStatus, StationStatusFault
<1>2. ASSUME NEW i \in StationId, EndSessions(i)
      PROVE  StoreOperation
  <2>1. registry[i].callsign \in Callsign
    BY <1>2 DEF EndSessions, BaseInv, OfflineRegistered, RegistryInv, RP!IInv, RP!TypeOK, RP!Entry
  <2>2. CP!TerminateStart(registry[i].callsign)
    BY <1>2, SameCall DEF EndSessions
  <2> QED BY <2>1, <2>2 DEF StoreOperation
<1>3. CASE CallStep
  BY <1>3, SameCall DEF CallStep, StoreOperation
<1>4. CASE TellRouted \/ TellTerminatedEnd
  BY <1>4, SameCall DEF TellRouted, TellTerminatedEnd, StoreOperation
<1>5. ASSUME reply # None, reply.kind = "terminated", NEW s \in reply.sessions, TellTerminated(s)
      PROVE  Told(s)
  BY <1>5 DEF TellTerminated, Told
<1>6. CASE CallFails
  BY <1>6, SameCall DEF CallFails, StoreOperation
<1>7. CASE Crash
  BY <1>7 DEF Crash, Lost
<1>8. CASE SweepStart \/ SweepEnd \/ Tick \/ \E i \in StationId :
               SweepStation(i) \/ Listen(i) \/ Vanish(i)
  BY <1>8 DEF SweepStart, SweepEnd, Tick, SweepStation, Listen, Vanish
<1>9. CASE UNCHANGED vars
  BY <1>9 DEF vars
<1>11. CASE SendFails
  BY <1>11, SameCall DEF SendFails, TellRoutedFault, TellTerminatedFault, SyncFault, StoreOperation, Told
<1>10. CASE ServerStep
  BY <1>2, <1>3, <1>4, <1>5, <1>8, <1>10 DEF ServerStep
<1> QED BY <1>1, <1>6, <1>7, <1>8, <1>9, <1>10, <1>11 DEF Next

LEMMA StoreStep ==
    ASSUME BaseInv, [Next]_vars
    PROVE  StoreInv'
<1>1. StoreInv
  BY DEF BaseInv
<1>2. CASE CpdlcMessage
  BY <1>1, <1>2, MessageStore, StoreNext
<1>3. CASE StoreOperation
  <2>1. CP!Next
    BY <1>3 DEF StoreOperation, CP!Next
  <2> QED BY <1>1, <2>1, StoreNext
<1>4. CASE UNCHANGED storeVars
  BY <1>1, <1>4, StoreNext
<1>5. CASE Lost
  BY <1>1, <1>5, StoreDropped DEF Lost
<1>6. ASSUME NEW s, Told(s)
      PROVE  StoreInv'
  <2>1. /\ reply' \in CP!TerminatedReply /\ reply' # None
        /\ UNCHANGED <<sessions, call>>
    BY <1>1, <1>6, ToldReply DEF Told
  <2> QED BY <1>1, <1>6, <2>1, StoreDropped DEF Told
<1> QED BY <1>2, <1>3, <1>4, <1>5, <1>6, StoreForms

-----------------------------------------------------------------------------
(* The registry. *)

LEMMA RegistryNext == RegistryInv /\ (RP!Next \/ UNCHANGED registryVars) => RegistryInv'
<1> SUFFICES ASSUME RegistryInv, RP!Next \/ UNCHANGED registryVars PROVE RegistryInv'
  OBVIOUS
<1>1. CASE RP!Next
  <2>1. RP!IInv /\ [RP!Next]_RP!vars => RP!IInv'
    BY RegistryAssumed, RP!NextGood
  <2> QED BY <1>1, <2>1 DEF RegistryInv
<1>2. CASE UNCHANGED registryVars
  BY <1>2 DEF registryVars, RegistryInv, RP!IInv, RP!TypeOK, RP!EntriesLicensed,
              RP!SweepFits, RP!IsOnline, RP!IndexSound, RP!IndexComplete, RP!KeyOf, RP!Private
<1> QED BY <1>1, <1>2

(* A fault that leaves the buckets alone: the index is no longer spoken of. *)
LEMMA RegistryFault ==
    ASSUME RegistryInv, Fault, UNCHANGED <<registry, index, age>>,
           sweep' = sweep \/ sweep' = None
    PROVE  RegistryInv'
<1>1. faults' \in 0..MaxFaults /\ faults' # 0
  BY RegistryAssumed DEF Fault, RegistryInv, RP!IInv, RP!TypeOK, RP!FaultsAssumption
<1>2. RP!TypeOK' /\ RP!EntriesLicensed' /\ RP!SweepFits'
  BY <1>1 DEF RegistryInv, RP!IInv, RP!TypeOK, RP!EntriesLicensed, RP!SweepFits, RP!IsOnline
<1>3. RP!IndexSound' /\ RP!IndexComplete'
  BY <1>1 DEF RP!IndexSound, RP!IndexComplete
<1> QED BY <1>2, <1>3 DEF RegistryInv, RP!IInv

LEMMA StatusRegistry ==
    ASSUME RegistryInv, NEW i \in StationId, NEW c \in Licence[i],
           NEW status \in {"Online", "Offline"},
           StationStatus(i, status, c) \/ StationStatusFault(i, status, c)
    PROVE  RegistryInv'
<1>1. CASE StationStatus(i, status, c)
  <2>1. RP!StationStatus(i, status, c)
    BY <1>1, SameRegistryActions DEF StationStatus
  <2> QED BY <2>1, RegistryNext DEF RP!Next
<1>2. CASE StationStatusFault(i, status, c)
  <2>1. PICK w \in R!CutShort : R!Faulty(w) /\ R!UpdateStatus(i, status, c, w)
    BY <1>2 DEF StationStatusFault
  <2>2. w \in RP!CutShort /\ RP!Faulty(w) /\ RP!UpdateStatus(i, status, c, w)
    BY <2>1, SameRegistryActions
  <2>3. sweep = None /\ UNCHANGED sweep
    BY <1>2 DEF StationStatusFault, Free
  <2>4. RP!StationStatusFault(i, status, c)
    BY <2>2, <2>3 DEF RP!StationStatusFault
  <2>5. RP!Next
    BY <2>4 DEF RP!Next
  <2> QED BY <2>5, RegistryNext
<1> QED BY <1>1, <1>2

(* All writes took effect, and a fault elsewhere is counted.               *)
LEMMA SyncRegistry ==
    ASSUME RegistryInv, NEW i \in StationId, NEW c \in Licence[i], SyncFault(i, c)
    PROVE  RegistryInv'
<1>1. /\ RP!AllWritten \in RP!Writes /\ c \in Callsign
      /\ RP!UpdateStatus(i, "Online", c, RP!AllWritten)
  <2>1. R!AllWritten = RP!AllWritten /\ RP!AllWritten \in RP!Writes
    BY DEF R!AllWritten, RP!AllWritten, RP!Writes
  <2>2. R!UpdateStatus(i, "Online", c, R!AllWritten)
    BY DEF SyncFault
  <2> QED BY <2>1, <2>2, SameRegistryActions, RegistryAssumed DEF RP!LicenceAssumption
<1>2. /\ registry' \in [StationId -> RP!Entry \cup {None}]
      /\ index' \in [Key -> StationId \cup {None}]
      /\ age' \in [StationId -> 0..(Ttl + 1)]
      /\ RP!EntriesLicensed'
  BY <1>1, RegistryAssumed, RP!UpdateType, RP!UpdateLicensed DEF RegistryInv, RP!IInv
<1>3. faults' \in 0..MaxFaults /\ faults' # 0 /\ sweep' = None
  BY RegistryAssumed
     DEF SyncFault, Fault, Free, RegistryInv, RP!IInv, RP!TypeOK, RP!FaultsAssumption
<1>4. RP!TypeOK' /\ RP!SweepFits'
  BY <1>2, <1>3 DEF RP!TypeOK, RP!SweepFits
<1>5. RP!IndexSound' /\ RP!IndexComplete'
  BY <1>3 DEF RP!IndexSound, RP!IndexComplete
<1> QED BY <1>2, <1>4, <1>5 DEF RegistryInv, RP!IInv

LEMMA RegistryStep ==
    ASSUME BaseInv, [Next]_vars
    PROVE  RegistryInv'
<1>1. RegistryInv
  BY DEF BaseInv
<1>2. CASE RP!Next \/ UNCHANGED registryVars
  BY <1>1, <1>2, RegistryNext
<1>3. CASE StatusMessage
  BY <1>1, <1>3, StatusRegistry DEF StatusMessage, BaseInv, ClientsInv
<1>4. CASE SweepStart \/ SweepEnd \/ Tick
  <2>1. RP!SweepStart \/ RP!SweepEnd \/ RP!Tick
    BY <1>4, SameRegistryActions DEF SweepStart, SweepEnd, Tick
  <2> QED BY <1>2, <2>1 DEF RP!Next
<1>5. ASSUME NEW i \in StationId, SweepStation(i)
      PROVE  RegistryInv'
  <2>1. RP!SweepStation(i) \/ RP!SweepFault(i)
    BY <1>5, SameRegistryActions DEF SweepStation
  <2> QED BY <1>2, <2>1 DEF RP!Next
<1>6. CASE CallFails
  BY <1>1, <1>6, RegistryFault DEF CallFails
<1>7. CASE Crash
  BY <1>1, <1>7, RegistryFault DEF Crash
<1>8. CASE CpdlcMessage \/ CallStep \/ TellRouted \/ TellTerminatedEnd
           \/ \E i \in StationId : EndSessions(i) \/ Listen(i) \/ Vanish(i)
  <2>1. UNCHANGED registryVars
    BY <1>8 DEF CpdlcMessage, CallStep, TellRouted, TellTerminatedEnd, EndSessions, Listen, Vanish
  <2> QED BY <1>2, <2>1
<1>9. ASSUME NEW s, TellTerminated(s)
      PROVE  RegistryInv'
  <2>1. UNCHANGED registryVars
    BY <1>9 DEF TellTerminated
  <2> QED BY <1>2, <2>1
<1>10. CASE UNCHANGED vars
  BY <1>2, <1>10 DEF vars
<1>12. CASE SendFails
  <2>1. CASE \E i \in listening : \E c \in Licence[i] : SyncFault(i, c)
    BY <1>1, <2>1, SyncRegistry DEF BaseInv, ClientsInv
  <2>2. CASE TellRoutedFault \/ \E s : TellTerminatedFault(s)
    BY <1>1, <2>2, RegistryFault DEF TellRoutedFault, TellTerminatedFault
  <2> QED BY <1>12, <2>1, <2>2 DEF SendFails
<1>11. CASE ServerStep
  BY <1>4, <1>5, <1>8, <1>9, <1>11 DEF ServerStep
<1> QED BY <1>3, <1>4, <1>6, <1>7, <1>8, <1>10, <1>11, <1>12 DEF Next

(* A registered station stays registered, and a written one is.            *)
LEMMA UpdateRegisters ==
    ASSUME RegistryInv, NEW i \in StationId, NEW c \in Callsign,
           NEW status \in {"Online", "Offline"}, NEW w, R!UpdateStatus(i, status, c, w)
    PROVE  /\ \A j \in StationId : registry[j] # None => registry'[j] # None
           /\ w.entry = TRUE => /\ registry'[i] = [status |-> status, callsign |-> c]
                               /\ registry'[i] # None
           /\ \A j \in StationId \ {i} : registry'[j] = registry[j]
<1>1. registry \in [StationId -> RP!Entry \cup {None}] /\ None \notin RP!Entry
  BY RegistryAssumed DEF RegistryInv, RP!IInv, RP!TypeOK, RP!NoneAssumption
<1>2. [status |-> status, callsign |-> c] \in RP!Entry
  BY DEF RP!Entry
<1> QED BY <1>1, <1>2 DEF R!UpdateStatus

LEMMA StatusKeeps ==
    ASSUME RegistryInv, OfflineRegistered, NEW i \in StationId, NEW c \in Licence[i],
           NEW status \in {"Online", "Offline"},
           StationStatus(i, status, c) \/ StationStatusFault(i, status, c)
    PROVE  OfflineRegistered'
<1>1. c \in Callsign
  BY RegistryAssumed DEF RP!LicenceAssumption
<1>2. sweep' = None
  BY DEF StationStatus, StationStatusFault, R!StationStatus, Free
<1>3. PICK w \in R!Writes : /\ R!UpdateStatus(i, status, c, w)
                            /\ \/ w.entry /\ AfterStatus(i, status, c)
                               \/ UNCHANGED offline
  <2>1. CASE StationStatus(i, status, c)
    <3>1. R!AllWritten \in R!Writes /\ R!AllWritten.entry
      BY DEF R!AllWritten, R!Writes
    <3>2. R!UpdateStatus(i, status, c, R!AllWritten) /\ AfterStatus(i, status, c)
      BY <2>1 DEF StationStatus, R!StationStatus
    <3> QED BY <3>1, <3>2
  <2>2. CASE StationStatusFault(i, status, c)
    <3>1. PICK w \in R!CutShort :
            /\ R!UpdateStatus(i, status, c, w)
            /\ \/ R!ReturnsOk(status, w) /\ AfterStatus(i, status, c)
               \/ UNCHANGED <<offline, views, joined>>
      BY <2>2 DEF StationStatusFault
    <3>2. w \in R!Writes
      BY DEF R!CutShort
    <3> QED BY <3>1, <3>2 DEF R!ReturnsOk
  <2> QED BY <2>1, <2>2
<1>4. \/ offline' = offline
      \/ offline' = {i} /\ w.entry = TRUE
  BY <1>3 DEF AfterStatus, R!Writes
<1>5. offline = {}
  BY DEF StationStatus, StationStatusFault, Free
<1>6. R!UpdateStatus(i, status, c, w)
  BY <1>3
<1>7. w.entry = TRUE => registry'[i] # None
  BY <1>1, <1>3, <1>6, UpdateRegisters DEF R!Writes
<1> QED BY <1>2, <1>4, <1>5, <1>7 DEF OfflineRegistered

LEMMA SyncKeeps ==
    ASSUME RegistryInv, OfflineRegistered, NEW i \in StationId, NEW c \in Licence[i],
           SyncFault(i, c)
    PROVE  OfflineRegistered'
BY DEF SyncFault, Free, OfflineRegistered

LEMMA SweepKeeps ==
    ASSUME RegistryInv, ClientsInv, OfflineRegistered, NEW i \in StationId, SweepStation(i)
    PROVE  OfflineRegistered'
<1>1. /\ sweep \in RP!Sweep /\ sweep # None
      /\ i \in sweep.todo /\ registry[i] # None
      /\ registry[i].callsign \in Callsign
  BY DEF SweepStation, R!SweepStation, R!SweepFault, RegistryInv, RP!IInv, RP!TypeOK,
         RP!SweepFits, RP!IsOnline, RP!Entry
<1>2. PICK w : R!UpdateStatus(i, "Offline", registry[i].callsign, w)
  BY DEF SweepStation, R!SweepStation, R!SweepFault
<1>3. \A j \in StationId : registry[j] # None => registry'[j] # None
  BY <1>1, <1>2, UpdateRegisters
<1>4. /\ UNCHANGED offline
      /\ sweep' = None \/ sweep' = [todo |-> sweep.todo \ {i}, expired |-> sweep.expired \cup {i}]
  BY DEF SweepStation, R!SweepStation, R!SweepFault
<1>5. ASSUME NEW j \in StationId, sweep' # None, j \in sweep'.expired
      PROVE  registry[j] # None
  BY <1>1, <1>4, <1>5 DEF OfflineRegistered
<1>6. sweep' # None => sweep'.expired \in SUBSET StationId
  BY <1>1, <1>4 DEF RP!Sweep
<1>7. \A j \in offline' : registry'[j] # None
  BY <1>3, <1>4 DEF OfflineRegistered, ClientsInv
<1>8. sweep' # None => \A j \in sweep'.expired : registry'[j] # None
  BY <1>3, <1>5, <1>6
<1> QED BY <1>7, <1>8 DEF OfflineRegistered

LEMMA OfflineStep ==
    ASSUME BaseInv, [Next]_vars
    PROVE  OfflineRegistered'
<1> USE DEF BaseInv
<1>1. CASE StatusMessage
  BY <1>1, StatusKeeps DEF StatusMessage, ClientsInv
<1>2. CASE \E i \in StationId : SweepStation(i)
  BY <1>2, SweepKeeps
<1>3. CASE SweepStart
  BY <1>3 DEF SweepStart, R!SweepStart, OfflineRegistered
<1>4. CASE SweepEnd
  BY <1>4 DEF SweepEnd, R!SweepEnd, OfflineRegistered
<1>5. CASE Crash
  BY <1>5 DEF Crash, OfflineRegistered
<1>6. CASE Tick
  BY <1>6 DEF Tick, R!Tick, OfflineRegistered
<1>7. CASE CallFails
  BY <1>7 DEF CallFails, OfflineRegistered
<1>8. CASE CpdlcMessage \/ CallStep \/ TellRouted \/ TellTerminatedEnd
           \/ \E i \in StationId : EndSessions(i) \/ Listen(i) \/ Vanish(i)
  <2>1. UNCHANGED registryVars /\ offline' \subseteq offline
    BY <1>8 DEF CpdlcMessage, CallStep, TellRouted, TellTerminatedEnd, EndSessions, Listen, Vanish
  <2>2. UNCHANGED <<registry, sweep>>
    BY <2>1 DEF registryVars
  <2> QED BY <2>1, <2>2 DEF OfflineRegistered
<1>9. ASSUME NEW s, TellTerminated(s)
      PROVE  OfflineRegistered'
  BY <1>9 DEF TellTerminated, registryVars, OfflineRegistered
<1>10. CASE UNCHANGED vars
  BY <1>10 DEF vars, registryVars, OfflineRegistered
<1>12. CASE SendFails
  <2>1. CASE \E i \in listening : \E c \in Licence[i] : SyncFault(i, c)
    BY <2>1, SyncKeeps DEF ClientsInv
  <2>2. CASE TellRoutedFault \/ \E s : TellTerminatedFault(s)
    BY <2>2 DEF TellRoutedFault, TellTerminatedFault, OfflineRegistered
  <2> QED BY <1>12, <2>1, <2>2 DEF SendFails
<1>11. CASE ServerStep
  BY <1>2, <1>3, <1>4, <1>8, <1>9, <1>11 DEF ServerStep
<1> QED BY <1>1, <1>5, <1>6, <1>7, <1>8, <1>10, <1>11, <1>12 DEF Next

-----------------------------------------------------------------------------
(* The clients. *)

LEMMA ShownType ==
    ASSUME NEW s, NEW source, NEW destination
    PROVE  /\ DOMAIN Shown(views, s, source, destination) = StationId
           /\ \A i \in StationId : DOMAIN Shown(views, s, source, destination)[i] = Address
BY DEF Shown

LEMMA SyncedType ==
    ASSUME ClientsInv, NEW i \in StationId, NEW c
    PROVE  /\ DOMAIN Synced(i, c) = StationId
           /\ \A j \in StationId : DOMAIN Synced(i, c)[j] = Address
BY DEF Synced, ClientsInv

LEMMA StatusClients ==
    ASSUME ClientsInv, NEW i \in StationId, NEW c, NEW status,
           StationStatus(i, status, c) \/ StationStatusFault(i, status, c)
    PROVE  ClientsInv'
<1>1. /\ UNCHANGED listening
      /\ AfterStatus(i, status, c) \/ UNCHANGED <<offline, views, joined>>
  BY DEF StationStatus, StationStatusFault
<1>2. CASE UNCHANGED <<offline, views, joined>>
  BY <1>1, <1>2 DEF ClientsInv
<1>3. CASE AfterStatus(i, status, c) /\ status = "Online"
  BY <1>1, <1>3, SyncedType DEF ClientsInv, AfterStatus
<1>4. CASE AfterStatus(i, status, c) /\ status # "Online"
  BY <1>1, <1>4 DEF ClientsInv, AfterStatus
<1> QED BY <1>1, <1>2, <1>3, <1>4

LEMMA SendFaultClients ==
    ASSUME ClientsInv, SendFails
    PROVE  ClientsInv'
<1>1. CASE \E i \in listening : \E c \in Licence[i] : SyncFault(i, c)
  BY <1>1 DEF SyncFault, ClientsInv
<1>2. CASE TellRoutedFault \/ \E s : TellTerminatedFault(s)
  <2>1. /\ UNCHANGED <<offline, listening, joined>>
        /\ \E missed, shown :
             /\ views' = Unreached(missed, shown)
             /\ \A i \in StationId : DOMAIN shown[i] = Address
    BY <1>2, ShownType DEF TellRoutedFault, TellTerminatedFault
  <2> QED BY <2>1 DEF Unreached, ClientsInv
<1> QED BY <1>1, <1>2 DEF SendFails

LEMMA ClientsStep ==
    ASSUME BaseInv, [Next]_vars
    PROVE  ClientsInv'
<1> USE DEF BaseInv
<1>1. CASE StatusMessage
  BY <1>1, StatusClients DEF StatusMessage, ClientsInv
<1>2. CASE CpdlcMessage \/ CallStep \/ TellTerminatedEnd \/ SweepStart \/ Tick \/ CallFails
           \/ \E i \in StationId : SweepStation(i)
  BY <1>2 DEF CpdlcMessage, CallStep, TellTerminatedEnd, SweepStart, Tick, CallFails, SweepStation,
              clientVars, ClientsInv
<1>3. CASE SweepEnd
  BY <1>3 DEF SweepEnd, R!SweepEnd, clientVars, ClientsInv, RegistryInv, RP!IInv, RP!TypeOK, RP!Sweep
<1>4. CASE Crash
  BY <1>4 DEF Crash, clientVars, ClientsInv
<1>5. CASE TellRouted
  BY <1>5, ShownType DEF TellRouted, ClientsInv
<1>6. ASSUME NEW s, TellTerminated(s)
      PROVE  ClientsInv'
  BY <1>6, ShownType DEF TellTerminated, ClientsInv
<1>7. ASSUME NEW i \in StationId, EndSessions(i) \/ Listen(i)
      PROVE  ClientsInv'
  BY <1>7 DEF EndSessions, Listen, clientVars, ClientsInv
<1>8. ASSUME NEW i \in StationId, Vanish(i)
      PROVE  ClientsInv'
  BY <1>8 DEF Vanish, ClientsInv
<1>9. CASE UNCHANGED vars
  BY <1>9 DEF vars, clientVars, ClientsInv
<1>11. CASE SendFails
  BY <1>11, SendFaultClients
<1>10. CASE ServerStep
  BY <1>2, <1>3, <1>5, <1>6, <1>7, <1>10 DEF ServerStep
<1> QED BY <1>1, <1>2, <1>4, <1>7, <1>8, <1>9, <1>10, <1>11 DEF Next

-----------------------------------------------------------------------------
(* The base of the invariant. *)

LEMMA BaseInit == Init => BaseInv
<1> SUFFICES ASSUME Init PROVE BaseInv
  OBVIOUS
<1>1. CP!Init
  BY DEF Init, C!Init, CP!Init
<1>2. StoreInv
  BY <1>1, StoreAssumed, CP!InitGood DEF StoreInv
<1>3. RP!Init
  BY DEF Init, R!Init, RP!Init
<1>4. RegistryInv
  BY <1>3, RegistryAssumed, RP!InitGood DEF RegistryInv
<1>5. ClientsInv /\ OfflineRegistered
  BY DEF Init, R!Init, ClientsInv, OfflineRegistered
<1> QED BY <1>2, <1>4, <1>5 DEF BaseInv

LEMMA BaseStep == BaseInv /\ [Next]_vars => BaseInv'
<1> SUFFICES ASSUME BaseInv, [Next]_vars PROVE BaseInv'
  OBVIOUS
<1> QED BY StoreStep, RegistryStep, ClientsStep, OfflineStep DEF BaseInv

(* The session store, the registry, the clients and their views keep their *)
(* types, whatever messages, ticks, faults and crashes interleave.         *)
THEOREM TypeCorrect == Spec => []TypeOK
<1>1. BaseInv => TypeOK
  <2> SUFFICES ASSUME BaseInv PROVE TypeOK
    OBVIOUS
  <2>1. C!TypeOK
    BY DEF BaseInv, StoreInv, CP!IInv, CP!TypeOK, C!TypeOK,
       C!Session, C!Connection, C!Endpoint, C!Element, C!ApplicationCall, C!TerminateCall,
       C!RoutedReply, C!TerminatedReply,
       CP!Session, CP!Connection, CP!Endpoint, CP!Element, CP!ApplicationCall, CP!TerminateCall,
       CP!RoutedReply, CP!TerminatedReply
  <2>2. R!TypeOK
    BY DEF BaseInv, RegistryInv, RP!IInv, RP!TypeOK, R!TypeOK, R!Entry, R!Sweep, RP!Entry, RP!Sweep
  <2> QED BY <2>1, <2>2 DEF BaseInv, ClientsInv, TypeOK
<1> QED BY <1>1, BaseInit, BaseStep, PTL DEF Spec

-----------------------------------------------------------------------------
(* One thing at a time. *)

LEMMA MessageIdle ==
    ASSUME CpdlcMessage
    PROVE  /\ call = None /\ reply = None
           /\ call' = None \/ (reply' = None /\ UNCHANGED sessions)
<1>1. call = None /\ reply = None
  BY DEF CpdlcMessage, Free, C!Idle
<1>2. \/ UNCHANGED call
      \/ UNCHANGED <<sessions, reply>>
  BY MessageForms
     DEF CP!HandleLogonRequest, CP!HandleConnectionResponse, CP!HandleLogonResponse,
         CP!HandleConnectionRequest, CP!HandlePassThrough, CP!ApplicationStart
<1> QED BY <1>1, <1>2

LEMMA OneStep ==
    ASSUME BaseInv, OneAtATime, [Next]_vars
    PROVE  OneAtATime'
<1>1. CASE CpdlcMessage
  BY <1>1, MessageIdle DEF OneAtATime
<1>2. CASE StoreOperation
  BY <1>2 DEF OneAtATime, StoreOperation, CP!TerminateStart, CP!ApplicationElement,
              CP!ApplicationStore, CP!TerminateSession, CP!TerminateReturn, CP!Return, CP!Abort, CP!Idle
<1>3. CASE UNCHANGED storeVars \/ Lost
  BY <1>3 DEF storeVars, Lost, OneAtATime
<1>4. ASSUME NEW s, Told(s)
      PROVE  OneAtATime'
  BY <1>4 DEF Told, OneAtATime
<1> QED BY <1>1, <1>2, <1>3, <1>4, StoreForms

-----------------------------------------------------------------------------
(* What is to be told. *)

(* A handler of a CPDLC message writes a session it returns, or none.      *)
LEMMA MessageWrites ==
    ASSUME CpdlcMessage
    PROVE  \/ UNCHANGED <<sessions, reply>>
           \/ \E r \in Routing : CP!RouteOnly(r)
           \/ \E r \in Routing : \E s : CP!Store(r, s)
BY MessageForms
   DEF CP!HandleLogonRequest, CP!HandleConnectionResponse, CP!HandleLogonResponse,
       CP!HandleConnectionRequest, CP!HandlePassThrough, CP!ApplicationStart

LEMMA StoreTold ==
    ASSUME StoreInv, StoreInv', NEW r \in Routing, NEW s, CP!Store(r, s), call' = None
    PROVE  ToldInv'
<1>1. r.aircraft.address \in Address
  BY StoreAssumed, CP!RoutingType
<1>2. /\ sessions' = [sessions EXCEPT ![r.aircraft.address] = s]
      /\ reply' = [kind |-> "routed", routing |-> r, session |-> s]
  BY DEF CP!Store
<1>3. sessions'[r.aircraft.address] = s
  BY <1>1, <1>2, StoreTypes
<1>4. s # None => s.aircraft.address = r.aircraft.address
  BY <1>1, <1>3 DEF StoreInv, CP!IInv, CP!SlotsWellFormed
<1> QED BY <1>1, <1>2, <1>3, <1>4 DEF ToldInv, AsStored

LEMMA TerminateTold ==
    ASSUME StoreInv, StoreInv', OneAtATime, ToldInv, NEW a \in Address, CP!TerminateSession(a)
    PROVE  ToldInv'
<1> DEFINE s == CP!TerminationRequest(sessions[a], call.callsign)
<1>1. /\ call \in CP!TerminateCall /\ call # None /\ call.kind = "terminate"
      /\ a \in call.todo /\ reply = None /\ UNCHANGED reply
  BY StoreTypes DEF CP!TerminateSession, CP!ApplicationCall, OneAtATime
<1>2. /\ sessions' = [sessions EXCEPT ![a] = s]
      /\ call' = [call EXCEPT
                    !.todo = @ \ {a},
                    !.done = IF CP!InSlot(s, call.callsign) THEN @ ELSE @ \cup {s}]
  BY DEF CP!TerminateSession
<1>3. sessions[a] # None
  BY <1>1 DEF StoreInv, CP!IInv, CP!TerminateFits
<1>4. sessions[a] \in CP!Session /\ CP!SessionWellFormed(sessions[a])
      /\ sessions[a].aircraft.address = a
  BY <1>3, StoreTypes DEF StoreInv, CP!IInv, CP!SlotsWellFormed
<1>5. CP!GoodStep(sessions[a], s)
  <2>1. call.callsign \in Callsign
    BY <1>1 DEF CP!TerminateCall
  <2> QED BY <1>4, <2>1, StoreAssumed, CP!TerminationRequestGood
<1>6. s.aircraft.address = a
  BY <1>4, <1>5 DEF CP!GoodStep
<1> HIDE DEF s
<1>7. call'.todo = call.todo \ {a} /\ call'.done \subseteq call.done \cup {s}
  BY <1>1, <1>2 DEF CP!TerminateCall
<1>8. sessions'[a] = s /\ \A b \in Address \ {a} : sessions'[b] = sessions[b]
  BY <1>2, StoreTypes
<1>9. \A t \in call.done : AsStored(t) /\ t.aircraft.address \notin call.todo
  BY <1>1 DEF ToldInv
<1>10. ASSUME NEW t \in call'.done
       PROVE  AsStored(t)' /\ t.aircraft.address \notin call'.todo
  <2>1. CASE t = s
    BY <1>6, <1>7, <1>8, <2>1 DEF AsStored
  <2>2. CASE t \in call.done
    <3>1. AsStored(t) /\ t.aircraft.address \notin call.todo
      BY <1>9, <2>2
    <3> QED BY <3>1, <1>1, <1>7, <1>8 DEF AsStored
  <2> QED BY <1>7, <2>1, <2>2
<1> QED BY <1>1, <1>10 DEF ToldInv

LEMMA ToldStep ==
    ASSUME BaseInv, BaseInv', OneAtATime, ToldInv, [Next]_vars
    PROVE  ToldInv'
<1> USE DEF BaseInv
<1>1. CASE CpdlcMessage
  <2>1. call = None /\ reply = None /\ (call' = None \/ (reply' = None /\ UNCHANGED sessions))
    BY <1>1, MessageIdle
  <2>2. CASE UNCHANGED <<sessions, reply>>
    <3>1. call' # None => call'.kind # "terminate"
      BY <1>1, <2>1, MessageForms
         DEF CP!HandleLogonRequest, CP!HandleConnectionResponse, CP!HandleLogonResponse,
             CP!HandleConnectionRequest, CP!HandlePassThrough, CP!ApplicationStart
    <3> QED BY <2>1, <2>2, <3>1 DEF ToldInv
  <2>3. ASSUME NEW r \in Routing, CP!RouteOnly(r)
        PROVE  ToldInv'
    <3>1. reply' = [kind |-> "routed", routing |-> r, session |-> None]
      BY <2>3 DEF CP!RouteOnly
    <3>2. reply' # None
      BY <3>1, StoreAssumed DEF CP!NoCallAssumption, CP!RoutedReply
    <3>3. call' = None
      BY <2>1, <3>2
    <3> QED BY <3>1, <3>3 DEF ToldInv
  <2>4. ASSUME NEW r \in Routing, NEW s, CP!Store(r, s)
        PROVE  ToldInv'
    <3>1. reply' = [kind |-> "routed", routing |-> r, session |-> s]
      BY <2>4 DEF CP!Store
    <3>2. s \in CP!Session \cup {None}
      <4>1. r.aircraft.address \in Address
        BY StoreAssumed, CP!RoutingType
      <4>2. sessions'[r.aircraft.address] = s
        BY <2>4, <4>1, StoreTypes DEF CP!Store
      <4>3. sessions' \in [Address -> CP!Session \cup {None}]
        BY DEF StoreInv, CP!IInv, CP!TypeOK
      <4> QED BY <4>1, <4>2, <4>3
    <3>3. reply' # None
      BY <3>1, <3>2, StoreAssumed DEF CP!NoCallAssumption, CP!RoutedReply
    <3>4. call' = None
      BY <2>1, <3>3
    <3> QED BY <2>4, <3>4, StoreTold
  <2> QED BY <1>1, <2>2, <2>3, <2>4, MessageWrites
<1>2. ASSUME NEW c \in Callsign, CP!TerminateStart(c)
      PROVE  ToldInv'
  <2>1. /\ call' = [kind |-> "terminate", callsign |-> c,
                    todo |-> CP!SessionsFor(c), done |-> {}]
        /\ reply = None /\ UNCHANGED <<sessions, reply>>
    BY <1>2 DEF CP!TerminateStart, CP!Idle
  <2> QED BY <2>1 DEF ToldInv
<1>3. CASE CP!ApplicationElement
  <2>1. /\ call # None /\ call.kind = "application" /\ reply = None /\ UNCHANGED reply
        /\ call' = [call EXCEPT
                    !.draft = CP!Apply(call.draft, Head(call.elements), call.routing.source),
                    !.elements = Tail(call.elements)]
    BY <1>3 DEF CP!ApplicationElement, OneAtATime
  <2>2. call'.kind = "application"
    BY <2>1, StoreTypes DEF CP!ApplicationCall, CP!TerminateCall
  <2> QED BY <2>1, <2>2 DEF ToldInv
<1>4. CASE CP!ApplicationStore
  <2>1. /\ call \in CP!ApplicationCall /\ call' = None
        /\ CP!Store(call.routing, call.draft)
    BY <1>4, StoreTypes DEF CP!ApplicationStore, CP!TerminateCall
  <2>2. call.routing \in Routing
    BY <2>1 DEF CP!ApplicationCall
  <2> QED BY <2>1, <2>2, StoreTold
<1>5. ASSUME NEW a \in Address, CP!TerminateSession(a)
      PROVE  ToldInv'
  BY <1>5, TerminateTold
<1>6. CASE CP!TerminateReturn
  <2>1. /\ call # None /\ call.kind = "terminate" /\ call' = None /\ UNCHANGED sessions
        /\ reply' = [kind |-> "terminated", callsign |-> call.callsign, sessions |-> call.done]
    BY <1>6 DEF CP!TerminateReturn
  <2> QED BY <2>1 DEF ToldInv, AsStored
<1>7. CASE CP!Return \/ CP!Abort \/ UNCHANGED storeVars \/ Lost
  BY <1>7 DEF CP!Return, CP!Abort, storeVars, Lost, ToldInv, AsStored
<1>8. ASSUME NEW s, Told(s)
      PROVE  ToldInv'
  <2>1. /\ reply' # None /\ reply'.kind = "terminated"
        /\ reply'.sessions \subseteq reply.sessions
    BY <1>8, ToldReply DEF Told
  <2>2. UNCHANGED <<sessions, call>> /\ reply # None /\ reply.kind = "terminated"
    BY <1>8 DEF Told
  <2> QED BY <2>1, <2>2 DEF ToldInv, AsStored
<1> QED BY <1>1, <1>2, <1>3, <1>4, <1>5, <1>6, <1>7, <1>8, StoreForms DEF StoreOperation

-----------------------------------------------------------------------------
(* The slots. *)

LEMMA EnterDiffers ==
    ASSUME NEW s \in CP!Session, NEW conn \in CP!Connection, ~CP!InSlot(s, conn.station),
           s # None, SlotsDiffer(s)
    PROVE  SlotsDiffer(CP!Enter(s, conn))
BY StoreAssumed DEF CP!NoneAssumption, CP!Enter, CP!InSlot, CP!Holds, CP!Session, SlotsDiffer

LEMMA NewDiffers ==
    ASSUME NEW s \in CP!Session, SlotsDiffer(s), NEW c \in Callsign
    PROVE  /\ ~CP!InSlot(s, c) => SlotsDiffer(CP!LogonRequest(s, c))
           /\ SlotsDiffer(CP!ConnectionRequest(s, c))
<1>1. /\ CP!NewConnection(c) \in CP!Connection /\ CP!NewConnection(c).station = c
      /\ CP!Logon(CP!NewConnection(c)) \in CP!Connection
      /\ CP!Logon(CP!NewConnection(c)).station = c
  BY DEF CP!NewConnection, CP!Logon, CP!Connection
<1>2. s # None
  BY StoreAssumed DEF CP!NoneAssumption
<1> QED BY <1>1, <1>2, EnterDiffers DEF CP!LogonRequest, CP!ConnectionRequest

LEMMA AcceptedDiffers ==
    ASSUME NEW s \in CP!Session, SlotsDiffer(s), NEW c \in Callsign
    PROVE  /\ SlotsDiffer(CP!LogonAccepted(s, c))
           /\ SlotsDiffer(CP!ConnectionAccepted(s, c))
BY StoreAssumed
   DEF CP!NoneAssumption, CP!LogonAccepted, CP!ConnectionAccepted, CP!Logon, CP!Connect,
       CP!Holds, CP!Session, CP!Connection, SlotsDiffer

LEMMA TerminationDiffers ==
    ASSUME NEW s \in CP!Session, SlotsDiffer(s), NEW c
    PROVE  /\ SlotsDiffer(CP!TerminationRequest(s, c))
           /\ ~CP!InSlot(CP!TerminationRequest(s, c), c)
BY StoreAssumed
   DEF CP!NoneAssumption, CP!TerminationRequest, CP!Holds, CP!InSlot, CP!Session,
       CP!Connection, SlotsDiffer

LEMMA CurrentDiffers ==
    ASSUME StoreInv, SlotsInv, ~Relogon, NEW r \in Routing
    PROVE  CP!Current(r) \in CP!Session /\ SlotsDiffer(CP!Current(r))
<1>1. r.aircraft.address \in Address /\ r.aircraft \in CP!Endpoint
  BY StoreAssumed, CP!RoutingType
<1>2. CP!Current(r) \in CP!Session
  BY StoreAssumed, CP!CurrentGood DEF StoreInv
<1>3. SlotsDiffer(CP!NewSession(r.aircraft))
  BY DEF CP!NewSession, SlotsDiffer
<1> QED BY <1>1, <1>2, <1>3 DEF CP!Current, SlotsInv, SlotsOf

LEMMA StoreDiffers ==
    ASSUME StoreInv, SlotsInv, NEW r \in Routing, NEW s,
           ~Relogon => SlotsDiffer(s), CP!Store(r, s)
    PROVE  SlotsInv'
<1>1. r.aircraft.address \in Address
  BY StoreAssumed, CP!RoutingType
<1> QED BY <1>1, StoreTypes DEF CP!Store, SlotsInv, SlotsOf

LEMMA MessageDiffers ==
    ASSUME StoreInv, SlotsInv, CpdlcMessage
    PROVE  SlotsInv'
<1>1. PICK r \in Routing :
        \/ /\ CP!HandleLogonRequest(r, r.destination)
           /\ Relogon \/ ~CP!InSlot(CP!Current(r), r.destination)
        \/ \E accepted \in BOOLEAN : CP!HandleConnectionResponse(r, accepted)
        \/ \E accepted \in BOOLEAN : CP!HandleLogonResponse(r, accepted)
        \/ CP!HandleConnectionRequest(r)
        \/ CP!HandlePassThrough(r)
        \/ \E min \in Min, elements \in Body : CP!ApplicationStart(r, min, elements)
  BY MessageForms
<1> DEFINE s == CP!Current(r)
<1>2. r.source \in Callsign /\ r.destination \in Callsign
  BY StoreAssumed, CP!RoutingType
<1>3. ~Relogon => s \in CP!Session /\ SlotsDiffer(s)
  BY CurrentDiffers
<1> HIDE DEF s
<1>4. CASE UNCHANGED sessions
  BY <1>4 DEF SlotsInv, SlotsOf
<1>5. CASE /\ CP!Store(r, CP!LogonRequest(s, r.destination))
           /\ Relogon \/ ~CP!InSlot(s, r.destination)
  BY <1>2, <1>3, <1>5, NewDiffers, StoreDiffers
<1>6. CASE \/ CP!Store(r, CP!LogonAccepted(s, r.source))
           \/ CP!Store(r, CP!ConnectionAccepted(s, r.destination))
  BY <1>2, <1>3, <1>6, AcceptedDiffers, StoreDiffers
<1>7. CASE CP!Store(r, CP!ConnectionRequest(s, r.source))
  BY <1>2, <1>3, <1>7, NewDiffers, StoreDiffers
<1>8. \/ UNCHANGED sessions
      \/ /\ CP!Store(r, CP!LogonRequest(s, r.destination))
         /\ Relogon \/ ~CP!InSlot(s, r.destination)
      \/ CP!Store(r, CP!LogonAccepted(s, r.source))
      \/ CP!Store(r, CP!ConnectionAccepted(s, r.destination))
      \/ CP!Store(r, CP!ConnectionRequest(s, r.source))
  BY <1>1 DEF CP!HandleLogonRequest, CP!HandleConnectionResponse, CP!HandleLogonResponse,
              CP!HandleConnectionRequest, CP!HandlePassThrough, CP!ApplicationStart,
              CP!RouteOnly, s
<1> QED BY <1>4, <1>5, <1>6, <1>7, <1>8

LEMMA SlotsStep ==
    ASSUME BaseInv, SlotsInv, [Next]_vars
    PROVE  SlotsInv'
<1> USE DEF BaseInv
<1>1. CASE CpdlcMessage
  BY <1>1, MessageDiffers
<1>2. CASE CP!ApplicationStore
  <2>1. /\ call \in CP!ApplicationCall /\ call # None /\ call.kind = "application"
        /\ CP!Store(call.routing, call.draft)
    BY <1>2, StoreTypes DEF CP!ApplicationStore, CP!TerminateCall
  <2>2. call.routing \in Routing /\ call.draft \in CP!Session
    BY <2>1 DEF CP!ApplicationCall
  <2> DEFINE s == sessions[call.routing.aircraft.address]
  <2>3. call.routing.aircraft.address \in Address
    BY <2>2, StoreAssumed, CP!RoutingType
  <2>4. s # None /\ CP!DraftOf(s, call.draft, call.routing.source)
    BY <2>1 DEF StoreInv, CP!IInv, CP!ApplicationFits
  <2>5. ~Relogon => SlotsDiffer(s)
    BY <2>3, <2>4 DEF SlotsInv, SlotsOf
  <2>6. ~Relogon => SlotsDiffer(call.draft)
    BY <2>4, <2>5 DEF CP!DraftOf, SlotsDiffer
  <2> QED BY <2>1, <2>2, <2>6, StoreDiffers
<1>3. ASSUME NEW a \in Address, CP!TerminateSession(a)
      PROVE  SlotsInv'
  <2>1. /\ call # None /\ call.kind = "terminate" /\ a \in call.todo
        /\ sessions' = [sessions EXCEPT ![a] = CP!TerminationRequest(sessions[a], call.callsign)]
    BY <1>3 DEF CP!TerminateSession
  <2>2. sessions[a] # None /\ sessions[a] \in CP!Session
    BY <2>1, StoreTypes DEF StoreInv, CP!IInv, CP!TerminateFits
  <2>3. ~Relogon => SlotsDiffer(CP!TerminationRequest(sessions[a], call.callsign))
    BY <2>2, TerminationDiffers DEF SlotsInv, SlotsOf
  <2> QED BY <2>1, <2>3, StoreTypes DEF SlotsInv, SlotsOf
<1>4. CASE UNCHANGED sessions
  BY <1>4 DEF SlotsInv, SlotsOf
<1>5. CASE StoreOperation
  <2>1. \/ CP!ApplicationStore \/ \E a \in Address : CP!TerminateSession(a)
        \/ UNCHANGED sessions
    BY <1>5 DEF StoreOperation, CP!TerminateStart, CP!ApplicationElement, CP!TerminateReturn,
                CP!Return, CP!Abort
  <2> QED BY <1>2, <1>3, <1>4, <2>1
<1> QED BY <1>1, <1>4, <1>5, StoreForms DEF storeVars, Lost, Told

-----------------------------------------------------------------------------
(* The views. *)

(* A client with a callsign of its own is found under it, and under it only. *)
LEMMA OwnFound ==
    ASSUME RegistryInv, faults = 0, NEW i \in StationId, R!IsOnline(i), OwnCallsign(i)
    PROVE  \A c \in Callsign : R!Lookup(c) = i <=> c = CallsignOf(i)
<1>1. /\ registry[i] # None /\ CallsignOf(i) \in Callsign
      /\ R!KeyOf(i) = IndexKey[CallsignOf(i)]
  BY DEF R!IsOnline, R!KeyOf, CallsignOf, RegistryInv, RP!IInv, RP!TypeOK, RP!Entry
<1>2. RP!IsOnline(i) /\ RP!Private(i) /\ RP!KeyOf(i) = R!KeyOf(i)
  BY DEF RP!IsOnline, R!IsOnline, RP!Private, OwnCallsign, RP!KeyOf, R!KeyOf
<1>3. index[R!KeyOf(i)] = i
  BY <1>2 DEF RegistryInv, RP!IInv, RP!IndexComplete
<1>4. i # None
  BY RegistryAssumed DEF RP!NoneAssumption
<1>5. R!Lookup(CallsignOf(i)) = i
  BY <1>1, <1>3, <1>4 DEF R!Lookup
<1>6. ASSUME NEW c \in Callsign, R!Lookup(c) = i
      PROVE  c = CallsignOf(i)
  <2>1. index[IndexKey[c]] = i /\ IndexKey[c] \in Key
    BY <1>4, <1>6, RegistryAssumed DEF R!Lookup, RP!IndexKeyAssumption
  <2>2. RP!KeyOf(i) = IndexKey[c]
    BY <1>4, <2>1 DEF RegistryInv, RP!IInv, RP!IndexSound
  <2> QED BY <1>2, <2>2 DEF OwnCallsign
<1> QED BY <1>5, <1>6

LEMMA AudienceType ==
    ASSUME NEW s \in CP!Session, NEW source \in Callsign, NEW destination \in Callsign
    PROVE  Audience(s, source, destination) \subseteq Callsign
BY DEF Audience, CP!Session, CP!Endpoint, CP!Connection

LEMMA AudienceRelevant ==
    ASSUME NEW s \in CP!Session, NEW source, NEW destination, NEW c, C!RelevantTo(s, c)
    PROVE  c \in Audience(s, source, destination)
BY DEF Audience, C!RelevantTo, C!InSlot, C!Holds

(* A broadcast shows a listening client that takes part in the session its *)
(* view of it, under its callsign.                                         *)
LEMMA ShownCurrent ==
    ASSUME RegistryInv, faults = 0, NEW i \in StationId, i \in listening, R!IsOnline(i),
           OwnCallsign(i), NEW s \in CP!Session, NEW source \in Callsign,
           NEW destination \in Callsign, C!RelevantTo(s, CallsignOf(i))
    PROVE  Shown(views, s, source, destination)[i][s.aircraft.address]
             = C!View(s, CallsignOf(i))
<1> DEFINE for == {c \in Audience(s, source, destination) : R!Lookup(c) = i}
<1>1. s.aircraft.address \in Address
  BY DEF CP!Session, CP!Endpoint
<1>2. for = {CallsignOf(i)}
  BY OwnFound, AudienceType, AudienceRelevant
<1>3. Shown(views, s, source, destination)[i][s.aircraft.address]
        = IF for # {} THEN C!View(s, CHOOSE c \in for : TRUE) ELSE views[i][s.aircraft.address]
  BY <1>1 DEF Shown
<1> HIDE DEF for
<1>4. for # {} /\ (CHOOSE c \in for : TRUE) = CallsignOf(i)
  BY <1>2
<1> QED BY <1>3, <1>4

LEMMA ShownOther ==
    ASSUME NEW i \in StationId, NEW a \in Address, NEW s, a # s.aircraft.address,
           NEW source, NEW destination
    PROVE  Shown(views, s, source, destination)[i][a] = views[i][a]
BY DEF Shown

(* What nothing touches stays current.                                     *)
LEMMA ViewKept ==
    ASSUME NEW i \in StationId, NEW a \in Address, ViewCurrent(i, a),
           registry'[i] = registry[i], sessions'[a] = sessions[a], views'[i][a] = views[i][a]
    PROVE  ViewCurrent(i, a)'
BY DEF ViewCurrent, R!IsOnline, CallsignOf

LEMMA ConcernedBefore ==
    ASSUME NEW i \in StationId, Concerned(i)', registry'[i] = registry[i], UNCHANGED faults
    PROVE  registry[i] # None /\ OwnCallsign(i) /\ faults = 0
BY DEF Concerned, OwnCallsign, R!KeyOf, CallsignOf

(* A broadcast of a session as it is stored.                               *)
LEMMA TellViews ==
    ASSUME BaseInv, NEW s \in CP!Session, AsStored(s), NEW source \in Callsign,
           NEW destination \in Callsign, UNCHANGED <<sessions, registry>>,
           views' = Shown(views, s, source, destination), faults = 0,
           NEW i \in StationId, i \in listening, OwnCallsign(i), NEW a \in Address,
           ViewCurrent(i, a) \/ sessions[a] = s
    PROVE  ViewCurrent(i, a)'
<1>1. CASE a = s.aircraft.address
  <2>1. SUFFICES ASSUME R!IsOnline(i), C!RelevantTo(s, CallsignOf(i))
                 PROVE  views'[i][a] = C!View(s, CallsignOf(i))
    <3>1. sessions'[a] = s /\ registry' = registry
      BY <1>1 DEF AsStored
    <3> QED BY <2>1, <3>1 DEF ViewCurrent, R!IsOnline, CallsignOf
  <2> QED BY <1>1, <2>1, ShownCurrent DEF BaseInv
<1>2. CASE a # s.aircraft.address
  <2>1. sessions[a] # s
    <3>1. s # None
      BY StoreAssumed DEF CP!NoneAssumption
    <3> QED BY <1>2, <3>1 DEF BaseInv, StoreInv, CP!IInv, CP!SlotsWellFormed
  <2>2. views'[i][a] = views[i][a]
    BY <1>2, ShownOther
  <2> QED BY <2>1, <2>2, ViewKept
<1> QED BY <1>1, <1>2

LEMMA QuietView ==
    ASSUME NEW i \in StationId, NEW a \in Address, ViewHeld(i, a), i \in joined' => i \in joined,
           registry'[i] = registry[i], UNCHANGED faults, sessions'[a] = sessions[a],
           views'[i][a] = views[i][a], Untold(a) => Untold(a)'
    PROVE  ViewHeld(i, a)'
<1> SUFFICES ASSUME Concerned(i)' PROVE ViewCurrent(i, a)' \/ Untold(a)'
  BY DEF ViewHeld
<1>1. Concerned(i)
  BY ConcernedBefore DEF Concerned
<1>2. CASE Untold(a)
  BY <1>2
<1>3. CASE ViewCurrent(i, a)
  BY <1>3, ViewKept
<1> QED BY <1>1, <1>2, <1>3 DEF ViewHeld

LEMMA IdleTold ==
    ASSUME call = None, reply = None
    PROVE  \A a \in Address : ~Untold(a)
BY DEF Untold

LEMMA SameTold ==
    ASSUME UNCHANGED storeVars
    PROVE  \A a \in Address : Untold(a) => Untold(a)'
BY DEF Untold, storeVars

(* A fault ends the promise.                                               *)
LEMMA FaultyViews ==
    ASSUME NEW A \in SUBSET Address, RegistryInv, faults' = faults + 1
    PROVE  ViewsOf(A)'
<1>1. faults' # 0
  BY RegistryAssumed DEF RegistryInv, RP!IInv, RP!TypeOK, RP!FaultsAssumption
<1> QED BY <1>1 DEF ViewsOf, ViewHeld, Concerned

LEMMA SyncedView ==
    ASSUME ClientsInv, NEW i \in StationId, i \in listening, NEW c, NEW a \in Address
    PROVE  /\ sessions[a] # None /\ C!RelevantTo(sessions[a], c)
                => Synced(i, c)[i][a] = C!View(sessions[a], c)
           /\ \A j \in StationId \ {i} : Synced(i, c)[j] = views[j]
BY DEF ClientsInv, Synced, C!SessionsFor

(* A client that comes online is sent its sessions as they are; one that   *)
(* goes offline has none.                                                  *)
LEMMA StatusViews ==
    ASSUME NEW A \in SUBSET Address, BaseInv, ViewsOf(A),
           NEW i \in listening, NEW c \in Licence[i], NEW status \in {"Online", "Offline"}, StationStatus(i, status, c)
    PROVE  ViewsOf(A)'
<1>1. i \in StationId /\ c \in Callsign
  BY RegistryAssumed DEF BaseInv, ClientsInv, RP!LicenceAssumption
<1>2. /\ R!UpdateStatus(i, status, c, R!AllWritten) /\ AfterStatus(i, status, c)
      /\ call = None /\ reply = None /\ UNCHANGED storeVars /\ UNCHANGED faults
  BY DEF StationStatus, R!StationStatus, Free, C!Idle
<1>3. R!AllWritten \in R!Writes /\ R!AllWritten.entry = TRUE
  BY DEF R!AllWritten, R!Writes
<1>4. /\ registry'[i] = [status |-> status, callsign |-> c] /\ registry'[i] # None
      /\ \A j \in StationId \ {i} : registry'[j] = registry[j]
  <2> DEFINE w == R!AllWritten
  <2>1. RegistryInv /\ R!UpdateStatus(i, status, c, w) /\ w.entry = TRUE
    BY <1>2, <1>3 DEF BaseInv
  <2> HIDE DEF w
  <2>2. /\ w.entry = TRUE => /\ registry'[i] = [status |-> status, callsign |-> c]
                             /\ registry'[i] # None
        /\ \A j \in StationId \ {i} : registry'[j] = registry[j]
    BY <1>1, <2>1, UpdateRegisters
  <2> QED BY <2>1, <2>2
<1>5. UNCHANGED sessions
  BY <1>2 DEF storeVars
<1>6. \A j \in StationId \ {i}, a \in Address :
        views'[j][a] = views[j][a] /\ (j \in joined' => j \in joined)
  BY <1>1, <1>2, SyncedView DEF AfterStatus, BaseInv
<1>7. ASSUME NEW a \in Address
      PROVE  ViewCurrent(i, a)'
  <2>1. CASE status = "Online"
    <3>1. views' = Synced(i, c)
      BY <1>2, <2>1 DEF AfterStatus
    <3> QED BY <1>1, <1>4, <1>5, <3>1, SyncedView
            DEF ViewCurrent, CallsignOf, BaseInv
  <2>2. CASE status = "Offline"
    BY <1>4, <2>2 DEF ViewCurrent, R!IsOnline
  <2> QED BY <2>1, <2>2
<1>8. ASSUME NEW j \in StationId, NEW a \in A
      PROVE  ViewHeld(j, a)'
  <2>1. CASE j = i
    BY <1>7, <2>1 DEF ViewHeld
  <2>2. CASE j # i
    BY <1>2, <1>4, <1>5, <1>6, <2>2, QuietView, SameTold DEF ViewsOf
  <2> QED BY <2>1, <2>2
<1> QED BY <1>8 DEF ViewsOf

LEMMA SweepViews ==
    ASSUME NEW A \in SUBSET Address, BaseInv, ViewsOf(A), NEW i \in StationId, SweepStation(i)
    PROVE  ViewsOf(A)'
<1>1. CASE R!SweepStation(i)
  <2>1. registry[i] # None /\ registry[i].callsign \in Callsign
    BY <1>1 DEF R!SweepStation, BaseInv, RegistryInv, RP!IInv, RP!TypeOK, RP!SweepFits,
                RP!IsOnline, RP!Entry
  <2>2. /\ R!UpdateStatus(i, "Offline", registry[i].callsign, R!AllWritten)
        /\ UNCHANGED <<storeVars, faults, views, joined>>
    BY <1>1 DEF SweepStation, R!SweepStation, clientVars
  <2>3. R!AllWritten \in R!Writes /\ R!AllWritten.entry = TRUE
    BY DEF R!AllWritten, R!Writes
  <2>4. /\ registry'[i].status = "Offline"
        /\ \A j \in StationId \ {i} : registry'[j] = registry[j]
    <3>1. /\ registry'[i] = [status |-> "Offline", callsign |-> registry[i].callsign]
          /\ \A j \in StationId \ {i} : registry'[j] = registry[j]
      BY <2>1, <2>2, <2>3, UpdateRegisters, Zenon DEF BaseInv
    <3> QED BY <3>1
  <2>5. UNCHANGED sessions
    BY <2>2 DEF storeVars
  <2>6. ASSUME NEW j \in StationId, NEW a \in A
        PROVE  ViewHeld(j, a)'
    <3>1. CASE j = i
      BY <2>4, <3>1 DEF ViewHeld, ViewCurrent, R!IsOnline
    <3>2. CASE j # i
      BY <2>2, <2>4, <2>5, <3>2, QuietView, SameTold DEF ViewsOf
    <3> QED BY <3>1, <3>2
  <2> QED BY <2>6 DEF ViewsOf
<1>2. CASE R!SweepFault(i)
  BY <1>2, FaultyViews DEF R!SweepFault, R!Faulty, BaseInv
<1> QED BY <1>1, <1>2 DEF SweepStation

(* Steps that touch neither the registry nor the clients.                  *)
LEMMA StoreView ==
    ASSUME UNCHANGED <<registryVars, clientVars>>,
           NEW i \in StationId, NEW a \in Address, ViewHeld(i, a),
           \/ Untold(a)'
           \/ sessions'[a] = sessions[a] /\ ~Untold(a)
    PROVE  ViewHeld(i, a)'
<1>1. UNCHANGED <<registry, faults, views, joined>>
  BY DEF registryVars, clientVars
<1>2. CASE Untold(a)'
  BY <1>2 DEF ViewHeld
<1>3. CASE sessions'[a] = sessions[a] /\ ~Untold(a)
  BY <1>1, <1>3, QuietView
<1> QED BY <1>2, <1>3

(* What is written is to be told.                                          *)
LEMMA WrittenUntold ==
    ASSUME StoreInv', NEW r \in Routing, NEW s, CP!Store(r, s), NEW a \in Address
    PROVE  Untold(a)' \/ sessions'[a] = sessions[a]
<1>1. r.aircraft.address \in Address
  BY StoreAssumed, CP!RoutingType
<1>2. /\ sessions' = [sessions EXCEPT ![r.aircraft.address] = s]
      /\ reply' = [kind |-> "routed", routing |-> r, session |-> s]
  BY DEF CP!Store
<1>3. CASE a # r.aircraft.address
  BY <1>2, <1>3
<1>4. CASE a = r.aircraft.address /\ a \notin DOMAIN sessions
  BY <1>2, <1>4
<1>5. CASE a = r.aircraft.address /\ a \in DOMAIN sessions
  <2>1. sessions'[a] = s
    BY <1>2, <1>5
  <2>2. s \in CP!Session \cup {None}
    BY <2>1 DEF StoreInv, CP!IInv, CP!TypeOK
  <2>3. reply' # None
    BY <1>2, <2>2, StoreAssumed DEF CP!NoCallAssumption, CP!RoutedReply
  <2> QED BY <1>2, <2>1, <2>3 DEF Untold
<1> QED BY <1>3, <1>4, <1>5

LEMMA MessageViews ==
    ASSUME NEW A \in SUBSET Address, BaseInv, BaseInv', ViewsOf(A), CpdlcMessage
    PROVE  ViewsOf(A)'
<1>1. UNCHANGED <<registryVars, clientVars>> /\ call = None /\ reply = None
  BY DEF CpdlcMessage, Free, C!Idle
<1>2. \/ UNCHANGED sessions
      \/ \E r \in Routing : \E s : CP!Store(r, s)
  BY MessageWrites DEF CP!RouteOnly
<1>3. ASSUME NEW i \in StationId, NEW a \in A
      PROVE  ViewHeld(i, a)'
  <2>1. ViewHeld(i, a) /\ a \in Address
    BY DEF ViewsOf
  <2>2. Untold(a)' \/ (sessions'[a] = sessions[a] /\ ~Untold(a))
    BY <1>1, <1>2, <2>1, IdleTold, WrittenUntold DEF BaseInv
  <2> QED BY <1>1, <2>1, <2>2, StoreView
<1> QED BY <1>3 DEF ViewsOf

LEMMA TerminateViews ==
    ASSUME NEW A \in SUBSET Address, BaseInv, OneAtATime, SlotsOf(A), ViewsOf(A),
           UNCHANGED <<registryVars, clientVars>>, NEW b \in Address, CP!TerminateSession(b)
    PROVE  ViewsOf(A)'
<1> DEFINE s == CP!TerminationRequest(sessions[b], call.callsign)
<1>1. /\ call \in CP!TerminateCall /\ call # None /\ call.kind = "terminate"
      /\ b \in call.todo /\ reply = None /\ UNCHANGED reply
  BY StoreTypes DEF BaseInv, CP!TerminateSession, CP!ApplicationCall, OneAtATime
<1>2. /\ sessions' = [sessions EXCEPT ![b] = s]
      /\ call' = [call EXCEPT
                    !.todo = @ \ {b},
                    !.done = IF CP!InSlot(s, call.callsign) THEN @ ELSE @ \cup {s}]
  BY DEF CP!TerminateSession
<1>3. sessions[b] # None /\ sessions[b] \in CP!Session
  BY <1>1, StoreTypes DEF BaseInv, StoreInv, CP!IInv, CP!TerminateFits
<1>4. b \in A => ~CP!InSlot(s, call.callsign)
  BY <1>3, TerminationDiffers DEF SlotsOf
<1>5. s \in CP!Session
  <2>1. call.callsign \in Callsign /\ CP!SessionWellFormed(sessions[b])
    BY <1>1, <1>3 DEF BaseInv, StoreInv, CP!IInv, CP!SlotsWellFormed, CP!TerminateCall
  <2> QED BY <1>3, <2>1, StoreAssumed, CP!TerminationRequestGood DEF CP!GoodStep
<1> HIDE DEF s
<1>6. /\ call'.kind = "terminate" /\ call.done \subseteq call'.done
      /\ b \in A => s \in call'.done
  BY <1>1, <1>2, <1>4 DEF CP!TerminateCall
<1>7. call' # None
  <2>1. call' \in CP!TerminateCall
    BY <1>1, <1>2, <1>5 DEF CP!TerminateCall
  <2> QED BY <2>1, StoreAssumed DEF CP!NoCallAssumption
<1>8. ASSUME NEW i \in StationId, NEW a \in A
      PROVE  ViewHeld(i, a)'
  <2>1. ViewHeld(i, a) /\ a \in Address
    BY DEF ViewsOf
  <2>2. CASE a = b
    <3>1. sessions'[a] = s
      BY <1>2, <2>2, StoreTypes DEF BaseInv
    <3>2. Untold(a)'
      BY <1>6, <1>7, <2>2, <3>1 DEF Untold
    <3> QED BY <2>1, <3>2, StoreView
  <2>3. CASE a # b
    <3>1. sessions'[a] = sessions[a]
      BY <1>2, <2>3
    <3>2. Untold(a) => Untold(a)'
      BY <1>1, <1>6, <1>7, <3>1 DEF Untold
    <3> QED BY <2>1, <3>1, <3>2, StoreView
  <2> QED BY <2>2, <2>3
<1> QED BY <1>8 DEF ViewsOf

LEMMA CallViews ==
    ASSUME NEW A \in SUBSET Address, BaseInv, BaseInv', OneAtATime, SlotsOf(A), ViewsOf(A), CallStep
    PROVE  ViewsOf(A)'
<1>1. UNCHANGED <<registryVars, clientVars>>
  BY DEF CallStep
<1>2. CASE CP!ApplicationElement
  <2>1. \A a \in Address : sessions'[a] = sessions[a] /\ ~Untold(a)
    BY <1>2 DEF CP!ApplicationElement, Untold, OneAtATime
  <2> QED BY <1>1, <2>1, StoreView DEF ViewsOf
<1>3. CASE CP!ApplicationStore
  <2>1. call \in CP!ApplicationCall /\ CP!Store(call.routing, call.draft)
    BY <1>3, StoreTypes DEF BaseInv, CP!ApplicationStore, CP!TerminateCall
  <2>2. call.routing \in Routing
    BY <2>1 DEF CP!ApplicationCall
  <2>3. \A a \in Address : ~Untold(a)
    BY <1>3 DEF CP!ApplicationStore, Untold, OneAtATime
  <2>4. \A a \in Address : Untold(a)' \/ sessions'[a] = sessions[a]
    BY <2>1, <2>2, WrittenUntold DEF BaseInv
  <2> QED BY <1>1, <2>3, <2>4, StoreView DEF ViewsOf
<1>4. CASE \E b \in Address : CP!TerminateSession(b)
  BY <1>1, <1>4, TerminateViews
<1>5. CASE CP!TerminateReturn
  <2>1. /\ call # None /\ call.kind = "terminate" /\ UNCHANGED sessions /\ reply = None
        /\ reply' = [kind |-> "terminated", callsign |-> call.callsign, sessions |-> call.done]
    BY <1>5 DEF CP!TerminateReturn, OneAtATime
  <2>2. reply' # None
    <3>1. call \in CP!TerminateCall
      BY <2>1, StoreTypes DEF BaseInv, CP!ApplicationCall
    <3>2. reply' \in CP!TerminatedReply
      BY <2>1, <3>1 DEF CP!TerminateCall, CP!TerminatedReply
    <3> QED BY <3>2, StoreAssumed DEF CP!NoCallAssumption
  <2>3. \A a \in Address : Untold(a) => Untold(a)'
    BY <2>1, <2>2 DEF Untold
  <2> QED BY <1>1, <2>1, <2>3, StoreView DEF ViewsOf
<1> QED BY <1>2, <1>3, <1>4, <1>5, SameCall DEF CallStep

LEMMA RoutedViews ==
    ASSUME NEW A \in SUBSET Address, BaseInv, OneAtATime, ToldInv, ViewsOf(A), TellRouted
    PROVE  ViewsOf(A)'
<1>1. /\ reply # None /\ reply.kind = "routed" /\ call = None
      /\ UNCHANGED <<sessions, registryVars, joined>>
      /\ views' = IF reply.session = None THEN views
                  ELSE Shown(views, reply.session, reply.routing.source, reply.routing.destination)
  BY DEF TellRouted, OneAtATime, C!Return
<1>2. UNCHANGED <<registry, faults>>
  BY <1>1 DEF registryVars
<1>3. ASSUME NEW i \in StationId, NEW a \in A, Concerned(i)'
      PROVE  ViewCurrent(i, a)'
  <2>1. Concerned(i)
    BY <1>1, <1>2, <1>3, ConcernedBefore DEF Concerned
  <2>2. ViewCurrent(i, a) \/ sessions[a] = reply.session
    BY <1>1, <2>1 DEF ViewsOf, ViewHeld, Untold
  <2>3. CASE reply.session = None
    BY <1>1, <1>2, <2>2, <2>3, ViewKept DEF ViewCurrent
  <2>4. CASE reply.session # None
    <3>1. reply \in CP!RoutedReply
      BY <1>1, StoreTypes DEF BaseInv, CP!TerminatedReply
    <3>2. /\ reply.session \in CP!Session
          /\ reply.routing.source \in Callsign /\ reply.routing.destination \in Callsign
      BY <2>4, <3>1, StoreAssumed, CP!RoutingType DEF CP!RoutedReply
    <3>3. AsStored(reply.session)
      BY <1>1, <2>4 DEF ToldInv
    <3>4. i \in listening /\ OwnCallsign(i) /\ faults = 0
      BY <2>1 DEF Concerned, BaseInv, ClientsInv
    <3> QED BY <1>1, <1>2, <2>2, <2>4, <3>2, <3>3, <3>4, TellViews
  <2> QED BY <2>3, <2>4
<1> QED BY <1>3 DEF ViewsOf, ViewHeld

LEMMA TerminatedViews ==
    ASSUME NEW A \in SUBSET Address, BaseInv, OneAtATime, ToldInv, ViewsOf(A),
           NEW s, TellTerminated(s)
    PROVE  ViewsOf(A)'
<1>1. /\ reply # None /\ reply.kind = "terminated" /\ call = None /\ s \in reply.sessions
      /\ UNCHANGED <<sessions, call, registryVars, joined>>
      /\ views' = Shown(views, s, reply.callsign, s.aircraft.callsign)
      /\ reply' = [reply EXCEPT !.sessions = @ \ {s}]
  BY DEF TellTerminated, OneAtATime
<1>2. UNCHANGED <<registry, faults>>
  BY <1>1 DEF registryVars
<1>3. /\ reply' # None /\ reply'.kind = "terminated" /\ reply'.sessions = reply.sessions \ {s}
      /\ s \in CP!Session /\ reply.callsign \in Callsign
  BY <1>1, ToldReply DEF BaseInv
<1>4. s.aircraft.callsign \in Callsign
  BY <1>3 DEF CP!Session, CP!Endpoint
<1>5. AsStored(s)
  BY <1>1 DEF ToldInv
<1>6. ASSUME NEW i \in StationId, NEW a \in A, Concerned(i)'
      PROVE  ViewCurrent(i, a)' \/ Untold(a)'
  <2>1. Concerned(i)
    BY <1>1, <1>2, <1>6, ConcernedBefore DEF Concerned
  <2>2. ViewCurrent(i, a) \/ sessions[a] \in reply.sessions
    BY <1>1, <2>1 DEF ViewsOf, ViewHeld, Untold
  <2>3. CASE sessions[a] \in reply.sessions \ {s}
    BY <1>1, <1>3, <2>3 DEF Untold
  <2>4. CASE ViewCurrent(i, a) \/ sessions[a] = s
    <3>1. i \in listening /\ OwnCallsign(i) /\ faults = 0
      BY <2>1 DEF Concerned, BaseInv, ClientsInv
    <3> QED BY <1>1, <1>2, <1>3, <1>4, <1>5, <2>4, <3>1, TellViews
  <2> QED BY <2>2, <2>3, <2>4
<1> QED BY <1>6 DEF ViewsOf, ViewHeld

(* The last session was told before.                                       *)
LEMMA EndViews ==
    ASSUME NEW A \in SUBSET Address, BaseInv, OneAtATime, ViewsOf(A), TellTerminatedEnd
    PROVE  ViewsOf(A)'
<1>1. /\ reply # None /\ reply.kind = "terminated" /\ reply.sessions = {} /\ call = None
      /\ UNCHANGED <<sessions, registryVars, clientVars>>
  BY DEF TellTerminatedEnd, OneAtATime, C!Return
<1>2. \A a \in Address : ~Untold(a)
  BY <1>1 DEF Untold
<1> QED BY <1>1, <1>2, StoreView DEF ViewsOf

LEMMA VanishViews ==
    ASSUME NEW A \in SUBSET Address, BaseInv, ViewsOf(A), NEW i \in StationId, Vanish(i)
    PROVE  ViewsOf(A)'
<1>1. /\ joined' = joined \ {i} /\ UNCHANGED storeVars
      /\ UNCHANGED registryVars
      /\ views' = [views EXCEPT ![i] = [a \in Address |-> None]]
  BY DEF Vanish
<1>2. UNCHANGED <<sessions, registry, faults>>
  BY <1>1 DEF storeVars, registryVars
<1>3. ASSUME NEW j \in StationId, NEW a \in A
      PROVE  ViewHeld(j, a)'
  <2>1. CASE j = i
    BY <1>1, <2>1 DEF ViewHeld, Concerned
  <2>2. CASE j # i
    BY <1>1, <1>2, <2>2, QuietView, SameTold DEF ViewsOf
  <2> QED BY <2>1, <2>2
<1> QED BY <1>3 DEF ViewsOf

LEMMA OtherViews ==
    ASSUME NEW A \in SUBSET Address, ViewsOf(A),
           UNCHANGED <<storeVars, registry, faults, joined, views>>
    PROVE  ViewsOf(A)'
BY QuietView, SameTold DEF ViewsOf, storeVars

LEMMA ViewsStep ==
    ASSUME NEW A \in SUBSET Address, BaseInv, BaseInv', OneAtATime, ToldInv,
           SlotsOf(A), ViewsOf(A), [Next]_vars
    PROVE  ViewsOf(A)'
<1>1. CASE StatusMessage
  <2>1. PICK i \in listening : \E c \in Licence[i], status \in {"Online", "Offline"} :
          StationStatus(i, status, c) \/ StationStatusFault(i, status, c)
    BY <1>1 DEF StatusMessage
  <2>2. CASE \E c \in Licence[i], status \in {"Online", "Offline"} : StationStatus(i, status, c)
    BY <2>2, StatusViews
  <2>3. CASE \E c, status : StationStatusFault(i, status, c)
    BY <2>3, FaultyViews DEF StationStatusFault, R!Faulty, BaseInv
  <2> QED BY <2>1, <2>2, <2>3
<1>2. CASE CpdlcMessage
  BY <1>2, MessageViews
<1>3. CASE CallStep
  BY <1>3, CallViews
<1>4. CASE SweepStart \/ SweepEnd \/ Tick \/ UNCHANGED vars \/ \E i \in StationId : Listen(i)
  <2>1. UNCHANGED <<storeVars, registry, faults, joined, views>>
    BY <1>4 DEF SweepStart, SweepEnd, Tick, Listen, vars, registryVars, clientVars,
                R!SweepStart, R!SweepEnd, R!Tick
  <2> QED BY <2>1, OtherViews
<1>5. ASSUME NEW i \in StationId, EndSessions(i)
      PROVE  ViewsOf(A)'
  <2>1. /\ call = None /\ reply = None /\ UNCHANGED sessions
        /\ UNCHANGED <<registryVars, clientVars>>
    BY <1>5 DEF EndSessions, C!TerminateStart, C!Idle
  <2> QED BY <2>1, IdleTold, StoreView DEF ViewsOf
<1>6. CASE CallFails \/ SendFails \/ Crash
  <2>1. faults' = faults + 1
    BY <1>6 DEF CallFails, SendFails, TellRoutedFault, TellTerminatedFault, SyncFault, Crash, Fault
  <2> QED BY <2>1, FaultyViews DEF BaseInv
<1>7. CASE \E i \in StationId : Vanish(i)
  BY <1>7, VanishViews
<1>8. CASE ServerStep
  BY <1>3, <1>4, <1>5, <1>8, SweepViews, RoutedViews, TerminatedViews, EndViews DEF ServerStep
<1> QED BY <1>1, <1>2, <1>4, <1>6, <1>7, <1>8 DEF Next

-----------------------------------------------------------------------------
(* The invariant. *)

LoopInv(A) == BaseInv /\ OneAtATime /\ ToldInv /\ SlotsInv /\ ViewsOf(A)

LEMMA LoopInit ==
    ASSUME Init, NEW A \in SUBSET Address
    PROVE  LoopInv(A)
<1>1. /\ call = None /\ reply = None /\ joined = {}
      /\ \A a \in Address : sessions[a] = None
  BY DEF Init, C!Init
<1>2. OneAtATime /\ ToldInv /\ SlotsInv /\ ViewsOf(A)
  BY <1>1 DEF OneAtATime, ToldInv, SlotsInv, SlotsOf, ViewsOf, ViewHeld, Concerned
<1> QED BY <1>2, BaseInit DEF LoopInv

LEMMA LoopStep ==
    ASSUME NEW A \in SUBSET Address, LoopInv(A), SlotsOf(A), [Next]_vars
    PROVE  LoopInv(A)'
<1>1. BaseInv'
  BY BaseStep DEF LoopInv
<1>2. OneAtATime' /\ ToldInv' /\ SlotsInv' /\ ViewsOf(A)'
  BY <1>1, OneStep, ToldStep, SlotsStep, ViewsStep DEF LoopInv
<1> QED BY <1>1, <1>2 DEF LoopInv

LEMMA FreeCurrent ==
    ASSUME NEW A \in SUBSET Address, LoopInv(A), Free,
           NEW i \in StationId, Concerned(i), NEW a \in A
    PROVE  ViewCurrent(i, a)
BY IdleTold DEF LoopInv, ViewsOf, ViewHeld, Free, C!Idle

(* Take any set of aircraft of which no station ever holds both slots:     *)
(* whenever the loop is back at its select, a client whose callsign is its *)
(* own holds the current view of each of their sessions it takes part in,  *)
(* if it came online since it listens and no fault has happened.  Other    *)
(* aircraft may have logged on to a station they were with, and other      *)
(* clients may share callsigns.                                            *)
THEOREM ConcernedAlwaysCurrent ==
    ASSUME NEW A \in SUBSET Address
    PROVE  Spec /\ []SlotsOf(A) =>
             [](Free => \A i \in StationId, a \in A : Concerned(i) => ViewCurrent(i, a))
<1>1. LoopInv(A) => (Free => \A i \in StationId, a \in A : Concerned(i) => ViewCurrent(i, a))
  BY FreeCurrent
<1>2. Init => LoopInv(A)
  BY LoopInit
<1>3. LoopInv(A) /\ SlotsOf(A) /\ [Next]_vars => LoopInv(A)'
  BY LoopStep
<1> QED BY <1>1, <1>2, <1>3, PTL DEF Spec

(* Where all clients have callsigns of their own and no aircraft logs on   *)
(* to a station it is with, no client ever keeps an outdated view of a     *)
(* session it takes part in: sync on ONLINE, the broadcast after every     *)
(* message and after every station that goes, by message or by its lease,  *)
(* leave none out, for any number of aircraft and stations (server.rs).    *)
THEOREM ViewsAlwaysCurrent ==
    ASSUME OwnCallsigns, ~Relogon
    PROVE  Spec => []ViewsCurrent
<1>1. LoopInv(Address) => ViewsCurrent
  <2> SUFFICES ASSUME LoopInv(Address), Free, faults = 0, NEW i \in joined, NEW a \in Address
               PROVE  ViewCurrent(i, a)
    BY DEF ViewsCurrent
  <2>1. i \in StationId
    BY DEF LoopInv, BaseInv, ClientsInv
  <2>2. CASE registry[i] = None
    BY <2>2 DEF ViewCurrent, R!IsOnline
  <2>3. CASE registry[i] # None
    <3>1. CallsignOf(i) \in Licence[i]
      BY <2>1, <2>3 DEF LoopInv, BaseInv, RegistryInv, RP!IInv, RP!EntriesLicensed, CallsignOf
    <3>2. OwnCallsign(i)
      BY <2>1, <3>1 DEF OwnCallsigns, OwnCallsign, R!KeyOf, CallsignOf
    <3>3. Concerned(i)
      BY <2>3, <3>2 DEF Concerned
    <3> QED BY <2>1, <3>3, FreeCurrent
  <2> QED BY <2>2, <2>3
<1>2. Init => LoopInv(Address)
  BY LoopInit
<1>3. LoopInv(Address) /\ [Next]_vars => LoopInv(Address)'
  BY LoopStep DEF LoopInv, SlotsInv
<1> QED BY <1>1, <1>2, <1>3, PTL DEF Spec

-----------------------------------------------------------------------------
(* What the store and the registry promise, they promise in the loop: its  *)
(* crashes, its faults and the steps that tell what was done included.     *)

(* What is promised of a step of the store.                                *)
StorePromise == CP!HandoverStep /\ [CP!Authority!AuthorityNext]_<<CP!Line, CP!Nda>>

LEMMA SessionsKept ==
    ASSUME StoreInv, UNCHANGED sessions
    PROVE  StorePromise
<1>1. [CP!Authority!AuthorityNext]_<<CP!Line, CP!Nda>>
  BY StoreAssumed, CP!SessionsUnchanged
<1>2. CP!HandoverStep
  BY DEF StoreInv, CP!IInv, CP!SlotsWellFormed, CP!SessionWellFormed, CP!HandoverStep,
         CP!Succeeds, CP!Advances
<1> QED BY <1>1, <1>2 DEF StorePromise

LEMMA StoreKeepsPromise ==
    ASSUME StoreInv, CP!DraftReady, CP!Next
    PROVE  StorePromise /\ CP!DraftReady'
<1>1. CP!HandoverStep
  BY StoreAssumed, CP!NextGood DEF StoreInv
<1>2. [CP!Authority!AuthorityNext]_<<CP!Line, CP!Nda>>
  BY StoreAssumed, CP!StepRefines DEF StoreInv
<1>3. CP!DraftReady'
  BY StoreAssumed, CP!DraftReadyStep DEF StoreInv
<1> QED BY <1>1, <1>2, <1>3 DEF StorePromise

LEMMA LoopKeepsPromise ==
    ASSUME BaseInv, CP!DraftReady, [Next]_vars
    PROVE  StorePromise /\ CP!DraftReady'
<1>1. StoreInv
  BY DEF BaseInv
<1>2. CASE CpdlcMessage \/ StoreOperation
  <2>1. CP!Next
    BY <1>2, MessageStore DEF StoreOperation, CP!Next
  <2> QED BY <1>1, <2>1, StoreKeepsPromise
<1>3. CASE UNCHANGED storeVars \/ Lost \/ \E s : Told(s)
  <2>1. UNCHANGED sessions /\ (call' = call \/ call' = None)
    BY <1>3 DEF storeVars, Lost, Told
  <2>2. CP!DraftReady'
    BY <2>1 DEF CP!DraftReady, CP!ReadyExchange
  <2> QED BY <1>1, <2>1, <2>2, SessionsKept
<1> QED BY <1>2, <1>3, StoreForms

LEMMA LoopStarts == Init => BaseInv /\ CP!DraftReady /\ CP!Authority!AuthorityInit
<1> SUFFICES ASSUME Init PROVE BaseInv /\ CP!DraftReady /\ CP!Authority!AuthorityInit
  OBVIOUS
<1>1. CP!Init
  BY DEF Init, C!Init, CP!Init
<1>2. CP!DraftReady /\ CP!Authority!AuthorityInit
  BY <1>1, StoreAssumed, CP!InitRefines
<1> QED BY <1>2, BaseInit

(* The current data authority only gives way to the station that waited,   *)
(* or to nobody, whatever the loop does: a station that goes offline by    *)
(* message or by its lease, an interrupted or failed call, a restart.      *)
THEOREM HandoverInTheLoop == Spec => [][CP!HandoverStep]_vars
<1>1. BaseInv /\ CP!DraftReady /\ [Next]_vars
        => BaseInv' /\ CP!DraftReady' /\ [CP!HandoverStep]_vars
  BY BaseStep, LoopKeepsPromise DEF StorePromise
<1> QED BY <1>1, LoopStarts, PTL DEF Spec

(* The loop with its store implements the line of data authorities too.    *)
THEOREM LoopImplementsAuthority == Spec => CP!ImplementsDataAuthority
<1>1. BaseInv /\ CP!DraftReady /\ [Next]_vars
        => /\ BaseInv' /\ CP!DraftReady'
           /\ [CP!Authority!AuthorityNext]_<<CP!Line, CP!Nda>>
  BY BaseStep, LoopKeepsPromise DEF StorePromise
<1> QED BY <1>1, LoopStarts, PTL DEF Spec, CP!ImplementsDataAuthority, CP!Authority!AuthoritySpec

(* The sessions are well formed and the index is sound and complete at     *)
(* every moment of the loop.                                               *)
THEOREM PartsAlwaysGood ==
    Spec => [](CP!SlotsWellFormed /\ RP!IndexSound /\ RP!IndexComplete)
<1>1. BaseInv => CP!SlotsWellFormed /\ RP!IndexSound /\ RP!IndexComplete
  BY DEF BaseInv, StoreInv, RegistryInv, CP!IInv, RP!IInv
<1> QED BY <1>1, BaseInit, BaseStep, PTL DEF Spec
=============================================================================
