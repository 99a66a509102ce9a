--------------------------- MODULE CPDLCServerProofs ---------------------------
(***************************************************************************)
(* Proofs about CPDLCServer for any aircraft, stations, routings, message  *)
(* bodies and MINs: its type invariant, the shape of its sessions, that    *)
(* the current data authority is only ever succeeded by promotion, and     *)
(* that it implements DataAuthority.                                       *)
(***************************************************************************)
EXTENDS CPDLCServerProperties, TLAPS

-----------------------------------------------------------------------------
(* The transition functions of CPDLCSession. *)

(* What every one of them makes of a well-formed session.                  *)
GoodStep(s, t) ==
    /\ t \in Session
    /\ SessionWellFormed(t)
    /\ t.aircraft = s.aircraft
    /\ Succeeds(s, t)

LEMMA NewSessionGood ==
    ASSUME NEW p \in Endpoint
    PROVE  NewSession(p) \in Session /\ SessionWellFormed(NewSession(p))
BY DEF NewSession, Session, SessionWellFormed

LEMMA NewConnectionType ==
    ASSUME NEW c \in Callsign
    PROVE  /\ NewConnection(c) \in Connection
           /\ Logon(NewConnection(c)) \in Connection
           /\ ~NewConnection(c).connection
           /\ Logon(NewConnection(c)).logon
           /\ ~Logon(NewConnection(c)).connection
BY DEF NewConnection, Logon, Connection

LEMMA EnterGood ==
    ASSUME NEW s \in Session, SessionWellFormed(s),
           NEW conn \in Connection, ~conn.connection
    PROVE  GoodStep(s, Enter(s, conn))
BY NoneAssumption
   DEF Enter, GoodStep, Session, Connection, SessionWellFormed, Succeeds, Advances

LEMMA LogonRequestGood ==
    ASSUME NEW s \in Session, SessionWellFormed(s), NEW c \in Callsign
    PROVE  GoodStep(s, LogonRequest(s, c))
BY EnterGood, NewConnectionType DEF LogonRequest

LEMMA StayGood ==
    ASSUME NEW s \in Session, SessionWellFormed(s)
    PROVE  GoodStep(s, s)
BY NoneAssumption
   DEF GoodStep, Session, Connection, SessionWellFormed, Succeeds, Advances

LEMMA LogonAcceptedGood ==
    ASSUME NEW s \in Session, SessionWellFormed(s), NEW c \in Callsign
    PROVE  GoodStep(s, LogonAccepted(s, c))
BY NoneAssumption
   DEF LogonAccepted, Logon, Holds, GoodStep, Session, Connection,
       SessionWellFormed, Succeeds, Advances

LEMMA ConnectionRequestGood ==
    ASSUME NEW s \in Session, SessionWellFormed(s), NEW c \in Callsign
    PROVE  GoodStep(s, ConnectionRequest(s, c))
BY EnterGood, StayGood, NewConnectionType DEF ConnectionRequest

LEMMA ConnectionAcceptedGood ==
    ASSUME NEW s \in Session, SessionWellFormed(s), NEW c \in Callsign,
           ~ConnectionAcceptedErr(s, c)
    PROVE  GoodStep(s, ConnectionAccepted(s, c))
BY NoneAssumption
   DEF ConnectionAccepted, ConnectionAcceptedErr, Connect, Holds, GoodStep,
       Session, Connection, SessionWellFormed, Succeeds, Advances

LEMMA NextDataAuthorityGood ==
    ASSUME NEW s \in Session, SessionWellFormed(s), NEW c \in Callsign
    PROVE  GoodStep(s, NextDataAuthority(s, c))
BY NoneAssumption
   DEF NextDataAuthority, GoodStep, Session, Connection, SessionWellFormed,
       Succeeds, Advances

LEMMA TerminationRequestGood ==
    ASSUME NEW s \in Session, SessionWellFormed(s), NEW c \in Callsign
    PROVE  GoodStep(s, TerminationRequest(s, c))
BY NoneAssumption
   DEF TerminationRequest, Holds, GoodStep, Session, Connection,
       SessionWellFormed, Succeeds, Advances

-----------------------------------------------------------------------------
(* The inductive invariant. *)

(* What the elements applied so far, of a message from src, have made of   *)
(* the slots of the stored session s: nothing, or src is out of the        *)
(* inactive slot, or out of the active one, or out of both.                *)
DraftOf(s, d, src) ==
    /\ d.aircraft = s.aircraft
    /\ \/ d.active = s.active /\ d.inactive = s.inactive
       \/ /\ d.active = s.active /\ d.inactive = None
          /\ ~Holds(s.active, src) /\ Holds(s.inactive, src)
       \/ d.active = s.inactive /\ d.inactive = None /\ Holds(s.active, src)
       \/ /\ d.active = None /\ d.inactive = None
          /\ Holds(s.active, src) /\ Holds(s.inactive, src)

(* The call in progress fits the bucket: the draft comes from the session  *)
(* it will replace, and the sessions still to be terminated exist.         *)
ApplicationFits ==
    call # None /\ call.kind = "application" =>
        LET s == sessions[call.routing.aircraft.address] IN
          /\ s # None
          /\ s.active # None
          /\ DraftOf(s, call.draft, call.routing.source)

TerminateFits ==
    call # None /\ call.kind = "terminate" =>
        \A a \in call.todo : sessions[a] # None

IInv == TypeOK /\ SlotsWellFormed /\ ApplicationFits /\ TerminateFits

LEMMA RoutingType ==
    ASSUME NEW r \in Routing
    PROVE  /\ r.source \in Callsign
           /\ r.destination \in Callsign
           /\ r.aircraft \in Endpoint
           /\ r.aircraft.callsign \in Callsign
           /\ r.aircraft.address \in Address
BY RoutingAssumption DEF Endpoint

LEMMA CurrentGood ==
    ASSUME IInv, NEW r \in Routing
    PROVE  /\ Current(r) \in Session
           /\ SessionWellFormed(Current(r))
           /\ Current(r).aircraft.address = r.aircraft.address
           /\ sessions[r.aircraft.address] # None
                => Current(r) = sessions[r.aircraft.address]
<1>1. r.aircraft \in Endpoint /\ r.aircraft.address \in Address
  BY RoutingType
<1>2. CASE sessions[r.aircraft.address] = None
  BY <1>1, <1>2, NewSessionGood DEF Current, NewSession
<1>3. CASE sessions[r.aircraft.address] # None
  BY <1>1, <1>3 DEF Current, IInv, TypeOK, SlotsWellFormed
<1> QED BY <1>2, <1>3

(* A write of what the transition functions make of the current session.   *)
LEMMA StoreGood ==
    ASSUME IInv, NEW r \in Routing, NEW s, GoodStep(Current(r), s),
           call = None, call' = None, Store(r, s)
    PROVE  IInv' /\ HandoverStep
<1>1. r.aircraft.address \in Address
  BY RoutingType
<1>2. /\ s \in Session
      /\ SessionWellFormed(s)
      /\ s.aircraft = Current(r).aircraft
      /\ Succeeds(Current(r), s)
  BY DEF GoodStep
<1>3. /\ sessions' = [sessions EXCEPT ![r.aircraft.address] = s]
      /\ reply' = [kind |-> "routed", routing |-> r, session |-> s]
  BY DEF Store
<1>4. TypeOK'
  BY <1>1, <1>2, <1>3 DEF IInv, TypeOK, RoutedReply
<1>5. SlotsWellFormed'
  BY <1>1, <1>2, <1>3, CurrentGood DEF IInv, TypeOK, SlotsWellFormed
<1>6. ApplicationFits' /\ TerminateFits'
  BY DEF ApplicationFits, TerminateFits
<1>7. HandoverStep
  <2> SUFFICES ASSUME NEW a \in Address, sessions[a] # None
               PROVE  /\ sessions'[a] # None
                      /\ sessions'[a].aircraft = sessions[a].aircraft
                      /\ Succeeds(sessions[a], sessions'[a])
    BY DEF HandoverStep
  <2>1. CASE a = r.aircraft.address
    BY <1>1, <1>2, <1>3, <2>1, CurrentGood, NoneAssumption DEF IInv, TypeOK
  <2>2. CASE a # r.aircraft.address
    <3>1. sessions'[a] = sessions[a]
      BY <1>3, <2>2 DEF IInv, TypeOK
    <3>2. GoodStep(sessions[a], sessions[a])
      BY StayGood DEF IInv, TypeOK, SlotsWellFormed
    <3> QED BY <3>1, <3>2 DEF GoodStep
  <2> QED BY <2>1, <2>2
<1> QED BY <1>4, <1>5, <1>6, <1>7 DEF IInv

(* Steps that leave the bucket as it is.                                   *)
LEMMA UnchangedGood ==
    ASSUME IInv, UNCHANGED sessions
    PROVE  HandoverStep
BY StayGood DEF HandoverStep, GoodStep, IInv, TypeOK, SlotsWellFormed

LEMMA RouteOnlyGood ==
    ASSUME IInv, NEW r \in Routing, call = None, call' = None, RouteOnly(r)
    PROVE  IInv' /\ HandoverStep
<1>1. IInv'
  BY DEF RouteOnly, IInv, TypeOK, SlotsWellFormed, ApplicationFits,
         TerminateFits, RoutedReply
<1> QED BY <1>1, UnchangedGood DEF RouteOnly

LEMMA MetaGood ==
    ASSUME IInv, NEW r \in Routing, NEW accepted \in BOOLEAN,
           \/ HandleLogonRequest(r, r.destination)
           \/ HandleLogonResponse(r, accepted)
           \/ HandleConnectionRequest(r)
           \/ HandleConnectionResponse(r, accepted)
           \/ HandlePassThrough(r)
    PROVE  IInv' /\ HandoverStep
<1>1. Current(r) \in Session /\ SessionWellFormed(Current(r))
  BY CurrentGood
<1>2. r.source \in Callsign /\ r.destination \in Callsign
  BY RoutingType
<1>3. CASE HandleLogonRequest(r, r.destination)
  BY <1>1, <1>2, <1>3, LogonRequestGood, StoreGood DEF HandleLogonRequest, Idle
<1>4. CASE HandleLogonResponse(r, accepted)
  BY <1>1, <1>2, <1>4, LogonAcceptedGood, StoreGood, RouteOnlyGood
     DEF HandleLogonResponse, Idle
<1>5. CASE HandleConnectionRequest(r)
  BY <1>1, <1>2, <1>5, ConnectionRequestGood, StoreGood
     DEF HandleConnectionRequest, Idle
<1>6. CASE HandleConnectionResponse(r, accepted)
  BY <1>1, <1>2, <1>6, ConnectionAcceptedGood, StoreGood, RouteOnlyGood
     DEF HandleConnectionResponse, Idle
<1>7. CASE HandlePassThrough(r)
  BY <1>7, RouteOnlyGood DEF HandlePassThrough, Idle
<1> QED BY <1>3, <1>4, <1>5, <1>6, <1>7

-----------------------------------------------------------------------------
(* Application messages. *)

LEMMA ApplicationStartGood ==
    ASSUME IInv, NEW r \in Routing, NEW min \in Min, NEW elements \in Body,
           ApplicationStart(r, min, elements)
    PROVE  IInv' /\ HandoverStep
<1> DEFINE s == sessions[r.aircraft.address]
<1>1. r.aircraft.address \in Address
  BY RoutingType
<1>2. /\ s # None /\ s.active # None
      /\ call' = [kind |-> "application", routing |-> r, draft |-> s,
                  elements |-> elements]
      /\ UNCHANGED <<sessions, reply>>
  BY DEF ApplicationStart
<1>3. s \in Session /\ SessionWellFormed(s)
  BY <1>1, <1>2 DEF IInv, TypeOK, SlotsWellFormed
<1>4. call' \in ApplicationCall
  BY <1>2, <1>3, BodyAssumption DEF ApplicationCall
<1>5. TypeOK'
  BY <1>2, <1>4 DEF IInv, TypeOK
<1>6. SlotsWellFormed'
  BY <1>2, <1>3 DEF IInv, SlotsWellFormed
<1>7. ApplicationFits' /\ TerminateFits'
  BY <1>2 DEF ApplicationFits, TerminateFits, DraftOf
<1> QED BY <1>2, <1>5, <1>6, <1>7, UnchangedGood DEF IInv

LEMMA ApplyGood ==
    ASSUME NEW d \in Session, SessionWellFormed(d), NEW e \in Element,
           NEW src \in Callsign
    PROVE  Apply(d, e, src) \in Session /\ SessionWellFormed(Apply(d, e, src))
<1>1. e.facility # None => e.facility \in Callsign
  BY DEF Element
<1> QED BY <1>1, NextDataAuthorityGood, TerminationRequestGood DEF Apply, GoodStep

LEMMA ApplyDraft ==
    ASSUME NEW s \in Session, SessionWellFormed(s), s.active # None,
           NEW d \in Session, NEW e \in Element, NEW src \in Callsign,
           DraftOf(s, d, src)
    PROVE  DraftOf(s, Apply(d, e, src), src)
<1>1. DraftOf(s, TerminationRequest(d, src), src)
  BY NoneAssumption DEF DraftOf, TerminationRequest, Holds, Session, SessionWellFormed
<1>2. ASSUME NEW c \in Callsign PROVE DraftOf(s, NextDataAuthority(d, c), src)
  BY DEF DraftOf, NextDataAuthority, Session
<1> QED BY <1>1, <1>2 DEF Apply, Element

(* A draft that replaces the session it was made from hands over properly. *)
LEMMA DraftSucceeds ==
    ASSUME NEW s \in Session, SessionWellFormed(s), s.active # None,
           NEW d \in Session, NEW src \in Callsign, DraftOf(s, d, src)
    PROVE  d.aircraft = s.aircraft /\ Succeeds(s, d)
BY NoneAssumption DEF DraftOf, Succeeds, Advances, Holds, Session, Connection

LEMMA ApplicationElementGood ==
    ASSUME IInv, ApplicationElement
    PROVE  IInv' /\ HandoverStep
<1> DEFINE e == Head(call.elements)
           d == Apply(call.draft, e, call.routing.source)
           a == call.routing.aircraft.address
<1>1. /\ call \in ApplicationCall
      /\ call # None /\ call.kind = "application"
      /\ call.elements # << >>
      /\ call' = [call EXCEPT !.draft = d, !.elements = Tail(call.elements)]
      /\ UNCHANGED <<sessions, reply>>
  BY DEF ApplicationElement, IInv, TypeOK, ApplicationCall, TerminateCall
<1>2. /\ call.draft \in Session
      /\ call.routing \in Routing
      /\ call.elements \in Seq(Element)
  BY <1>1 DEF ApplicationCall
<1>3. e \in Element /\ Tail(call.elements) \in Seq(Element)
  BY <1>1, <1>2
<1>4. call.routing.source \in Callsign /\ a \in Address
  BY <1>2, RoutingType
<1>5. SessionWellFormed(call.draft)
  BY <1>1 DEF IInv, SlotsWellFormed
<1>6. d \in Session /\ SessionWellFormed(d)
  BY <1>2, <1>3, <1>4, <1>5, ApplyGood
<1>7. /\ call' \in ApplicationCall
      /\ call'.kind = "application"
      /\ call'.draft = d
      /\ call'.routing = call.routing
  BY <1>1, <1>2, <1>3, <1>6 DEF ApplicationCall
<1>8. TypeOK'
  BY <1>1, <1>7 DEF IInv, TypeOK
<1>9. SlotsWellFormed'
  BY <1>1, <1>6, <1>7 DEF IInv, SlotsWellFormed
<1>10. DraftOf(sessions[a], d, call.routing.source)
  <2>1. /\ sessions[a] # None /\ sessions[a].active # None
        /\ DraftOf(sessions[a], call.draft, call.routing.source)
    BY <1>1 DEF IInv, ApplicationFits
  <2>2. sessions[a] \in Session /\ SessionWellFormed(sessions[a])
    BY <1>4, <2>1 DEF IInv, TypeOK, SlotsWellFormed
  <2> HIDE DEF e, a
  <2> QED BY <1>2, <1>3, <1>4, <2>1, <2>2, ApplyDraft
<1>11. ApplicationFits'
  BY <1>1, <1>7, <1>10 DEF IInv, ApplicationFits
<1>12. TerminateFits'
  BY <1>7 DEF TerminateFits
<1> QED BY <1>1, <1>8, <1>9, <1>11, <1>12, UnchangedGood DEF IInv

LEMMA ApplicationStoreGood ==
    ASSUME IInv, ApplicationStore
    PROVE  IInv' /\ HandoverStep
<1> DEFINE d == call.draft
           r == call.routing
           a == r.aircraft.address
<1>1. /\ call \in ApplicationCall
      /\ call # None /\ call.kind = "application"
      /\ Store(r, d)
      /\ call' = None
  BY DEF ApplicationStore, IInv, TypeOK, ApplicationCall, TerminateCall
<1>2. d \in Session /\ r \in Routing /\ SessionWellFormed(d)
  BY <1>1 DEF ApplicationCall, IInv, SlotsWellFormed
<1>3. a \in Address /\ r.source \in Callsign
  BY <1>2, RoutingType
<1>4. /\ sessions[a] # None /\ sessions[a].active # None
      /\ DraftOf(sessions[a], d, r.source)
  BY <1>1 DEF IInv, ApplicationFits
<1>5. /\ sessions[a] \in Session
      /\ SessionWellFormed(sessions[a])
      /\ sessions[a].aircraft.address = a
  BY <1>3, <1>4 DEF IInv, TypeOK, SlotsWellFormed
<1>6. d.aircraft = sessions[a].aircraft /\ Succeeds(sessions[a], d)
  BY <1>2, <1>3, <1>4, <1>5, DraftSucceeds
<1>7. /\ sessions' = [sessions EXCEPT ![a] = d]
      /\ reply' = [kind |-> "routed", routing |-> r, session |-> d]
  BY <1>1 DEF Store
<1>8. TypeOK'
  BY <1>1, <1>2, <1>7 DEF IInv, TypeOK, RoutedReply
<1>9. SlotsWellFormed'
  BY <1>1, <1>2, <1>3, <1>5, <1>6, <1>7 DEF IInv, TypeOK, SlotsWellFormed
<1>10. ApplicationFits' /\ TerminateFits'
  BY <1>1 DEF ApplicationFits, TerminateFits
<1>11. HandoverStep
  <2> SUFFICES ASSUME NEW b \in Address, sessions[b] # None
               PROVE  /\ sessions'[b] # None
                      /\ sessions'[b].aircraft = sessions[b].aircraft
                      /\ Succeeds(sessions[b], sessions'[b])
    BY DEF HandoverStep
  <2>1. CASE b = a
    BY <1>2, <1>3, <1>6, <1>7, <2>1, NoneAssumption DEF IInv, TypeOK
  <2>2. CASE b # a
    <3>1. sessions'[b] = sessions[b]
      BY <1>7, <2>2 DEF IInv, TypeOK
    <3>2. GoodStep(sessions[b], sessions[b])
      BY StayGood DEF IInv, TypeOK, SlotsWellFormed
    <3> QED BY <3>1, <3>2 DEF GoodStep
  <2> QED BY <2>1, <2>2
<1> QED BY <1>8, <1>9, <1>10, <1>11 DEF IInv

-----------------------------------------------------------------------------
(* Stations going offline. *)

LEMMA TerminateStartGood ==
    ASSUME IInv, NEW c \in Callsign, TerminateStart(c)
    PROVE  IInv' /\ HandoverStep
<1>1. /\ call' = [kind |-> "terminate", callsign |-> c,
                  todo |-> SessionsFor(c), done |-> {}]
      /\ UNCHANGED <<sessions, reply>>
  BY DEF TerminateStart
<1>2. /\ SessionsFor(c) \subseteq Address
      /\ \A a \in SessionsFor(c) : sessions[a] # None
  BY DEF SessionsFor
<1>3. call' \in TerminateCall
  BY <1>1, <1>2 DEF TerminateCall
<1>4. TypeOK' /\ SlotsWellFormed'
  BY <1>1, <1>3 DEF IInv, TypeOK, SlotsWellFormed
<1>5. ApplicationFits' /\ TerminateFits'
  BY <1>1, <1>2 DEF ApplicationFits, TerminateFits
<1> QED BY <1>1, <1>4, <1>5, UnchangedGood DEF IInv

LEMMA TerminateSessionGood ==
    ASSUME IInv, NEW a \in Address, TerminateSession(a)
    PROVE  IInv' /\ HandoverStep
<1> DEFINE s == TerminationRequest(sessions[a], call.callsign)
<1>1. /\ call \in TerminateCall
      /\ call # None /\ call.kind = "terminate"
      /\ a \in call.todo
      /\ sessions' = [sessions EXCEPT ![a] = s]
      /\ call' = [call EXCEPT
                    !.todo = @ \ {a},
                    !.done = IF InSlot(s, call.callsign) THEN @ ELSE @ \cup {s}]
      /\ UNCHANGED reply
  BY DEF TerminateSession, IInv, TypeOK, ApplicationCall, TerminateCall
<1>2. call.callsign \in Callsign
  BY <1>1 DEF TerminateCall
<1>3. sessions[a] # None
  BY <1>1 DEF IInv, TerminateFits
<1>4. sessions[a] \in Session /\ SessionWellFormed(sessions[a])
  BY <1>3 DEF IInv, TypeOK, SlotsWellFormed
<1>5. GoodStep(sessions[a], s)
  BY <1>2, <1>4, TerminationRequestGood
<1> HIDE DEF s
<1>6. /\ call' \in TerminateCall
      /\ call'.kind = "terminate"
      /\ call'.todo = call.todo \ {a}
  BY <1>1, <1>5 DEF TerminateCall, GoodStep
<1>7. TypeOK'
  BY <1>1, <1>5, <1>6 DEF IInv, TypeOK, GoodStep
<1>8. SlotsWellFormed'
  BY <1>1, <1>3, <1>5, <1>6 DEF IInv, TypeOK, SlotsWellFormed, GoodStep
<1>9. ApplicationFits' /\ TerminateFits'
  BY <1>1, <1>6 DEF IInv, TypeOK, ApplicationFits, TerminateFits
<1>10. HandoverStep
  <2> SUFFICES ASSUME NEW b \in Address, sessions[b] # None
               PROVE  /\ sessions'[b] # None
                      /\ sessions'[b].aircraft = sessions[b].aircraft
                      /\ Succeeds(sessions[b], sessions'[b])
    BY DEF HandoverStep
  <2>1. CASE b = a
    BY <1>1, <1>5, <2>1, NoneAssumption DEF IInv, TypeOK, GoodStep
  <2>2. CASE b # a
    <3>1. sessions'[b] = sessions[b]
      BY <1>1, <2>2 DEF IInv, TypeOK
    <3>2. GoodStep(sessions[b], sessions[b])
      BY StayGood DEF IInv, TypeOK, SlotsWellFormed
    <3> QED BY <3>1, <3>2 DEF GoodStep
  <2> QED BY <2>1, <2>2
<1> QED BY <1>7, <1>8, <1>9, <1>10 DEF IInv

LEMMA TerminateReturnGood ==
    ASSUME IInv, TerminateReturn
    PROVE  IInv' /\ HandoverStep
<1>1. /\ call \in TerminateCall
      /\ call' = None
      /\ reply' = [kind |-> "terminated", callsign |-> call.callsign,
                   sessions |-> call.done]
      /\ UNCHANGED sessions
  BY DEF TerminateReturn, IInv, TypeOK, ApplicationCall, TerminateCall
<1>2. reply' \in TerminatedReply
  BY <1>1 DEF TerminateCall, TerminatedReply
<1>3. IInv'
  BY <1>1, <1>2 DEF IInv, TypeOK, SlotsWellFormed, ApplicationFits, TerminateFits
<1> QED BY <1>1, <1>3, UnchangedGood

LEMMA EndGood ==
    ASSUME IInv, Abort \/ Return \/ UNCHANGED vars
    PROVE  IInv' /\ HandoverStep
<1>1. UNCHANGED sessions
  BY DEF Abort, Return, vars
<1>2. IInv'
  BY DEF Abort, Return, vars, IInv, TypeOK, SlotsWellFormed, ApplicationFits,
         TerminateFits
<1> QED BY <1>1, <1>2, UnchangedGood

-----------------------------------------------------------------------------

LEMMA InitGood == Init => IInv
BY DEF Init, IInv, TypeOK, SlotsWellFormed, ApplicationFits, TerminateFits

LEMMA NextGood == IInv /\ [Next]_vars => IInv' /\ HandoverStep
<1> SUFFICES ASSUME IInv, [Next]_vars PROVE IInv' /\ HandoverStep
  OBVIOUS
<1>1. CASE Message
  BY <1>1, MetaGood, ApplicationStartGood DEF Message
<1>2. CASE ApplicationElement
  BY <1>2, ApplicationElementGood
<1>3. CASE ApplicationStore
  BY <1>3, ApplicationStoreGood
<1>4. CASE \E callsign \in Callsign : TerminateStart(callsign)
  BY <1>4, TerminateStartGood
<1>5. CASE \E a \in Address : TerminateSession(a)
  BY <1>5, TerminateSessionGood
<1>6. CASE TerminateReturn
  BY <1>6, TerminateReturnGood
<1>7. CASE Abort \/ Return \/ UNCHANGED vars
  BY <1>7, EndGood
<1> QED BY <1>1, <1>2, <1>3, <1>4, <1>5, <1>6, <1>7 DEF Next

(* Whatever messages arrive, calls fail and stations leave, the bucket,    *)
(* the call in progress and its result have their types.                   *)
THEOREM TypeCorrect == Spec => []TypeOK
<1>1. IInv => TypeOK
  BY DEF IInv
<1> QED BY <1>1, InitGood, NextGood, PTL DEF Spec

(* Every session is filed under its aircraft's address, has an inactive    *)
(* connection only behind an active one, and no connection without a       *)
(* logon: the states logon_request to termination_request may leave behind *)
(* (acars.rs:116-220), in the bucket and in the drafts.                    *)
THEOREM SessionsWellFormed == Spec => []SlotsWellFormed
<1>1. IInv => SlotsWellFormed
  BY DEF IInv
<1> QED BY <1>1, InitGood, NextGood, PTL DEF Spec

(* The current data authority of an aircraft is only ever succeeded by the *)
(* station that waited in the inactive slot, or by nobody, for any number  *)
(* of aircraft and stations and any lists of message elements.             *)
THEOREM HandoverOnlyByPromotion == Spec => HandoverByPromotion
<1>1. IInv /\ [Next]_vars => [HandoverStep]_vars
  BY NextGood
<1> QED BY <1>1, InitGood, NextGood, PTL DEF Spec, HandoverByPromotion

-----------------------------------------------------------------------------
(* CPDLCServer implements DataAuthority: every step of the session store   *)
(* is a step of the line of one aircraft, or none.                         *)

(* Lines of sessions. *)

Places == [station : Callsign, phase : {"LogonPending", "LoggedOn", "Connected"}]

LEMMA PlaceType ==
    ASSUME NEW conn \in Connection
    PROVE  PlaceOf(conn) \in Places /\ PlaceOf(conn).station = conn.station
BY DEF PlaceOf, Phase, Connection, Places

(* The three forms of a line.                                              *)
LEMMA LineForms ==
    ASSUME NEW s \in Session, SessionWellFormed(s)
    PROVE  /\ s.active = None => LineOf(s) = << >>
           /\ s.active # None /\ s.inactive = None => LineOf(s) = <<PlaceOf(s.active)>>
           /\ s.active # None /\ s.inactive # None
                => LineOf(s) = <<PlaceOf(s.active), PlaceOf(s.inactive)>>
BY NoneAssumption DEF LineOf

LEMMA HeadOfLine ==
    ASSUME NEW s \in Session, SessionWellFormed(s), s.active # None
    PROVE  LineOf(s) # << >> /\ Head(LineOf(s)) = PlaceOf(s.active)
<1>1. CASE s.inactive = None
  <2>1. LineOf(s) = <<PlaceOf(s.active)>>
    BY <1>1, LineForms
  <2> QED BY <2>1
<1>2. CASE s.inactive # None
  <2>1. LineOf(s) = <<PlaceOf(s.active), PlaceOf(s.inactive)>>
    BY <1>2, LineForms
  <2> QED BY <2>1
<1> QED BY <1>1, <1>2

LEMMA EmptyLines ==
    ASSUME NEW p \in Endpoint
    PROVE  /\ LineOf(None) = << >> /\ LineOf(NewSession(p)) = << >>
           /\ NdaOf(None) = None /\ NdaOf(NewSession(p)) = None
BY DEF LineOf, NewSession, NdaOf

(* A session that is created on demand shows nothing yet.                  *)
LEMMA CurrentLine ==
    ASSUME IInv, NEW r \in Routing
    PROVE  /\ LineOf(Current(r)) = LineOf(sessions[r.aircraft.address])
           /\ Current(r).nda = NdaOf(sessions[r.aircraft.address])
<1>1. r.aircraft \in Endpoint
  BY RoutingType
<1>2. CASE sessions[r.aircraft.address] = None
  BY <1>1, <1>2, EmptyLines DEF Current, NewSession
<1>3. CASE sessions[r.aircraft.address] # None
  BY <1>3 DEF Current, NdaOf
<1> QED BY <1>2, <1>3

Joined(l, p) == IF l = << >> THEN <<p>> ELSE <<Head(l), p>>

LEMMA EnterLine ==
    ASSUME NEW s \in Session, SessionWellFormed(s), NEW conn \in Connection
    PROVE  /\ LineOf(Enter(s, conn)) = Joined(LineOf(s), PlaceOf(conn))
           /\ Enter(s, conn).nda = s.nda
<1> DEFINE t == Enter(s, conn)
<1>1. conn # None
  BY NoneAssumption
<1>2. CASE s.active = None
  <2>1. t.active = conn /\ t.inactive = None /\ t # None
    BY <1>2, NoneAssumption DEF Enter, Session, SessionWellFormed
  <2>2. LineOf(t) = <<PlaceOf(conn)>>
    BY <1>1, <2>1 DEF LineOf
  <2> QED BY <1>2, <2>2, LineForms DEF Joined, Enter, Session
<1>3. CASE s.active # None
  <2>1. t.active = s.active /\ t.inactive = conn /\ t # None
    BY <1>3, NoneAssumption DEF Enter, Session
  <2>2. LineOf(t) = <<PlaceOf(s.active), PlaceOf(conn)>>
    BY <1>1, <1>3, <2>1 DEF LineOf
  <2>3. LineOf(s) # << >> /\ Head(LineOf(s)) = PlaceOf(s.active)
    BY <1>3, HeadOfLine
  <2> QED BY <1>3, <2>2, <2>3 DEF Joined, Enter, Session
<1> QED BY <1>2, <1>3

LEMMA AdvanceLine ==
    ASSUME NEW conn \in Connection, conn.connection => conn.logon
    PROVE  /\ conn.logon => Logon(conn) = conn
           /\ ~conn.logon => /\ PlaceOf(conn).phase = "LogonPending"
                             /\ PlaceOf(Logon(conn))
                                  = [PlaceOf(conn) EXCEPT !.phase = "LoggedOn"]
           /\ conn.connection => Connect(conn) = conn
           /\ conn.logon /\ ~conn.connection
                => /\ PlaceOf(conn).phase = "LoggedOn"
                   /\ PlaceOf(Connect(conn))
                        = [PlaceOf(conn) EXCEPT !.phase = "Connected"]
<1>1. /\ conn.logon => Logon(conn) = conn
      /\ conn.connection => Connect(conn) = conn
  BY DEF Logon, Connect, Connection
<1>2. ~conn.logon => /\ PlaceOf(conn).phase = "LogonPending"
                     /\ PlaceOf(Logon(conn))
                          = [PlaceOf(conn) EXCEPT !.phase = "LoggedOn"]
  BY DEF Logon, PlaceOf, Phase, Connection
<1>3. conn.logon /\ ~conn.connection
        => /\ PlaceOf(conn).phase = "LoggedOn"
           /\ PlaceOf(Connect(conn)) = [PlaceOf(conn) EXCEPT !.phase = "Connected"]
  BY DEF Connect, PlaceOf, Phase, Connection
<1> QED BY <1>1, <1>2, <1>3

(* Line m is line l with the place of station c advanced.                  *)
Promoted(l, c, from, to, m) ==
    \E i \in Authority!FirstPlace(l, c) :
        l[i].phase = from /\ m = [l EXCEPT ![i].phase = to]

LEMMA OnePlace ==
    ASSUME NEW p, NEW c
    PROVE  Authority!FirstPlace(<<p>>, c) = IF p.station = c THEN {1} ELSE {}
BY DEF Authority!FirstPlace

LEMMA TwoPlaces ==
    ASSUME NEW p, NEW q, NEW c
    PROVE  Authority!FirstPlace(<<p, q>>, c) =
             IF p.station = c THEN {1} ELSE IF q.station = c THEN {2} ELSE {}
BY DEF Authority!FirstPlace

LEMMA PromotedAlone ==
    ASSUME NEW p \in Places, NEW c, p.station = c, NEW x
    PROVE  Promoted(<<p>>, c, p.phase, x, <<[p EXCEPT !.phase = x]>>)
<1>1. 1 \in Authority!FirstPlace(<<p>>, c)
  BY OnePlace
<1>2. <<p>>[1].phase = p.phase
  OBVIOUS
<1>3. [<<p>> EXCEPT ![1].phase = x] = <<[p EXCEPT !.phase = x]>>
  OBVIOUS
<1> QED BY <1>1, <1>2, <1>3 DEF Promoted

LEMMA PromotedFirst ==
    ASSUME NEW p \in Places, NEW q \in Places, NEW c, p.station = c, NEW x
    PROVE  Promoted(<<p, q>>, c, p.phase, x, <<[p EXCEPT !.phase = x], q>>)
<1>1. 1 \in Authority!FirstPlace(<<p, q>>, c)
  BY TwoPlaces
<1>2. <<p, q>>[1].phase = p.phase
  OBVIOUS
<1>3. [<<p, q>> EXCEPT ![1].phase = x] = <<[p EXCEPT !.phase = x], q>>
  OBVIOUS
<1> QED BY <1>1, <1>2, <1>3 DEF Promoted

LEMMA PromotedSecond ==
    ASSUME NEW p \in Places, NEW q \in Places, NEW c,
           p.station # c, q.station = c, NEW x
    PROVE  Promoted(<<p, q>>, c, q.phase, x, <<p, [q EXCEPT !.phase = x]>>)
<1>1. 2 \in Authority!FirstPlace(<<p, q>>, c)
  BY TwoPlaces
<1>2. <<p, q>>[2].phase = q.phase
  OBVIOUS
<1>3. [<<p, q>> EXCEPT ![2].phase = x] = <<p, [q EXCEPT !.phase = x]>>
  OBVIOUS
<1> QED BY <1>1, <1>2, <1>3 DEF Promoted

LEMMA SameSlots ==
    ASSUME NEW s \in Session, NEW t \in Session,
           t.active = s.active, t.inactive = s.inactive
    PROVE  LineOf(t) = LineOf(s)
BY NoneAssumption DEF LineOf

(* The connection of station c that an answer is about moves on from phase *)
(* `from' to phase `to', or stays as it is.                                *)
Moved(old, new, from, to) ==
    \/ new = old
    \/ /\ PlaceOf(old).phase = from
       /\ PlaceOf(new) = [PlaceOf(old) EXCEPT !.phase = to]

MovedLine(l, c, from, to, m) == m = l \/ Promoted(l, c, from, to, m)

LEMMA ActiveMoved ==
    ASSUME NEW s \in Session, NEW t \in Session, NEW c \in Callsign,
           NEW from, NEW to, Holds(s.active, c), t.active \in Connection,
           t.inactive = s.inactive, Moved(s.active, t.active, from, to)
    PROVE  MovedLine(LineOf(s), c, from, to, LineOf(t))
<1> DEFINE p == PlaceOf(s.active)
           q == PlaceOf(s.inactive)
<1>1. /\ s.active # None /\ s.active \in Connection /\ s.active.station = c
      /\ t.active # None /\ s # None /\ t # None
      /\ s.inactive # None => s.inactive \in Connection
  BY NoneAssumption DEF Holds, Session
<1>2. CASE t.active = s.active
  BY <1>2, SameSlots DEF MovedLine
<1>3. CASE t.active # s.active
  <2>1. /\ p \in Places /\ p.station = c /\ p.phase = from
        /\ PlaceOf(t.active) = [p EXCEPT !.phase = to]
    BY <1>1, <1>3, PlaceType DEF Moved
  <2>2. CASE s.inactive = None
    <3>1. LineOf(s) = <<p>> /\ LineOf(t) = <<PlaceOf(t.active)>>
      BY <1>1, <2>2 DEF LineOf
    <3> HIDE DEF p
    <3> QED BY <2>1, <3>1, PromotedAlone DEF MovedLine
  <2>3. CASE s.inactive # None
    <3>1. LineOf(s) = <<p, q>> /\ LineOf(t) = <<PlaceOf(t.active), q>>
      BY <1>1, <2>3 DEF LineOf
    <3>2. q \in Places
      BY <1>1, <2>3, PlaceType
    <3> HIDE DEF p, q
    <3> QED BY <2>1, <3>1, <3>2, PromotedFirst DEF MovedLine
  <2> QED BY <2>2, <2>3
<1> QED BY <1>2, <1>3

LEMMA InactiveMoved ==
    ASSUME NEW s \in Session, SessionWellFormed(s), NEW t \in Session,
           NEW c \in Callsign, NEW from, NEW to,
           ~Holds(s.active, c), Holds(s.inactive, c), t.inactive \in Connection,
           t.active = s.active, Moved(s.inactive, t.inactive, from, to)
    PROVE  MovedLine(LineOf(s), c, from, to, LineOf(t))
<1> DEFINE p == PlaceOf(s.active)
           q == PlaceOf(s.inactive)
<1>1. /\ s.inactive # None /\ s.inactive \in Connection /\ s.inactive.station = c
      /\ s.active # None /\ s.active \in Connection /\ s.active.station # c
      /\ t.inactive # None /\ s # None /\ t # None
  BY NoneAssumption DEF Holds, Session, SessionWellFormed
<1>2. CASE t.inactive = s.inactive
  BY <1>2, SameSlots DEF MovedLine
<1>3. CASE t.inactive # s.inactive
  <2>1. /\ q \in Places /\ q.station = c /\ q.phase = from
        /\ PlaceOf(t.inactive) = [q EXCEPT !.phase = to]
    BY <1>1, <1>3, PlaceType DEF Moved
  <2>2. p \in Places /\ p.station # c
    BY <1>1, PlaceType
  <2>3. LineOf(s) = <<p, q>> /\ LineOf(t) = <<p, PlaceOf(t.inactive)>>
    BY <1>1 DEF LineOf
  <2> HIDE DEF p, q
  <2> QED BY <2>1, <2>2, <2>3, PromotedSecond DEF MovedLine
<1> QED BY <1>2, <1>3

LEMMA LogonMoves ==
    ASSUME NEW conn \in Connection, conn.connection => conn.logon
    PROVE  /\ Logon(conn) \in Connection
           /\ Moved(conn, Logon(conn), "LogonPending", "LoggedOn")
<1>1. Logon(conn) \in Connection
  BY DEF Logon, Connection
<1> QED BY <1>1, AdvanceLine DEF Moved

LEMMA ConnectMoves ==
    ASSUME NEW conn \in Connection, conn.logon
    PROVE  /\ Connect(conn) \in Connection
           /\ Moved(conn, Connect(conn), "LoggedOn", "Connected")
<1>1. Connect(conn) \in Connection
  BY DEF Connect, Connection
<1> QED BY <1>1, AdvanceLine DEF Moved

LEMMA LogonAcceptedLine ==
    ASSUME NEW s \in Session, SessionWellFormed(s), NEW c \in Callsign
    PROVE  /\ LogonAccepted(s, c).nda = s.nda
           /\ MovedLine(LineOf(s), c, "LogonPending", "LoggedOn",
                        LineOf(LogonAccepted(s, c)))
<1> DEFINE t == LogonAccepted(s, c)
<1>1. t \in Session
  BY LogonAcceptedGood DEF GoodStep
<1>2. CASE Holds(s.active, c)
  <2>1. s.active \in Connection /\ (s.active.connection => s.active.logon)
    BY <1>2 DEF Holds, Session, SessionWellFormed
  <2>2. t.active = Logon(s.active) /\ t.inactive = s.inactive /\ t.nda = s.nda
    BY <1>2 DEF LogonAccepted, Session
  <2> QED BY <1>1, <1>2, <2>1, <2>2, LogonMoves, ActiveMoved
<1>3. CASE ~Holds(s.active, c) /\ Holds(s.inactive, c)
  <2>1. s.inactive \in Connection /\ (s.inactive.connection => s.inactive.logon)
    BY <1>3 DEF Holds, Session, SessionWellFormed
  <2>2. t.inactive = Logon(s.inactive) /\ t.active = s.active /\ t.nda = s.nda
    BY <1>3 DEF LogonAccepted, Session
  <2> QED BY <1>1, <1>3, <2>1, <2>2, LogonMoves, InactiveMoved
<1>4. CASE ~Holds(s.active, c) /\ ~Holds(s.inactive, c)
  BY <1>4 DEF LogonAccepted, MovedLine
<1> QED BY <1>2, <1>3, <1>4

LEMMA ConnectionAcceptedLine ==
    ASSUME NEW s \in Session, SessionWellFormed(s), NEW c \in Callsign,
           ~ConnectionAcceptedErr(s, c)
    PROVE  /\ ConnectionAccepted(s, c).nda = s.nda
           /\ MovedLine(LineOf(s), c, "LoggedOn", "Connected",
                        LineOf(ConnectionAccepted(s, c)))
<1> DEFINE t == ConnectionAccepted(s, c)
<1>1. t \in Session
  BY ConnectionAcceptedGood DEF GoodStep
<1>2. CASE Holds(s.active, c)
  <2>1. s.active \in Connection /\ s.active.logon
    BY <1>2 DEF Holds, Session, ConnectionAcceptedErr
  <2>2. t.active = Connect(s.active) /\ t.inactive = s.inactive /\ t.nda = s.nda
    BY <1>2 DEF ConnectionAccepted, Session
  <2> QED BY <1>1, <1>2, <2>1, <2>2, ConnectMoves, ActiveMoved
<1>3. CASE ~Holds(s.active, c) /\ Holds(s.inactive, c)
  <2>1. s.inactive \in Connection /\ s.inactive.logon
    BY <1>3 DEF Holds, Session, ConnectionAcceptedErr
  <2>2. t.inactive = Connect(s.inactive) /\ t.active = s.active /\ t.nda = s.nda
    BY <1>3 DEF ConnectionAccepted, Session
  <2> QED BY <1>1, <1>3, <2>1, <2>2, ConnectMoves, InactiveMoved
<1>4. CASE ~Holds(s.active, c) /\ ~Holds(s.inactive, c)
  BY <1>4 DEF ConnectionAccepted, MovedLine
<1> QED BY <1>2, <1>3, <1>4

LEMMA LogonRequestLine ==
    ASSUME NEW s \in Session, SessionWellFormed(s), NEW c \in Callsign
    PROVE  /\ LogonRequest(s, c).nda = s.nda
           /\ LineOf(LogonRequest(s, c))
                = Joined(LineOf(s), [station |-> c, phase |-> "LogonPending"])
<1>1. PlaceOf(NewConnection(c)) = [station |-> c, phase |-> "LogonPending"]
  BY DEF PlaceOf, Phase, NewConnection
<1> QED BY <1>1, NewConnectionType, EnterLine DEF LogonRequest

(* A station in no slot has no place in the line.                          *)
LEMMA NoPlace ==
    ASSUME NEW s \in Session, SessionWellFormed(s), NEW c \in Callsign,
           ~InSlot(s, c)
    PROVE  Authority!FirstPlace(LineOf(s), c) = {}
<1>1. /\ s.active # None => s.active \in Connection /\ s.active.station # c
      /\ s.inactive # None => s.inactive \in Connection /\ s.inactive.station # c
  BY DEF InSlot, Holds, Session
<1>2. CASE s.active = None
  <2>1. LineOf(s) = << >>
    BY <1>2, LineForms
  <2> QED BY <2>1 DEF Authority!FirstPlace
<1>3. CASE s.active # None /\ s.inactive = None
  <2>1. LineOf(s) = <<PlaceOf(s.active)>> /\ PlaceOf(s.active).station # c
    BY <1>1, <1>3, LineForms, PlaceType
  <2> QED BY <2>1, OnePlace
<1>4. CASE s.active # None /\ s.inactive # None
  <2>1. /\ LineOf(s) = <<PlaceOf(s.active), PlaceOf(s.inactive)>>
        /\ PlaceOf(s.active).station # c /\ PlaceOf(s.inactive).station # c
    BY <1>1, <1>4, LineForms, PlaceType
  <2> QED BY <2>1, TwoPlaces
<1> QED BY <1>2, <1>3, <1>4

LEMMA ConnectionRequestLine ==
    ASSUME NEW s \in Session, SessionWellFormed(s), NEW c \in Callsign
    PROVE  \/ ConnectionRequest(s, c) = s
           \/ /\ ConnectionRequest(s, c).nda = s.nda
              /\ s.nda = c
              /\ Authority!FirstPlace(LineOf(s), c) = {}
              /\ LineOf(ConnectionRequest(s, c))
                   = Joined(LineOf(s), [station |-> c, phase |-> "LoggedOn"])
<1>1. PlaceOf(Logon(NewConnection(c))) = [station |-> c, phase |-> "LoggedOn"]
  BY DEF PlaceOf, Phase, NewConnection, Logon
<1> QED BY <1>1, NewConnectionType, EnterLine, NoPlace DEF ConnectionRequest

-----------------------------------------------------------------------------
(* Leaving the line. *)

LEMMA LeaveOne ==
    ASSUME NEW p \in Places, NEW c, p.station = c
    PROVE  << >> \in Authority!Leave(<<p>>, c)
<1>1. 1 \in Authority!FirstPlace(<<p>>, c)
  BY OnePlace
<1>2. Authority!Without(<<p>>, 1) = << >>
  BY DEF Authority!Without
<1> QED BY <1>1, <1>2 DEF Authority!Leave

LEMMA LeaveFirst ==
    ASSUME NEW p \in Places, NEW q \in Places, NEW c, p.station = c
    PROVE  <<q>> \in Authority!Leave(<<p, q>>, c)
<1>1. 1 \in Authority!FirstPlace(<<p, q>>, c)
  BY TwoPlaces
<1>2. Authority!Without(<<p, q>>, 1) = <<q>>
  BY DEF Authority!Without
<1> QED BY <1>1, <1>2 DEF Authority!Leave

LEMMA LeaveSecond ==
    ASSUME NEW p \in Places, NEW q \in Places, NEW c,
           p.station # c, q.station = c
    PROVE  <<p>> \in Authority!Leave(<<p, q>>, c)
<1>1. 2 \in Authority!FirstPlace(<<p, q>>, c)
  BY TwoPlaces
<1>2. Authority!Without(<<p, q>>, 2) = <<p>>
  BY DEF Authority!Without
<1> QED BY <1>1, <1>2 DEF Authority!Leave

(* What the elements of a message make of the line: DraftOf, as Leaving.   *)
LEMMA DraftLine ==
    ASSUME NEW s \in Session, SessionWellFormed(s), s.active # None,
           NEW d \in Session, NEW c \in Callsign, DraftOf(s, d, c)
    PROVE  LineOf(d) \in Authority!Leaving(LineOf(s), c)
<1> DEFINE p == PlaceOf(s.active)
           q == PlaceOf(s.inactive)
<1>1. /\ s.active \in Connection /\ p \in Places /\ p.station = s.active.station
      /\ s.inactive # None => /\ s.inactive \in Connection /\ q \in Places
                              /\ q.station = s.inactive.station
  BY PlaceType DEF Session
<1>2. CASE d.active = s.active /\ d.inactive = s.inactive
  BY <1>2, SameSlots DEF Authority!Leaving
<1>3. CASE /\ d.active = s.active /\ d.inactive = None
           /\ ~Holds(s.active, c) /\ Holds(s.inactive, c)
  <2>1. LineOf(s) = <<p, q>> /\ LineOf(d) = <<p>>
    BY <1>3, NoneAssumption DEF LineOf, Holds
  <2>2. LineOf(d) \in Authority!Leave(LineOf(s), c)
    BY <1>1, <1>3, <2>1, LeaveSecond DEF Holds
  <2> QED BY <2>2 DEF Authority!Leaving
<1>4. CASE d.active = s.inactive /\ d.inactive = None /\ Holds(s.active, c)
  <2>1. CASE s.inactive = None
    <3>1. LineOf(s) = <<p>> /\ LineOf(d) = << >>
      BY <1>4, <2>1, NoneAssumption DEF LineOf
    <3>2. LineOf(d) \in Authority!Leave(LineOf(s), c)
      BY <1>1, <1>4, <3>1, LeaveOne DEF Holds
    <3> QED BY <3>2 DEF Authority!Leaving
  <2>2. CASE s.inactive # None
    <3>1. LineOf(s) = <<p, q>> /\ LineOf(d) = <<q>>
      BY <1>4, <2>2, NoneAssumption DEF LineOf
    <3>2. LineOf(d) \in Authority!Leave(LineOf(s), c)
      BY <1>1, <1>4, <2>2, <3>1, LeaveFirst DEF Holds
    <3> QED BY <3>2 DEF Authority!Leaving
  <2> QED BY <2>1, <2>2
<1>5. CASE /\ d.active = None /\ d.inactive = None
           /\ Holds(s.active, c) /\ Holds(s.inactive, c)
  <2>1. /\ s.inactive # None
        /\ LineOf(s) = <<p, q>> /\ LineOf(d) = << >>
    BY <1>5, NoneAssumption DEF LineOf, Holds
  <2>2. <<q>> \in Authority!Leave(LineOf(s), c)
    BY <1>1, <1>5, <2>1, LeaveFirst DEF Holds
  <2>3. << >> \in Authority!Leave(<<q>>, c)
    BY <1>1, <1>5, <2>1, LeaveOne DEF Holds
  <2> QED BY <2>1, <2>2, <2>3 DEF Authority!Leaving
<1> QED BY <1>2, <1>3, <1>4, <1>5 DEF DraftOf, Holds

LEMMA TerminationLine ==
    ASSUME NEW s \in Session, SessionWellFormed(s), NEW c \in Callsign
    PROVE  LET t == TerminationRequest(s, c) IN
           /\ t.nda = s.nda
           /\ \/ LineOf(t) = LineOf(s)
              \/ LineOf(t) \in Authority!Leave(LineOf(s), c)
<1> DEFINE t == TerminationRequest(s, c)
           p == PlaceOf(s.active)
           q == PlaceOf(s.inactive)
<1>1. /\ s.active # None => /\ s.active \in Connection /\ p \in Places
                            /\ p.station = s.active.station
      /\ s.inactive # None => /\ s.inactive \in Connection /\ q \in Places
                              /\ q.station = s.inactive.station
  BY PlaceType DEF Session
<1>2. t \in Session /\ t # None /\ s # None
  BY TerminationRequestGood, NoneAssumption DEF GoodStep
<1>3. CASE Holds(s.active, c) /\ s.inactive = None
  <2>1. t.active = None /\ t.nda = s.nda
    BY <1>3 DEF TerminationRequest, Session
  <2>2. LineOf(s) = <<p>> /\ LineOf(t) = << >>
    BY <1>2, <1>3, <2>1 DEF LineOf, Holds
  <2> QED BY <1>1, <1>3, <2>1, <2>2, LeaveOne DEF Holds
<1>4. CASE Holds(s.active, c) /\ s.inactive # None
  <2>1. t.active = s.inactive /\ t.inactive = None /\ t.nda = s.nda
    BY <1>4 DEF TerminationRequest, Session
  <2>2. LineOf(s) = <<p, q>> /\ LineOf(t) = <<q>>
    BY <1>2, <1>4, <2>1 DEF LineOf, Holds
  <2> QED BY <1>1, <1>4, <2>1, <2>2, LeaveFirst DEF Holds
<1>5. CASE ~Holds(s.active, c) /\ Holds(s.inactive, c)
  <2>1. t.active = s.active /\ t.inactive = None /\ t.nda = s.nda
    BY <1>5 DEF TerminationRequest, Session
  <2>2. s.active # None /\ s.inactive # None
    BY <1>5 DEF SessionWellFormed, Holds
  <2>3. LineOf(s) = <<p, q>> /\ LineOf(t) = <<p>>
    BY <1>2, <2>1, <2>2 DEF LineOf
  <2> QED BY <1>1, <1>5, <2>1, <2>2, <2>3, LeaveSecond DEF Holds
<1>6. CASE ~Holds(s.active, c) /\ ~Holds(s.inactive, c)
  BY <1>6 DEF TerminationRequest
<1> QED BY <1>3, <1>4, <1>5, <1>6

-----------------------------------------------------------------------------
(* Writes to the bucket as steps of the line. *)

(* What one step of DataAuthority makes of the line and the next data      *)
(* authority of aircraft a.                                                *)
AuthorityStep(a) ==
    \E c \in Callsign :
      \/ Authority!AskLogon(a, c)
      \/ Authority!AskConnection(a, c)
      \/ Authority!Promote(a, c, "LogonPending", "LoggedOn")
      \/ Authority!Promote(a, c, "LoggedOn", "Connected")
      \/ Authority!Command(a, c)
      \/ Authority!Depart(a, c)

Written(a, t) == sessions' = [sessions EXCEPT ![a] = t]

LEMMA WrittenLine ==
    ASSUME IInv, NEW a \in Address, NEW t \in Session, Written(a, t)
    PROVE  /\ Line' = [Line EXCEPT ![a] = LineOf(t)]
           /\ Nda' = [Nda EXCEPT ![a] = t.nda]
<1>1. NdaOf(t) = t.nda
  BY NoneAssumption DEF NdaOf
<1>2. \A b \in Address : sessions'[b] = IF b = a THEN t ELSE sessions[b]
  BY DEF Written, IInv, TypeOK
<1>3. /\ Line' = [b \in Address |-> LineOf(sessions'[b])]
      /\ Nda' = [b \in Address |-> NdaOf(sessions'[b])]
  BY DEF Line, Nda, LineOf, NdaOf, PlaceOf, Phase
<1>4. Line' = [Line EXCEPT ![a] = LineOf(t)]
  BY <1>2, <1>3 DEF Line
<1>5. Nda' = [Nda EXCEPT ![a] = t.nda]
  BY <1>1, <1>2, <1>3 DEF Nda
<1> QED BY <1>4, <1>5

(* A write that shows the same line and next data authority.               *)
LEMMA WrittenSame ==
    ASSUME IInv, NEW a \in Address, NEW t \in Session, Written(a, t),
           LineOf(t) = Line[a], t.nda = Nda[a]
    PROVE  UNCHANGED <<Line, Nda>>
<1>1. /\ Line' = [Line EXCEPT ![a] = Line[a]]
      /\ Nda' = [Nda EXCEPT ![a] = Nda[a]]
  BY WrittenLine
<1> QED BY <1>1 DEF Line, Nda

LEMMA WrittenJoined ==
    ASSUME IInv, NEW a \in Address, NEW t \in Session, Written(a, t),
           NEW p, LineOf(t) = Joined(Line[a], p), t.nda = Nda[a]
    PROVE  Authority!Join(a, p)
<1>1. /\ Line' = [Line EXCEPT ![a] = Joined(Line[a], p)]
      /\ Nda' = [Nda EXCEPT ![a] = Nda[a]]
  BY WrittenLine
<1>2. Nda' = Nda
  BY <1>1 DEF Nda
<1> QED BY <1>1, <1>2 DEF Authority!Join, Joined

LEMMA WrittenMoved ==
    ASSUME IInv, NEW a \in Address, NEW t \in Session, Written(a, t),
           NEW c, NEW from, NEW to,
           MovedLine(Line[a], c, from, to, LineOf(t)), t.nda = Nda[a]
    PROVE  Authority!Promote(a, c, from, to) \/ UNCHANGED <<Line, Nda>>
<1>1. CASE LineOf(t) = Line[a]
  BY <1>1, WrittenSame
<1>2. CASE Promoted(Line[a], c, from, to, LineOf(t))
  <2>1. PICK i \in Authority!FirstPlace(Line[a], c) :
          Line[a][i].phase = from /\ LineOf(t) = [Line[a] EXCEPT ![i].phase = to]
    BY <1>2 DEF Promoted
  <2>2. /\ Line' = [Line EXCEPT ![a] = [Line[a] EXCEPT ![i].phase = to]]
        /\ Nda' = [Nda EXCEPT ![a] = Nda[a]]
    BY <2>1, WrittenLine
  <2>3. Line' = [Line EXCEPT ![a][i].phase = to]
    BY <2>2
  <2>4. Nda' = Nda
    BY <2>2 DEF Nda
  <2> QED BY <2>1, <2>3, <2>4 DEF Authority!Promote
<1> QED BY <1>1, <1>2 DEF MovedLine

-----------------------------------------------------------------------------
(* The actions of the store. *)

LEMMA CurrentShown ==
    ASSUME IInv, NEW r \in Routing
    PROVE  /\ r.aircraft.address \in Address
           /\ LineOf(Current(r)) = Line[r.aircraft.address]
           /\ Current(r).nda = Nda[r.aircraft.address]
BY RoutingType, CurrentLine DEF Line, Nda

LEMMA SessionsUnchanged ==
    ASSUME UNCHANGED sessions
    PROVE  UNCHANGED <<Line, Nda>>
BY DEF Line, Nda, LineOf, NdaOf, PlaceOf, Phase

LEMMA LogonRequestRefines ==
    ASSUME IInv, NEW r \in Routing, HandleLogonRequest(r, r.destination)
    PROVE  AuthorityStep(r.aircraft.address)
<1> DEFINE a == r.aircraft.address
           c == r.destination
           t == LogonRequest(Current(r), c)
<1>1. c \in Callsign /\ a \in Address
  BY RoutingType
<1>2. Current(r) \in Session /\ SessionWellFormed(Current(r))
  BY CurrentGood
<1>3. t \in Session /\ Written(a, t)
  BY <1>1, <1>2, LogonRequestGood DEF GoodStep, HandleLogonRequest, Store, Written
<1>4. /\ t.nda = Nda[a]
      /\ LineOf(t) = Joined(Line[a], [station |-> c, phase |-> "LogonPending"])
  BY <1>1, <1>2, LogonRequestLine, CurrentShown
<1> HIDE DEF t, a, c
<1>5. Authority!AskLogon(a, c)
  BY <1>1, <1>3, <1>4, WrittenJoined DEF Authority!AskLogon
<1> QED BY <1>1, <1>5 DEF AuthorityStep, a

LEMMA LogonResponseRefines ==
    ASSUME IInv, NEW r \in Routing, NEW accepted \in BOOLEAN,
           HandleLogonResponse(r, accepted)
    PROVE  AuthorityStep(r.aircraft.address) \/ UNCHANGED <<Line, Nda>>
<1> DEFINE a == r.aircraft.address
           c == r.source
           t == LogonAccepted(Current(r), c)
<1>1. c \in Callsign /\ a \in Address
  BY RoutingType
<1>2. Current(r) \in Session /\ SessionWellFormed(Current(r))
  BY CurrentGood
<1>3. CASE accepted
  <2>1. t \in Session /\ Written(a, t)
    BY <1>1, <1>2, <1>3, LogonAcceptedGood
       DEF GoodStep, HandleLogonResponse, Store, Written
  <2>2. /\ t.nda = Nda[a]
        /\ MovedLine(Line[a], c, "LogonPending", "LoggedOn", LineOf(t))
    BY <1>1, <1>2, LogonAcceptedLine, CurrentShown
  <2> HIDE DEF t, a, c
  <2>3. \/ Authority!Promote(a, c, "LogonPending", "LoggedOn")
        \/ UNCHANGED <<Line, Nda>>
    BY <1>1, <2>1, <2>2, WrittenMoved
  <2> QED BY <1>1, <2>3 DEF AuthorityStep, a
<1>4. CASE ~accepted
  BY <1>4, SessionsUnchanged DEF HandleLogonResponse, RouteOnly
<1> QED BY <1>3, <1>4

LEMMA ConnectionRequestRefines ==
    ASSUME IInv, NEW r \in Routing, HandleConnectionRequest(r)
    PROVE  AuthorityStep(r.aircraft.address) \/ UNCHANGED <<Line, Nda>>
<1> DEFINE a == r.aircraft.address
           c == r.source
           t == ConnectionRequest(Current(r), c)
<1>1. c \in Callsign /\ a \in Address
  BY RoutingType
<1>2. Current(r) \in Session /\ SessionWellFormed(Current(r))
  BY CurrentGood
<1>3. t \in Session /\ Written(a, t)
  BY <1>1, <1>2, ConnectionRequestGood
     DEF GoodStep, HandleConnectionRequest, Store, Written
<1>4. CASE t = Current(r)
  BY <1>1, <1>3, <1>4, CurrentShown, WrittenSame
<1>5. CASE t # Current(r)
  <2>1. /\ t.nda = Nda[a]
        /\ Nda[a] = c
        /\ Authority!FirstPlace(Line[a], c) = {}
        /\ LineOf(t) = Joined(Line[a], [station |-> c, phase |-> "LoggedOn"])
    BY <1>1, <1>2, <1>5, ConnectionRequestLine, CurrentShown
  <2> HIDE DEF t, a, c
  <2>2. Authority!AskConnection(a, c)
    BY <1>1, <1>3, <2>1, WrittenJoined DEF Authority!AskConnection
  <2> QED BY <1>1, <2>2 DEF AuthorityStep, a
<1> QED BY <1>4, <1>5

LEMMA ConnectionResponseRefines ==
    ASSUME IInv, NEW r \in Routing, NEW accepted \in BOOLEAN,
           HandleConnectionResponse(r, accepted)
    PROVE  AuthorityStep(r.aircraft.address) \/ UNCHANGED <<Line, Nda>>
<1> DEFINE a == r.aircraft.address
           c == r.destination
           t == ConnectionAccepted(Current(r), c)
<1>1. c \in Callsign /\ a \in Address
  BY RoutingType
<1>2. Current(r) \in Session /\ SessionWellFormed(Current(r))
  BY CurrentGood
<1>3. CASE accepted
  <2>1. ~ConnectionAcceptedErr(Current(r), c)
    BY <1>3 DEF HandleConnectionResponse
  <2>2. t \in Session /\ Written(a, t)
    BY <1>1, <1>2, <1>3, <2>1, ConnectionAcceptedGood
       DEF GoodStep, HandleConnectionResponse, Store, Written
  <2>3. /\ t.nda = Nda[a]
        /\ MovedLine(Line[a], c, "LoggedOn", "Connected", LineOf(t))
    BY <1>1, <1>2, <2>1, ConnectionAcceptedLine, CurrentShown
  <2> HIDE DEF t, a, c
  <2>4. \/ Authority!Promote(a, c, "LoggedOn", "Connected")
        \/ UNCHANGED <<Line, Nda>>
    BY <1>1, <2>2, <2>3, WrittenMoved
  <2> QED BY <1>1, <2>4 DEF AuthorityStep, a
<1>4. CASE ~accepted
  BY <1>4, SessionsUnchanged DEF HandleConnectionResponse, RouteOnly
<1> QED BY <1>3, <1>4

LEMMA TerminateSessionRefines ==
    ASSUME IInv, NEW a \in Address, TerminateSession(a)
    PROVE  AuthorityStep(a) \/ UNCHANGED <<Line, Nda>>
<1> DEFINE s == sessions[a]
           c == call.callsign
           t == TerminationRequest(s, c)
<1>1. /\ call \in TerminateCall /\ call # None /\ call.kind = "terminate"
      /\ a \in call.todo
      /\ Written(a, t)
  BY DEF TerminateSession, IInv, TypeOK, ApplicationCall, TerminateCall, Written
<1>2. c \in Callsign /\ s # None
  BY <1>1 DEF TerminateCall, IInv, TerminateFits
<1>3. s \in Session /\ SessionWellFormed(s) /\ Line[a] = LineOf(s) /\ Nda[a] = s.nda
  BY <1>2 DEF IInv, TypeOK, SlotsWellFormed, Line, Nda, NdaOf
<1>4. t \in Session
  BY <1>2, <1>3, TerminationRequestGood DEF GoodStep
<1>5. /\ t.nda = Nda[a]
      /\ LineOf(t) = Line[a] \/ LineOf(t) \in Authority!Leave(Line[a], c)
  BY <1>2, <1>3, TerminationLine
<1> HIDE DEF s, c, t
<1>6. CASE LineOf(t) = Line[a]
  BY <1>1, <1>4, <1>5, <1>6, WrittenSame
<1>7. CASE LineOf(t) \in Authority!Leave(Line[a], c)
  <2>1. /\ Line' = [Line EXCEPT ![a] = LineOf(t)]
        /\ Nda' = [Nda EXCEPT ![a] = Nda[a]]
    BY <1>1, <1>4, <1>5, WrittenLine
  <2>2. Nda' = Nda
    BY <2>1 DEF Nda
  <2>3. Authority!Depart(a, c)
    BY <1>7, <2>1, <2>2 DEF Authority!Depart
  <2> QED BY <1>2, <2>3 DEF AuthorityStep
<1> QED BY <1>5, <1>6, <1>7

-----------------------------------------------------------------------------
(* Application messages. *)

(* The session an application message will replace still has a connected   *)
(* head: nothing else is written while the draft is worked on.             *)
DraftReady ==
    call # None /\ call.kind = "application" =>
        LET s == sessions[call.routing.aircraft.address] IN
          /\ ReadyExchange(s.active)
          /\ call.draft.nda \in Callsign \cup {s.nda}

LEMMA ApplyNda ==
    ASSUME NEW d \in Session, NEW e \in Element, NEW c \in Callsign
    PROVE  Apply(d, e, c).nda \in Callsign \cup {d.nda}
<1>1. TerminationRequest(d, c).nda = d.nda
  BY DEF TerminationRequest, Session
<1>2. ASSUME NEW f \in Callsign PROVE NextDataAuthority(d, f).nda = f
  BY DEF NextDataAuthority, Session
<1> QED BY <1>1, <1>2 DEF Apply, Element

LEMMA DraftReadyStep ==
    ASSUME IInv, DraftReady, [Next]_vars
    PROVE  DraftReady'
<1>1. ASSUME NEW r \in Routing, NEW min \in Min, NEW elements \in Body,
             ApplicationStart(r, min, elements)
      PROVE  DraftReady'
  BY <1>1 DEF ApplicationStart, DraftReady
<1>2. CASE ApplicationElement
  <2> DEFINE d == Apply(call.draft, Head(call.elements), call.routing.source)
  <2>1. /\ call \in ApplicationCall
        /\ call # None /\ call.kind = "application" /\ call.elements # << >>
        /\ call' = [call EXCEPT !.draft = d, !.elements = Tail(call.elements)]
        /\ UNCHANGED sessions
    BY <1>2 DEF ApplicationElement, IInv, TypeOK, ApplicationCall, TerminateCall
  <2>2. /\ call.draft \in Session /\ call.routing \in Routing
        /\ Head(call.elements) \in Element
    BY <2>1 DEF ApplicationCall
  <2>3. call.routing.source \in Callsign
    BY <2>2, RoutingType
  <2>4. d.nda \in Callsign \cup {call.draft.nda}
    BY <2>2, <2>3, ApplyNda
  <2>5. call'.draft = d /\ call'.routing = call.routing
    BY <2>1 DEF ApplicationCall
  <2> DEFINE s == sessions[call.routing.aircraft.address]
  <2>6. ReadyExchange(s.active) /\ d.nda \in Callsign \cup {s.nda}
    BY <2>1, <2>4 DEF DraftReady
  <2>7. /\ sessions'[call'.routing.aircraft.address] = s
        /\ call'.draft.nda = d.nda
    BY <2>1, <2>5
  <2> HIDE DEF d, s
  <2> QED BY <2>6, <2>7 DEF DraftReady, ReadyExchange
<1>3. CASE \/ ApplicationStore
           \/ TerminateReturn
           \/ Abort
  BY <1>3 DEF ApplicationStore, TerminateReturn, Abort, DraftReady
<1>4. CASE \E c \in Callsign : TerminateStart(c)
  BY <1>4 DEF TerminateStart, DraftReady
<1>5. CASE \E a \in Address : TerminateSession(a)
  <2>1. /\ call \in TerminateCall /\ call.kind = "terminate"
        /\ call'.kind = "terminate"
    BY <1>5 DEF TerminateSession, IInv, TypeOK, ApplicationCall, TerminateCall
  <2> QED BY <2>1 DEF DraftReady
<1>6. ASSUME NEW r \in Routing, NEW accepted \in BOOLEAN,
             \/ HandleLogonRequest(r, r.destination)
             \/ HandleLogonResponse(r, accepted)
             \/ HandleConnectionRequest(r)
             \/ HandleConnectionResponse(r, accepted)
             \/ HandlePassThrough(r)
      PROVE  DraftReady'
  BY <1>6 DEF HandleLogonRequest, HandleLogonResponse, HandleConnectionRequest,
              HandleConnectionResponse, HandlePassThrough, Idle, DraftReady
<1>7. CASE Return \/ UNCHANGED vars
  BY <1>7 DEF Return, vars, DraftReady, ReadyExchange
<1> QED BY <1>1, <1>2, <1>3, <1>4, <1>5, <1>6, <1>7 DEF Next, Message

LEMMA ApplicationStoreRefines ==
    ASSUME IInv, DraftReady, ApplicationStore
    PROVE  \E a \in Address : AuthorityStep(a)
<1> DEFINE t == call.draft
           c == call.routing.source
           a == call.routing.aircraft.address
           s == sessions[a]
<1>1. /\ call \in ApplicationCall /\ call # None /\ call.kind = "application"
      /\ Written(a, t)
  BY DEF ApplicationStore, Store, Written, IInv, TypeOK, ApplicationCall, TerminateCall
<1>2. t \in Session /\ c \in Callsign /\ a \in Address
  BY <1>1, RoutingType DEF ApplicationCall
<1>3. /\ s # None /\ s.active # None /\ DraftOf(s, t, c)
      /\ ReadyExchange(s.active) /\ t.nda \in Callsign \cup {s.nda}
  BY <1>1 DEF IInv, ApplicationFits, DraftReady
<1>4. s \in Session /\ SessionWellFormed(s) /\ Line[a] = LineOf(s) /\ Nda[a] = s.nda
  BY <1>2, <1>3 DEF IInv, TypeOK, SlotsWellFormed, Line, Nda, NdaOf
<1>5. LineOf(t) \in Authority!Leaving(Line[a], c)
  BY <1>2, <1>3, <1>4, DraftLine
<1>6. Line[a] # << >> /\ Head(Line[a]).phase = "Connected"
  <2>1. PlaceOf(s.active).phase = "Connected"
    BY <1>3 DEF PlaceOf, Phase, ReadyExchange
  <2>2. /\ LineOf(s) # << >>
        /\ Head(LineOf(s)) = PlaceOf(s.active)
    BY <1>3, <1>4, HeadOfLine
  <2> QED BY <1>4, <2>1, <2>2
<1> HIDE DEF s, t, c, a
<1>7. /\ Line' = [Line EXCEPT ![a] = LineOf(t)]
      /\ Nda' = [Nda EXCEPT ![a] = t.nda]
  BY <1>1, <1>2, WrittenLine
<1>8. Authority!Command(a, c)
  BY <1>3, <1>4, <1>5, <1>6, <1>7 DEF Authority!Command
<1> QED BY <1>2, <1>8 DEF AuthorityStep

-----------------------------------------------------------------------------

LEMMA StepRefines ==
    ASSUME IInv, DraftReady, [Next]_vars
    PROVE  [Authority!AuthorityNext]_<<Line, Nda>>
<1>1. ASSUME NEW a \in Address, AuthorityStep(a)
      PROVE  Authority!AuthorityNext
  BY <1>1 DEF AuthorityStep, Authority!AuthorityNext
<1>2. ASSUME NEW r \in Routing
      PROVE  r.aircraft.address \in Address
  BY RoutingType
<1>3. ASSUME NEW r \in Routing, NEW accepted \in BOOLEAN,
             \/ HandleLogonRequest(r, r.destination)
             \/ HandleLogonResponse(r, accepted)
             \/ HandleConnectionRequest(r)
             \/ HandleConnectionResponse(r, accepted)
      PROVE  [Authority!AuthorityNext]_<<Line, Nda>>
  BY <1>1, <1>2, <1>3, LogonRequestRefines, LogonResponseRefines,
     ConnectionRequestRefines, ConnectionResponseRefines
<1>4. CASE ApplicationStore
  BY <1>1, <1>4, ApplicationStoreRefines
<1>5. CASE \E a \in Address : TerminateSession(a)
  BY <1>1, <1>5, TerminateSessionRefines
<1>6. CASE UNCHANGED sessions
  BY <1>6, SessionsUnchanged
<1>7. CASE \/ \E r \in Routing : HandlePassThrough(r)
           \/ \E r \in Routing, min \in Min, elements \in Body :
                ApplicationStart(r, min, elements)
           \/ ApplicationElement
           \/ \E c \in Callsign : TerminateStart(c)
           \/ TerminateReturn \/ Abort \/ Return \/ UNCHANGED vars
  BY <1>6, <1>7 DEF HandlePassThrough, RouteOnly, ApplicationStart, ApplicationElement,
                    TerminateStart, TerminateReturn, Abort, Return, vars
<1> QED BY <1>3, <1>4, <1>5, <1>7 DEF Next, Message

LEMMA InitRefines == Init => Authority!AuthorityInit /\ DraftReady
BY DEF Init, Authority!AuthorityInit, Line, Nda, LineOf, NdaOf, DraftReady

(* The session store, with its slots, its drafts and its calls that fail   *)
(* half way, is a line of data authorities for every aircraft: a station   *)
(* joins at the end, moves on in its own place, leaves by a handover, and  *)
(* commands only under a connected head (acars.rs:368-729, the handlers of *)
(* CPDLCServer).                                                           *)
THEOREM ImplementsAuthority == Spec => ImplementsDataAuthority
<1>1. Init => IInv /\ DraftReady /\ Authority!AuthorityInit
  BY InitGood, InitRefines
<1>2. IInv /\ DraftReady /\ [Next]_vars
        => /\ IInv' /\ DraftReady'
           /\ [Authority!AuthorityNext]_<<Line, Nda>>
  BY NextGood, DraftReadyStep, StepRefines
<1> QED BY <1>1, <1>2, PTL DEF Spec, ImplementsDataAuthority, Authority!AuthoritySpec
=============================================================================
